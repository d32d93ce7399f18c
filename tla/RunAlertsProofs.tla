-------------------------- MODULE RunAlertsProofs ---------------------------
(***************************************************************************)
(* Proofs about RunAlerts, for every set of runs, alerts and handlers,     *)
(* every lease, every limit of attempts and any number of faults.          *)
(***************************************************************************)
EXTENDS RunAlertsOutbox, TLAPS

USE DEF Callers, At, Moves

-----------------------------------------------------------------------------
(* Type correctness.  It rests on a caller having a run while it works on  *)
(* one, and on the counts of AlertsFollowBatch, which keep `recorded`      *)
(* within the limit of deliveries.                                         *)

OnRun == {"claim", "evaluate", "send", "post", "record", "mark", "fail", "approve"}

Placed ==
    \A c \in Callers : callers[c].step \in OnRun \/ (c # Loop /\ callers[c].step = "choose")
        => callers[c].run \in Runs

TInv == TypeOK /\ Placed /\ AlertsFollowBatch

LEMMA Bounds ==
    /\ Lease \in Nat \ {0}
    /\ MaxEvaluations \in Nat \ {0}
    /\ MaxDeliveries \in Nat \ {0}
    /\ HttpAttempts \in Nat \ {0}
    /\ MaxPass \in Nat
    /\ MaxFaults \in Nat
BY BoundsAssumption

LEMMA Ages == MaxAge \in Nat /\ 0..MaxPass \subseteq 0..MaxAge
BY Bounds DEF MaxAge

LEMMA IdleType == Idle \in Caller
BY Bounds DEF Idle, Caller, Steps, Settled

(* Where a caller goes, and what it takes along.                           *)
LEMMA GotoType ==
    ASSUME TypeOK, NEW c \in Callers, NEW s \in Steps
    PROVE  /\ Goto(c, s) \in Caller
           /\ Goto(c, s).step = s
           /\ s # "idle" => Goto(c, s).run = callers[c].run
<1>1. callers[c] \in Caller
  BY DEF TypeOK
<1>2. CASE s = "idle"
  BY <1>2, IdleType DEF Goto, Idle
<1>3. CASE s # "idle"
  <2>1. Goto(c, s) = [callers[c] EXCEPT !.step = s, !.sending = 0, !.posts = 0, !.outcome = "NONE"]
    BY <1>3 DEF Goto
  <2>2. Goto(c, s) \in Caller
    <3>1. 0 \in 0..MaxDeliveries /\ 0 \in 0..HttpAttempts
      BY Bounds
    <3> QED
      BY <1>1, <2>1, <3>1 DEF Caller
  <2>3. Goto(c, s).step = s /\ Goto(c, s).run = callers[c].run
    BY <1>1, <2>1 DEF Caller
  <2> QED
    BY <2>2, <2>3
<1> QED
  BY <1>1, <1>2, <1>3

LEMMA ResumeType ==
    ASSUME TypeOK, NEW c \in Callers
    PROVE  /\ Resume(c) \in Caller
           /\ Resume(c).step = "idle" \/ (c = Loop /\ Resume(c).step = "choose")
<1>1. callers[Loop] \in Caller
  BY DEF TypeOK
<1>2. callers[Loop].clock \in 0..MaxPass
  BY <1>1 DEF Caller
<1>3. CASE c = Loop
  <2> DEFINE x == [Idle EXCEPT !.step = "choose", !.clock = callers[Loop].clock]
  <2>1. Resume(c) = x
    BY <1>3 DEF Resume
  <2>2. x \in Caller
    BY <1>2, IdleType DEF Caller, Steps
  <2>3. x.step = "choose"
    BY DEF Idle
  <2> QED
    BY <1>3, <2>1, <2>2, <2>3
<1>4. CASE c # Loop
  BY <1>4, IdleType DEF Resume, Idle
<1> QED
  BY <1>3, <1>4

LEMMA SendTypes ==
    ASSUME TypeOK, NEW c \in Callers
    PROVE  /\ AfterSend(c) \in {"sweep", "mark", "idle"}
           /\ ThrownBySend(c) \in {"idle", "fail"}
<1>1. callers[c].from \in {"sweep", "evaluation", "approval"}
  BY DEF TypeOK, Caller
<1> QED
  BY <1>1 DEF AfterSend, ThrownBySend

(* A caller's move keeps the types when its target is well placed.         *)
LEMMA CallerMoves ==
    ASSUME TypeOK, Placed, NEW c \in Callers, NEW x \in Caller, Moves(c, x),
           x.step \in OnRun \/ (c # Loop /\ x.step = "choose") => x.run \in Runs
    PROVE  callers' \in [Callers -> Caller] /\ Placed'
BY DEF TypeOK, Placed

-----------------------------------------------------------------------------
(* Rows of batches.                                                        *)

RowCounts(b) ==
    /\ b.noted <=> b.state = "NOTIFIED"
    /\ b.recorded + (IF b.state = "SENDING" THEN 1 ELSE 0) = b.attempts

LEMMA ClosedRow ==
    ASSUME NEW b \in Batch, RowCounts(b), b.state = "SENDING",
           NEW state \in Settled \cup {"NONE", "PENDING"}
    PROVE  /\ Closed(b, state) \in Batch
           /\ RowCounts(Closed(b, state))
<1> DEFINE k == Closed(b, state)
<1>1. /\ b.state \in BatchStates /\ b.alerts \in SUBSET Alerts /\ b.attempts \in 0..MaxDeliveries
      /\ b.recorded \in 0..MaxDeliveries /\ b.noted \in BOOLEAN
  BY DEF Batch
<1>2. b.noted = FALSE /\ b.recorded + 1 = b.attempts
  BY <1>1 DEF RowCounts
<1>3. k = [state |-> state, alerts |-> b.alerts, token |-> 0, attempts |-> b.attempts, age |-> 0,
           recorded |-> b.recorded + 1, noted |-> state = "NOTIFIED"]
  <2>1. (b.noted \/ state = "NOTIFIED") = (state = "NOTIFIED")
    BY <1>2
  <2>2. k = [b EXCEPT !.state = state, !.token = 0, !.age = 0, !.recorded = b.recorded + 1,
                      !.noted = (state = "NOTIFIED")]
    BY <2>1 DEF Closed
  <2> QED
    BY <2>2 DEF Batch
<1>4. state \in BatchStates /\ b.recorded + 1 \in 0..MaxDeliveries /\ state # "SENDING"
  BY <1>1, <1>2, Bounds DEF BatchStates, Settled
<1>5. 0 \in 0..MaxDeliveries /\ 0 \in 0..MaxAge /\ (state = "NOTIFIED") \in BOOLEAN
  BY Bounds, Ages
<1>6. k \in Batch
  BY <1>1, <1>3, <1>4, <1>5 DEF Batch
<1>7. k.noted = (state = "NOTIFIED") /\ k.state = state /\ k.recorded = b.recorded + 1
      /\ k.attempts = b.attempts
  BY <1>3
<1>8. k.noted <=> k.state = "NOTIFIED"
  BY ONLY <1>7
<1>9. k.recorded + (IF k.state = "SENDING" THEN 1 ELSE 0) = k.attempts
  BY <1>1, <1>2, <1>4, <1>7
<1>10. RowCounts(k)
  BY <1>8, <1>9 DEF RowCounts
<1> QED
  BY <1>6, <1>10

LEMMA ClaimedRow ==
    ASSUME NEW b \in Batch, RowCounts(b), Retryable(b)
    PROVE  LET k == [b EXCEPT !.state = "SENDING", !.token = b.attempts + 1,
                              !.attempts = b.attempts + 1, !.age = 0]
           IN  k \in Batch /\ RowCounts(k)
<1>1. /\ b.attempts \in 0..MaxDeliveries /\ b.recorded \in 0..MaxDeliveries
      /\ b.attempts < MaxDeliveries /\ b.state = "PENDING"
  BY DEF Batch, Retryable
<1>2. b.attempts + 1 \in 0..MaxDeliveries /\ "SENDING" \in BatchStates /\ 0 \in 0..MaxAge
  BY <1>1, Bounds, Ages DEF BatchStates
<1> DEFINE k == [b EXCEPT !.state = "SENDING", !.token = b.attempts + 1,
                           !.attempts = b.attempts + 1, !.age = 0]
<1>3. k \in Batch
  BY <1>2 DEF Batch
<1>4. k.noted = b.noted /\ k.state = "SENDING" /\ k.recorded = b.recorded
      /\ k.attempts = b.attempts + 1
  BY DEF Batch
<1>5. ~b.noted /\ b.recorded = b.attempts
  BY <1>1 DEF RowCounts
<1>6. k.noted <=> k.state = "NOTIFIED"
  BY <1>4, <1>5
<1>7. k.recorded + (IF k.state = "SENDING" THEN 1 ELSE 0) = k.attempts
  BY <1>1, <1>4, <1>5
<1> QED
  BY <1>3, <1>6, <1>7 DEF RowCounts

LEMMA WithheldRow ==
    ASSUME NEW b \in Batch, RowCounts(b)
    PROVE  Withheld(b) \in Batch /\ RowCounts(Withheld(b))
<1>1. CASE Abandoned(b, 0)
  BY <1>1, ClosedRow DEF Withheld, Abandoned, Settled
<1>2. CASE ~Abandoned(b, 0) /\ b.state = "PENDING"
  <2>1. Withheld(b) = [b EXCEPT !.state = "FAILED"]
    BY <1>2 DEF Withheld
  <2>2. [b EXCEPT !.state = "FAILED"] \in Batch
    BY DEF Batch, BatchStates, Settled
  <2>3. RowCounts([b EXCEPT !.state = "FAILED"])
    BY <1>2 DEF RowCounts, Batch
  <2> QED
    BY <2>1, <2>2, <2>3
<1>3. CASE ~Abandoned(b, 0) /\ b.state # "PENDING"
  BY <1>3 DEF Withheld
<1> QED
  BY <1>1, <1>2, <1>3

LEMMA EnsuredRow ==
    ASSUME NEW b \in Batch, RowCounts(b), NEW new \in SUBSET Alerts
    PROVE  EnsureBatch(b, new) \in Batch /\ RowCounts(EnsureBatch(b, new))
<1>1. CASE b.state = "NONE"
  <2>1. EnsureBatch(b, new) = [b EXCEPT !.state = "PENDING", !.alerts = new]
    BY <1>1 DEF EnsureBatch
  <2>2. [b EXCEPT !.state = "PENDING", !.alerts = new] \in Batch
    BY DEF Batch, BatchStates
  <2>3. RowCounts([b EXCEPT !.state = "PENDING", !.alerts = new])
    BY <1>1 DEF RowCounts, Batch
  <2> QED
    BY <2>1, <2>2, <2>3
<1>2. CASE b.state # "NONE"
  BY <1>2 DEF EnsureBatch
<1> QED
  BY <1>1, <1>2

LEMMA OlderType ==
    ASSUME NEW age \in 0..MaxAge
    PROVE  Older(age) \in 0..MaxAge
BY Ages DEF Older

LEMMA AgedRow ==
    ASSUME NEW b \in Batch, RowCounts(b)
    PROVE  LET k == [b EXCEPT !.age = Older(@)] IN k \in Batch /\ RowCounts(k)
<1>1. Older(b.age) \in 0..MaxAge
  BY OlderType DEF Batch
<1> QED
  BY <1>1 DEF Batch, RowCounts

(* Replacing one row by a good one.                                        *)
LEMMA BatchMoves ==
    ASSUME TypeOK, AlertsFollowBatch, NEW r \in Runs, NEW k \in Batch, RowCounts(k),
           batch' = [batch EXCEPT ![r] = k]
    PROVE  batch' \in [Runs -> Batch] /\ AlertsFollowBatch'
BY DEF TypeOK, AlertsFollowBatch, RowCounts

LEMMA Counts ==
    ASSUME TypeOK, AlertsFollowBatch, NEW r \in Runs
    PROVE  batch[r] \in Batch /\ RowCounts(batch[r])
BY DEF TypeOK, AlertsFollowBatch, RowCounts

-----------------------------------------------------------------------------
(* The actions keep the types.                                             *)

(* An action that leaves batches and alerts alone.                         *)
LEMMA QuietType ==
    ASSUME TInv, callers' \in [Callers -> Caller], Placed', reported' \subseteq Runs,
           evaluation' \in [Runs -> Evaluation], batch' = batch, stored' = stored,
           approved' \in BOOLEAN, delivered' \in [Runs -> Nat], faults' \in 0..MaxFaults
    PROVE  TInv'
BY DEF TInv, TypeOK, AlertsFollowBatch

(* One that, besides, moves one caller only.                               *)
LEMMA MoveType ==
    ASSUME TInv, NEW c \in Callers, NEW x \in Caller, Moves(c, x),
           x.step \in OnRun \/ (c # Loop /\ x.step = "choose") => x.run \in Runs,
           UNCHANGED <<reported, evaluation, batch, stored, approved, delivered, faults>>
    PROVE  TInv'
BY CallerMoves, QuietType DEF TInv, TypeOK

LEMMA IngestType ==
    ASSUME TInv, NEW c \in Requests, NEW r \in Runs, Ingest(c, r)
    PROVE  TInv'
<1> DEFINE x == [Idle EXCEPT !.step = "choose", !.run = r]
<1>1. x \in Caller /\ x.run = r
  BY IdleType DEF Caller, Steps
<1>2. callers' \in [Callers -> Caller] /\ Placed'
  BY <1>1, CallerMoves DEF TInv, Ingest
<1> QED
  BY <1>2, QuietType DEF TInv, TypeOK, Ingest

LEMMA PreviewType ==
    ASSUME TInv, NEW c \in Requests, NEW r \in Runs, Preview(c, r)
    PROVE  TInv'
<1> DEFINE x == [Idle EXCEPT !.step = "approve", !.from = "approval", !.run = r]
<1>1. x \in Caller /\ x.run = r
  BY IdleType DEF Caller, Steps
<1> QED
  BY <1>1, MoveType DEF Preview

LEMMA ApproveType ==
    ASSUME TInv, NEW c \in Callers, Approve(c)
    PROVE  TInv'
<1>1. Goto(c, "send") \in Caller /\ Goto(c, "send").run = callers[c].run
  BY GotoType DEF TInv, Steps
<1>2. callers[c].run \in Runs
  BY DEF TInv, Placed, OnRun, Approve
<1>3. callers' \in [Callers -> Caller] /\ Placed'
  BY <1>1, <1>2, CallerMoves DEF TInv, Approve
<1> QED
  BY <1>3, QuietType DEF TInv, TypeOK, Approve

LEMMA PassType ==
    ASSUME TInv, Pass
    PROVE  TInv'
<1> Loop \in Callers /\ callers[Loop] \in Caller
  BY DEF TInv, TypeOK
<1>1. CASE StartPass
  <2>1. [Idle EXCEPT !.step = "list"] \in Caller /\ [Idle EXCEPT !.step = "list"].step = "list"
    BY IdleType DEF Caller, Steps
  <2> QED
    BY <1>1, <2>1, MoveType DEF StartPass, OnRun
<1>2. CASE CloseAbandoned
  <2>1. PICK r \in Runs : /\ Abandoned(batch[r], callers[Loop].clock)
                          /\ batch' = [batch EXCEPT ![r] = Closed(@, "AMBIGUOUS")]
    BY <1>2 DEF CloseAbandoned
  <2>2. Closed(batch[r], "AMBIGUOUS") \in Batch /\ RowCounts(Closed(batch[r], "AMBIGUOUS"))
    BY <2>1, Counts, ClosedRow DEF TInv, Abandoned, Settled
  <2>3. batch' \in [Runs -> Batch] /\ AlertsFollowBatch'
    BY <2>1, <2>2, BatchMoves DEF TInv
  <2> QED
    BY <1>2, <2>3 DEF TInv, TypeOK, Placed, CloseAbandoned
<1>3. CASE ListPending
  <2> DEFINE x == [callers[Loop] EXCEPT !.step = "sweep", !.todo = {r \in Runs : Retryable(batch[r])}]
  <2>1. x \in Caller /\ x.step = "sweep"
    BY DEF Caller, Steps
  <2> QED
    BY <1>3, <2>1, MoveType DEF ListPending, OnRun
<1>4. CASE Sweep
  <2>1. CASE Moves(Loop, Resume(Loop))
    BY <1>4, <2>1, ResumeType, MoveType DEF Sweep, OnRun, TInv
  <2>2. ASSUME NEW r \in callers[Loop].todo,
               Moves(Loop, [callers[Loop] EXCEPT !.step = "send", !.from = "sweep", !.run = r,
                                                 !.todo = @ \ {r}])
        PROVE  TInv'
    <3> DEFINE x == [callers[Loop] EXCEPT !.step = "send", !.from = "sweep", !.run = r,
                                          !.todo = callers[Loop].todo \ {r}]
    <3>1. r \in Runs
      BY DEF Caller
    <3>2. x \in Caller /\ x.run = r
      BY <3>1 DEF Caller, Steps
    <3> QED
      BY <1>4, <2>2, <3>1, <3>2, MoveType DEF Sweep
  <2> QED
    BY <1>4, <2>1, <2>2 DEF Sweep
<1> QED
  BY <1>1, <1>2, <1>3, <1>4 DEF Pass

(* What a caller working on a run holds.                                   *)
LEMMA Working ==
    ASSUME TInv, NEW c \in Callers, callers[c].step \in OnRun
    PROVE  /\ callers[c] \in Caller /\ callers[c].run \in Runs
           /\ evaluation[callers[c].run] \in Evaluation
           /\ batch[callers[c].run] \in Batch /\ RowCounts(batch[callers[c].run])
BY Counts DEF TInv, TypeOK, Placed

LEMMA ChooseType ==
    ASSUME TInv, NEW c \in Callers, Choose(c)
    PROVE  TInv'
<1> callers[c] \in Caller
  BY DEF TInv, TypeOK
<1>1. CASE Moves(c, Idle)
  <2>1. Idle.step = "idle"
    BY DEF Idle
  <2> QED
    BY <1>1, <2>1, IdleType, MoveType DEF Choose, OnRun
<1>2. ASSUME NEW r \in Candidates(c),
             Moves(c, [callers[c] EXCEPT !.step = "claim", !.run = r])
      PROVE  TInv'
  <2> DEFINE x == [callers[c] EXCEPT !.step = "claim", !.run = r]
  <2>1. r \in Runs
    BY DEF Candidates, TInv, TypeOK
  <2>2. x \in Caller /\ x.run = r
    BY <2>1 DEF Caller, Steps
  <2> QED
    BY <1>2, <2>1, <2>2, MoveType DEF Choose
<1> QED
  BY <1>1, <1>2 DEF Choose

LEMMA ClaimRunType ==
    ASSUME TInv, NEW c \in Callers, ClaimRun(c)
    PROVE  TInv'
<1> DEFINE r == callers[c].run
           n == evaluation[r].attempts + 1
           e == [evaluation[r] EXCEPT !.token = n, !.attempts = n, !.age = callers[c].clock]
           x == [Goto(c, "evaluate") EXCEPT !.evaluating = n,
                                            !.clock = IF c = Loop THEN @ ELSE 0]
<1>1. callers[c] \in Caller /\ r \in Runs /\ evaluation[r] \in Evaluation
  BY Working DEF ClaimRun, OnRun
<1>2. CASE Free(r, callers[c].clock)
  <2>1. evaluation' = [evaluation EXCEPT ![r] = e] /\ Moves(c, x)
    BY <1>2 DEF ClaimRun
  <2>2. n \in 0..MaxEvaluations /\ callers[c].clock \in 0..MaxAge
    BY <1>1, <1>2, Bounds, Ages DEF Free, Evaluation, Caller
  <2>3. e \in Evaluation
    BY <1>1, <2>2 DEF Evaluation
  <2>4. evaluation' \in [Runs -> Evaluation]
    BY <1>1, <2>1, <2>3 DEF TInv, TypeOK
  <2>5. Goto(c, "evaluate") \in Caller /\ Goto(c, "evaluate").run = r
    BY GotoType DEF TInv, Steps
  <2>6. x \in Caller /\ x.run = r
    <3>1. 0 \in 0..MaxPass
      BY Bounds
    <3> QED
      BY <2>2, <2>5, <3>1 DEF Caller
  <2>7. callers' \in [Callers -> Caller] /\ Placed'
    BY <1>1, <2>1, <2>6, CallerMoves DEF TInv
  <2> QED
    BY <2>4, <2>7, QuietType DEF TInv, TypeOK, ClaimRun
<1>3. CASE ~Free(r, callers[c].clock)
  <2>1. Idle.step = "idle"
    BY DEF Idle
  <2> QED
    BY <1>3, <2>1, IdleType, MoveType DEF ClaimRun, OnRun
<1> QED
  BY <1>2, <1>3

LEMMA EvaluateType ==
    ASSUME TInv, NEW c \in Callers, Evaluate(c)
    PROVE  TInv'
<1> DEFINE r == callers[c].run
           x == [Goto(c, "send") EXCEPT !.from = "evaluation"]
<1>1. callers[c] \in Caller /\ r \in Runs /\ batch[r] \in Batch /\ RowCounts(batch[r])
  BY Working DEF Evaluate, OnRun
<1>2. PICK found \in Findings :
          /\ stored' = [stored EXCEPT ![r] = @ \cup found]
          /\ batch' = [batch EXCEPT ![r] = EnsureBatch(@, found \ stored[r])]
  BY DEF Evaluate
<1>3. found \subseteq Alerts
  BY FindingsAssumption
<1>4. stored' \in [Runs -> SUBSET Alerts]
  BY <1>1, <1>2, <1>3 DEF TInv, TypeOK
<1>5. EnsureBatch(batch[r], found \ stored[r]) \in Batch
      /\ RowCounts(EnsureBatch(batch[r], found \ stored[r]))
  BY <1>1, <1>3, EnsuredRow
<1>6. batch' \in [Runs -> Batch] /\ AlertsFollowBatch'
  BY <1>1, <1>2, <1>5, BatchMoves DEF TInv
<1>7. Goto(c, "send") \in Caller /\ Goto(c, "send").run = r
  BY GotoType DEF TInv, Steps
<1>8. x \in Caller /\ x.run = r
  BY <1>7 DEF Caller
<1>9. callers' \in [Callers -> Caller] /\ Placed'
  BY <1>1, <1>8, CallerMoves DEF TInv, Evaluate
<1> QED
  BY <1>4, <1>6, <1>9 DEF TInv, TypeOK, Evaluate

LEMMA MarkEvaluatedType ==
    ASSUME TInv, NEW c \in Callers, MarkEvaluated(c)
    PROVE  TInv'
<1> DEFINE r == callers[c].run
           e == [evaluation[r] EXCEPT !.token = 0, !.done = TRUE, !.age = 0]
<1>1. callers[c] \in Caller /\ r \in Runs /\ evaluation[r] \in Evaluation
  BY Working DEF MarkEvaluated, OnRun
<1>2. CASE Holds(c)
  <2>1. 0 \in 0..MaxEvaluations /\ 0 \in 0..MaxAge
    BY Bounds, Ages
  <2>2. e \in Evaluation
    BY <1>1, <2>1 DEF Evaluation
  <2>3. evaluation' = [evaluation EXCEPT ![r] = e] /\ Moves(c, Resume(c))
    BY <1>2 DEF MarkEvaluated
  <2>4. evaluation' \in [Runs -> Evaluation]
    BY <1>1, <2>2, <2>3 DEF TInv, TypeOK
  <2>5. callers' \in [Callers -> Caller] /\ Placed'
    BY <2>3, ResumeType, CallerMoves DEF TInv, OnRun
  <2> QED
    BY <2>4, <2>5, QuietType DEF TInv, TypeOK, MarkEvaluated
<1>3. CASE ~Holds(c)
  <2>1. Goto(c, "fail") \in Caller /\ Goto(c, "fail").run = r
    BY GotoType DEF TInv, Steps
  <2> QED
    BY <1>1, <1>3, <2>1, MoveType DEF MarkEvaluated
<1> QED
  BY <1>2, <1>3

LEMMA RecordEvaluationFailureType ==
    ASSUME TInv, NEW c \in Callers, RecordEvaluationFailure(c)
    PROVE  TInv'
<1> DEFINE r == callers[c].run
           e == [evaluation[r] EXCEPT !.token = 0]
<1>1. callers[c] \in Caller /\ r \in Runs /\ evaluation[r] \in Evaluation
  BY Working DEF RecordEvaluationFailure, OnRun
<1>2. CASE Holds(c)
  <2>1. 0 \in 0..MaxEvaluations
    BY Bounds
  <2>2. e \in Evaluation
    BY <1>1, <2>1 DEF Evaluation
  <2>3. evaluation' = [evaluation EXCEPT ![r] = e] /\ Moves(c, Resume(c))
    BY <1>2 DEF RecordEvaluationFailure
  <2>4. evaluation' \in [Runs -> Evaluation]
    BY <1>1, <2>2, <2>3 DEF TInv, TypeOK
  <2>5. callers' \in [Callers -> Caller] /\ Placed'
    BY <2>3, ResumeType, CallerMoves DEF TInv, OnRun
  <2> QED
    BY <2>4, <2>5, QuietType DEF TInv, TypeOK, RecordEvaluationFailure
<1>3. CASE ~Holds(c)
  <2>1. Idle.step = "idle"
    BY DEF Idle
  <2> QED
    BY <1>3, <2>1, IdleType, MoveType DEF RecordEvaluationFailure, OnRun
<1> QED
  BY <1>2, <1>3

LEMMA ClaimBatchType ==
    ASSUME TInv, NEW c \in Callers, ClaimBatch(c)
    PROVE  TInv'
<1> DEFINE r == callers[c].run
           n == batch[r].attempts + 1
           k == [batch[r] EXCEPT !.state = "SENDING", !.token = n, !.attempts = n, !.age = 0]
           x == [Goto(c, "post") EXCEPT !.sending = n]
<1>1. callers[c] \in Caller /\ r \in Runs /\ batch[r] \in Batch /\ RowCounts(batch[r])
  BY Working DEF ClaimBatch, OnRun
<1>2. CASE MaySend /\ Retryable(batch[r])
  <2>1. batch' = [batch EXCEPT ![r] = k] /\ Moves(c, x)
    BY <1>2 DEF ClaimBatch
  <2>2. batch' \in [Runs -> Batch] /\ AlertsFollowBatch'
    BY <1>1, <1>2, <2>1, ClaimedRow, BatchMoves DEF TInv
  <2>3. n \in 0..MaxDeliveries
    BY <1>1, <1>2, Bounds DEF Retryable, Batch
  <2>4. Goto(c, "post") \in Caller /\ Goto(c, "post").run = r
    BY GotoType DEF TInv, Steps
  <2>5. x \in Caller /\ x.run = r
    BY <2>3, <2>4 DEF Caller
  <2>6. callers' \in [Callers -> Caller] /\ Placed'
    BY <1>1, <2>1, <2>5, CallerMoves DEF TInv
  <2> QED
    BY <2>2, <2>6 DEF TInv, TypeOK, ClaimBatch
<1>3. CASE ~(MaySend /\ Retryable(batch[r]))
  <2>1. /\ batch' = IF MaySend THEN [batch EXCEPT ![r] = Withheld(batch[r])] ELSE batch
        /\ Moves(c, Goto(c, AfterSend(c)))
    BY <1>3 DEF ClaimBatch
  <2>2. batch' \in [Runs -> Batch] /\ AlertsFollowBatch'
    <3>1. CASE MaySend
      BY <1>1, <2>1, <3>1, WithheldRow, BatchMoves DEF TInv
    <3>2. CASE ~MaySend
      BY <2>1, <3>2 DEF TInv, TypeOK, AlertsFollowBatch
    <3> QED
      BY <3>1, <3>2
  <2>3. AfterSend(c) \in Steps
    BY SendTypes DEF TInv, Steps
  <2>4. Goto(c, AfterSend(c)) \in Caller /\ Goto(c, AfterSend(c)).step = AfterSend(c)
        /\ (AfterSend(c) # "idle" => Goto(c, AfterSend(c)).run = r)
    BY <2>3, GotoType DEF TInv
  <2>5. callers' \in [Callers -> Caller] /\ Placed'
    BY <1>1, <2>1, <2>4, SendTypes, CallerMoves DEF TInv, OnRun
  <2> QED
    BY <2>2, <2>5 DEF TInv, TypeOK, ClaimBatch
<1> QED
  BY <1>2, <1>3

LEMMA LearnsType ==
    ASSUME TInv, NEW c \in Callers, At(c, "post"), NEW outcome \in Settled, Learns(c, outcome)
    PROVE  callers' \in [Callers -> Caller] /\ Placed'
<1> DEFINE x == [callers[c] EXCEPT !.step = "record", !.outcome = outcome]
<1>1. callers[c] \in Caller /\ callers[c].run \in Runs
  BY Working DEF OnRun
<1>2. x \in Caller /\ x.run = callers[c].run
  BY <1>1 DEF Caller, Steps
<1>3. Moves(c, x)
  BY DEF Learns
<1> QED
  BY <1>1, <1>2, <1>3, CallerMoves DEF TInv

LEMMA ToldOnce ==
    ASSUME delivered \in [Runs -> Nat], NEW r, NEW n \in {0, 1},
           delivered' = [delivered EXCEPT ![r] = @ + n]
    PROVE  delivered' \in [Runs -> Nat]
<1> SUFFICES ASSUME NEW q \in Runs
             PROVE  delivered'[q] \in Nat
  OBVIOUS
<1>1. delivered[q] \in Nat /\ delivered[q] + n \in Nat
  OBVIOUS
<1>2. CASE q = r
  BY <1>1, <1>2
<1>3. CASE q # r
  BY <1>1, <1>3
<1> QED
  BY <1>2, <1>3

LEMMA ExchangeType ==
    ASSUME TInv, NEW c \in Callers, NoSender(c) \/ Rejected(c) \/ Unanswered(c) \/ Delivered(c)
    PROVE  TInv'
<1>1. At(c, "post")
  BY DEF NoSender, Rejected, Unanswered, Delivered
<1>2. callers[c] \in Caller /\ callers[c].run \in Runs
  BY <1>1, Working DEF OnRun
<1>3. CASE NoSender(c)
  BY <1>1, <1>3, LearnsType, QuietType DEF NoSender, Settled, TInv, TypeOK
<1>4. CASE Rejected(c)
  <2>1. CASE callers[c].posts + 1 < HttpAttempts
    <3> DEFINE x == [callers[c] EXCEPT !.posts = callers[c].posts + 1]
    <3>1. callers[c].posts + 1 \in 0..HttpAttempts
      BY <1>2, <2>1, Bounds DEF Caller
    <3>2. x \in Caller /\ x.run = callers[c].run
      BY <1>2, <3>1 DEF Caller
    <3>3. Moves(c, x)
      BY <1>4, <2>1 DEF Rejected
    <3> QED
      BY <1>2, <1>4, <3>2, <3>3, MoveType DEF Rejected
  <2>2. CASE ~(callers[c].posts + 1 < HttpAttempts)
    BY <1>1, <1>4, <2>2, LearnsType, QuietType DEF Rejected, Settled, TInv, TypeOK
  <2> QED
    BY <2>1, <2>2
<1>5. CASE Unanswered(c)
  <2>1. PICK taken \in {0, 1} : delivered' = [delivered EXCEPT ![callers[c].run] = @ + taken]
    BY <1>5 DEF Unanswered
  <2>2. delivered' \in [Runs -> Nat]
    BY <2>1, ToldOnce DEF TInv, TypeOK
  <2>3. Learns(c, "AMBIGUOUS") /\ "AMBIGUOUS" \in Settled
    BY <1>5 DEF Unanswered, Settled
  <2> QED
    BY <1>1, <1>5, <2>2, <2>3, LearnsType, QuietType DEF Unanswered, TInv, TypeOK
<1>6. CASE Delivered(c)
  <2>1. delivered' = [delivered EXCEPT ![callers[c].run] = @ + 1]
    BY <1>6 DEF Delivered
  <2>3. delivered' \in [Runs -> Nat]
    BY <2>1, ToldOnce DEF TInv, TypeOK
  <2>2. Learns(c, "NOTIFIED") /\ "NOTIFIED" \in Settled
    BY <1>6 DEF Delivered, Settled
  <2> QED
    BY <1>1, <1>6, <2>2, <2>3, LearnsType, QuietType DEF Delivered, TInv, TypeOK
<1> QED
  BY <1>3, <1>4, <1>5, <1>6

(* Going back to where send was called from.                               *)
LEMMA ReturnType ==
    ASSUME TInv, NEW c \in Callers, callers[c].run \in Runs,
           NEW s \in {"sweep", "mark", "idle", "fail"}, Moves(c, Goto(c, s))
    PROVE  callers' \in [Callers -> Caller] /\ Placed'
<1>1. Goto(c, s) \in Caller /\ Goto(c, s).step = s /\ (s # "idle" => Goto(c, s).run = callers[c].run)
  BY GotoType DEF TInv, Steps
<1> QED
  BY <1>1, CallerMoves DEF TInv, OnRun

LEMMA RecordOutcomeType ==
    ASSUME TInv, NEW c \in Callers, RecordOutcome(c)
    PROVE  TInv'
<1> DEFINE r == callers[c].run
<1>1. callers[c] \in Caller /\ r \in Runs /\ batch[r] \in Batch /\ RowCounts(batch[r])
  BY Working DEF RecordOutcome, OnRun
<1>2. CASE Owns(c)
  <2> DEFINE after == StateAfter(batch[r], callers[c].outcome)
  <2>1. batch' = [batch EXCEPT ![r] = Closed(batch[r], after)] /\ Moves(c, Goto(c, AfterSend(c)))
    BY <1>2 DEF RecordOutcome
  <2>2. after \in Settled \cup {"NONE", "PENDING"}
    BY <1>1 DEF StateAfter, Caller
  <2>3. Closed(batch[r], after) \in Batch /\ RowCounts(Closed(batch[r], after))
    BY <1>1, <1>2, <2>2, ClosedRow DEF Owns
  <2>4. batch' \in [Runs -> Batch] /\ AlertsFollowBatch'
    BY <1>1, <2>1, <2>3, BatchMoves DEF TInv
  <2>5. callers' \in [Callers -> Caller] /\ Placed'
    BY <1>1, <2>1, SendTypes, ReturnType DEF TInv
  <2> QED
    BY <2>4, <2>5 DEF TInv, TypeOK, RecordOutcome
<1>3. CASE ~Owns(c)
  <2>1. Moves(c, Goto(c, ThrownBySend(c)))
    BY <1>3 DEF RecordOutcome
  <2>2. callers' \in [Callers -> Caller] /\ Placed'
    BY <1>1, <2>1, SendTypes, ReturnType DEF TInv
  <2> QED
    BY <1>3, <2>2, QuietType DEF TInv, TypeOK, RecordOutcome
<1> QED
  BY <1>2, <1>3

LEMMA FaultType ==
    ASSUME TInv, NEW c \in Callers, CallFails(c) \/ AnswerLost(c)
    PROVE  TInv'
<1>1. faults' \in 0..MaxFaults
  BY Bounds DEF CallFails, AnswerLost, TInv, TypeOK
<1>2. CASE Moves(c, Idle)
  <2>1. callers' \in [Callers -> Caller] /\ Placed'
    <3>1. Idle.step = "idle"
      BY DEF Idle
    <3> QED
      BY <1>2, <3>1, IdleType, CallerMoves DEF TInv, OnRun
  <2> QED
    BY <1>1, <2>1, QuietType DEF CallFails, AnswerLost, TInv, TypeOK
<1>3. CASE /\ callers[c].step \in OnRun
           /\ \E s \in {"fail", ThrownBySend(c)} : Moves(c, Goto(c, s))
  <2>1. callers[c].run \in Runs
    BY <1>3, Working
  <2>2. callers' \in [Callers -> Caller] /\ Placed'
    BY <1>3, <2>1, SendTypes, ReturnType DEF TInv
  <2> QED
    BY <1>1, <2>2, QuietType DEF CallFails, AnswerLost, TInv, TypeOK
<1> QED
  BY <1>2, <1>3 DEF CallFails, AnswerLost, OnRun

LEMMA CrashType ==
    ASSUME TInv, Crash
    PROVE  TInv'
<1>1. faults' \in 0..MaxFaults
  BY Bounds DEF Crash, TInv, TypeOK
<1>2. callers' \in [Callers -> Caller]
  BY IdleType DEF Crash
<1>3. Placed'
  BY DEF Crash, Placed, OnRun, Idle
<1> QED
  BY <1>1, <1>2, <1>3, QuietType DEF Crash, TInv, TypeOK

LEMMA TickType ==
    ASSUME TInv, Tick
    PROVE  TInv'
<1>1. evaluation' \in [Runs -> Evaluation]
  <2> SUFFICES ASSUME NEW r \in Runs
               PROVE  evaluation'[r] \in Evaluation
    BY DEF Tick
  <2>1. evaluation[r] \in Evaluation
    BY DEF TInv, TypeOK
  <2>2. Older(evaluation[r].age) \in 0..MaxAge
    BY <2>1, OlderType DEF Evaluation
  <2>3. [evaluation[r] EXCEPT !.age = Older(evaluation[r].age)] \in Evaluation
    BY <2>1, <2>2 DEF Evaluation
  <2> QED
    BY <2>1, <2>3 DEF Tick
<1>2. \A r \in Runs : batch'[r] \in Batch /\ RowCounts(batch'[r])
  <2> TAKE r \in Runs
  <2>1. batch[r] \in Batch /\ RowCounts(batch[r])
    BY Counts DEF TInv
  <2>2. [batch[r] EXCEPT !.age = Older(batch[r].age)] \in Batch
        /\ RowCounts([batch[r] EXCEPT !.age = Older(batch[r].age)])
    BY <2>1, AgedRow
  <2> QED
    BY <2>1, <2>2 DEF Tick
<1>3. batch' \in [Runs -> Batch] /\ AlertsFollowBatch'
  BY <1>2 DEF Tick, AlertsFollowBatch, RowCounts
<1>4. \A c \in Callers : /\ callers'[c] \in Caller
                         /\ callers'[c].step = callers[c].step
                         /\ callers'[c].run = callers[c].run
  <2> TAKE c \in Callers
  <2>1. callers[c] \in Caller
    BY DEF TInv, TypeOK
  <2>2. CASE c \in Timed
    <3>1. callers[c].clock + 1 \in 0..MaxPass
      BY <2>1, <2>2, Bounds DEF Tick, Caller
    <3>2. [callers[c] EXCEPT !.clock = callers[c].clock + 1] \in Caller
      BY <2>1, <3>1 DEF Caller
    <3> QED
      BY <2>1, <2>2, <3>2 DEF Tick, Caller
  <2>3. CASE c \notin Timed
    BY <2>1, <2>3 DEF Tick
  <2> QED
    BY <2>2, <2>3
<1>5. callers' \in [Callers -> Caller] /\ Placed'
  BY <1>4 DEF Tick, TInv, Placed
<1> QED
  BY <1>1, <1>3, <1>5 DEF Tick, TInv, TypeOK

LEMMA ProceedType ==
    ASSUME TInv, NEW c \in Callers, Proceed(c)
    PROVE  TInv'
BY ChooseType, ClaimRunType, EvaluateType, MarkEvaluatedType, RecordEvaluationFailureType,
   ApproveType, ClaimBatchType, RecordOutcomeType, ExchangeType DEF Proceed

LEMMA TypeStep ==
    ASSUME TInv, Next
    PROVE  TInv'
<1>1. ASSUME NEW c \in Requests, NEW r \in Runs, Ingest(c, r) \/ Preview(c, r)
      PROVE  TInv'
  BY <1>1, IngestType, PreviewType
<1> QED
  BY <1>1, PassType, ProceedType, FaultType, CrashType, TickType DEF Next

LEMMA TypeInit ==
    ASSUME Init
    PROVE  TInv
<1>1. 0 \in 0..MaxEvaluations /\ 0 \in 0..MaxAge /\ 0 \in 0..MaxDeliveries /\ 0 \in 0..MaxFaults
  BY Bounds, Ages
<1>2. evaluation \in [Runs -> Evaluation]
  BY <1>1 DEF Init, Evaluation
<1>3. batch \in [Runs -> Batch]
  BY <1>1 DEF Init, Batch, BatchStates
<1>4. AlertsFollowBatch
  BY DEF Init, AlertsFollowBatch
<1>5. callers \in [Callers -> Caller] /\ Placed
  BY IdleType DEF Init, Placed, OnRun, Idle
<1> QED
  BY <1>1, <1>2, <1>3, <1>4, <1>5 DEF Init, TInv, TypeOK

LEMMA TypeHolds == Spec => []TInv
<1>1. ASSUME TInv, [Next]_vars
      PROVE  TInv'
  <2>1. CASE vars' = vars
    BY <1>1, <2>1 DEF vars, TInv, TypeOK, Placed, AlertsFollowBatch
  <2> QED
    BY <1>1, <2>1, TypeStep
<1> QED
  BY <1>1, TypeInit, PTL DEF Spec

(* Every row and caller stays well formed; in particular no run is         *)
(* evaluated and no batch delivered more often than the limits say.        *)
THEOREM TypeCorrect == Spec => []TypeOK
<1>1. TInv => TypeOK
  BY DEF TInv
<1> QED
  BY <1>1, TypeHolds, PTL

(* completeAttempt and the closing of abandoned attempts keep the alerts   *)
(* of every batch in step with it.                                         *)
THEOREM AlertsStayInStep == Spec => []AlertsFollowBatch
<1>1. TInv => AlertsFollowBatch
  BY DEF TInv
<1> QED
  BY <1>1, TypeHolds, PTL

-----------------------------------------------------------------------------
(* Delivery.  A caller between its claim and its record is a sender; its   *)
(* batch is SENDING, or has been closed as AMBIGUOUS behind its back.      *)

Sending == {"post", "record"}

SendersKnow ==
    \A c \in Callers : callers[c].step \in Sending =>
        /\ batch[callers[c].run].state \in {"SENDING", "AMBIGUOUS"}
        /\ callers[c].step = "post" => delivered[callers[c].run] = 0
        /\ callers[c].step = "record" =>
              /\ callers[c].outcome \in Settled
              /\ callers[c].outcome = "NOTIFIED" => delivered[callers[c].run] = 1
              /\ callers[c].outcome = "FAILED" => delivered[callers[c].run] = 0

DInv == SendersKnow /\ OneSender /\ AtMostOneMessage /\ StateIsTrue /\ UntouchedBeforeApproval

(* What anybody but the batch's sender may do to a batch.                  *)
Stands(b, k) ==
    /\ k.attempts = b.attempts
    /\ \/ k.state = b.state
       \/ b.state = "NONE" /\ k.state = "PENDING"
       \/ b.state = "SENDING" /\ k.state = "AMBIGUOUS"
       \/ b.state = "PENDING" /\ k.state = "FAILED" /\ approved

(* No new sender, and none learns anything.                                *)
NoNewSender ==
    \A d \in Callers : callers'[d].step \in Sending =>
        /\ callers'[d].step = callers[d].step
        /\ callers'[d].run = callers[d].run
        /\ callers'[d].outcome = callers[d].outcome

LEMMA DeliveryKept ==
    ASSUME TInv, DInv, delivered' = delivered, approved => approved', NoNewSender,
           \A r \in Runs : Stands(batch[r], batch'[r])
    PROVE  DInv'
<1>1. \A d \in Callers : callers[d].step \in Sending => callers[d].run \in Runs
  BY DEF TInv, Placed, OnRun, Sending
<1>2. SendersKnow'
  <2> SUFFICES ASSUME NEW d \in Callers, callers'[d].step \in Sending
               PROVE  /\ batch'[callers'[d].run].state \in {"SENDING", "AMBIGUOUS"}
                      /\ callers'[d].step = "post" => delivered'[callers'[d].run] = 0
                      /\ callers'[d].step = "record" =>
                            /\ callers'[d].outcome \in Settled
                            /\ callers'[d].outcome = "NOTIFIED" => delivered'[callers'[d].run] = 1
                            /\ callers'[d].outcome = "FAILED" => delivered'[callers'[d].run] = 0
    BY DEF SendersKnow
  <2> DEFINE r == callers[d].run
  <2>1. callers[d].step = callers'[d].step /\ callers'[d].run = r
        /\ callers'[d].outcome = callers[d].outcome /\ callers[d].step \in Sending
    BY DEF NoNewSender
  <2>2. r \in Runs /\ Stands(batch[r], batch'[r]) /\ batch[r].state \in {"SENDING", "AMBIGUOUS"}
    BY <1>1, <2>1 DEF DInv, SendersKnow
  <2>3. batch'[r].state \in {"SENDING", "AMBIGUOUS"}
    BY <2>2 DEF Stands
  <2> QED
    BY <2>1, <2>3 DEF DInv, SendersKnow
<1>3. OneSender'
  BY DEF DInv, OneSender, NoNewSender, Sending
<1>4. AtMostOneMessage'
  BY DEF DInv, AtMostOneMessage
<1>5. StateIsTrue'
  BY DEF DInv, StateIsTrue, Stands
<1>6. UntouchedBeforeApproval'
  BY DEF DInv, UntouchedBeforeApproval, Stands
<1> QED
  BY <1>2, <1>3, <1>4, <1>5, <1>6 DEF DInv

(* A caller that goes anywhere but to sending.                             *)
LEMMA GoesElsewhere ==
    ASSUME TInv, NEW c \in Callers, NEW x, x.step \notin Sending, Moves(c, x)
    PROVE  NoNewSender
BY DEF NoNewSender, TInv, TypeOK

LEMMA BatchesStand ==
    ASSUME batch' = batch
    PROVE  \A r \in Runs : Stands(batch[r], batch'[r])
BY DEF Stands

(* The caller's places that are not sending.                               *)
LEMMA Elsewhere ==
    ASSUME TInv, NEW c \in Callers
    PROVE  /\ Idle.step \notin Sending
           /\ Resume(c).step \notin Sending
           /\ Goto(c, AfterSend(c)).step \notin Sending
           /\ Goto(c, ThrownBySend(c)).step \notin Sending
           /\ \A s \in {"evaluate", "send", "fail"} : Goto(c, s).step \notin Sending
<1>1. Idle.step = "idle"
  BY DEF Idle
<1>2. Resume(c).step \notin Sending
  BY ResumeType DEF TInv, Sending
<1>3. AfterSend(c) \in Steps \ Sending /\ ThrownBySend(c) \in Steps \ Sending
  BY SendTypes DEF TInv, Steps, Sending
<1>4. \A s \in Steps \ Sending : Goto(c, s).step \notin Sending
  BY GotoType DEF TInv
<1>5. {"evaluate", "send", "fail"} \subseteq Steps \ Sending
  BY DEF Steps, Sending
<1> QED
  BY <1>1, <1>2, <1>3, <1>4, <1>5 DEF Sending

LEMMA StartDelivery ==
    ASSUME TInv, DInv, NEW c \in Requests, NEW r \in Runs, Ingest(c, r) \/ Preview(c, r)
    PROVE  DInv'
<1>1. [Idle EXCEPT !.step = "choose", !.run = r].step \notin Sending
  BY DEF Idle, Sending
<1>2. [Idle EXCEPT !.step = "approve", !.from = "approval", !.run = r].step \notin Sending
  BY DEF Idle, Sending
<1>3. NoNewSender
  BY <1>1, <1>2, GoesElsewhere DEF Ingest, Preview
<1> QED
  BY <1>3, BatchesStand, DeliveryKept DEF Ingest, Preview

LEMMA PassDelivery ==
    ASSUME TInv, DInv, Pass
    PROVE  DInv'
<1> Loop \in Callers /\ callers[Loop] \in Caller
  BY DEF TInv, TypeOK
<1>1. CASE StartPass
  <2>1. [Idle EXCEPT !.step = "list"].step \notin Sending
    BY DEF Idle, Sending
  <2> QED
    BY <1>1, <2>1, GoesElsewhere, BatchesStand, DeliveryKept DEF StartPass
<1>2. CASE CloseAbandoned
  <2>1. PICK r \in Runs : /\ Abandoned(batch[r], callers[Loop].clock)
                          /\ batch' = [batch EXCEPT ![r] = Closed(@, "AMBIGUOUS")]
    BY <1>2 DEF CloseAbandoned
  <2>2. Closed(batch[r], "AMBIGUOUS").state = "AMBIGUOUS"
        /\ Closed(batch[r], "AMBIGUOUS").attempts = batch[r].attempts
    BY DEF Closed, TInv, TypeOK, Batch
  <2>3. \A q \in Runs : Stands(batch[q], batch'[q])
    BY <2>1, <2>2 DEF Stands, Abandoned, TInv, TypeOK
  <2>4. NoNewSender
    BY <1>2 DEF CloseAbandoned, NoNewSender
  <2> QED
    BY <1>2, <2>3, <2>4, DeliveryKept DEF CloseAbandoned
<1>3. CASE ListPending
  <2> DEFINE x == [callers[Loop] EXCEPT !.step = "sweep", !.todo = {r \in Runs : Retryable(batch[r])}]
  <2>1. x.step \notin Sending
    BY DEF Caller, Sending
  <2>2. NoNewSender
    BY <1>3, <2>1, GoesElsewhere DEF ListPending
  <2> QED
    BY <1>3, <2>2, BatchesStand, DeliveryKept DEF ListPending
<1>4. CASE Sweep
  <2>1. CASE Moves(Loop, Resume(Loop))
    BY <1>4, <2>1, Elsewhere, GoesElsewhere, BatchesStand, DeliveryKept DEF Sweep
  <2>2. ASSUME NEW r \in callers[Loop].todo,
               Moves(Loop, [callers[Loop] EXCEPT !.step = "send", !.from = "sweep", !.run = r,
                                                 !.todo = @ \ {r}])
        PROVE  DInv'
    <3> DEFINE x == [callers[Loop] EXCEPT !.step = "send", !.from = "sweep", !.run = r,
                                          !.todo = callers[Loop].todo \ {r}]
    <3>1. x.step \notin Sending
      BY DEF Caller, Sending
    <3>2. NoNewSender
      BY <2>2, <3>1, GoesElsewhere
    <3> QED
      BY <1>4, <3>2, BatchesStand, DeliveryKept DEF Sweep
  <2> QED
    BY <1>4, <2>1, <2>2 DEF Sweep
<1> QED
  BY <1>1, <1>2, <1>3, <1>4 DEF Pass

LEMMA EvaluationDelivery ==
    ASSUME TInv, DInv, NEW c \in Callers,
           Choose(c) \/ ClaimRun(c) \/ Evaluate(c) \/ MarkEvaluated(c) \/ RecordEvaluationFailure(c)
           \/ Approve(c)
    PROVE  DInv'
<1> DEFINE r == callers[c].run
<1> callers[c] \in Caller
  BY DEF TInv, TypeOK
<1>1. CASE Choose(c)
  <2>1. ASSUME NEW q \in Candidates(c)
        PROVE  [callers[c] EXCEPT !.step = "claim", !.run = q].step \notin Sending
    BY DEF Caller, Sending
  <2>2. NoNewSender
    BY <1>1, <2>1, Elsewhere, GoesElsewhere DEF Choose
  <2> QED
    BY <1>1, <2>2, BatchesStand, DeliveryKept DEF Choose
<1>2. CASE ClaimRun(c)
  <2> DEFINE n == evaluation[r].attempts + 1
             x == [Goto(c, "evaluate") EXCEPT !.evaluating = n, !.clock = IF c = Loop THEN @ ELSE 0]
  <2>1. Goto(c, "evaluate") \in Caller /\ Goto(c, "evaluate").step = "evaluate"
    BY GotoType DEF TInv, Steps
  <2>2. x.step \notin Sending
    BY <2>1 DEF Caller, Sending
  <2>3. Moves(c, x) \/ Moves(c, Idle)
    BY <1>2 DEF ClaimRun
  <2>4. NoNewSender
    BY <2>2, <2>3, Elsewhere, GoesElsewhere
  <2> QED
    BY <1>2, <2>4, BatchesStand, DeliveryKept DEF ClaimRun
<1>3. CASE Evaluate(c)
  <2>1. PICK found \in Findings :
            batch' = [batch EXCEPT ![r] = EnsureBatch(@, found \ stored[r])]
    BY <1>3 DEF Evaluate
  <2>2. \A q \in Runs : Stands(batch[q], batch'[q])
    <3> TAKE q \in Runs
    <3>1. batch[q] \in Batch
      BY DEF TInv, TypeOK
    <3>2. Stands(batch[q], EnsureBatch(batch[q], found \ stored[r]))
      BY <3>1 DEF Stands, EnsureBatch, Batch
    <3>3. Stands(batch[q], batch[q])
      BY DEF Stands
    <3> QED
      BY <2>1, <3>2, <3>3 DEF TInv, TypeOK
  <2>3. [Goto(c, "send") EXCEPT !.from = "evaluation"].step \notin Sending
    <3>1. Goto(c, "send") \in Caller /\ Goto(c, "send").step = "send"
      BY GotoType DEF TInv, Steps
    <3> QED
      BY <3>1 DEF Caller, Sending
  <2>4. NoNewSender
    BY <1>3, <2>3, GoesElsewhere DEF Evaluate
  <2> QED
    BY <1>3, <2>2, <2>4, DeliveryKept DEF Evaluate
<1>4. CASE MarkEvaluated(c)
  <2>1. NoNewSender
    BY <1>4, Elsewhere, GoesElsewhere DEF MarkEvaluated
  <2> QED
    BY <1>4, <2>1, BatchesStand, DeliveryKept DEF MarkEvaluated
<1>5. CASE RecordEvaluationFailure(c)
  <2>1. NoNewSender
    BY <1>5, Elsewhere, GoesElsewhere DEF RecordEvaluationFailure
  <2> QED
    BY <1>5, <2>1, BatchesStand, DeliveryKept DEF RecordEvaluationFailure
<1>6. CASE Approve(c)
  <2>1. NoNewSender
    BY <1>6, Elsewhere, GoesElsewhere DEF Approve
  <2> QED
    BY <1>6, <2>1, BatchesStand, DeliveryKept DEF Approve
<1> QED
  BY <1>1, <1>2, <1>3, <1>4, <1>5, <1>6

(* A caller may send when nobody else is sending the same batch.           *)
LEMMA SoleSender ==
    ASSUME OneSender, NEW c \in Callers,
           \A d \in Callers \ {c} : callers'[d].step \in Sending =>
               callers[d].step \in Sending /\ callers'[d].run = callers[d].run
               /\ callers'[d].run # callers'[c].run
    PROVE  OneSender'
<1> SUFFICES ASSUME NEW d \in Callers, NEW f \in Callers,
                    callers'[d].step \in Sending, callers'[f].step \in Sending,
                    callers'[d].run = callers'[f].run
             PROVE  d = f
  BY DEF OneSender, Sending
<1>1. CASE d = c \/ f = c
  BY <1>1
<1>2. CASE d # c /\ f # c
  BY <1>2 DEF OneSender, Sending
<1> QED
  BY <1>1, <1>2

(* A batch is claimed when it is PENDING, so nobody is sending it.         *)
LEMMA ClaimDelivery ==
    ASSUME TInv, DInv, NEW c \in Callers, ClaimBatch(c)
    PROVE  DInv'
<1> DEFINE r == callers[c].run
           n == batch[r].attempts + 1
           k == [batch[r] EXCEPT !.state = "SENDING", !.token = n, !.attempts = n, !.age = 0]
           x == [Goto(c, "post") EXCEPT !.sending = n]
<1>1. callers[c] \in Caller /\ r \in Runs /\ batch[r] \in Batch
  BY Working DEF ClaimBatch, OnRun
<1>2. CASE MaySend /\ Retryable(batch[r])
  <2>1. batch' = [batch EXCEPT ![r] = k] /\ Moves(c, x)
    BY <1>2 DEF ClaimBatch
  <2>2. batch[r].state = "PENDING" /\ approved
    BY <1>2 DEF Retryable, MaySend
  <2>3. \A d \in Callers : callers[d].step \in Sending => callers[d].run # r
    BY <2>2 DEF DInv, SendersKnow
  <2>4. x.step = "post" /\ x.run = r
    <3>1. /\ Goto(c, "post") \in Caller
          /\ Goto(c, "post").step = "post"
          /\ Goto(c, "post").run = r
      BY GotoType DEF TInv, Steps
    <3> QED
      BY <3>1 DEF Caller
  <2>5. k.state = "SENDING"
    BY <1>1 DEF Batch
  <2>6. /\ callers'[c] = x
        /\ \A d \in Callers \ {c} : callers'[d] = callers[d]
    BY <2>1 DEF TInv, TypeOK
  <2>7. /\ batch'[r] = k
        /\ \A q \in Runs \ {r} : batch'[q] = batch[q]
    BY <1>1, <2>1 DEF TInv, TypeOK
  <2>8. delivered' = delivered /\ delivered[r] = 0 /\ approved' = approved
    BY <1>1, <2>2 DEF ClaimBatch, DInv, StateIsTrue
  <2>9. SendersKnow'
    <3> SUFFICES ASSUME NEW d \in Callers, callers'[d].step \in Sending
                 PROVE  /\ batch'[callers'[d].run].state \in {"SENDING", "AMBIGUOUS"}
                        /\ callers'[d].step = "post" => delivered'[callers'[d].run] = 0
                        /\ callers'[d].step = "record" =>
                              /\ callers'[d].outcome \in Settled
                              /\ callers'[d].outcome = "NOTIFIED" => delivered'[callers'[d].run] = 1
                              /\ callers'[d].outcome = "FAILED" => delivered'[callers'[d].run] = 0
      BY DEF SendersKnow
    <3>1. CASE d = c
      <4>1. callers'[d].step = "post" /\ callers'[d].run = r
        BY <2>4, <2>6, <3>1
      <4>2. batch'[r].state = "SENDING" /\ delivered'[r] = 0
        BY <2>5, <2>7, <2>8
      <4> QED
        BY <4>1, <4>2
    <3>2. CASE d # c
      <4>1. callers'[d] = callers[d] /\ callers[d].run \in Runs \ {r}
        BY <2>3, <2>6, <3>2 DEF TInv, Placed, OnRun, Sending
      <4> QED
        BY <2>7, <2>8, <4>1 DEF DInv, SendersKnow
    <3> QED
      BY <3>1, <3>2
  <2>10. OneSender'
    <3>1. \A d \in Callers \ {c} : callers'[d].step \in Sending =>
              callers[d].step \in Sending /\ callers'[d].run = callers[d].run
              /\ callers'[d].run # callers'[c].run
      BY <2>3, <2>4, <2>6
    <3> QED
      BY <3>1, SoleSender DEF DInv
  <2>11. AtMostOneMessage' /\ StateIsTrue' /\ UntouchedBeforeApproval'
    BY <2>2, <2>5, <2>7, <2>8
       DEF DInv, AtMostOneMessage, StateIsTrue, UntouchedBeforeApproval
  <2> QED
    BY <2>9, <2>10, <2>11 DEF DInv
<1>3. CASE ~(MaySend /\ Retryable(batch[r]))
  <2>1. /\ batch' = IF MaySend THEN [batch EXCEPT ![r] = Withheld(batch[r])] ELSE batch
        /\ Moves(c, Goto(c, AfterSend(c)))
    BY <1>3 DEF ClaimBatch
  <2>2. MaySend => Stands(batch[r], Withheld(batch[r]))
    BY <1>1 DEF Stands, Withheld, Closed, Abandoned, MaySend, Batch
  <2>3. \A q \in Runs : Stands(batch[q], batch'[q])
    BY <1>1, <2>1, <2>2 DEF Stands, TInv, TypeOK
  <2>4. NoNewSender
    BY <2>1, Elsewhere, GoesElsewhere
  <2> QED
    BY <2>3, <2>4, DeliveryKept DEF ClaimBatch
<1> QED
  BY <1>2, <1>3

(* The one sender of a run learns an outcome, and WeCom takes as many      *)
(* messages as that outcome says, one or none when it is AMBIGUOUS.        *)
LEMMA LearnsDelivery ==
    ASSUME TInv, DInv, NEW c \in Callers, At(c, "post"), NEW outcome \in Settled,
           Learns(c, outcome), NEW n \in {0, 1},
           outcome = "NOTIFIED" => n = 1, outcome = "FAILED" => n = 0,
           \A q \in Runs : delivered'[q] = IF q = callers[c].run THEN delivered[q] + n
                                           ELSE delivered[q],
           UNCHANGED <<batch, approved>>
    PROVE  DInv'
<1> DEFINE r == callers[c].run
           x == [callers[c] EXCEPT !.step = "record", !.outcome = outcome]
<1>1. callers[c] \in Caller /\ r \in Runs
  BY Working DEF OnRun
<1>2. x.step = "record" /\ x.run = r /\ x.outcome = outcome
  BY <1>1 DEF Caller
<1>3. callers'[c] = x /\ \A d \in Callers \ {c} : callers'[d] = callers[d]
  BY DEF Learns, TInv, TypeOK
<1>4. delivered[r] = 0 /\ batch[r].state \in {"SENDING", "AMBIGUOUS"}
  BY DEF DInv, SendersKnow, Sending
<1>5. delivered'[r] = n /\ \A q \in Runs \ {r} : delivered'[q] = delivered[q]
  BY <1>1, <1>4
<1>6. \A d \in Callers \ {c} : callers[d].step \in Sending => callers[d].run \in Runs \ {r}
  BY DEF DInv, OneSender, Sending, TInv, Placed, OnRun
<1>7. SendersKnow'
  <2> SUFFICES ASSUME NEW d \in Callers, callers'[d].step \in Sending
               PROVE  /\ batch'[callers'[d].run].state \in {"SENDING", "AMBIGUOUS"}
                      /\ callers'[d].step = "post" => delivered'[callers'[d].run] = 0
                      /\ callers'[d].step = "record" =>
                            /\ callers'[d].outcome \in Settled
                            /\ callers'[d].outcome = "NOTIFIED" => delivered'[callers'[d].run] = 1
                            /\ callers'[d].outcome = "FAILED" => delivered'[callers'[d].run] = 0
    BY DEF SendersKnow
  <2>1. CASE d = c
    BY <1>2, <1>3, <1>4, <1>5, <2>1
  <2>2. CASE d # c
    BY <1>3, <1>5, <1>6, <2>2 DEF DInv, SendersKnow
  <2> QED
    BY <2>1, <2>2
<1>8. OneSender'
  <2>1. \A d \in Callers \ {c} : callers'[d].step \in Sending =>
            callers[d].step \in Sending /\ callers'[d].run = callers[d].run
            /\ callers'[d].run # callers'[c].run
    BY <1>2, <1>3, <1>6
  <2> QED
    BY <2>1, SoleSender DEF DInv
<1>9. AtMostOneMessage' /\ StateIsTrue' /\ UntouchedBeforeApproval'
  BY <1>4, <1>5 DEF DInv, AtMostOneMessage, StateIsTrue, UntouchedBeforeApproval
<1> QED
  BY <1>7, <1>8, <1>9 DEF DInv

LEMMA ExchangeDelivery ==
    ASSUME TInv, DInv, NEW c \in Callers,
           NoSender(c) \/ Rejected(c) \/ Unanswered(c) \/ Delivered(c)
    PROVE  DInv'
<1> DEFINE r == callers[c].run
<1>1. At(c, "post")
  BY DEF NoSender, Rejected, Unanswered, Delivered
<1>2. callers[c] \in Caller /\ r \in Runs
  BY <1>1, Working DEF OnRun
<1>3. delivered \in [Runs -> Nat]
  BY DEF TInv, TypeOK
<1>4. CASE Learns(c, "FAILED") /\ (NoSender(c) \/ Rejected(c))
  <2>1. \A q \in Runs : delivered'[q] = IF q = r THEN delivered[q] + 0 ELSE delivered[q]
    BY <1>3, <1>4 DEF NoSender, Rejected
  <2>2. UNCHANGED <<batch, approved>>
    BY <1>4 DEF NoSender, Rejected
  <2> QED
    BY <1>1, <1>4, <2>1, <2>2, LearnsDelivery DEF Settled
<1>5. CASE Rejected(c) /\ Moves(c, [callers[c] EXCEPT !.posts = @ + 1])
  <2> DEFINE x == [callers[c] EXCEPT !.posts = callers[c].posts + 1]
  <2>1. x.step = callers[c].step /\ x.run = r /\ x.outcome = callers[c].outcome
    BY <1>2 DEF Caller
  <2>2. callers' = [callers EXCEPT ![c] = x]
    BY <1>5
  <2>3. NoNewSender
    BY <2>1, <2>2 DEF NoNewSender, TInv, TypeOK
  <2> QED
    BY <1>5, <2>3, BatchesStand, DeliveryKept DEF Rejected
<1>6. CASE Unanswered(c)
  <2>1. PICK taken \in {0, 1} : delivered' = [delivered EXCEPT ![r] = @ + taken]
    BY <1>6 DEF Unanswered
  <2>2. \A q \in Runs : delivered'[q] = IF q = r THEN delivered[q] + taken ELSE delivered[q]
    BY <1>3, <2>1
  <2>3. Learns(c, "AMBIGUOUS") /\ UNCHANGED <<batch, approved>>
    BY <1>6 DEF Unanswered
  <2> QED
    BY <1>1, <2>2, <2>3, LearnsDelivery DEF Settled
<1>7. CASE Delivered(c)
  <2>1. \A q \in Runs : delivered'[q] = IF q = r THEN delivered[q] + 1 ELSE delivered[q]
    BY <1>3, <1>7 DEF Delivered
  <2>2. Learns(c, "NOTIFIED") /\ UNCHANGED <<batch, approved>>
    BY <1>7 DEF Delivered
  <2> QED
    BY <1>1, <2>1, <2>2, LearnsDelivery DEF Settled
<1> QED
  BY <1>4, <1>5, <1>6, <1>7 DEF NoSender, Rejected

(* completeAttempt closes the batch as its only sender knows.              *)
LEMMA RecordDelivery ==
    ASSUME TInv, DInv, NEW c \in Callers, RecordOutcome(c)
    PROVE  DInv'
<1> DEFINE r == callers[c].run
           after == StateAfter(batch[r], callers[c].outcome)
           k == Closed(batch[r], after)
<1>1. callers[c] \in Caller /\ r \in Runs /\ batch[r] \in Batch
  BY Working DEF RecordOutcome, OnRun
<1>2. CASE Owns(c)
  <2>1. batch' = [batch EXCEPT ![r] = k] /\ Moves(c, Goto(c, AfterSend(c)))
    BY <1>2 DEF RecordOutcome
  <2>2. k.state = after /\ k.attempts = batch[r].attempts
    BY <1>1 DEF Closed, Batch
  <2>3. /\ callers[c].outcome \in Settled
        /\ callers[c].outcome = "NOTIFIED" => delivered[r] = 1
        /\ callers[c].outcome = "FAILED" => delivered[r] = 0
    BY DEF DInv, SendersKnow, Sending, RecordOutcome
  <2>4. /\ after \in Settled \cup {"PENDING"}
        /\ after = "NOTIFIED" => delivered[r] = 1
        /\ after \in {"FAILED", "PENDING"} => delivered[r] = 0
    BY <2>3 DEF StateAfter, Settled
  <2>5. \A d \in Callers \ {c} : callers[d].step \in Sending => callers[d].run \in Runs \ {r}
    BY DEF RecordOutcome, DInv, OneSender, Sending, TInv, Placed, OnRun
  <2>6. NoNewSender
    BY <2>1, Elsewhere, GoesElsewhere
  <2>7. callers'[c].step \notin Sending
    BY <2>1, Elsewhere DEF TInv, TypeOK
  <2>8. batch'[r] = k /\ \A q \in Runs \ {r} : batch'[q] = batch[q]
    BY <1>1, <2>1 DEF TInv, TypeOK
  <2>9. delivered' = delivered /\ approved' = approved /\ approved
    BY <1>1, <1>2 DEF RecordOutcome, Owns, DInv, UntouchedBeforeApproval
  <2>10. SendersKnow'
    <3> SUFFICES ASSUME NEW d \in Callers, callers'[d].step \in Sending
                 PROVE  /\ batch'[callers'[d].run].state \in {"SENDING", "AMBIGUOUS"}
                        /\ callers'[d].step = "post" => delivered'[callers'[d].run] = 0
                        /\ callers'[d].step = "record" =>
                              /\ callers'[d].outcome \in Settled
                              /\ callers'[d].outcome = "NOTIFIED" => delivered'[callers'[d].run] = 1
                              /\ callers'[d].outcome = "FAILED" => delivered'[callers'[d].run] = 0
      BY DEF SendersKnow
    <3>1. d # c /\ callers'[d].step = callers[d].step /\ callers'[d].run = callers[d].run
          /\ callers'[d].outcome = callers[d].outcome
      BY <2>6, <2>7 DEF NoNewSender
    <3>2. callers[d].run \in Runs \ {r} /\ callers[d].step \in Sending
      BY <2>5, <3>1
    <3> QED
      BY <2>8, <2>9, <3>1, <3>2 DEF DInv, SendersKnow
  <2>11. OneSender'
    BY <2>6 DEF DInv, OneSender, NoNewSender, Sending
  <2>12. AtMostOneMessage' /\ StateIsTrue' /\ UntouchedBeforeApproval'
    BY <2>2, <2>4, <2>8, <2>9
       DEF DInv, AtMostOneMessage, StateIsTrue, UntouchedBeforeApproval, Settled
  <2> QED
    BY <2>10, <2>11, <2>12 DEF DInv
<1>3. CASE ~Owns(c)
  <2>1. NoNewSender
    BY <1>3, Elsewhere, GoesElsewhere DEF RecordOutcome
  <2> QED
    BY <1>3, <2>1, BatchesStand, DeliveryKept DEF RecordOutcome
<1> QED
  BY <1>2, <1>3

LEMMA FaultDelivery ==
    ASSUME TInv, DInv, (\E c \in Callers : CallFails(c) \/ AnswerLost(c)) \/ Crash
    PROVE  DInv'
<1>1. CASE Crash
  <2>1. NoNewSender
    BY <1>1 DEF Crash, NoNewSender, Idle, Sending
  <2> QED
    BY <1>1, <2>1, BatchesStand, DeliveryKept DEF Crash
<1>2. ASSUME NEW c \in Callers, CallFails(c) \/ AnswerLost(c)
      PROVE  DInv'
  <2>1. NoNewSender
    BY <1>2, Elsewhere, GoesElsewhere DEF CallFails, AnswerLost
  <2> QED
    BY <1>2, <2>1, BatchesStand, DeliveryKept DEF CallFails, AnswerLost
<1> QED
  BY <1>1, <1>2

LEMMA TickDelivery ==
    ASSUME TInv, DInv, Tick
    PROVE  DInv'
<1>1. \A r \in Runs : Stands(batch[r], batch'[r])
  BY DEF Tick, Stands, TInv, TypeOK, Batch
<1>2. NoNewSender
  <2> SUFFICES ASSUME NEW d \in Callers
               PROVE  /\ callers'[d].step = callers[d].step
                      /\ callers'[d].run = callers[d].run
                      /\ callers'[d].outcome = callers[d].outcome
    BY DEF NoNewSender
  <2>1. callers[d] \in Caller
    BY DEF TInv, TypeOK
  <2> QED
    BY <2>1 DEF Tick, Caller
<1> QED
  BY <1>1, <1>2, DeliveryKept DEF Tick

LEMMA DeliveryStep ==
    ASSUME TInv, DInv, Next
    PROVE  DInv'
<1>1. ASSUME NEW c \in Callers, Proceed(c)
      PROVE  DInv'
  BY <1>1, EvaluationDelivery, ClaimDelivery, RecordDelivery, ExchangeDelivery DEF Proceed
<1>2. ASSUME NEW c \in Requests, NEW r \in Runs, Ingest(c, r) \/ Preview(c, r)
      PROVE  DInv'
  BY <1>2, StartDelivery
<1> QED
  BY <1>1, <1>2, PassDelivery, FaultDelivery, TickDelivery DEF Next

LEMMA DeliveryHolds == Spec => [](TInv /\ DInv)
<1>1. Init => DInv
  BY DEF Init, DInv, SendersKnow, OneSender, AtMostOneMessage, StateIsTrue,
         UntouchedBeforeApproval, Sending, Idle
<1>2. ASSUME TInv, DInv, [Next]_vars
      PROVE  DInv'
  <2>1. CASE vars' = vars
    BY <1>2, <2>1 DEF vars, DInv, SendersKnow, OneSender, AtMostOneMessage, StateIsTrue,
                      UntouchedBeforeApproval
  <2> QED
    BY <1>2, <2>1, DeliveryStep
<1> QED
  BY <1>1, <1>2, TypeHolds, PTL DEF Spec

(* WeCom is given at most one message about a run, whatever crashes,       *)
(* retries, expired leases and concurrent senders.                         *)
THEOREM NoSecondMessage == Spec => []AtMostOneMessage
<1>1. DInv => AtMostOneMessage
  BY DEF DInv
<1> QED
  BY <1>1, DeliveryHolds, PTL

(* What a batch tells operators is true: NOTIFIED was taken by WeCom,      *)
(* FAILED and PENDING were not.                                            *)
THEOREM BatchesTellTheTruth == Spec => []StateIsTrue
<1>1. DInv => StateIsTrue
  BY DEF DInv
<1> QED
  BY <1>1, DeliveryHolds, PTL

(* claimBatch lets one caller send a batch, even past the end of a lease.  *)
THEOREM SendersAreAlone == Spec => []OneSender
<1>1. DInv => OneSender
  BY DEF DInv
<1> QED
  BY <1>1, DeliveryHolds, PTL

(* Before an administrator's first approval no batch is tried.             *)
THEOREM NothingSentUnapproved == Spec => []UntouchedBeforeApproval
<1>1. DInv => UntouchedBeforeApproval
  BY DEF DInv
<1> QED
  BY <1>1, DeliveryHolds, PTL

-----------------------------------------------------------------------------
(* What a step does to batches and messages: at most one run's is touched. *)

Calm ==
    /\ delivered' = delivered
    /\ \A q \in Runs : /\ batch'[q].state = batch[q].state
                       /\ batch'[q].alerts = batch[q].alerts
                       /\ batch[q].state \in Settled => batch'[q] = batch[q]

OnlyRow(r) == delivered' = delivered /\ \A q \in Runs \ {r} : batch'[q] = batch[q]

Published(r) ==
    /\ OnlyRow(r) /\ batch[r].state = "NONE" /\ batch'[r].state = "PENDING"
    /\ \E c \in Callers : Evaluate(c)

Worked(r) ==
    /\ OnlyRow(r)
    /\ batch[r].state \in {"PENDING", "SENDING"}
    /\ batch'[r].state # "NONE"
    /\ batch'[r].alerts = batch[r].alerts

Told(r) ==
    /\ batch' = batch
    /\ batch[r].state \in {"SENDING", "AMBIGUOUS"}
    /\ delivered[r] = 0
    /\ delivered' = [delivered EXCEPT ![r] = 1]

Step == Calm \/ \E r \in Runs : Published(r) \/ Worked(r) \/ Told(r)

LEMMA CalmStep ==
    ASSUME batch' = batch, delivered' = delivered
    PROVE  Step
BY DEF Step, Calm

LEMMA RowReplaced ==
    ASSUME TInv, NEW r \in Runs, NEW k, batch' = [batch EXCEPT ![r] = k], delivered' = delivered
    PROVE  OnlyRow(r) /\ batch'[r] = k /\ (k = batch[r] => Step)
<1>1. batch'[r] = k /\ \A q \in Runs \ {r} : batch'[q] = batch[q]
  BY DEF TInv, TypeOK
<1>2. k = batch[r] => \A q \in Runs : batch'[q] = batch[q]
  BY <1>1
<1> QED
  BY <1>1, <1>2 DEF OnlyRow, Step, Calm

LEMMA ClosedFields ==
    ASSUME NEW b \in Batch, NEW state
    PROVE  Closed(b, state).state = state /\ Closed(b, state).alerts = b.alerts
BY DEF Closed, Batch

LEMMA EvaluateStep ==
    ASSUME TInv, NEW c \in Callers, Evaluate(c)
    PROVE  Step
<1> DEFINE r == callers[c].run
<1>1. r \in Runs /\ batch[r] \in Batch
  BY Working DEF Evaluate, OnRun
<1>2. PICK found \in Findings :
          batch' = [batch EXCEPT ![r] = EnsureBatch(batch[r], found \ stored[r])]
  BY DEF Evaluate
<1>3. OnlyRow(r) /\ batch'[r] = EnsureBatch(batch[r], found \ stored[r])
      /\ (EnsureBatch(batch[r], found \ stored[r]) = batch[r] => Step)
  BY <1>1, <1>2, RowReplaced DEF Evaluate
<1>4. CASE batch[r].state = "NONE"
  <2>1. batch'[r].state = "PENDING"
    BY <1>1, <1>3, <1>4 DEF EnsureBatch, Batch
  <2> QED
    BY <1>1, <1>3, <1>4, <2>1 DEF Published, Step
<1>5. CASE batch[r].state # "NONE"
  BY <1>3, <1>5 DEF EnsureBatch
<1> QED
  BY <1>4, <1>5

LEMMA ClaimBatchStep ==
    ASSUME TInv, NEW c \in Callers, ClaimBatch(c)
    PROVE  Step
<1> DEFINE r == callers[c].run
           n == batch[r].attempts + 1
           k == [batch[r] EXCEPT !.state = "SENDING", !.token = n, !.attempts = n, !.age = 0]
<1>1. r \in Runs /\ batch[r] \in Batch /\ delivered' = delivered
  BY Working DEF ClaimBatch, OnRun
<1>2. CASE MaySend /\ Retryable(batch[r])
  <2>1. batch' = [batch EXCEPT ![r] = k]
    BY <1>2 DEF ClaimBatch
  <2>2. k.state = "SENDING" /\ k.alerts = batch[r].alerts
    BY <1>1 DEF Batch
  <2>3. OnlyRow(r) /\ batch'[r] = k
    BY <1>1, <2>1, RowReplaced
  <2> QED
    BY <1>1, <1>2, <2>2, <2>3 DEF Worked, Retryable, Step
<1>3. CASE ~(MaySend /\ Retryable(batch[r])) /\ MaySend
  <2> DEFINE w == Withheld(batch[r])
  <2>1. batch' = [batch EXCEPT ![r] = w]
    BY <1>3 DEF ClaimBatch
  <2>2. OnlyRow(r) /\ batch'[r] = w /\ (w = batch[r] => Step)
    BY <1>1, <2>1, RowReplaced
  <2>3. CASE Abandoned(batch[r], 0)
    <3>1. w.state = "AMBIGUOUS" /\ w.alerts = batch[r].alerts
      BY <1>1, <2>3, ClosedFields DEF Withheld
    <3> QED
      BY <1>1, <2>2, <2>3, <3>1 DEF Worked, Abandoned, Step
  <2>4. CASE ~Abandoned(batch[r], 0) /\ batch[r].state = "PENDING"
    <3>1. w.state = "FAILED" /\ w.alerts = batch[r].alerts
      BY <1>1, <2>4 DEF Withheld, Batch
    <3> QED
      BY <1>1, <2>2, <2>4, <3>1 DEF Worked, Step
  <2>5. CASE ~Abandoned(batch[r], 0) /\ batch[r].state # "PENDING"
    BY <2>2, <2>5 DEF Withheld
  <2> QED
    BY <2>3, <2>4, <2>5
<1>4. CASE ~MaySend
  BY <1>1, <1>4, CalmStep DEF ClaimBatch
<1> QED
  BY <1>2, <1>3, <1>4

LEMMA ExchangeStep ==
    ASSUME TInv, DInv, NEW c \in Callers,
           NoSender(c) \/ Rejected(c) \/ Unanswered(c) \/ Delivered(c)
    PROVE  Step
<1> DEFINE r == callers[c].run
<1>1. At(c, "post")
  BY DEF NoSender, Rejected, Unanswered, Delivered
<1>2. r \in Runs
  BY <1>1, Working DEF OnRun
<1>3. batch[r].state \in {"SENDING", "AMBIGUOUS"} /\ delivered[r] = 0
  BY <1>1 DEF DInv, SendersKnow, Sending
<1>4. batch' = batch
  BY DEF NoSender, Rejected, Unanswered, Delivered
<1>5. CASE NoSender(c) \/ Rejected(c)
  BY <1>4, <1>5, CalmStep DEF NoSender, Rejected
<1>6. ASSUME NEW n \in {0, 1}, delivered' = [delivered EXCEPT ![r] = @ + n]
      PROVE  Step
  <2>1. CASE n = 1
    <3>1. delivered' = [delivered EXCEPT ![r] = 1]
      BY <1>3, <1>6, <2>1
    <3> QED
      BY <1>2, <1>3, <1>4, <3>1 DEF Told, Step
  <2>2. CASE n = 0
    <3>1. delivered' = delivered
      BY <1>2, <1>3, <1>6, <2>2 DEF TInv, TypeOK
    <3> QED
      BY <1>4, <3>1, CalmStep
  <2> QED
    BY <2>1, <2>2
<1>7. CASE Unanswered(c)
  BY <1>6, <1>7 DEF Unanswered
<1>8. CASE Delivered(c)
  BY <1>6, <1>8 DEF Delivered
<1> QED
  BY <1>5, <1>7, <1>8

LEMMA RecordOutcomeStep ==
    ASSUME TInv, DInv, NEW c \in Callers, RecordOutcome(c)
    PROVE  Step
<1> DEFINE r == callers[c].run
           after == StateAfter(batch[r], callers[c].outcome)
<1>1. r \in Runs /\ batch[r] \in Batch /\ delivered' = delivered
  BY Working DEF RecordOutcome, OnRun
<1>2. CASE Owns(c)
  <2>1. OnlyRow(r) /\ batch'[r] = Closed(batch[r], after)
    BY <1>1, <1>2, RowReplaced DEF RecordOutcome
  <2>2. after # "NONE"
    BY DEF RecordOutcome, DInv, SendersKnow, Sending, StateAfter, Settled
  <2>3. batch'[r].state # "NONE" /\ batch'[r].alerts = batch[r].alerts
    BY <1>1, <2>1, <2>2, ClosedFields
  <2> QED
    BY <1>1, <1>2, <2>1, <2>3 DEF Worked, Owns, Step
<1>3. CASE ~Owns(c)
  BY <1>1, <1>3, CalmStep DEF RecordOutcome
<1> QED
  BY <1>2, <1>3

LEMMA RowStep ==
    ASSUME TInv, DInv, Next
    PROVE  Step
<1>1. ASSUME NEW c \in Callers, Proceed(c)
      PROVE  Step
  <2>1. CASE Choose(c) \/ ClaimRun(c) \/ MarkEvaluated(c) \/ RecordEvaluationFailure(c) \/ Approve(c)
    BY <2>1, CalmStep DEF Choose, ClaimRun, MarkEvaluated, RecordEvaluationFailure, Approve
  <2> QED
    BY <1>1, <2>1, EvaluateStep, ClaimBatchStep, ExchangeStep, RecordOutcomeStep DEF Proceed
<1>2. CASE \E c \in Callers : CallFails(c) \/ AnswerLost(c)
  BY <1>2, CalmStep DEF CallFails, AnswerLost
<1>3. CASE \E c \in Requests, r \in Runs : Ingest(c, r) \/ Preview(c, r)
  BY <1>3, CalmStep DEF Ingest, Preview
<1>4. CASE Crash
  BY <1>4, CalmStep DEF Crash
<1>5. CASE Pass
  <2>1. CASE CloseAbandoned
    <3>1. PICK r \in Runs : /\ Abandoned(batch[r], callers[Loop].clock)
                            /\ batch' = [batch EXCEPT ![r] = Closed(batch[r], "AMBIGUOUS")]
      BY <2>1 DEF CloseAbandoned
    <3>2. OnlyRow(r) /\ batch'[r] = Closed(batch[r], "AMBIGUOUS")
      BY <2>1, <3>1, RowReplaced DEF CloseAbandoned
    <3>3. batch'[r].state = "AMBIGUOUS" /\ batch'[r].alerts = batch[r].alerts
      BY <3>2, ClosedFields DEF TInv, TypeOK
    <3> QED
      BY <3>1, <3>2, <3>3 DEF Worked, Abandoned, Step
  <2>2. CASE StartPass \/ ListPending \/ Sweep
    BY <2>2, CalmStep DEF StartPass, ListPending, Sweep
  <2> QED
    BY <1>5, <2>1, <2>2 DEF Pass
<1>6. CASE Tick
  <2>1. \A q \in Runs : /\ batch'[q].state = batch[q].state
                        /\ batch'[q].alerts = batch[q].alerts
                        /\ batch[q].state # "SENDING" => batch'[q] = batch[q]
    BY <1>6 DEF Tick, TInv, TypeOK, Batch
  <2> QED
    BY <1>6, <2>1 DEF Tick, Step, Calm, Settled
<1> QED
  BY <1>1, <1>2, <1>3, <1>4, <1>5, <1>6 DEF Next

(* A finished evaluation is claimed, marked and aged by nobody.            *)
LEMMA DoneStands ==
    ASSUME TInv, Next, NEW r \in Runs, evaluation[r].done
    PROVE  evaluation'[r] = evaluation[r]
<1>1. ASSUME NEW c \in Callers, ClaimRun(c) \/ MarkEvaluated(c) \/ RecordEvaluationFailure(c)
      PROVE  evaluation'[r] = evaluation[r]
  <2>1. CASE callers[c].run = r
    <3>1. ~Free(r, callers[c].clock) /\ ~Holds(c)
      BY <2>1 DEF Free, Holds
    <3> QED
      BY <1>1, <2>1, <3>1 DEF ClaimRun, MarkEvaluated, RecordEvaluationFailure
  <2>2. CASE callers[c].run # r
    BY <1>1, <2>2 DEF ClaimRun, MarkEvaluated, RecordEvaluationFailure, TInv, TypeOK
  <2> QED
    BY <2>1, <2>2
<1>2. CASE Tick
  BY <1>2 DEF Tick
<1>3. ASSUME UNCHANGED evaluation
      PROVE  evaluation'[r] = evaluation[r]
  BY <1>3
<1>4. ASSUME NEW c \in Callers, Proceed(c)
      PROVE  evaluation'[r] = evaluation[r]
  BY <1>1, <1>3, <1>4 DEF Proceed, Choose, Evaluate, Approve, ClaimBatch, RecordOutcome, NoSender,
     Rejected, Unanswered, Delivered
<1>5. CASE Pass
  BY <1>3, <1>5 DEF Pass, StartPass, CloseAbandoned, ListPending, Sweep
<1> QED
  BY <1>2, <1>3, <1>4, <1>5 DEF Next, CallFails, AnswerLost, Ingest, Preview, Crash

(* A settled batch is never touched again, no evaluation changes what a    *)
(* batch lists, and a finished evaluation is final.                        *)
THEOREM WhatIsSettledStands == Spec => SettledStands
<1>1. ASSUME TInv, DInv, Next, NEW r \in Runs
      PROVE  /\ batch[r].state \in Settled => batch'[r] = batch[r]
             /\ batch[r].state # "NONE" => batch'[r].alerts = batch[r].alerts
             /\ evaluation[r].done => evaluation'[r] = evaluation[r]
  <2>1. Step
    BY <1>1, RowStep
  <2>2. /\ batch[r].state \in Settled => batch'[r] = batch[r]
        /\ batch[r].state # "NONE" => batch'[r].alerts = batch[r].alerts
    BY <2>1 DEF Step, Calm, Published, Worked, OnlyRow, Told, Settled
  <2> QED
    BY <1>1, <2>2, DoneStands
<1>2. TInv /\ DInv /\ [Next]_vars =>
        [\A r \in Runs :
            /\ batch[r].state \in Settled => batch'[r] = batch[r]
            /\ batch[r].state # "NONE" => batch'[r].alerts = batch[r].alerts
            /\ evaluation[r].done => evaluation'[r] = evaluation[r]]_vars
  BY <1>1
<1> QED
  BY <1>2, DeliveryHolds, PTL DEF Spec, SettledStands

-----------------------------------------------------------------------------
(* While the rules stand every evaluation of a run finds the same alerts.  *)

Listed(found) ==
    \A r \in Runs : IF batch[r].state = "NONE" THEN stored[r] = {} /\ batch[r].alerts = {}
                    ELSE stored[r] = found /\ batch[r].alerts = found

LEMMA ListedStep ==
    ASSUME NEW found, Findings = {found}, TInv, DInv, Next, Listed(found)
    PROVE  Listed(found)'
<1>1. ASSUME NEW c \in Callers, Evaluate(c)
      PROVE  Listed(found)'
  <2> DEFINE r == callers[c].run
  <2>1. r \in Runs /\ batch[r] \in Batch
    BY <1>1, Working DEF Evaluate, OnRun
  <2>2. /\ stored' = [stored EXCEPT ![r] = stored[r] \cup found]
        /\ batch' = [batch EXCEPT ![r] = EnsureBatch(batch[r], found \ stored[r])]
    BY <1>1 DEF Evaluate
  <2>3. /\ stored'[r] = stored[r] \cup found
        /\ batch'[r] = EnsureBatch(batch[r], found \ stored[r])
        /\ \A q \in Runs \ {r} : stored'[q] = stored[q] /\ batch'[q] = batch[q]
    BY <2>1, <2>2 DEF TInv, TypeOK
  <2>4. CASE batch[r].state = "NONE"
    <3>1. stored'[r] = found /\ found \ stored[r] = found
      BY <2>1, <2>3, <2>4 DEF Listed
    <3>2. batch'[r].state = "PENDING" /\ batch'[r].alerts = found
      BY <2>1, <2>3, <2>4, <3>1 DEF EnsureBatch, Batch
    <3> QED
      BY <2>1, <2>3, <3>1, <3>2 DEF Listed
  <2>5. CASE batch[r].state # "NONE"
    <3>1. batch'[r] = batch[r] /\ stored'[r] = stored[r]
      BY <2>1, <2>3, <2>5 DEF EnsureBatch, Listed
    <3> QED
      BY <2>3, <3>1 DEF Listed
  <2> QED
    BY <2>4, <2>5
<1>2. CASE ~\E c \in Callers : Evaluate(c)
  <2>1. stored' = stored
    BY <1>2 DEF Next, Proceed, Choose, ClaimRun, MarkEvaluated, RecordEvaluationFailure, Approve,
       ClaimBatch, RecordOutcome, NoSender, Rejected, Unanswered, Delivered, Pass, StartPass,
       CloseAbandoned, ListPending, Sweep, CallFails, AnswerLost, Ingest, Preview, Crash, Tick
  <2>2. \A q \in Runs : /\ batch'[q].alerts = batch[q].alerts
                        /\ batch'[q].state = "NONE" <=> batch[q].state = "NONE"
    BY <1>2, RowStep DEF Step, Calm, Published, Worked, Told, OnlyRow
  <2> QED
    BY <2>1, <2>2 DEF Listed
<1> QED
  BY <1>1, <1>2

(* While the rules stand, every stored price alert is listed by its run's  *)
(* batch, however often an evaluation is interrupted and begun again.      *)
THEOREM StandingRulesAnnounceAll ==
    ASSUME NEW CONSTANT found, Findings = {found}
    PROVE  Spec => []AlertsAnnounced
<1>1. Init => Listed(found)
  BY DEF Init, Listed
<1>2. TInv /\ DInv /\ Listed(found) /\ [Next]_vars => Listed(found)'
  <2>1. CASE vars' = vars
    BY <2>1 DEF vars, Listed
  <2> QED
    BY <2>1, ListedStep
<1>3. Listed(found) => AlertsAnnounced
  BY DEF Listed, AlertsAnnounced
<1> QED
  BY <1>1, <1>2, <1>3, DeliveryHolds, PTL DEF Spec

-----------------------------------------------------------------------------
(* RunAlerts implements AlertOutbox.                                       *)

LEMMA Standings ==
    /\ Standing("NONE") = "none"
    /\ Standing("PENDING") = "owed" /\ Standing("SENDING") = "owed"
    /\ Standing("NOTIFIED") = "sent"
    /\ Standing("FAILED") = "unsent"
    /\ Standing("AMBIGUOUS") = "unknown"
BY DEF Standing

LEMMA OnlyStanding ==
    ASSUME NEW r \in Runs, OnlyRow(r)
    PROVE  standingBar' = [standingBar EXCEPT ![r] = Standing(batch'[r].state)]
BY DEF standingBar, OnlyRow

LEMMA OutboxStep ==
    ASSUME TInv, DInv, TInv', DInv', [Next]_vars
    PROVE  [Outbox!OutboxNext]_<<standingBar, delivered>>
<1> DEFINE Stutter == standingBar' = standingBar /\ delivered' = delivered
<1> SUFFICES Outbox!OutboxNext \/ Stutter
  OBVIOUS
<1>1. CASE vars' = vars
  BY <1>1 DEF vars, standingBar
<1>2. CASE Calm
  BY <1>2 DEF Calm, standingBar
<1>3. ASSUME NEW r \in Runs, Published(r)
      PROVE  Outbox!OutboxNext
  <2>1. standingBar' = [standingBar EXCEPT ![r] = "owed"] /\ standingBar[r] = "none"
    BY <1>3, OnlyStanding, Standings DEF Published, standingBar
  <2>2. Outbox!Owe(r)
    BY <1>3, <2>1 DEF Outbox!Owe, Published, OnlyRow
  <2> QED
    BY <2>2 DEF Outbox!OutboxNext
<1>4. ASSUME NEW r \in Runs, Worked(r)
      PROVE  Outbox!OutboxNext \/ Stutter
  <2>1. standingBar[r] = "owed" /\ delivered' = delivered
    BY <1>4, Standings DEF Worked, OnlyRow, standingBar
  <2>2. standingBar' = [standingBar EXCEPT ![r] = Standing(batch'[r].state)]
    BY <1>4, OnlyStanding DEF Worked
  <2>3. batch'[r].state \in {"PENDING", "SENDING", "NOTIFIED", "FAILED", "AMBIGUOUS"}
    BY <1>4 DEF Worked, TInv, TypeOK, Batch, BatchStates, Settled
  <2>4. CASE batch'[r].state \in {"PENDING", "SENDING"}
    BY <2>1, <2>2, <2>4, Standings DEF standingBar
  <2>5. CASE batch'[r].state = "AMBIGUOUS"
    BY <2>1, <2>2, <2>5, Standings DEF Outbox!Settle, Outbox!OutboxNext
  <2>6. CASE batch'[r].state = "NOTIFIED"
    <3>1. delivered[r] = 1
      BY <2>1, <2>6 DEF DInv, StateIsTrue
    <3>2. Outbox!SettleTruly(r)
      BY <2>1, <2>2, <2>6, <3>1, Standings DEF Outbox!SettleTruly
    <3> QED
      BY <3>2 DEF Outbox!OutboxNext
  <2>7. CASE batch'[r].state = "FAILED"
    <3>1. delivered[r] = 0
      BY <2>1, <2>7 DEF DInv, StateIsTrue
    <3>2. standingBar' = [standingBar EXCEPT ![r] = "unsent"]
      BY <2>2, <2>7, Standings
    <3>3. (IF delivered[r] = 1 THEN "sent" ELSE "unsent") = "unsent"
      BY <3>1
    <3>4. Outbox!SettleTruly(r)
      BY <2>1, <3>2, <3>3 DEF Outbox!SettleTruly
    <3> QED
      BY <3>4 DEF Outbox!OutboxNext
  <2> QED
    BY <2>3, <2>4, <2>5, <2>6, <2>7
<1>5. ASSUME NEW r \in Runs, Told(r)
      PROVE  Outbox!OutboxNext
  <2>1. standingBar[r] \in {"owed", "unknown"} /\ standingBar' = standingBar
    BY <1>5, Standings DEF Told, standingBar
  <2>2. Outbox!Tell(r)
    BY <1>5, <2>1 DEF Told, Outbox!Tell
  <2> QED
    BY <2>2 DEF Outbox!OutboxNext
<1> QED
  BY <1>1, <1>2, <1>3, <1>4, <1>5, RowStep DEF Step

(* Evaluations, passes, approvals, crashes and expired leases together     *)
(* keep the outbox's promise for every run.                                *)
THEOREM OutboxRefinement == Spec => ImplementsOutbox
<1>1. Init => Outbox!OutboxInit
  BY Standings DEF Init, standingBar, Outbox!OutboxInit
<1>2. TInv /\ DInv /\ (TInv /\ DInv)' /\ [Next]_vars =>
        [Outbox!OutboxNext]_<<standingBar, delivered>>
  BY OutboxStep
<1> QED
  BY <1>1, <1>2, DeliveryHolds, PTL DEF Spec, ImplementsOutbox, Outbox!OutboxSpec, Outbox!outbox

=============================================================================
