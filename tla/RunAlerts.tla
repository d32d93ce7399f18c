----------------------------- MODULE RunAlerts ------------------------------
(***************************************************************************)
(* From a stored report to one WeCom message: the evaluation of a run's    *)
(* alerts, the notification batch the evaluation leaves behind, and its    *)
(* delivery.                                                               *)
(*                                                                         *)
(* Three kinds of callers share the tables.  The reconciliation loop makes *)
(* a pass every 30 seconds, the call that ingested a report evaluates its  *)
(* run at once, and an administrator's approval sends one batch.  They run *)
(* in one API process, so a crash stops all of them; each step below is    *)
(* one transaction, one guarded UPDATE or one HTTP exchange.               *)
(*                                                                         *)
(* Times are kept as ages, in ticks, so that they stay finite: `clock` is  *)
(* the age of the `attemptedAt` a caller works with, `age` that of the     *)
(* attempt a row remembers.                                                *)
(***************************************************************************)
EXTENDS Integers, FiniteSets

CONSTANTS Runs,            \* runs that may be reported
          Alerts,          \* price alerts an evaluation may create
          Findings,        \* the sets of alerts the catalog's rules may find in a run's snapshots
          Loop,            \* the reconciliation loop
          Requests,        \* HTTP handlers: report ingestion and approval
          Lease,           \* CLAIM_LEASE_MILLISECONDS, in ticks
          MaxEvaluations,  \* MAX_EVALUATION_ATTEMPTS
          MaxDeliveries,   \* MAX_BATCH_DELIVERY_ATTEMPTS
          HttpAttempts,    \* DEFAULT_HTTP_ATTEMPTS_PER_BATCH_DELIVERY
          MaxPass,         \* bound: ticks a caller keeps one `attemptedAt`
          MaxFaults,       \* bound: crashes and failed database calls
          NoRun

ASSUME FindingsAssumption == Findings \subseteq SUBSET Alerts

ASSUME CallersAssumption == Loop \notin Requests /\ NoRun \notin Runs

ASSUME BoundsAssumption ==
    /\ {Lease, MaxEvaluations, MaxDeliveries, HttpAttempts} \subseteq Nat \ {0}
    /\ {MaxPass, MaxFaults} \subseteq Nat

VARIABLES
    reported,    \* runs with a report (desktopReportDigest)
    evaluation,  \* the alertEvaluation columns of each run
    batch,       \* RunAlertNotificationBatch, by run, with the fields its alerts share
    stored,      \* the price alerts of each run
    approved,    \* WECOM_LIVE_SEND_APPROVAL is set
    callers,     \* what the loop and each handler is doing
    delivered,   \* history: messages about each run that WeCom took
    faults       \* crashes and failed database calls so far

vars == <<reported, evaluation, batch, stored, approved, callers, delivered, faults>>

-----------------------------------------------------------------------------
(* Types.                                                                  *)

Callers == {Loop} \cup Requests

MaxAge == MaxPass + Lease

Settled == {"NOTIFIED", "AMBIGUOUS", "FAILED"}

BatchStates == {"NONE", "PENDING", "SENDING"} \cup Settled

(* A claim's token is the number of the attempt: attempts only grow, so it *)
(* is as unique as the random one.  0 stands for null.                     *)
Evaluation == [done : BOOLEAN, token : 0..MaxEvaluations, attempts : 0..MaxEvaluations,
               age : 0..MaxAge]

(* `recorded` and `noted` are notificationAttempts and notifiedAt of the   *)
(* alerts the batch lists, `alerts` is alertIds.                           *)
Batch == [state : BatchStates, alerts : SUBSET Alerts, token : 0..MaxDeliveries,
          attempts : 0..MaxDeliveries, age : 0..MaxAge, recorded : 0..MaxDeliveries,
          noted : BOOLEAN]

Steps == {"idle", "list", "sweep", "choose", "claim", "evaluate", "send", "post", "record",
          "mark", "fail", "approve"}

(* Where send was called from; `todo`: the batches of a pass still to be   *)
(* tried; `posts`: rejected HTTP exchanges of this delivery.               *)
Caller == [step : Steps, from : {"sweep", "evaluation", "approval"}, run : Runs \cup {NoRun},
           todo : SUBSET Runs, clock : 0..MaxPass, evaluating : 0..MaxEvaluations,
           sending : 0..MaxDeliveries, posts : 0..HttpAttempts, outcome : Settled \cup {"NONE"}]

(* Every row and caller is well formed; in particular no run is evaluated  *)
(* and no batch delivered more often than the limits say.                  *)
TypeOK ==
    /\ reported \subseteq Runs
    /\ evaluation \in [Runs -> Evaluation]
    /\ batch \in [Runs -> Batch]
    /\ stored \in [Runs -> SUBSET Alerts]
    /\ approved \in BOOLEAN
    /\ callers \in [Callers -> Caller]
    /\ delivered \in [Runs -> Nat]
    /\ faults \in 0..MaxFaults

Idle == [step |-> "idle", from |-> "sweep", run |-> NoRun, todo |-> {}, clock |-> 0,
         evaluating |-> 0, sending |-> 0, posts |-> 0, outcome |-> "NONE"]

Init ==
    /\ reported = {}
    /\ evaluation = [r \in Runs |-> [done |-> FALSE, token |-> 0, attempts |-> 0, age |-> 0]]
    /\ batch = [r \in Runs |-> [state |-> "NONE", alerts |-> {}, token |-> 0, attempts |-> 0,
                                age |-> 0, recorded |-> 0, noted |-> FALSE]]
    /\ stored = [r \in Runs |-> {}]
    /\ approved = FALSE
    /\ callers = [c \in Callers |-> Idle]
    /\ delivered = [r \in Runs |-> 0]
    /\ faults = 0

-----------------------------------------------------------------------------
(* Control.                                                                *)

Goto(c, step) ==
    IF step = "idle" THEN Idle
    ELSE [callers[c] EXCEPT !.step = step, !.sending = 0, !.posts = 0, !.outcome = "NONE"]

(* The loop looks for the next run to evaluate; a handler has only its     *)
(* own.                                                                    *)
Resume(c) ==
    IF c = Loop THEN [Idle EXCEPT !.step = "choose", !.clock = callers[Loop].clock] ELSE Idle

AfterSend(c) == [sweep |-> "sweep", evaluation |-> "mark", approval |-> "idle"][callers[c].from]

(* An exception from send aborts a pass, fails an evaluation, and is       *)
(* answered to the administrator.                                          *)
ThrownBySend(c) == [sweep |-> "idle", evaluation |-> "fail", approval |-> "idle"][callers[c].from]

At(c, step) == callers[c].step = step

Moves(c, next) == callers' = [callers EXCEPT ![c] = next]

-----------------------------------------------------------------------------
(* Callers start.                                                          *)

(* A report of the run is accepted, or answered again, and reconcileRun    *)
(* follows in the same call.                                               *)
Ingest(c, r) ==
    /\ At(c, "idle")
    /\ reported' = reported \cup {r}
    /\ Moves(c, [Idle EXCEPT !.step = "choose", !.run = r])
    /\ UNCHANGED <<evaluation, batch, stored, approved, delivered, faults>>

(* The preview the administrator confirms is that of a stored batch, which *)
(* the first approval of all must find PENDING.                            *)
Preview(c, r) ==
    /\ At(c, "idle")
    /\ batch[r].state # "NONE"
    /\ approved \/ batch[r].state = "PENDING"
    /\ Moves(c, [Idle EXCEPT !.step = "approve", !.from = "approval", !.run = r])
    /\ UNCHANGED <<reported, evaluation, batch, stored, approved, delivered, faults>>

Approve(c) ==
    /\ At(c, "approve")
    /\ approved' = TRUE
    /\ Moves(c, Goto(c, "send"))
    /\ UNCHANGED <<reported, evaluation, batch, stored, delivered, faults>>

StartPass ==
    /\ At(Loop, "idle")
    /\ Moves(Loop, [Idle EXCEPT !.step = "list"])
    /\ UNCHANGED <<reported, evaluation, batch, stored, approved, delivered, faults>>

-----------------------------------------------------------------------------
(* Rows of batches.                                                        *)

(* completeAttempt and markAbandonedAttemptsAmbiguous: the batch leaves    *)
(* SENDING and its alerts learn of the attempt.                            *)
Closed(b, state) ==
    [b EXCEPT !.state = state, !.token = 0, !.age = 0, !.recorded = @ + 1,
              !.noted = @ \/ state = "NOTIFIED"]

NotifiedWhenUnanswered(b, outcome) ==
    IF outcome = "FAILED" /\ b.attempts < MaxDeliveries THEN "PENDING"
    ELSE IF outcome = "AMBIGUOUS" THEN "NOTIFIED" ELSE outcome

RetriesUnanswered(b, outcome) ==
    IF outcome # "NOTIFIED" /\ b.attempts < MaxDeliveries THEN "PENDING" ELSE outcome

(* A definite failure leaves the batch to be tried again, up to the limit. *)
StateAfter(b, outcome) ==
    IF outcome = "FAILED" /\ b.attempts < MaxDeliveries THEN "PENDING" ELSE outcome

AbandonedIfRecent(b, clock) == b.state = "SENDING" /\ b.age + Lease <= clock

(* The attempt began a lease or more before `attemptedAt`.                 *)
Abandoned(b, clock) == b.state = "SENDING" /\ b.age >= clock + Lease

ResendsAbandoned(b) ==
    (b.state = "PENDING" \/ Abandoned(b, 0)) /\ b.attempts < MaxDeliveries

ResendsAtOnce(b) == b.state \in {"PENDING", "SENDING"} /\ b.attempts < MaxDeliveries

Retryable(b) == b.state = "PENDING" /\ b.attempts < MaxDeliveries

-----------------------------------------------------------------------------
(* The loop's pass.                                                        *)

(* The batches whose sender went silent are closed one by one.             *)
CloseAbandoned ==
    /\ At(Loop, "list")
    /\ \E r \in Runs :
          /\ Abandoned(batch[r], callers[Loop].clock)
          /\ batch' = [batch EXCEPT ![r] = Closed(@, "AMBIGUOUS")]
    /\ UNCHANGED <<reported, evaluation, stored, approved, callers, delivered, faults>>

ListPending ==
    /\ At(Loop, "list")
    /\ \A r \in Runs : ~Abandoned(batch[r], callers[Loop].clock)
    /\ Moves(Loop, [callers[Loop] EXCEPT !.step = "sweep",
                                         !.todo = {r \in Runs : Retryable(batch[r])}])
    /\ UNCHANGED <<reported, evaluation, batch, stored, approved, delivered, faults>>

Sweep ==
    /\ At(Loop, "sweep")
    /\ \/ /\ callers[Loop].todo = {}
          /\ Moves(Loop, Resume(Loop))
       \/ \E r \in callers[Loop].todo :
             Moves(Loop, [callers[Loop] EXCEPT !.step = "send", !.from = "sweep", !.run = r,
                                               !.todo = @ \ {r}])
    /\ UNCHANGED <<reported, evaluation, batch, stored, approved, delivered, faults>>

-----------------------------------------------------------------------------
(* Evaluation.                                                             *)

NeverReclaimed(r, clock) ==
    ~evaluation[r].done /\ evaluation[r].attempts < MaxEvaluations /\ evaluation[r].token = 0

TriedForEver(r, clock) ==
    ~evaluation[r].done /\ (evaluation[r].token = 0 \/ evaluation[r].age >= clock + Lease)

(* Nobody holds the run, or its holder's lease is over.                    *)
Free(r, clock) ==
    /\ ~evaluation[r].done
    /\ evaluation[r].attempts < MaxEvaluations
    /\ evaluation[r].token = 0 \/ evaluation[r].age >= clock + Lease

(* A run somebody tried since `attemptedAt` is left for a later pass.      *)
Candidates(c) ==
    {r \in reported : /\ c = Loop \/ r = callers[c].run
                      /\ Free(r, callers[c].clock)
                      /\ evaluation[r].attempts > 0 => evaluation[r].age > callers[c].clock}

Choose(c) ==
    /\ At(c, "choose")
    /\ \/ /\ Candidates(c) = {}
          /\ Moves(c, Idle)
       \/ \E r \in Candidates(c) : Moves(c, [callers[c] EXCEPT !.step = "claim", !.run = r])
    /\ UNCHANGED <<reported, evaluation, batch, stored, approved, delivered, faults>>

(* The UPDATE checks again, though not when the run was last tried, and    *)
(* losing the race ends the pass.                                          *)
ClaimRun(c) ==
    LET r == callers[c].run
        n == evaluation[r].attempts + 1
    IN  /\ At(c, "claim")
        /\ \/ /\ Free(r, callers[c].clock)
              /\ evaluation' = [evaluation EXCEPT
                    ![r] = [@ EXCEPT !.token = n, !.attempts = n, !.age = callers[c].clock]]
              /\ Moves(c, [Goto(c, "evaluate") EXCEPT
                              !.evaluating = n, !.clock = IF c = Loop THEN @ ELSE 0])
           \/ /\ ~Free(r, callers[c].clock)
              /\ Moves(c, Idle)
              /\ UNCHANGED evaluation
        /\ UNCHANGED <<reported, batch, stored, approved, delivered, faults>>

RewritesBatch(b, new) ==
    [b EXCEPT !.state = IF @ = "NONE" THEN "PENDING" ELSE @, !.alerts = new]

(* createMany with skipDuplicates: the first evaluation's batch stands.    *)
EnsureBatch(b, new) ==
    IF b.state = "NONE" THEN [b EXCEPT !.state = "PENDING", !.alerts = new] ELSE b

(* One transaction: alerts not stored yet are, and the batch lists them.   *)
Evaluate(c) ==
    LET r == callers[c].run
    IN  /\ At(c, "evaluate")
        /\ \E found \in Findings :
              /\ stored' = [stored EXCEPT ![r] = @ \cup found]
              /\ batch' = [batch EXCEPT ![r] = EnsureBatch(@, found \ stored[r])]
        /\ Moves(c, [Goto(c, "send") EXCEPT !.from = "evaluation"])
        /\ UNCHANGED <<reported, evaluation, approved, delivered, faults>>

Holds(c) ==
    LET e == evaluation[callers[c].run]
    IN  e.token = callers[c].evaluating /\ ~e.done

MarkEvaluated(c) ==
    LET r == callers[c].run
    IN  /\ At(c, "mark")
        /\ \/ /\ Holds(c)
              /\ evaluation' = [evaluation EXCEPT ![r] = [@ EXCEPT !.token = 0, !.done = TRUE,
                                                                   !.age = 0]]
              /\ Moves(c, Resume(c))
           \/ /\ ~Holds(c)
              /\ Moves(c, Goto(c, "fail"))
              /\ UNCHANGED evaluation
        /\ UNCHANGED <<reported, batch, stored, approved, delivered, faults>>

(* The failure of one evaluation is recorded and the pass goes on; when it *)
(* cannot be recorded the pass ends.                                       *)
RecordEvaluationFailure(c) ==
    LET r == callers[c].run
    IN  /\ At(c, "fail")
        /\ \/ /\ Holds(c)
              /\ evaluation' = [evaluation EXCEPT ![r] = [@ EXCEPT !.token = 0]]
              /\ Moves(c, Resume(c))
           \/ /\ ~Holds(c)
              /\ Moves(c, Idle)
              /\ UNCHANGED evaluation
        /\ UNCHANGED <<reported, batch, stored, approved, delivered, faults>>

-----------------------------------------------------------------------------
(* Delivery.                                                               *)

MaySendAlways == TRUE

(* isLiveSendingApproved; an approval is never withdrawn.                  *)
MaySend == approved

ForgetsAlerts(b) ==
    IF Abandoned(b, 0) THEN [b EXCEPT !.state = "AMBIGUOUS", !.token = 0, !.age = 0]
    ELSE IF b.state = "PENDING" THEN [b EXCEPT !.state = "FAILED"]
    ELSE b

FailsSettled(b) ==
    IF Abandoned(b, 0) THEN Closed(b, "AMBIGUOUS")
    ELSE IF b.state # "SENDING" THEN [b EXCEPT !.state = "FAILED"]
    ELSE b

(* What claimBatch makes of a batch it does not hand out: a silent         *)
(* sender's is closed, one tried too often has failed.                     *)
Withheld(b) ==
    IF Abandoned(b, 0) THEN Closed(b, "AMBIGUOUS")
    ELSE IF b.state = "PENDING" THEN [b EXCEPT !.state = "FAILED"]
    ELSE b

ClaimBatch(c) ==
    LET r == callers[c].run
        n == batch[r].attempts + 1
    IN  /\ At(c, "send")
        /\ \/ /\ MaySend
              /\ Retryable(batch[r])
              /\ batch' = [batch EXCEPT ![r] = [@ EXCEPT !.state = "SENDING", !.token = n,
                                                         !.attempts = n, !.age = 0]]
              /\ Moves(c, [Goto(c, "post") EXCEPT !.sending = n])
           \/ /\ MaySend => ~Retryable(batch[r])
              /\ batch' = IF MaySend THEN [batch EXCEPT ![r] = Withheld(@)] ELSE batch
              /\ Moves(c, Goto(c, AfterSend(c)))
        /\ UNCHANGED <<reported, evaluation, stored, approved, delivered, faults>>

Learns(c, outcome) == Moves(c, [callers[c] EXCEPT !.step = "record", !.outcome = outcome])

(* The webhook setting is missing or unreadable.                           *)
NoSender(c) ==
    /\ At(c, "post")
    /\ callers[c].posts = 0
    /\ Learns(c, "FAILED")
    /\ UNCHANGED <<reported, evaluation, batch, stored, approved, delivered, faults>>

(* WeCom refuses the message: it is posted again, so many times.           *)
Rejected(c) ==
    /\ At(c, "post")
    /\ IF callers[c].posts + 1 < HttpAttempts
       THEN Moves(c, [callers[c] EXCEPT !.posts = @ + 1])
       ELSE Learns(c, "FAILED")
    /\ UNCHANGED <<reported, evaluation, batch, stored, approved, delivered, faults>>

(* No answer, or one that cannot be read, to a message WeCom took or not.  *)
Unanswered(c) ==
    /\ At(c, "post")
    /\ Learns(c, "AMBIGUOUS")
    /\ \E taken \in {0, 1} :
          delivered' = [delivered EXCEPT ![callers[c].run] = @ + taken]
    /\ UNCHANGED <<reported, evaluation, batch, stored, approved, faults>>

Delivered(c) ==
    /\ At(c, "post")
    /\ Learns(c, "NOTIFIED")
    /\ delivered' = [delivered EXCEPT ![callers[c].run] = @ + 1]
    /\ UNCHANGED <<reported, evaluation, batch, stored, approved, faults>>

Owns(c) ==
    LET b == batch[callers[c].run]
    IN  b.state = "SENDING" /\ b.token = callers[c].sending

RecordOutcome(c) ==
    LET r == callers[c].run
    IN  /\ At(c, "record")
        /\ \/ /\ Owns(c)
              /\ batch' = [batch EXCEPT ![r] = Closed(@, StateAfter(@, callers[c].outcome))]
              /\ Moves(c, Goto(c, AfterSend(c)))
           \/ /\ ~Owns(c)
              /\ Moves(c, Goto(c, ThrownBySend(c)))
              /\ UNCHANGED batch
        /\ UNCHANGED <<reported, evaluation, stored, approved, delivered, faults>>

-----------------------------------------------------------------------------
(* Faults and time.                                                        *)

(* A database call fails and changes nothing.                              *)
CallFails(c) ==
    /\ faults < MaxFaults
    /\ \/ /\ callers[c].step \in {"list", "sweep", "choose", "claim", "fail", "approve"}
          /\ Moves(c, Idle)
       \/ /\ callers[c].step \in {"evaluate", "mark"}
          /\ Moves(c, Goto(c, "fail"))
       \/ /\ callers[c].step \in {"send", "record"}
          /\ Moves(c, Goto(c, ThrownBySend(c)))
    /\ faults' = faults + 1
    /\ UNCHANGED <<reported, evaluation, batch, stored, approved, delivered>>

(* The call that claimed a run or a batch was committed and its answer is  *)
(* lost.                                                                   *)
AnswerLost(c) ==
    /\ faults < MaxFaults
    /\ \/ At(c, "evaluate") /\ Moves(c, Idle)
       \/ At(c, "post") /\ callers[c].posts = 0 /\ Moves(c, Goto(c, ThrownBySend(c)))
    /\ faults' = faults + 1
    /\ UNCHANGED <<reported, evaluation, batch, stored, approved, delivered>>

(* The API process stops between any two steps and starts again.           *)
Crash ==
    /\ faults < MaxFaults
    /\ callers' = [c \in Callers |-> Idle]
    /\ faults' = faults + 1
    /\ UNCHANGED <<reported, evaluation, batch, stored, approved, delivered>>

Older(age) == IF age < MaxAge THEN age + 1 ELSE age

(* The callers that work with an `attemptedAt` read earlier.               *)
Timed == {c \in Callers : IF c = Loop THEN ~At(c, "idle")
                          ELSE callers[c].step \in {"choose", "claim"}}

Tick ==
    /\ \A c \in Timed : callers[c].clock < MaxPass
    /\ evaluation' = [r \in Runs |->
           IF evaluation[r].attempts = 0 \/ evaluation[r].done THEN evaluation[r]
           ELSE [evaluation[r] EXCEPT !.age = Older(@)]]
    /\ batch' = [r \in Runs |->
           IF batch[r].state # "SENDING" THEN batch[r] ELSE [batch[r] EXCEPT !.age = Older(@)]]
    /\ callers' = [c \in Callers |->
           IF c \in Timed THEN [callers[c] EXCEPT !.clock = @ + 1] ELSE callers[c]]
    /\ UNCHANGED <<reported, stored, approved, delivered, faults>>

-----------------------------------------------------------------------------
(* What a caller that has begun goes on to do.                             *)
Proceed(c) ==
    \/ Choose(c) \/ ClaimRun(c) \/ Evaluate(c)
    \/ MarkEvaluated(c) \/ RecordEvaluationFailure(c)
    \/ Approve(c)
    \/ ClaimBatch(c) \/ RecordOutcome(c)
    \/ NoSender(c) \/ Rejected(c) \/ Unanswered(c) \/ Delivered(c)

Pass == StartPass \/ CloseAbandoned \/ ListPending \/ Sweep

Next ==
    \/ Pass
    \/ \E c \in Callers : Proceed(c) \/ CallFails(c) \/ AnswerLost(c)
    \/ \E c \in Requests, r \in Runs : Ingest(c, r) \/ Preview(c, r)
    \/ Crash
    \/ Tick

Spec == Init /\ [][Next]_vars

(* The loop's timer keeps firing, what has begun goes on, and time passes. *)
Fairness ==
    /\ WF_vars(Pass \/ Proceed(Loop))
    /\ \A c \in Requests : WF_vars(Proceed(c))
    /\ WF_vars(Tick)

FairSpec == Spec /\ Fairness

-----------------------------------------------------------------------------
(* Properties.                                                             *)

(* WeCom is given at most one message about a run, whatever crashes,       *)
(* retries, expired leases and concurrent senders.                         *)
AtMostOneMessage == \A r \in Runs : delivered[r] <= 1

(* The batch tells operators the truth: what is NOTIFIED was taken by      *)
(* WeCom, what is FAILED or still to be tried was not.                     *)
StateIsTrue ==
    \A r \in Runs :
        /\ batch[r].state = "NOTIFIED" => delivered[r] = 1
        /\ batch[r].state \in {"NONE", "PENDING", "FAILED"} => delivered[r] = 0

(* The alerts of a batch follow it: notified exactly when it is, and with  *)
(* every finished attempt counted once.                                    *)
AlertsFollowBatch ==
    \A r \in Runs :
        /\ batch[r].noted <=> batch[r].state = "NOTIFIED"
        /\ batch[r].recorded + (IF batch[r].state = "SENDING" THEN 1 ELSE 0) = batch[r].attempts

(* Two callers never deliver the same batch, not even one that outlived    *)
(* its lease and one that came after.                                      *)
OneSender ==
    \A c, d \in Callers :
        /\ {callers[c].step, callers[d].step} \subseteq {"post", "record"}
        /\ callers[c].run = callers[d].run
        => c = d

(* Before an administrator's first approval no batch is tried.             *)
UntouchedBeforeApproval ==
    ~approved => \A r \in Runs : batch[r].state \in {"NONE", "PENDING"} /\ batch[r].attempts = 0

(* Every price alert stored for a run is listed by the run's batch, so     *)
(* that it is announced.                                                   *)
AlertsAnnounced == \A r \in Runs : stored[r] = batch[r].alerts

(* A settled batch is never touched again, no evaluation changes what a    *)
(* batch lists, and a finished evaluation is final.                        *)
SettledStands ==
    [][\A r \in Runs :
          /\ batch[r].state \in Settled => batch'[r] = batch[r]
          /\ batch[r].state # "NONE" => batch'[r].alerts = batch[r].alerts
          /\ evaluation[r].done => evaluation'[r] = evaluation[r]]_vars

(* Every reported run gets its batch although a fault ends one evaluation: *)
(* the loop reclaims the run.  (Of MaxEvaluations = 3 attempts one crash   *)
(* can take two, that of a live claim and that of an expired one, so the   *)
(* promise is for a single fault.)                                         *)
ReportedIsPublished == \A r \in Runs : r \in reported ~> batch[r].state # "NONE"

(* Once sending is approved no batch stays open.                           *)
ApprovedIsSettled ==
    \A r \in Runs : approved /\ batch[r].state # "NONE" ~> batch[r].state \in Settled

=============================================================================
