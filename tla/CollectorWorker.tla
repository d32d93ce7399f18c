-------------------------- MODULE CollectorWorker ---------------------------
(***************************************************************************)
(* The collector's process and the API it works for.  One process per      *)
(* agent claims a run, has it collected, uploads the evidence and then the *)
(* report, and removes its checkpoint; on any trouble it releases the run  *)
(* and exits, and somebody starts it again.                                *)
(*                                                                         *)
(* The API's side is CollectionRuns, whose agents may call anything at any *)
(* time: here each call is made by the worker that makes it in the code.   *)
(* A call may stay unanswered: the worker goes on as after a timeout, and  *)
(* the API may still get the call much later (`late`), or never.  What the *)
(* collection itself does to a checkpoint is CheckpointRunner; here it     *)
(* takes shots of evidence and ends with one of several outcomes.          *)
(***************************************************************************)
EXTENDS Integers, FiniteSets

CONSTANTS Models, Slots, Agents, Listings, Reports, Lease, MaxRequests,
          NoRun, NoAgent, NoJob, NoReport,
          Shots,      \* evidence a run may capture
          Evidence,   \* the evidence each report names
          MaxFaults,  \* bound: unanswered calls, crashes, errors, pauses, signals
          Nothing

VARIABLES runs, enabled, active, requests, acked,  \* of CollectionRuns
          store,   \* the evidence the API holds, by run
          late,    \* calls given up by the worker that the API may still get
          disk,    \* the checkpoints of each agent's machine
          worker,  \* the collector process of each agent
          faults

R == INSTANCE CollectionRuns

table == <<runs, enabled, active, requests, acked>>

api == <<runs, enabled, active, requests, acked, store>>

vars == <<runs, enabled, active, requests, acked, store, late, disk, worker, faults>>

ASSUME EvidenceAssumption == Evidence \in [Reports -> SUBSET Shots]

ASSUME FaultsAssumption == MaxFaults \in Nat

(* What CollectionRuns assumes of its constants.                           *)
ASSUME RunsAssumption ==
    /\ Reports \subseteq R!ReportRecord
    /\ \A rep \in Reports : rep.status = "SUCCEEDED" => rep.own # {}
    /\ Slots \subseteq Nat /\ Lease \in Nat \ {0} /\ MaxRequests \in Nat
    /\ NoReport \notin Reports /\ NoRun \notin R!RunIds
    /\ NoAgent \notin Agents /\ NoJob \notin R!Job

Kinds == {"claim", "heartbeat", "pause", "release", "quarantine", "evidence", "report"}

Call == [kind   : Kinds,
         agent  : Agents,
         run    : R!RunIds \cup {NoRun},
         code   : R!PauseCodes \cup {Nothing},
         shot   : Shots \cup {Nothing},
         report : Reports \cup {NoReport}]

(* `final` is the report of a checkpoint in phase COMPLETE.  A missing     *)
(* file and one without a capture are the same here.                       *)
Checkpoint == [shots : SUBSET Shots, final : Reports \cup {NoReport}]

NoCaptures == [shots |-> {}, final |-> NoReport]

States == {"down", "claim", "collect", "pause", "evidence", "uploading", "report",
           "waiting", "acknowledged", "release", "quarantine"}

(* `tries` counts the failed attempts of retryTransient, `uploaded` is     *)
(* the uploader's memory, `why` the code of a pause.                       *)
Worker == [st       : States,
           run      : R!RunIds \cup {NoRun},
           report   : Reports \cup {NoReport},
           tries    : 0..2,
           uploaded : SUBSET Shots,
           why      : R!PauseCodes \cup {Nothing},
           stopping : BOOLEAN]

(* The run table, calls, checkpoints and processes are well formed; no     *)
(* upload is tried more than three times.                                  *)
TypeOK ==
    /\ R!TypeOK
    /\ store \in [R!RunIds -> SUBSET Shots]
    /\ late \subseteq Call
    /\ disk \in [Agents -> [R!RunIds -> Checkpoint]]
    /\ worker \in [Agents -> Worker]
    /\ faults \in 0..MaxFaults

Fresh(st) == [st |-> st, run |-> NoRun, report |-> NoReport, tries |-> 0,
              uploaded |-> {}, why |-> Nothing, stopping |-> FALSE]

Init ==
    /\ R!Init
    /\ store = [r \in R!RunIds |-> {}]
    /\ late = {}
    /\ disk = [a \in Agents |-> [r \in R!RunIds |-> NoCaptures]]
    /\ worker = [a \in Agents |-> Fresh("down")]
    /\ faults = 0

-----------------------------------------------------------------------------
(* The API takes a call.                                                   *)

CallOf(kind, a, s) ==
    [kind |-> kind, agent |-> a, run |-> worker[a].run, code |-> worker[a].why, shot |-> s,
     report |-> IF kind = "report" THEN worker[a].report ELSE NoReport]

(* withEvidenceRunLock: a RUNNING run takes evidence, a finished one only  *)
(* answers for what it has.                                                *)
MayStore(c) ==
    /\ R!Owned(c.agent, c.run)
    /\ \/ runs[c.run].status = "RUNNING"
       \/ runs[c.run].status \in R!Terminal /\ c.shot \in store[c.run]

MaySubmit(c) ==
    /\ R!Owned(c.agent, c.run)
    /\ runs[c.run].status \in {"RUNNING"} \cup R!Terminal
    /\ R!CoversClaim(c.report, runs[c.run].job)

Accepts(c) ==
    CASE c.kind = "claim"    -> R!OwnStale(c.agent) # {} \/ R!Claimable(c.agent) # {}
      [] c.kind = "evidence" -> MayStore(c)
      [] c.kind = "report"   -> MaySubmit(c)
      [] OTHER               -> R!Working(c.agent, c.run)

TakesOnTable(c) ==
    \/ c.kind = "claim" /\ (R!ReclaimStale(c.agent) \/ R!ClaimQueued(c.agent))
    \/ c.kind = "heartbeat" /\ R!Heartbeat(c.agent, c.run)
    \/ c.kind = "pause" /\ R!Pause(c.agent, c.run, c.code)
    \/ c.kind = "release" /\ R!ReleaseRequeue(c.agent, c.run)
    \/ c.kind = "quarantine" /\ R!ReleaseQuarantine(c.agent, c.run)
    \/ c.kind = "report" /\ R!SubmitReport(c.agent, c.run, c.report)

Takes(c) ==
    /\ Accepts(c)
    /\ \/ TakesOnTable(c) /\ UNCHANGED store
       \/ /\ c.kind = "evidence"
          /\ store' = [store EXCEPT ![c.run] = @ \cup {c.shot}]
          /\ UNCHANGED table

(* How a call of the worker ends.                                          *)
Answered(c) == Takes(c) /\ UNCHANGED <<late, disk, faults>>

Refused(c) == ~Accepts(c) /\ UNCHANGED <<api, late, disk, faults>>

Fault == faults < MaxFaults /\ faults' = faults + 1

Unanswered(c) == Fault /\ late' = late \cup {c} /\ UNCHANGED <<api, disk>>

LateCall(c) ==
    /\ c \in late
    /\ late' = late \ {c}
    /\ Takes(c) \/ UNCHANGED api
    /\ UNCHANGED <<disk, worker, faults>>

-----------------------------------------------------------------------------
(* The worker's loop: main.ts, run, claim.                                 *)

At(a, st) == worker[a].st = st

Goes(a, w) == worker' = [worker EXCEPT ![a] = w]

GoesTo(a, st) == Goes(a, [worker[a] EXCEPT !.st = st])

Local == UNCHANGED <<api, late>>

Start(a) ==
    /\ At(a, "down")
    /\ Goes(a, Fresh("claim"))
    /\ Local /\ UNCHANGED <<disk, faults>>

(* An empty queue is asked again after a while, and so is an API that did  *)
(* not answer.                                                             *)
Claim(a) ==
    /\ At(a, "claim") /\ ~worker[a].stopping
    /\ Answered(CallOf("claim", a, Nothing))
    /\ \E r \in R!RunIds : /\ runs'[r] # runs[r]
                           /\ Goes(a, [worker[a] EXCEPT !.st = "collect", !.run = r])

ClaimUnanswered(a) ==
    /\ At(a, "claim") /\ ~worker[a].stopping
    /\ Unanswered(CallOf("claim", a, Nothing))
    /\ UNCHANGED worker

(* SIGINT or SIGTERM.                                                      *)
Signal(a) ==
    /\ ~At(a, "down") /\ ~worker[a].stopping
    /\ Fault
    /\ Goes(a, [worker[a] EXCEPT !.stopping = TRUE])
    /\ Local /\ UNCHANGED disk

LeaveLoop(a) ==
    /\ At(a, "claim") /\ worker[a].stopping
    /\ Goes(a, Fresh("down"))
    /\ Local /\ UNCHANGED <<disk, faults>>

(* The process dies, or an error ends it without a release: an answer that *)
(* breaks the contract, a checkpoint file that cannot be removed.          *)
Crash(a) ==
    /\ ~At(a, "down")
    /\ Fault
    /\ Goes(a, Fresh("down"))
    /\ Local /\ UNCHANGED disk

-----------------------------------------------------------------------------
(* The run is collected: processJob up to the runner's report.             *)

Saved(a) == disk[a][worker[a].run]

Saves(a, checkpoint) == disk' = [disk EXCEPT ![a] = [@ EXCEPT ![worker[a].run] = checkpoint]]

(* Its failure is logged and no more.                                      *)
Heartbeat(a) ==
    /\ At(a, "collect")
    /\ \/ Answered(CallOf("heartbeat", a, Nothing))
       \/ Unanswered(CallOf("heartbeat", a, Nothing))
    /\ UNCHANGED worker

(* The runner looks for a signal before each step, not before its return.  *)
Capture(a, s) ==
    /\ At(a, "collect") /\ ~worker[a].stopping
    /\ Saved(a).final = NoReport
    /\ s \notin Saved(a).shots
    /\ Saves(a, [Saved(a) EXCEPT !.shots = @ \cup {s}])
    /\ Local /\ UNCHANGED <<worker, faults>>

Reported(a, rep) == Goes(a, [worker[a] EXCEPT !.st = "evidence", !.report = rep])

(* The collection is complete, now or when it was stopped.                 *)
Complete(a, rep) ==
    /\ At(a, "collect")
    /\ Evidence[rep] = Saved(a).shots
    /\ \/ Saved(a).final = rep
       \/ Saved(a).final = NoReport /\ rep.status # "FAILED"
    /\ Saves(a, [Saved(a) EXCEPT !.final = rep])
    /\ Reported(a, rep)
    /\ Local /\ UNCHANGED faults

(* A driver error ends it: the report tells what there is, and a later     *)
(* attempt goes on from the same checkpoint.                               *)
FallShort(a, rep) ==
    /\ At(a, "collect") /\ Saved(a).final = NoReport
    /\ rep.status # "SUCCEEDED" /\ Evidence[rep] = Saved(a).shots
    /\ Reported(a, rep)
    /\ Local /\ UNCHANGED <<disk, faults>>

NeedsOperator(a, code) ==
    /\ At(a, "collect") /\ Saved(a).final = NoReport
    /\ Fault
    /\ Goes(a, [worker[a] EXCEPT !.st = "pause", !.why = code])
    /\ Local /\ UNCHANGED disk

(* Any other error of the runner: an invalid checkpoint is quarantined.    *)
Break(a) ==
    /\ At(a, "collect")
    /\ Fault
    /\ GoesTo(a, "release") \/ GoesTo(a, "quarantine")
    /\ Local /\ UNCHANGED disk

PauseInsists(a) ==
    /\ At(a, "pause")
    /\ Answered(CallOf("pause", a, Nothing))
    /\ Goes(a, [Fresh("claim") EXCEPT !.stopping = worker[a].stopping])

(* After an answer the worker claims its next run; anything else ends the  *)
(* process, which releases nothing.                                        *)
Pause(a) ==
    LET c == CallOf("pause", a, Nothing)
    IN  /\ At(a, "pause")
        /\ \/ /\ Answered(c)
              /\ Goes(a, [Fresh("claim") EXCEPT !.stopping = worker[a].stopping])
           \/ (Refused(c) \/ Unanswered(c)) /\ Goes(a, Fresh("down"))

-----------------------------------------------------------------------------
(* Evidence, then the report, each tried three times: retryTransient.      *)

GivesUpLater(w) == w.tries = 3

GivesUp(w) == w.tries = 2

Retries(a, st) ==
    IF GivesUp(worker[a]) THEN GoesTo(a, "release")
    ELSE Goes(a, [worker[a] EXCEPT !.st = st, !.tries = @ + 1])

(* A signal is looked at before each try, and by the runner.               *)
Interrupted(a) ==
    /\ worker[a].st \in {"collect", "evidence", "report"} /\ worker[a].stopping
    /\ GoesTo(a, "release")
    /\ Local /\ UNCHANGED <<disk, faults>>

Upload(a) ==
    /\ At(a, "evidence") /\ ~worker[a].stopping
    /\ GoesTo(a, "uploading")
    /\ Local /\ UNCHANGED <<disk, faults>>

ToUpload(a) == Saved(a).shots \ worker[a].uploaded

UploadShotOnce(a, s) ==
    LET c == CallOf("evidence", a, s)
        w == [worker[a] EXCEPT !.uploaded = @ \cup {s}]
    IN  /\ At(a, "uploading") /\ s \in ToUpload(a)
        /\ \/ Answered(c) /\ Goes(a, w)
           \/ Refused(c) /\ GoesTo(a, "release")
           \/ /\ Unanswered(c)
              /\ IF GivesUp(w) THEN GoesTo(a, "release")
                 ELSE Goes(a, [w EXCEPT !.st = "evidence", !.tries = @ + 1])

(* What has been acknowledged is skipped by the next try.                  *)
UploadShot(a, s) ==
    LET c == CallOf("evidence", a, s)
    IN  /\ At(a, "uploading") /\ s \in ToUpload(a)
        /\ \/ Answered(c) /\ Goes(a, [worker[a] EXCEPT !.uploaded = @ \cup {s}])
           \/ Refused(c) /\ GoesTo(a, "release")
           \/ Unanswered(c) /\ Retries(a, "evidence")

(* A file that is missing, moved, too large or not the one its key names   *)
(* is an error no try repairs.                                             *)
Unreadable(a) ==
    /\ At(a, "uploading") /\ ToUpload(a) # {}
    /\ Fault
    /\ GoesTo(a, "release")
    /\ Local /\ UNCHANGED disk

Uploaded(a) ==
    /\ At(a, "uploading") /\ ToUpload(a) = {}
    /\ Goes(a, [worker[a] EXCEPT !.st = "report", !.tries = 0])
    /\ Local /\ UNCHANGED <<disk, faults>>

SendReport(a) ==
    LET c == CallOf("report", a, Nothing)
    IN  /\ At(a, "report") /\ ~worker[a].stopping
        /\ \/ Answered(c) /\ GoesTo(a, "waiting")
           \/ Refused(c) /\ GoesTo(a, "release")
           \/ Unanswered(c) /\ Retries(a, "report")

Timeout(a) ==
    /\ At(a, "waiting")
    /\ Fault
    /\ Retries(a, "report")
    /\ UNCHANGED <<api, late, disk>>

Awaits(a, q) ==
    At(a, "waiting") /\ q.agent = a /\ q.run = worker[a].run /\ q.report = worker[a].report

RemovesAnyway(a) ==
    /\ worker[a].st \in {"acknowledged", "release"}
    /\ worker[a].report # NoReport
    /\ Saves(a, NoCaptures)
    /\ Goes(a, [Fresh("claim") EXCEPT !.stopping = worker[a].stopping])
    /\ Local /\ UNCHANGED faults

(* The checkpoint goes, and what the uploader remembers of it.             *)
Remove(a) ==
    /\ At(a, "acknowledged")
    /\ Saves(a, NoCaptures)
    /\ Goes(a, [Fresh("claim") EXCEPT !.stopping = worker[a].stopping])
    /\ Local /\ UNCHANGED faults

(* Whether the call succeeds or not, the process ends.                     *)
Release(a) ==
    \E kind \in {"release", "quarantine"} :
        LET c == CallOf(kind, a, Nothing)
        IN  /\ At(a, kind)
            /\ Answered(c) \/ Refused(c) \/ Unanswered(c)
            /\ Goes(a, Fresh("down"))

-----------------------------------------------------------------------------
(* The API answers a report.                                               *)

Backed(q) == Evidence[q.report] \subseteq store[q.run]

Tells(q, w) ==
    /\ worker' = [a \in Agents |-> IF Awaits(a, q) THEN w[a] ELSE worker[a]]
    /\ UNCHANGED <<store, late, disk, faults>>

Takeable(q) ==
    /\ R!Owned(q.agent, q.run)
    /\ R!Accepts(q) \/ R!Replays(q)
    /\ Backed(q)

Acknowledge(q) ==
    /\ Backed(q)
    /\ R!AcceptReport(q) \/ R!ReplayReport(q)
    /\ Tells(q, [a \in Agents |-> [worker[a] EXCEPT !.st = "acknowledged"]])

Refuse(q) ==
    /\ q.step = "checked" /\ ~Takeable(q)
    /\ R!RejectReport(q)
    /\ Tells(q, [a \in Agents |-> [worker[a] EXCEPT !.st = "release"]])

FailIngest(q) ==
    /\ Fault
    /\ Backed(q)
    /\ R!FailIngest(q)
    /\ UNCHANGED <<store, late, disk, worker>>

AnswerFailed(q) ==
    /\ R!RecordSystemError(q)
    /\ Tells(q, [a \in Agents |-> IF GivesUp(worker[a])
                                  THEN [worker[a] EXCEPT !.st = "release"]
                                  ELSE [worker[a] EXCEPT !.st = "report", !.tries = @ + 1]])

(* The API stops with a request nobody waits for any more.                 *)
Drop(q) ==
    /\ \A a \in Agents : ~Awaits(a, q)
    /\ R!RejectReport(q)
    /\ UNCHANGED <<store, late, disk, worker, faults>>

-----------------------------------------------------------------------------

(* What a running process does next, and its restart.                      *)
Progress(a) ==
    \/ Start(a) \/ Claim(a) \/ LeaveLoop(a)
    \/ \E s \in Shots : Capture(a, s) \/ UploadShot(a, s)
    \/ \E rep \in Reports : Complete(a, rep) \/ FallShort(a, rep)
    \/ Pause(a)
    \/ Interrupted(a)
    \/ Upload(a) \/ Uploaded(a) \/ SendReport(a)
    \/ Remove(a) \/ Release(a)

Trouble(a) ==
    \/ ClaimUnanswered(a) \/ Signal(a) \/ Crash(a)
    \/ \E code \in R!PauseCodes : NeedsOperator(a, code)
    \/ Break(a) \/ Unreadable(a) \/ Timeout(a)

Answer == \E q \in requests : Acknowledge(q) \/ Refuse(q) \/ AnswerFailed(q)

Others ==
    /\ \/ \E m \in Models, s \in Slots : R!CreateOrCoalesce(m, s)
       \/ \E r \in R!RunIds : R!RequeuePaused(r)
    /\ UNCHANGED <<store, late, disk, worker, faults>>

Tick == R!Tick /\ UNCHANGED <<store, late, disk, worker, faults>>

Next ==
    \/ \E a \in Agents : Progress(a) \/ Trouble(a) \/ Heartbeat(a)
    \/ \E c \in late : LateCall(c)
    \/ \E q \in requests : FailIngest(q) \/ Drop(q)
    \/ Answer
    \/ Others
    \/ Tick

(* A process that runs goes on and one that ended is started again, the    *)
(* API answers what it took, and time passes.                              *)
Spec == /\ Init /\ [][Next]_vars
        /\ \A a \in Agents : WF_vars(Progress(a))
        /\ WF_vars(Answer)
        /\ WF_vars(Tick)

-----------------------------------------------------------------------------
(* Properties.                                                             *)

(* A checkpoint with captures disappears only when the API has stored a    *)
(* report of the run that names just those captures.                       *)
CapturesOutliveWork ==
    [][\A a \in Agents, r \in R!RunIds :
          disk[a][r].shots # {} /\ disk'[a][r].shots = {} =>
              /\ runs[r].report # NoReport
              /\ Evidence[runs[r].report] = disk[a][r].shots]_vars

(* When a worker sends a report, the API holds all evidence it names, so   *)
(* no report is refused for want of evidence however the uploads before it *)
(* were cut short, retried or late.                                        *)
SentReportIsBacked ==
    \A a \in Agents : worker[a].st \in {"report", "waiting"} =>
        Evidence[worker[a].report] \subseteq store[worker[a].run]

(* While agents are started again and the API answers, a run that was      *)
(* created or requeued is closed or needs an operator: lost releases,      *)
(* refused pauses, crashes and late calls only delay it.                   *)
RunsComeToAnEnd ==
    \A r \in R!RunIds :
        runs[r].status \in {"QUEUED", "RUNNING"} ~>
            runs[r].status \in R!Terminal \cup R!Paused
=============================================================================
