----------------------- MODULE CollectorWorkerProofs ------------------------
(***************************************************************************)
(* Collectors over an unreliable connection: what they send is backed by   *)
(* evidence, and what they captured is not lost.                           *)
(*                                                                         *)
(* CollectorWorker acts on the run table through R, an instance of         *)
(* CollectionRuns.  What is proved of the table is used here, not proved   *)
(* again: RP is an instance of CollectionRunsProofs with the same          *)
(* constants and variables, whose definitions are shown to be those of R   *)
(* (the lemmas Same...).  On top of it comes what a process and a call in  *)
(* flight know: Fits, place by place of the worker's work.                 *)
(***************************************************************************)
EXTENDS CollectorWorker, TLAPS

RP == INSTANCE CollectionRunsProofs

(* The assumptions under which the theorems of CollectionRunsProofs hold.  *)
LEMMA RunsAssumed ==
    /\ Reports \subseteq RP!ReportRecord
    /\ \A rep \in Reports : rep.status = "SUCCEEDED" => rep.own # {}
    /\ Slots \subseteq Nat /\ Lease \in Nat \ {0} /\ MaxRequests \in Nat
    /\ NoReport \notin Reports /\ NoRun \notin RP!RunIds
    /\ NoAgent \notin Agents /\ NoJob \notin RP!Job
BY RunsAssumption
DEF R!ReportRecord, RP!ReportRecord, R!ReportStatuses, RP!ReportStatuses,
    R!RunIds, RP!RunIds, R!Job, RP!Job

(* The two instances mean the same: sets of values,                        *)
LEMMA SameSets ==
    /\ R!RunIds = RP!RunIds
    /\ R!Job = RP!Job
    /\ R!Unfinished = RP!Unfinished
    /\ R!Terminal = RP!Terminal
    /\ R!Paused = RP!Paused
    /\ R!PauseCodes = RP!PauseCodes
    /\ R!vars = RP!vars
BY DEF R!RunIds, RP!RunIds, R!Job, RP!Job, R!Terminal, RP!Terminal, R!Unfinished, RP!Unfinished,
       R!Paused, RP!Paused, R!PauseCodes, RP!PauseCodes, R!vars, RP!vars,
       R!ReportStatuses, RP!ReportStatuses

(* types,                                                                  *)
LEMMA SameType == /\ R!TypeOK <=> RP!TypeOK
                  /\ (R!TypeOK)' <=> (RP!TypeOK)'
BY SameSets
DEF R!TypeOK, RP!TypeOK, R!Run, RP!Run, R!Request, RP!Request, R!Statuses, RP!Statuses,
    R!Errors, RP!Errors, R!ReportStatuses, RP!ReportStatuses

(* guards and queries,                                                     *)
LEMMA SameHelpers ==
    /\ \A a, r : R!Owned(a, r) <=> RP!Owned(a, r)
    /\ \A a, r : R!Working(a, r) <=> RP!Working(a, r)
    /\ \A c : R!PauseStatus(c) = RP!PauseStatus(c)
    /\ \A a, b : R!Row(a, b) = RP!Row(a, b)
    /\ \A a, r : R!Inspected(a, r) <=> RP!Inspected(a, r)
    /\ \A q : R!Accepts(q) <=> RP!Accepts(q)
    /\ \A q : R!ClaimHolds(q) <=> RP!ClaimHolds(q)
    /\ \A a, b : R!CoversClaim(a, b) <=> RP!CoversClaim(a, b)
    /\ \A m : R!UnfinishedRuns(m) = RP!UnfinishedRuns(m)
    /\ \A m : R!Earliest(m) = RP!Earliest(m)
    /\ \A a : R!OwnStale(a) = RP!OwnStale(a)
    /\ \A a : R!Claimable(a) = RP!Claimable(a)
<1>1. \A a, r : R!Owned(a, r) <=> RP!Owned(a, r)
  BY DEF R!Owned, RP!Owned
<1>2. \A a, r : R!Working(a, r) <=> RP!Working(a, r)
  BY <1>1 DEF R!Working, RP!Working
<1>3. \A c : R!PauseStatus(c) = RP!PauseStatus(c)
  BY DEF R!PauseStatus, RP!PauseStatus
<1>4. \A a, b : R!Row(a, b) = RP!Row(a, b)
  BY DEF R!Row, RP!Row
<1>5. \A a, b : R!CoversClaim(a, b) <=> RP!CoversClaim(a, b)
  BY DEF R!CoversClaim, RP!CoversClaim
<1>6. \A m : R!UnfinishedRuns(m) = RP!UnfinishedRuns(m)
  BY SameSets DEF R!UnfinishedRuns, RP!UnfinishedRuns
<1>7. \A m : R!Earliest(m) = RP!Earliest(m)
  BY SameSets DEF R!Earliest, RP!Earliest
<1>8. \A a : R!OwnStale(a) = RP!OwnStale(a)
  BY SameSets, <1>2 DEF R!OwnStale, RP!OwnStale
<1>9. \A a : R!Claimable(a) = RP!Claimable(a)
  BY SameSets DEF R!Claimable, RP!Claimable
<1>10. \A a, r : R!Inspected(a, r) <=> RP!Inspected(a, r)
  BY <1>1 DEF R!Inspected, RP!Inspected
<1>11. \A q : R!Accepts(q) <=> RP!Accepts(q)
  BY <1>1 DEF R!Accepts, RP!Accepts
<1>12. \A q : R!ClaimHolds(q) <=> RP!ClaimHolds(q)
  BY <1>5 DEF R!ClaimHolds, RP!ClaimHolds
<1> QED
  BY <1>1, <1>2, <1>3, <1>4, <1>5, <1>6, <1>7, <1>8, <1>9, <1>10, <1>11, <1>12

(* actions,                                                                *)
LEMMA SameActions ==
    /\ \A x, y : R!SetModelEnabled(x, y) <=> RP!SetModelEnabled(x, y)
    /\ \A x, y : R!UpdateListing(x, y) <=> RP!UpdateListing(x, y)
    /\ \A x, y : R!CreateOrCoalesce(x, y) <=> RP!CreateOrCoalesce(x, y)
    /\ \A x : R!RequeuePaused(x) <=> RP!RequeuePaused(x)
    /\ \A x : R!ReclaimStale(x) <=> RP!ReclaimStale(x)
    /\ \A x : R!ClaimQueued(x) <=> RP!ClaimQueued(x)
    /\ \A x, y : R!Heartbeat(x, y) <=> RP!Heartbeat(x, y)
    /\ \A x, y, z : R!Pause(x, y, z) <=> RP!Pause(x, y, z)
    /\ \A x, y : R!ReleaseRequeue(x, y) <=> RP!ReleaseRequeue(x, y)
    /\ \A x, y : R!ReleaseQuarantine(x, y) <=> RP!ReleaseQuarantine(x, y)
    /\ \A x, y, z : R!SubmitReport(x, y, z) <=> RP!SubmitReport(x, y, z)
    /\ \A x : R!AcceptReport(x) <=> RP!AcceptReport(x)
    /\ \A x : R!ReplayReport(x) <=> RP!ReplayReport(x)
    /\ \A x : R!RejectReport(x) <=> RP!RejectReport(x)
    /\ \A x : R!FailIngest(x) <=> RP!FailIngest(x)
    /\ \A x : R!RecordSystemError(x) <=> RP!RecordSystemError(x)
    /\ R!Tick <=> RP!Tick
<1>1. \A x, y : R!SetModelEnabled(x, y) <=> RP!SetModelEnabled(x, y)
  BY SameSets, SameHelpers
  DEF R!SetModelEnabled, RP!SetModelEnabled
<1>2. \A x, y : R!UpdateListing(x, y) <=> RP!UpdateListing(x, y)
  BY SameSets, SameHelpers
  DEF R!UpdateListing, RP!UpdateListing
<1>3. \A x, y : R!CreateOrCoalesce(x, y) <=> RP!CreateOrCoalesce(x, y)
  BY SameSets, SameHelpers
  DEF R!CreateOrCoalesce, RP!CreateOrCoalesce, R!ActiveRuns, RP!ActiveRuns,
      R!CoalescingTarget, RP!CoalescingTarget
<1>4. \A x : R!RequeuePaused(x) <=> RP!RequeuePaused(x)
  BY SameSets, SameHelpers
  DEF R!RequeuePaused, RP!RequeuePaused
<1>5. \A x : R!ReclaimStale(x) <=> RP!ReclaimStale(x)
  BY SameSets, SameHelpers
  DEF R!ReclaimStale, RP!ReclaimStale,
      R!JobUsable, RP!JobUsable, R!JobFor, RP!JobFor, R!RebuiltJob, RP!RebuiltJob
<1>6. \A x : R!ClaimQueued(x) <=> RP!ClaimQueued(x)
  BY SameSets, SameHelpers
  DEF R!ClaimQueued, RP!ClaimQueued,
      R!JobUsable, RP!JobUsable, R!JobFor, RP!JobFor, R!RebuiltJob, RP!RebuiltJob
<1>7. \A x, y : R!Heartbeat(x, y) <=> RP!Heartbeat(x, y)
  BY SameSets, SameHelpers
  DEF R!Heartbeat, RP!Heartbeat
<1>8. \A x, y, z : R!Pause(x, y, z) <=> RP!Pause(x, y, z)
  BY SameSets, SameHelpers
  DEF R!Pause, RP!Pause
<1>9. \A x, y : R!ReleaseRequeue(x, y) <=> RP!ReleaseRequeue(x, y)
  BY SameSets, SameHelpers
  DEF R!ReleaseRequeue, RP!ReleaseRequeue
<1>10. \A x, y : R!ReleaseQuarantine(x, y) <=> RP!ReleaseQuarantine(x, y)
  BY SameSets, SameHelpers
  DEF R!ReleaseQuarantine, RP!ReleaseQuarantine
<1>11. \A x, y, z : R!SubmitReport(x, y, z) <=> RP!SubmitReport(x, y, z)
  <2>1. R!Cardinality(requests) = RP!Cardinality(requests)
    BY DEF R!Cardinality, RP!Cardinality
  <2> QED
    BY <2>1, SameSets, SameHelpers DEF R!SubmitReport, RP!SubmitReport
<1>12. \A x : R!AcceptReport(x) <=> RP!AcceptReport(x)
  BY SameSets, SameHelpers
  DEF R!AcceptReport, RP!AcceptReport, R!Accepted, RP!Accepted
<1>13. \A x : R!ReplayReport(x) <=> RP!ReplayReport(x)
  BY SameSets, SameHelpers
  DEF R!ReplayReport, RP!ReplayReport, R!Replays, RP!Replays
<1>14. \A x : R!RejectReport(x) <=> RP!RejectReport(x)
  BY SameSets, SameHelpers
  DEF R!RejectReport, RP!RejectReport
<1>15. \A x : R!FailIngest(x) <=> RP!FailIngest(x)
  BY SameSets, SameHelpers
  DEF R!FailIngest, RP!FailIngest, R!Accepted, RP!Accepted
<1>16. \A x : R!RecordSystemError(x) <=> RP!RecordSystemError(x)
  BY SameSets, SameHelpers
  DEF R!RecordSystemError, RP!RecordSystemError, R!NotesError, RP!NotesError
<1>17. R!Tick <=> RP!Tick
  BY SameSets, SameHelpers
  DEF R!Tick, RP!Tick
<1> QED
  BY <1>1, <1>2, <1>3, <1>4, <1>5, <1>6, <1>7, <1>8, <1>9, <1>10, <1>11, <1>12, <1>13,
     <1>14, <1>15, <1>16, <1>17

(* and steps.                                                              *)
LEMMA SameNext == [R!Next]_(R!vars) <=> [RP!Next]_(RP!vars)
<1>1. R!CatalogNext <=> RP!CatalogNext
  BY SameActions DEF R!CatalogNext, RP!CatalogNext
<1>2. R!QueueNext <=> RP!QueueNext
  BY SameSets, SameActions DEF R!QueueNext, RP!QueueNext
<1>3. R!AgentNext <=> RP!AgentNext
  BY SameSets, SameActions DEF R!AgentNext, RP!AgentNext
<1>4. R!IngestNext <=> RP!IngestNext
  BY SameActions DEF R!IngestNext, RP!IngestNext
<1>5. R!Tick <=> RP!Tick
  BY SameActions
<1> QED
  BY <1>1, <1>2, <1>3, <1>4, <1>5 DEF R!Next, RP!Next, R!vars, RP!vars

-----------------------------------------------------------------------------
(* The inductive invariant.                                                *)

(* A call carries what its kind needs.                                     *)
Sound(c) ==
    /\ c.kind # "claim" => c.run \in R!RunIds
    /\ c.kind = "pause" => c.code \in R!PauseCodes
    /\ c.kind = "evidence" => c.shot \in Shots
    /\ c.kind = "report" => c.report \in Reports

Delivering == {"evidence", "uploading", "report", "waiting", "acknowledged"}

(* What a process in state w, with the checkpoints d on its machine, knows *)
(* at each place of its work: the report it delivers names the captures of *)
(* its checkpoint, what the uploader remembers is in the store, and an     *)
(* acknowledged report is the run's report.                                *)
Fits(w, d) ==
    /\ w.st \notin {"down", "claim"} => w.run \in R!RunIds
    /\ w.st = "pause" => w.why \in R!PauseCodes
    /\ w.st \in {"down", "claim", "collect"} => w.uploaded = {}
    /\ w.st \in Delivering =>
          /\ w.report \in Reports
          /\ Evidence[w.report] = d[w.run].shots
          /\ w.uploaded \subseteq store[w.run]
    /\ w.st \in {"report", "waiting", "acknowledged"} => d[w.run].shots \subseteq w.uploaded
    /\ w.st = "acknowledged" => runs[w.run].report = w.report

Knows(a) == Fits(worker[a], disk[a])

IInv ==
    /\ RP!IInv
    /\ TypeOK
    /\ \A c \in late : Sound(c)
    /\ \A a \in Agents : Knows(a)

-----------------------------------------------------------------------------
(* The API's side of a step.                                               *)

LEMMA RunsTyped == /\ RP!IInv => R!TypeOK
                   /\ RP!IInv' => R!TypeOK'
BY SameType DEF RP!IInv

(* The calls of a worker are well formed.                                  *)
LEMMA CallSound ==
    ASSUME IInv, NEW a \in Agents, NEW kind \in Kinds, NEW s \in Shots \cup {Nothing},
           kind # "claim" => worker[a].st \notin {"down", "claim"},
           kind = "pause" => worker[a].st = "pause",
           kind = "evidence" => s \in Shots,
           kind = "report" => worker[a].st \in Delivering
    PROVE  CallOf(kind, a, s) \in Call /\ Sound(CallOf(kind, a, s))
<1> DEFINE c == CallOf(kind, a, s)
<1>1. worker[a] \in Worker /\ Knows(a)
  BY DEF IInv, TypeOK
<1>2. /\ c.kind = kind /\ c.agent = a /\ c.run = worker[a].run /\ c.code = worker[a].why
      /\ c.shot = s
      /\ c.report = IF kind = "report" THEN worker[a].report ELSE NoReport
  BY DEF CallOf
<1>3. c \in Call
  BY <1>1 DEF CallOf, Call, Worker
<1>4. Sound(c)
  BY <1>1, <1>2 DEF Sound, Knows, Fits
<1> QED
  BY <1>3, <1>4

(* The run table moves as CollectionRuns says, or not at all; the store    *)
(* grows.                                                                  *)
ApiStep ==
    /\ [R!Next]_(R!vars)
    /\ store' \in [R!RunIds -> SUBSET Shots]
    /\ \A r \in R!RunIds : store[r] \subseteq store'[r]

LEMMA StillApi == IInv /\ UNCHANGED api => ApiStep
BY DEF ApiStep, IInv, TypeOK, api, R!vars

LEMMA TableOnly == IInv /\ R!Next /\ UNCHANGED store => ApiStep
BY DEF ApiStep, IInv, TypeOK

LEMMA TakesStep ==
    ASSUME IInv, NEW c \in Call, Sound(c), Takes(c)
    PROVE  ApiStep
<1>1. c.agent \in Agents
  BY DEF Call
<1>2. CASE TakesOnTable(c) /\ UNCHANGED store
  <2>1. R!AgentNext
    BY <1>1, <1>2 DEF TakesOnTable, Sound, R!AgentNext
  <2> QED
    BY <1>2, <2>1, TableOnly DEF R!Next
<1>3. CASE /\ c.kind = "evidence"
           /\ store' = [store EXCEPT ![c.run] = @ \cup {c.shot}]
           /\ UNCHANGED table
  <2>1. c.run \in R!RunIds /\ c.shot \in Shots /\ store \in [R!RunIds -> SUBSET Shots]
    BY <1>3 DEF Sound, IInv, TypeOK
  <2>2. UNCHANGED R!vars
    BY <1>3 DEF table, R!vars
  <2> QED
    BY <1>3, <2>1, <2>2 DEF ApiStep
<1> QED
  BY <1>2, <1>3 DEF Takes

(* A row that has its report stays as it is.                               *)
LEMMA ReportedRowKept ==
    ASSUME IInv, ApiStep, NEW r \in R!RunIds, runs[r].report # NoReport
    PROVE  runs'[r] = runs[r]
<1>1. [RP!Next]_(RP!vars)
  BY SameNext DEF ApiStep
<1>2. RP!TypeOK /\ RP!OutcomeExplained
  BY DEF IInv, RP!IInv
<1>3. r \in RP!RunIds
  BY SameSets
<1> QED
  BY <1>1, <1>2, <1>3, RP!ReportedRowKept, RunsAssumed

-----------------------------------------------------------------------------
(* The worker's side of a step.                                            *)

(* What a process knows lasts while only the API moves.                    *)
LEMMA FitsLasts ==
    ASSUME IInv, ApiStep, NEW w, NEW d, Fits(w, d)
    PROVE  Fits(w, d)'
<1>1. w.st \in Delivering => w.uploaded \subseteq store'[w.run]
  BY DEF ApiStep, Fits, Delivering
<1>2. w.st = "acknowledged" => runs'[w.run].report = w.report
  <2> SUFFICES ASSUME w.st = "acknowledged"
               PROVE  runs'[w.run].report = w.report
    OBVIOUS
  <2>1. w.run \in R!RunIds /\ w.report \in Reports /\ runs[w.run].report = w.report
    BY DEF Fits, Delivering
  <2> QED
    BY <2>1, ReportedRowKept, RunsAssumption
<1> QED
  BY <1>1, <1>2 DEF Fits

(* What a step does to all but the processes and their machines.           *)
Rest ==
    /\ ApiStep
    /\ late' \subseteq Call
    /\ \A c \in late' : Sound(c)
    /\ faults' \in 0..MaxFaults

(* What is left to prove of a step: its types, and what one process knows. *)
LEMMA StepOf ==
    ASSUME IInv, Rest, NEW a \in Agents, NEW w \in Worker, NEW d \in [R!RunIds -> Checkpoint],
           worker' = [worker EXCEPT ![a] = w], disk' = [disk EXCEPT ![a] = d],
           Fits(w, d)'
    PROVE  IInv'
<1>1. RP!IInv'
  BY SameNext, RP!InvStep, RunsAssumed DEF IInv, Rest, ApiStep
<1>2. /\ worker \in [Agents -> Worker]
      /\ disk \in [Agents -> [R!RunIds -> Checkpoint]]
  BY DEF IInv, TypeOK
<1>3. TypeOK'
  BY <1>1, <1>2, RunsTyped DEF TypeOK, Rest, ApiStep
<1>4. ASSUME NEW b \in Agents PROVE Knows(b)'
  <2>1. CASE b = a
    BY <1>2, <2>1 DEF Knows
  <2>2. CASE b # a
    <3>1. PICK v, e : v = worker[b] /\ e = disk[b]
      OBVIOUS
    <3>2. Fits(v, e)'
      BY <3>1, FitsLasts DEF IInv, Knows, Rest
    <3>3. worker'[b] = v /\ disk'[b] = e
      BY <1>2, <2>2, <3>1
    <3> QED
      BY <3>2, <3>3 DEF Knows
  <2> QED
    BY <2>1, <2>2
<1> QED
  BY <1>1, <1>3, <1>4 DEF IInv, Rest

(* The same for a step of the API alone.                                   *)
LEMMA StepOfApi ==
    ASSUME IInv, Rest, UNCHANGED <<worker, disk>>
    PROVE  IInv'
<1>1. RP!IInv'
  BY SameNext, RP!InvStep, RunsAssumed DEF IInv, Rest, ApiStep
<1>2. TypeOK'
  BY <1>1, RunsTyped DEF IInv, TypeOK, Rest, ApiStep
<1>3. ASSUME NEW b \in Agents PROVE Knows(b)'
  <2>1. PICK v, e : v = worker[b] /\ e = disk[b]
    OBVIOUS
  <2>2. Fits(v, e)'
    BY <2>1, FitsLasts DEF IInv, Knows, Rest
  <2> QED
    BY <2>1, <2>2 DEF Knows
<1> QED
  BY <1>1, <1>2, <1>3 DEF IInv, Rest

LEMMA FaultCounts == IInv /\ (Fault \/ UNCHANGED faults) => faults' \in 0..MaxFaults
BY FaultsAssumption DEF IInv, TypeOK, Fault

(* However a call ends, the rest is sound.                                 *)
LEMMA CallRest ==
    ASSUME IInv, NEW c \in Call, Sound(c), Answered(c) \/ Refused(c) \/ Unanswered(c)
    PROVE  Rest /\ UNCHANGED disk
<1>1. /\ late \subseteq Call
      /\ \A x \in late : Sound(x)
  BY DEF IInv, TypeOK
<1>2. CASE Answered(c)
  BY <1>1, <1>2, TakesStep, FaultCounts DEF Answered, Rest
<1>3. CASE Refused(c)
  BY <1>1, <1>3, StillApi, FaultCounts DEF Refused, Rest
<1>4. CASE Unanswered(c)
  BY <1>1, <1>4, StillApi, FaultCounts DEF Unanswered, Rest
<1> QED
  BY <1>2, <1>3, <1>4

LEMMA LocalRest ==
    ASSUME IInv, Local, Fault \/ UNCHANGED faults
    PROVE  Rest
<1>1. /\ late \subseteq Call
      /\ \A x \in late : Sound(x)
  BY DEF IInv, TypeOK
<1> QED
  BY <1>1, StillApi, FaultCounts DEF Local, Rest

(* A process moves, and its machine keeps its checkpoints.                 *)
LEMMA GoesStep ==
    ASSUME IInv, Rest, NEW a \in Agents, NEW w \in Worker, NEW d, d = disk[a],
           Goes(a, w), UNCHANGED disk, Fits(w, d)
    PROVE  IInv'
<1>1. d \in [R!RunIds -> Checkpoint] /\ disk' = [disk EXCEPT ![a] = d]
  BY DEF IInv, TypeOK
<1>2. Fits(w, d)'
  BY FitsLasts DEF Rest
<1> QED
  BY <1>1, <1>2, StepOf DEF Goes

(* A process that ended or looks for work has nothing to know.             *)
LEMMA FreshFits ==
    ASSUME NEW st \in {"down", "claim"}, NEW b \in BOOLEAN, NEW d
    PROVE  /\ Fresh(st) \in Worker /\ Fits(Fresh(st), d)
           /\ [Fresh(st) EXCEPT !.stopping = b] \in Worker
           /\ Fits([Fresh(st) EXCEPT !.stopping = b], d)
BY DEF Fresh, Worker, States, Fits, Delivering

LEMMA FreshStep ==
    ASSUME IInv, Rest, NEW a \in Agents, NEW st \in {"down", "claim"}, UNCHANGED disk,
           \/ Goes(a, Fresh(st))
           \/ Goes(a, [Fresh(st) EXCEPT !.stopping = worker[a].stopping])
    PROVE  IInv'
<1>1. PICK d, b : d = disk[a] /\ b = worker[a].stopping
  OBVIOUS
<1>2. b \in BOOLEAN
  BY <1>1 DEF IInv, TypeOK, Worker
<1>3. CASE Goes(a, Fresh(st))
  BY <1>1, <1>2, <1>3, FreshFits, GoesStep
<1>4. CASE Goes(a, [Fresh(st) EXCEPT !.stopping = worker[a].stopping])
  <2>1. Goes(a, [Fresh(st) EXCEPT !.stopping = b])
    BY <1>1, <1>4
  <2> QED
    BY <1>1, <1>2, <2>1, FreshFits, GoesStep
<1> QED
  BY <1>3, <1>4

(* A process goes to another place of its work and may count a try.        *)
LEMMA PlaceFits ==
    ASSUME NEW v \in Worker, NEW d, NEW w, NEW st \in States, NEW n \in 0..2, Fits(v, d),
           w = [v EXCEPT !.st = st] \/ w = [v EXCEPT !.st = st, !.tries = n],
           v.st \notin {"down", "claim"}, st \notin {"down", "claim", "collect", "pause"},
           st \in Delivering => v.st \in Delivering,
           st \in {"report", "waiting"} => v.st \in {"report", "waiting"},
           st # "acknowledged"
    PROVE  w \in Worker /\ Fits(w, d)
<1>1. w \in Worker
  BY DEF Worker
<1>2. w.st = st /\ w.run = v.run /\ w.report = v.report /\ w.uploaded = v.uploaded
  BY DEF Worker
<1> QED
  BY <1>1, <1>2 DEF Fits, Delivering

LEMMA PlaceStep ==
    ASSUME IInv, Rest, NEW a \in Agents, NEW st \in States, UNCHANGED disk,
           worker[a].st \notin {"down", "claim"}, st \notin {"down", "claim", "collect", "pause"},
           st \in Delivering => worker[a].st \in Delivering,
           st \in {"report", "waiting"} => worker[a].st \in {"report", "waiting"},
           st # "acknowledged",
           GoesTo(a, st)
    PROVE  IInv'
<1>1. PICK v, w, d : v = worker[a] /\ d = disk[a] /\ w = [v EXCEPT !.st = st]
  OBVIOUS
<1>2. v \in Worker /\ Fits(v, d)
  BY <1>1 DEF IInv, TypeOK, Knows
<1>3. 0 \in 0..2
  OBVIOUS
<1>4. w \in Worker /\ Fits(w, d)
  BY <1>1, <1>2, <1>3, PlaceFits
<1> QED
  BY <1>1, <1>4, GoesStep DEF GoesTo

LEMMA TryStep ==
    ASSUME IInv, Rest, NEW a \in Agents, NEW st \in {"evidence", "report"}, NEW n \in 0..2,
           UNCHANGED disk,
           worker[a].st \in Delivering,
           st = "report" => worker[a].st \in {"report", "waiting"},
           Goes(a, [worker[a] EXCEPT !.st = st, !.tries = n])
    PROVE  IInv'
<1>1. PICK v, w, d : v = worker[a] /\ d = disk[a] /\ w = [v EXCEPT !.st = st, !.tries = n]
  OBVIOUS
<1>2. v \in Worker /\ Fits(v, d)
  BY <1>1 DEF IInv, TypeOK, Knows
<1>3. /\ st \in States /\ st \in Delivering
      /\ st \notin {"down", "claim", "collect", "pause", "acknowledged", "waiting"}
  BY DEF Delivering, States
<1>4. v.st \in Delivering /\ v.st \notin {"down", "claim"} /\ (st = "report" => v.st \in {"report", "waiting"})
  BY <1>1 DEF Delivering
<1>5. w \in Worker /\ Fits(w, d)
  BY <1>1, <1>2, <1>3, <1>4, PlaceFits
<1> QED
  BY <1>1, <1>5, GoesStep

-----------------------------------------------------------------------------
(* The steps of a process.                                                 *)

LEMMA StartStep == ASSUME IInv, NEW a \in Agents, Start(a) PROVE IInv'
BY LocalRest, FreshStep DEF Start

LEMMA LeaveLoopStep == ASSUME IInv, NEW a \in Agents, LeaveLoop(a) PROVE IInv'
BY LocalRest, FreshStep DEF LeaveLoop

LEMMA CrashStep == ASSUME IInv, NEW a \in Agents, Crash(a) PROVE IInv'
BY LocalRest, FreshStep DEF Crash

(* A claim that was answered gives the process its run.                    *)
LEMMA ClaimStep == ASSUME IInv, NEW a \in Agents, Claim(a) PROVE IInv'
<1>1. CallOf("claim", a, Nothing) \in Call /\ Sound(CallOf("claim", a, Nothing))
  BY CallSound DEF Kinds
<1>2. Rest /\ UNCHANGED disk
  BY <1>1, CallRest DEF Claim
<1>3. PICK r \in R!RunIds : Goes(a, [worker[a] EXCEPT !.st = "collect", !.run = r])
  BY DEF Claim
<1>4. PICK w, d : w = [worker[a] EXCEPT !.st = "collect", !.run = r] /\ d = disk[a]
  OBVIOUS
<1>5. worker[a] \in Worker /\ worker[a].uploaded = {}
  BY DEF IInv, TypeOK, Knows, Fits, Claim, At
<1>6. w \in Worker /\ w.st = "collect" /\ w.run = r /\ w.uploaded = {}
  BY <1>4, <1>5 DEF Worker, States
<1>7. Fits(w, d)
  BY <1>6 DEF Fits, Delivering
<1> QED
  BY <1>2, <1>3, <1>4, <1>6, <1>7, GoesStep

LEMMA ClaimUnansweredStep == ASSUME IInv, NEW a \in Agents, ClaimUnanswered(a) PROVE IInv'
<1>1. CallOf("claim", a, Nothing) \in Call /\ Sound(CallOf("claim", a, Nothing))
  BY CallSound DEF Kinds
<1> QED
  BY <1>1, CallRest, StepOfApi DEF ClaimUnanswered

LEMMA HeartbeatStep == ASSUME IInv, NEW a \in Agents, Heartbeat(a) PROVE IInv'
<1>1. CallOf("heartbeat", a, Nothing) \in Call /\ Sound(CallOf("heartbeat", a, Nothing))
  BY CallSound DEF Kinds, Heartbeat, At
<1> QED
  BY <1>1, CallRest, StepOfApi DEF Heartbeat

LEMMA SignalStep == ASSUME IInv, NEW a \in Agents, Signal(a) PROVE IInv'
<1>1. PICK v, w, d : v = worker[a] /\ w = [v EXCEPT !.stopping = TRUE] /\ d = disk[a]
  OBVIOUS
<1>2. v \in Worker /\ Fits(v, d)
  BY <1>1 DEF IInv, TypeOK, Knows
<1>3. /\ w \in Worker /\ w.st = v.st /\ w.run = v.run /\ w.report = v.report
      /\ w.uploaded = v.uploaded /\ w.why = v.why
  BY <1>1, <1>2 DEF Worker
<1>4. Fits(w, d)
  BY <1>2, <1>3 DEF Fits
<1>5. Rest
  BY LocalRest DEF Signal
<1> QED
  BY <1>1, <1>3, <1>4, <1>5, GoesStep DEF Signal

(* A capture, and the end of a collection.                                 *)
LEMMA SavesType ==
    ASSUME IInv, NEW a \in Agents, NEW cp \in Checkpoint, Saves(a, cp),
           worker[a].run \in R!RunIds
    PROVE  \E d \in [R!RunIds -> Checkpoint] :
              /\ d = [disk[a] EXCEPT ![worker[a].run] = cp]
              /\ disk' = [disk EXCEPT ![a] = d]
BY DEF IInv, TypeOK, Saves

LEMMA CaptureStep ==
    ASSUME IInv, NEW a \in Agents, NEW s \in Shots, Capture(a, s)
    PROVE  IInv'
<1>1. PICK w : w = worker[a]
  OBVIOUS
<1>2. w \in Worker /\ w.st = "collect" /\ w.run \in R!RunIds /\ w.uploaded = {}
  BY <1>1 DEF IInv, TypeOK, Knows, Fits, Capture, At
<1>3. disk[a][w.run] \in Checkpoint
  BY <1>2 DEF IInv, TypeOK
<1>4. [Saved(a) EXCEPT !.shots = @ \cup {s}] \in Checkpoint
  BY <1>1, <1>3 DEF Saved, Checkpoint
<1>5. PICK d \in [R!RunIds -> Checkpoint] : disk' = [disk EXCEPT ![a] = d]
  BY <1>1, <1>2, <1>4, SavesType DEF Capture
<1>6. Rest
  BY LocalRest DEF Capture
<1>7. Fits(w, d)'
  BY <1>2 DEF Fits, Delivering
<1>8. worker' = [worker EXCEPT ![a] = w]
  BY <1>1 DEF Capture, IInv, TypeOK
<1> QED
  BY <1>2, <1>5, <1>6, <1>7, <1>8, StepOf

(* What the report of a run comes with.                                    *)
LEMMA ReportedFits ==
    ASSUME IInv, NEW a \in Agents, NEW rep \in Reports, NEW d, NEW w,
           At(a, "collect"), w = [worker[a] EXCEPT !.st = "evidence", !.report = rep],
           Evidence[rep] = d[worker[a].run].shots
    PROVE  w \in Worker /\ Fits(w, d)
<1>1. /\ worker[a] \in Worker /\ worker[a].run \in R!RunIds /\ worker[a].uploaded = {}
  BY DEF IInv, TypeOK, Knows, Fits, At
<1>2. /\ w \in Worker /\ w.st = "evidence" /\ w.report = rep /\ w.uploaded = {}
      /\ w.run = worker[a].run
  BY <1>1 DEF Worker, States
<1> QED
  BY <1>1, <1>2 DEF Fits, Delivering

LEMMA CompleteStep ==
    ASSUME IInv, NEW a \in Agents, NEW rep \in Reports, Complete(a, rep)
    PROVE  IInv'
<1>1. PICK v, w, cp : /\ v = worker[a] /\ w = [v EXCEPT !.st = "evidence", !.report = rep]
                      /\ cp = disk[a][v.run]
  OBVIOUS
<1>2. v \in Worker /\ v.run \in R!RunIds
  BY <1>1 DEF IInv, TypeOK, Knows, Fits, Complete, At
<1>3. cp \in Checkpoint
  BY <1>1, <1>2 DEF IInv, TypeOK
<1>4. [cp EXCEPT !.final = rep] \in Checkpoint /\ [cp EXCEPT !.final = rep].shots = cp.shots
  BY <1>3 DEF Checkpoint
<1>5. PICK d \in [R!RunIds -> Checkpoint] :
          /\ d = [disk[a] EXCEPT ![v.run] = [cp EXCEPT !.final = rep]]
          /\ disk' = [disk EXCEPT ![a] = d]
  BY <1>1, <1>2, <1>4, SavesType DEF Complete, Saved
<1>6. d[v.run].shots = cp.shots
  BY <1>1, <1>2, <1>4, <1>5 DEF IInv, TypeOK
<1>7. Rest
  BY LocalRest DEF Complete
<1>8. w \in Worker /\ Fits(w, d)
  BY <1>1, <1>6, ReportedFits DEF Complete, Saved
<1>9. Fits(w, d)'
  BY <1>7, <1>8, FitsLasts DEF Rest
<1> QED
  BY <1>1, <1>5, <1>7, <1>8, <1>9, StepOf DEF Complete, Reported, Goes

LEMMA FallShortStep ==
    ASSUME IInv, NEW a \in Agents, NEW rep \in Reports, FallShort(a, rep)
    PROVE  IInv'
<1>1. PICK w, d : w = [worker[a] EXCEPT !.st = "evidence", !.report = rep] /\ d = disk[a]
  OBVIOUS
<1>2. w \in Worker /\ Fits(w, d)
  BY <1>1, ReportedFits DEF FallShort, Saved
<1>3. Rest
  BY LocalRest DEF FallShort
<1> QED
  BY <1>1, <1>2, <1>3, GoesStep DEF FallShort, Reported

LEMMA NeedsOperatorStep ==
    ASSUME IInv, NEW a \in Agents, NEW code \in R!PauseCodes, NeedsOperator(a, code)
    PROVE  IInv'
<1>1. PICK v, w, d : v = worker[a] /\ w = [v EXCEPT !.st = "pause", !.why = code] /\ d = disk[a]
  OBVIOUS
<1>2. v \in Worker /\ v.run \in R!RunIds
  BY <1>1 DEF IInv, TypeOK, Knows, Fits, NeedsOperator, At
<1>3. w \in Worker /\ w.st = "pause" /\ w.run = v.run /\ w.why = code
  BY <1>1, <1>2 DEF Worker, States
<1>4. Fits(w, d)
  BY <1>2, <1>3 DEF Fits, Delivering
<1>5. Rest
  BY LocalRest DEF NeedsOperator
<1> QED
  BY <1>1, <1>3, <1>4, <1>5, GoesStep DEF NeedsOperator

LEMMA BreakStep == ASSUME IInv, NEW a \in Agents, Break(a) PROVE IInv'
<1>1. Rest
  BY LocalRest DEF Break
<1> QED
  BY <1>1, PlaceStep DEF Break, At, States, Delivering

LEMMA PauseStep == ASSUME IInv, NEW a \in Agents, Pause(a) PROVE IInv'
<1>1. /\ CallOf("pause", a, Nothing) \in Call
      /\ Sound(CallOf("pause", a, Nothing))
  BY CallSound DEF Kinds, Pause, At
<1>2. Rest /\ UNCHANGED disk
  BY <1>1, CallRest DEF Pause
<1> QED
  BY <1>2, FreshStep DEF Pause

LEMMA InterruptedStep == ASSUME IInv, NEW a \in Agents, Interrupted(a) PROVE IInv'
<1>1. Rest
  BY LocalRest DEF Interrupted
<1> QED
  BY <1>1, PlaceStep DEF Interrupted, States, Delivering

LEMMA UploadStep == ASSUME IInv, NEW a \in Agents, Upload(a) PROVE IInv'
<1>1. Rest
  BY LocalRest DEF Upload
<1> QED
  BY <1>1, PlaceStep DEF Upload, At, States, Delivering

LEMMA UnreadableStep == ASSUME IInv, NEW a \in Agents, Unreadable(a) PROVE IInv'
<1>1. Rest
  BY LocalRest DEF Unreadable
<1> QED
  BY <1>1, PlaceStep DEF Unreadable, At, States, Delivering

(* A try that is counted, or the last one.                                 *)
LEMMA RetriesStep ==
    ASSUME IInv, Rest, NEW a \in Agents, NEW st \in {"evidence", "report"}, UNCHANGED disk,
           worker[a].st \in Delivering,
           st = "report" => worker[a].st \in {"report", "waiting"},
           Retries(a, st)
    PROVE  IInv'
<1>1. CASE GivesUp(worker[a])
  BY <1>1, PlaceStep DEF Retries, States, Delivering
<1>2. CASE ~GivesUp(worker[a])
  <2>1. worker[a].tries \in 0..2
    BY DEF IInv, TypeOK, Worker
  <2>2. worker[a].tries + 1 \in 0..2
    BY <1>2, <2>1 DEF GivesUp
  <2>3. Goes(a, [worker[a] EXCEPT !.st = st, !.tries = worker[a].tries + 1])
    BY <1>2 DEF Retries
  <2> QED
    BY <2>2, <2>3, TryStep
<1> QED
  BY <1>1, <1>2

(* What has been acknowledged is in the store.                             *)
LEMMA UploadShotStep ==
    ASSUME IInv, NEW a \in Agents, NEW s \in Shots, UploadShot(a, s)
    PROVE  IInv'
<1> DEFINE c == CallOf("evidence", a, s)
<1>1. c \in Call /\ Sound(c)
  BY CallSound DEF Kinds, UploadShot, At
<1>2. Answered(c) \/ Refused(c) \/ Unanswered(c)
  BY DEF UploadShot
<1>3. Rest /\ UNCHANGED disk
  BY <1>1, <1>2, CallRest
<1>4. CASE Answered(c) /\ Goes(a, [worker[a] EXCEPT !.uploaded = @ \cup {s}])
  <2>1. PICK v, w, d : /\ v = worker[a] /\ d = disk[a]
                       /\ w = [v EXCEPT !.uploaded = @ \cup {s}]
    OBVIOUS
  <2>2. v \in Worker /\ Fits(v, d) /\ v.st = "uploading"
    BY <2>1 DEF IInv, TypeOK, Knows, UploadShot, At
  <2>3. /\ w \in Worker /\ w.st = v.st /\ w.run = v.run /\ w.report = v.report
        /\ w.uploaded = v.uploaded \cup {s}
    BY <2>1, <2>2 DEF Worker
  <2>4. Fits(v, d)'
    BY <1>3, <2>2, FitsLasts DEF Rest
  <2>5. s \in store'[v.run]
    <3>1. c.kind = "evidence" /\ c.run = v.run /\ c.shot = s
      BY <2>1 DEF CallOf
    <3>2. store' = [store EXCEPT ![v.run] = @ \cup {s}]
      BY <1>4, <3>1 DEF Answered, Takes, TakesOnTable
    <3>3. v.run \in R!RunIds /\ store \in [R!RunIds -> SUBSET Shots]
      BY <2>2 DEF Fits, IInv, TypeOK
    <3> QED
      BY <3>2, <3>3
  <2>6. Fits(w, d)'
    BY <2>2, <2>3, <2>4, <2>5 DEF Fits, Delivering
  <2>7. d \in [R!RunIds -> Checkpoint] /\ disk' = [disk EXCEPT ![a] = d]
    BY <1>3, <2>1 DEF IInv, TypeOK
  <2> QED
    BY <1>3, <1>4, <2>1, <2>3, <2>6, <2>7, StepOf DEF Goes
<1>5. CASE Refused(c) /\ GoesTo(a, "release")
  BY <1>3, <1>5, PlaceStep DEF UploadShot, At, States, Delivering
<1>6. CASE Unanswered(c) /\ Retries(a, "evidence")
  BY <1>3, <1>6, RetriesStep DEF UploadShot, At, Delivering
<1> QED
  BY <1>4, <1>5, <1>6 DEF UploadShot

(* All of a checkpoint's captures have been acknowledged.                  *)
LEMMA UploadedStep == ASSUME IInv, NEW a \in Agents, Uploaded(a) PROVE IInv'
<1>1. PICK v, w, d : v = worker[a] /\ w = [v EXCEPT !.st = "report", !.tries = 0] /\ d = disk[a]
  OBVIOUS
<1>2. v \in Worker /\ Fits(v, d) /\ v.st = "uploading"
  BY <1>1 DEF IInv, TypeOK, Knows, Uploaded, At
<1>3. /\ w \in Worker /\ w.st = "report" /\ w.run = v.run /\ w.report = v.report
      /\ w.uploaded = v.uploaded
  <2>1. "report" \in States /\ 0 \in 0..2
    BY DEF States
  <2> QED
    BY <1>1, <1>2, <2>1 DEF Worker
<1>4. d[v.run].shots \subseteq v.uploaded
  BY <1>1 DEF Uploaded, ToUpload, Saved
<1>5. Fits(w, d)
  BY <1>2, <1>3, <1>4 DEF Fits, Delivering
<1>6. Rest
  BY LocalRest DEF Uploaded
<1> QED
  BY <1>1, <1>3, <1>5, <1>6, GoesStep DEF Uploaded

LEMMA SendReportStep == ASSUME IInv, NEW a \in Agents, SendReport(a) PROVE IInv'
<1> DEFINE c == CallOf("report", a, Nothing)
<1>0. At(a, "report")
  BY DEF SendReport
<1>1. c \in Call /\ Sound(c)
  BY <1>0, CallSound DEF Kinds, At, Delivering
<1>2. Answered(c) \/ Refused(c) \/ Unanswered(c)
  BY DEF SendReport
<1>3. Rest /\ UNCHANGED disk
  BY <1>1, <1>2, CallRest
<1>4. CASE GoesTo(a, "waiting") \/ GoesTo(a, "release")
  BY <1>0, <1>3, <1>4, PlaceStep DEF At, States, Delivering
<1>5. CASE Retries(a, "report")
  BY <1>0, <1>3, <1>5, RetriesStep DEF At, Delivering
<1> QED
  BY <1>4, <1>5 DEF SendReport

LEMMA TimeoutStep == ASSUME IInv, NEW a \in Agents, Timeout(a) PROVE IInv'
<1>1. Rest /\ UNCHANGED disk
  BY StillApi, FaultCounts DEF Timeout, Rest, IInv, TypeOK
<1> QED
  BY <1>1, RetriesStep DEF Timeout, At, Delivering

LEMMA ReleaseStep == ASSUME IInv, NEW a \in Agents, Release(a) PROVE IInv'
<1>1. PICK kind \in {"release", "quarantine"} :
          /\ At(a, kind)
          /\ \/ Answered(CallOf(kind, a, Nothing))
             \/ Refused(CallOf(kind, a, Nothing))
             \/ Unanswered(CallOf(kind, a, Nothing))
          /\ Goes(a, Fresh("down"))
  BY DEF Release
<1>2. CallOf(kind, a, Nothing) \in Call /\ Sound(CallOf(kind, a, Nothing))
  BY <1>1, CallSound DEF Kinds, At
<1>3. Rest /\ UNCHANGED disk
  BY <1>1, <1>2, CallRest
<1> QED
  BY <1>1, <1>3, FreshStep

(* The checkpoint goes with the work done.                                 *)
LEMMA RemoveStep == ASSUME IInv, NEW a \in Agents, Remove(a) PROVE IInv'
<1>1. PICK w : w = [Fresh("claim") EXCEPT !.stopping = worker[a].stopping]
  OBVIOUS
<1>2. worker[a].stopping \in BOOLEAN /\ worker[a].run \in R!RunIds
  BY DEF IInv, TypeOK, Worker, Knows, Fits, Remove, At
<1>3. NoCaptures \in Checkpoint
  BY DEF NoCaptures, Checkpoint
<1>4. PICK d \in [R!RunIds -> Checkpoint] : disk' = [disk EXCEPT ![a] = d]
  BY <1>2, <1>3, SavesType DEF Remove
<1>5. Rest
  BY LocalRest DEF Remove
<1>6. w \in Worker /\ Fits(w, d)
  BY <1>1, <1>2, FreshFits
<1>7. Fits(w, d)'
  BY <1>5, <1>6, FitsLasts DEF Rest
<1> QED
  BY <1>1, <1>4, <1>5, <1>6, <1>7, StepOf DEF Remove, Goes

-----------------------------------------------------------------------------
(* The steps of the API and of the world.                                  *)

(* A step of the table that leaves the rest to the processes.              *)
LEMMA TableRest ==
    ASSUME IInv, R!Next, UNCHANGED <<store, late>>, Fault \/ UNCHANGED faults
    PROVE  Rest
<1>1. /\ late \subseteq Call
      /\ \A x \in late : Sound(x)
  BY DEF IInv, TypeOK
<1> QED
  BY <1>1, TableOnly, FaultCounts DEF Rest

LEMMA LateCallStep == ASSUME IInv, NEW c \in late, LateCall(c) PROVE IInv'
<1>1. c \in Call /\ Sound(c) /\ late \subseteq Call /\ \A x \in late : Sound(x)
  BY DEF IInv, TypeOK
<1>2. ApiStep
  BY <1>1, TakesStep, StillApi DEF LateCall
<1>3. Rest
  BY <1>1, <1>2, FaultCounts DEF LateCall, Rest
<1> QED
  BY <1>3, StepOfApi DEF LateCall

LEMMA OthersStep == ASSUME IInv, Others \/ Tick PROVE IInv'
<1>1. CASE Others
  <2>1. R!Next
    BY <1>1 DEF Others, R!Next, R!QueueNext
  <2> QED
    BY <1>1, <2>1, TableRest, StepOfApi DEF Others
<1>2. CASE Tick
  <2>1. R!Next
    BY <1>2 DEF Tick, R!Next
  <2> QED
    BY <1>2, <2>1, TableRest, StepOfApi DEF Tick
<1> QED
  BY <1>1, <1>2

LEMMA RequestStep == ASSUME IInv, NEW q \in requests, FailIngest(q) \/ Drop(q) PROVE IInv'
<1>1. CASE FailIngest(q)
  <2>1. R!Next
    BY <1>1 DEF FailIngest, R!Next, R!IngestNext
  <2> QED
    BY <1>1, <2>1, TableRest, StepOfApi DEF FailIngest
<1>2. CASE Drop(q)
  <2>1. R!Next
    BY <1>2 DEF Drop, R!Next, R!IngestNext
  <2> QED
    BY <1>2, <2>1, TableRest, StepOfApi DEF Drop
<1> QED
  BY <1>1, <1>2

(* An answer is for one process at most: the one that sent the report and  *)
(* still waits.                                                            *)
LEMMA TellsOne ==
    ASSUME IInv, NEW q \in requests, NEW f, Tells(q, f)
    PROVE  /\ q.agent \in Agents
           /\ Awaits(q.agent, q) => worker' = [worker EXCEPT ![q.agent] = f[q.agent]]
           /\ ~Awaits(q.agent, q) => worker' = worker
<1>1. q.agent \in Agents
  BY RunsTyped DEF IInv, R!TypeOK, R!Request
<1>2. \A a \in Agents : Awaits(a, q) => a = q.agent
  BY DEF Awaits
<1>3. worker' = [a \in Agents |-> IF Awaits(a, q) THEN f[a] ELSE worker[a]]
  BY DEF Tells
<1>4. worker \in [Agents -> Worker]
  BY DEF IInv, TypeOK
<1> HIDE DEF Awaits, Tells
<1> QED
  BY <1>1, <1>2, <1>3, <1>4

(* The row has the report its submitter is told of.                        *)
LEMMA ToldOfStored ==
    ASSUME IInv, NEW q \in requests, R!AcceptReport(q) \/ R!ReplayReport(q)
    PROVE  runs'[q.run].report = q.report
<1>1. /\ q.run \in R!RunIds /\ runs \in [R!RunIds -> R!Run]
  BY RunsTyped DEF IInv, R!TypeOK, R!Request
<1>2. CASE R!AcceptReport(q)
  <2>1. runs' = [runs EXCEPT ![q.run] = [@ EXCEPT !.status = q.report.status, !.report = q.report,
                                                  !.error = "", !.age = 0]]
    BY <1>2 DEF R!AcceptReport, R!Accepted
  <2>2. runs[q.run] \in R!Run
    BY <1>1
  <2> QED
    BY <1>1, <2>1, <2>2 DEF R!Run
<1>3. CASE R!ReplayReport(q)
  BY <1>3 DEF R!ReplayReport, R!Replays
<1> QED
  BY <1>2, <1>3

LEMMA AcknowledgeStep == ASSUME IInv, NEW q \in requests, Acknowledge(q) PROVE IInv'
<1>1. PICK a, f : a = q.agent /\ f = [b \in Agents |-> [worker[b] EXCEPT !.st = "acknowledged"]]
  OBVIOUS
<1>2. Tells(q, f) /\ UNCHANGED disk
  BY <1>1 DEF Acknowledge, Tells
<1>3. R!Next
  BY DEF Acknowledge, R!Next, R!IngestNext
<1>4. Rest
  BY <1>3, TableRest DEF Acknowledge, Tells
<1>5. a \in Agents
  BY <1>1, <1>2, TellsOne
<1>6. CASE ~Awaits(a, q)
  BY <1>1, <1>2, <1>4, <1>6, TellsOne, StepOfApi
<1>7. CASE Awaits(a, q)
  <2>1. PICK v, w, d : v = worker[a] /\ w = [v EXCEPT !.st = "acknowledged"] /\ d = disk[a]
    OBVIOUS
  <2>2. /\ v \in Worker /\ Fits(v, d) /\ v.st = "waiting"
        /\ v.run = q.run /\ v.report = q.report
    BY <1>5, <1>7, <2>1 DEF IInv, TypeOK, Knows, Awaits, At
  <2>3. /\ w \in Worker /\ w.st = "acknowledged" /\ w.run = v.run /\ w.report = v.report
        /\ w.uploaded = v.uploaded
    BY <2>1, <2>2 DEF Worker, States
  <2>4. Fits(v, d)'
    BY <1>4, <2>2, FitsLasts DEF Rest
  <2>5. runs'[w.run].report = w.report
    BY <2>2, <2>3, ToldOfStored DEF Acknowledge
  <2>6. Fits(w, d)'
    BY <2>2, <2>3, <2>4, <2>5 DEF Fits, Delivering
  <2>7. worker' = [worker EXCEPT ![a] = w]
    BY <1>1, <1>2, <1>5, <1>7, <2>1, TellsOne
  <2>8. d \in [R!RunIds -> Checkpoint] /\ disk' = [disk EXCEPT ![a] = d]
    BY <1>2, <1>5, <2>1 DEF IInv, TypeOK
  <2> QED
    BY <1>4, <1>5, <2>3, <2>6, <2>7, <2>8, StepOf
<1> QED
  BY <1>6, <1>7

LEMMA RefuseStep == ASSUME IInv, NEW q \in requests, Refuse(q) PROVE IInv'
<1>1. PICK a, f : a = q.agent /\ f = [b \in Agents |-> [worker[b] EXCEPT !.st = "release"]]
  OBVIOUS
<1>2. Tells(q, f) /\ UNCHANGED disk
  BY <1>1 DEF Refuse, Tells
<1>3. R!Next
  BY DEF Refuse, R!Next, R!IngestNext
<1>4. Rest
  BY <1>3, TableRest DEF Refuse, Tells
<1>5. a \in Agents
  BY <1>1, <1>2, TellsOne
<1>6. CASE ~Awaits(a, q)
  BY <1>1, <1>2, <1>4, <1>6, TellsOne, StepOfApi
<1>7. CASE Awaits(a, q)
  <2>1. GoesTo(a, "release")
    BY <1>1, <1>2, <1>5, <1>7, TellsOne DEF GoesTo, Goes
  <2> QED
    BY <1>2, <1>4, <1>5, <1>7, <2>1, PlaceStep DEF Awaits, At, States, Delivering
<1> QED
  BY <1>6, <1>7

LEMMA AnswerFailedStep == ASSUME IInv, NEW q \in requests, AnswerFailed(q) PROVE IInv'
<1>1. PICK a, f : /\ a = q.agent
                  /\ f = [b \in Agents |-> IF GivesUp(worker[b])
                                           THEN [worker[b] EXCEPT !.st = "release"]
                                           ELSE [worker[b] EXCEPT !.st = "report", !.tries = @ + 1]]
  OBVIOUS
<1>2. Tells(q, f) /\ UNCHANGED disk
  BY <1>1 DEF AnswerFailed, Tells
<1>3. R!Next
  BY DEF AnswerFailed, R!Next, R!IngestNext
<1>4. Rest
  BY <1>3, TableRest DEF AnswerFailed, Tells
<1>5. a \in Agents
  BY <1>1, <1>2, TellsOne
<1>6. CASE ~Awaits(a, q)
  BY <1>1, <1>2, <1>4, <1>6, TellsOne, StepOfApi
<1>7. CASE Awaits(a, q)
  <2>1. worker' = [worker EXCEPT ![a] = f[a]]
    BY <1>1, <1>2, <1>7, TellsOne
  <2>2. f[a] = IF GivesUp(worker[a]) THEN [worker[a] EXCEPT !.st = "release"]
               ELSE [worker[a] EXCEPT !.st = "report", !.tries = @ + 1]
    BY <1>1, <1>5
  <2>3. Retries(a, "report")
    BY <2>1, <2>2 DEF Retries, GoesTo, Goes
  <2> QED
    BY <1>2, <1>4, <1>5, <1>7, <2>3, RetriesStep DEF Awaits, At, Delivering
<1> QED
  BY <1>6, <1>7

-----------------------------------------------------------------------------
(* The theorems.                                                           *)

LEMMA SameInit == R!Init => RP!Init
BY SameSets, SameHelpers DEF R!Init, RP!Init

LEMMA InvInit == Init => IInv
<1> SUFFICES ASSUME Init PROVE IInv
  OBVIOUS
<1>1. RP!IInv
  BY SameInit, RP!InvInit, RunsAssumed DEF Init
<1>2. R!TypeOK
  BY <1>1, RunsTyped
<1>3. \A a \in Agents : worker[a] = Fresh("down")
  BY DEF Init
<1>4. \A a \in Agents : worker[a] \in Worker /\ Knows(a)
  BY <1>3, FreshFits DEF Knows
<1>5. NoCaptures \in Checkpoint
  BY DEF NoCaptures, Checkpoint
<1>6. TypeOK
  <2>1. worker \in [Agents -> Worker]
    BY <1>3, <1>4 DEF Init
  <2>2. disk \in [Agents -> [R!RunIds -> Checkpoint]]
    BY <1>5 DEF Init
  <2>3. faults \in 0..MaxFaults
    BY FaultsAssumption DEF Init
  <2> QED
    BY <1>2, <2>1, <2>2, <2>3 DEF Init, TypeOK
<1> QED
  BY <1>1, <1>4, <1>6 DEF Init, IInv

LEMMA InvStep == IInv /\ [Next]_vars => IInv'
<1> SUFFICES ASSUME IInv, [Next]_vars PROVE IInv'
  OBVIOUS
<1>1. CASE UNCHANGED vars
  <2>1. Rest
    BY <1>1, LocalRest DEF vars, Local, api
  <2> QED
    BY <1>1, <2>1, StepOfApi DEF vars
<1>2. ASSUME NEW a \in Agents, Progress(a) PROVE IInv'
  BY <1>2, StartStep, ClaimStep, LeaveLoopStep, CaptureStep, UploadShotStep, CompleteStep,
     FallShortStep, PauseStep, InterruptedStep, UploadStep, UploadedStep, SendReportStep,
     RemoveStep, ReleaseStep
  DEF Progress
<1>3. ASSUME NEW a \in Agents, Trouble(a) PROVE IInv'
  BY <1>3, ClaimUnansweredStep, SignalStep, CrashStep, NeedsOperatorStep, BreakStep,
     UnreadableStep, TimeoutStep
  DEF Trouble
<1>4. CASE Answer
  BY <1>4, AcknowledgeStep, RefuseStep, AnswerFailedStep DEF Answer
<1> QED
  BY <1>1, <1>2, <1>3, <1>4, HeartbeatStep, LateCallStep, RequestStep, OthersStep DEF Next

(* The table's invariant, and what processes and calls in flight know,     *)
(* hold in every reachable state.                                          *)
THEOREM Invariance == Spec => []IInv
BY InvInit, InvStep, PTL DEF Spec

(* The run table, the calls, the checkpoints and the processes stay well   *)
(* formed, and no upload is tried more than three times.                   *)
THEOREM CollectorsStayTyped == Spec => []TypeOK
<1>1. IInv => TypeOK
  BY DEF IInv
<1> QED
  BY <1>1, Invariance, PTL

(* A report is sent only when the API holds all evidence it names, however *)
(* the uploads before it went.                                             *)
THEOREM SentReportsAreBacked == Spec => []SentReportIsBacked
<1>1. IInv => SentReportIsBacked
  <2> SUFFICES ASSUME IInv, NEW a \in Agents, worker[a].st \in {"report", "waiting"}
               PROVE  Evidence[worker[a].report] \subseteq store[worker[a].run]
    BY DEF SentReportIsBacked
  <2> QED
    BY DEF IInv, Knows, Fits, Delivering
<1> QED
  BY <1>1, Invariance, PTL

(* Only the removal that follows an acknowledgement takes captures away.   *)
LEMMA OnlyRemoved ==
    ASSUME IInv, [Next]_vars, NEW a \in Agents, NEW r \in R!RunIds,
           disk[a][r].shots # {}, disk'[a][r].shots = {}
    PROVE  At(a, "acknowledged") /\ worker[a].run = r
<1>1. disk \in [Agents -> [R!RunIds -> Checkpoint]]
  BY DEF IInv, TypeOK
<1>2. disk' # disk
  OBVIOUS
<1>3. PICK b \in Agents : \/ Remove(b)
                          \/ \E s \in Shots : Capture(b, s)
                          \/ \E rep \in Reports : Complete(b, rep)
  BY <1>2 DEF Next, vars, Progress, Trouble, Answer, Others, Tick, Start, Claim, LeaveLoop,
     UploadShot, FallShort, Pause, Interrupted, Upload, Uploaded, SendReport, Release,
     ClaimUnanswered, Signal, Crash, NeedsOperator, Break, Unreadable, Timeout, Heartbeat,
     LateCall, FailIngest, Drop, Acknowledge, Refuse, AnswerFailed, Tells,
     Answered, Refused, Unanswered
<1>4. PICK cp : Saves(b, cp) /\ (Remove(b) \/ Saved(b).shots \subseteq cp.shots)
  <2>1. worker[b].run \in R!RunIds \/ Remove(b)
    BY <1>3 DEF IInv, Knows, Fits, Capture, Complete, At
  <2>2. Remove(b) \/ Saved(b) \in Checkpoint
    BY <1>1, <2>1 DEF Saved
  <2>3. CASE Remove(b)
    BY <2>3 DEF Remove
  <2>4. CASE \E s \in Shots : Capture(b, s)
    <3>1. PICK s \in Shots : Saves(b, [Saved(b) EXCEPT !.shots = @ \cup {s}])
      BY <2>4 DEF Capture
    <3>2. CASE Remove(b)
      BY <3>2, <2>3
    <3>3. CASE Saved(b) \in Checkpoint
      <4>1. Saved(b).shots \subseteq [Saved(b) EXCEPT !.shots = @ \cup {s}].shots
        BY <3>3 DEF Checkpoint
      <4> QED
        BY <3>1, <4>1
    <3> QED
      BY <2>2, <3>2, <3>3
  <2>5. CASE \E rep \in Reports : Complete(b, rep)
    <3>1. PICK rep \in Reports : Saves(b, [Saved(b) EXCEPT !.final = rep])
      BY <2>5 DEF Complete
    <3>2. CASE Remove(b)
      BY <3>2, <2>3
    <3>3. CASE Saved(b) \in Checkpoint
      <4>1. Saved(b).shots \subseteq [Saved(b) EXCEPT !.final = rep].shots
        BY <3>3 DEF Checkpoint
      <4> QED
        BY <3>1, <4>1
    <3> QED
      BY <2>2, <3>2, <3>3
  <2> QED
    BY <1>3, <2>3, <2>4, <2>5
<1>5. disk' = [disk EXCEPT ![b] = [disk[b] EXCEPT ![worker[b].run] = cp]]
  BY <1>4 DEF Saves
<1>6. a = b /\ worker[b].run = r
  BY <1>1, <1>5
<1>7. disk'[a][r] = cp /\ disk[a][r] = Saved(b)
  BY <1>1, <1>5, <1>6 DEF Saved
<1>8. Remove(b)
  BY <1>4, <1>7
<1> QED
  BY <1>6, <1>8 DEF Remove

(* A checkpoint with captures goes only for a stored report of the run     *)
(* that names just those captures.                                         *)
THEOREM CapturesAreNotLost == Spec => CapturesOutliveWork
<1>1. IInv /\ [Next]_vars =>
        [\A a \in Agents, r \in R!RunIds :
            disk[a][r].shots # {} /\ disk'[a][r].shots = {} =>
                /\ runs[r].report # NoReport
                /\ Evidence[runs[r].report] = disk[a][r].shots]_vars
  <2> SUFFICES ASSUME IInv, [Next]_vars, NEW a \in Agents, NEW r \in R!RunIds,
                      disk[a][r].shots # {}, disk'[a][r].shots = {}
               PROVE  /\ runs[r].report # NoReport
                      /\ Evidence[runs[r].report] = disk[a][r].shots
    OBVIOUS
  <2>1. worker[a].st = "acknowledged" /\ worker[a].run = r
    BY OnlyRemoved DEF At
  <2>2. Fits(worker[a], disk[a])
    BY DEF IInv, Knows
  <2> QED
    BY <2>1, <2>2, RunsAssumption DEF Fits, Delivering
<1> QED
  BY <1>1, Invariance, PTL DEF Spec, CapturesOutliveWork

=============================================================================
