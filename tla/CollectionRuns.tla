--------------------------- MODULE CollectionRuns ---------------------------
(***************************************************************************)
(* The life of a collection run in the API's database: the scheduler and   *)
(* the operators create runs, collector agents claim and work them, and    *)
(* one report closes each of them.                                         *)
(*                                                                         *)
(* A run is a row of CollectionRun.  Its identity is the unique key        *)
(* (model, provider, scheduledFor); the desktop provider is the only one   *)
(* the code enqueues, so a run is a pair of a model and a slot.  Every     *)
(* call is one transaction or one guarded UPDATE of the row, except report *)
(* ingestion, which checks the claim first, runs its transaction later and *)
(* may note a failure after that: the calls in between are `requests`.     *)
(* An agent's calls come in any order and at any time: several processes   *)
(* may hold one agent's token, and a call may arrive after its caller gave *)
(* up on it.                                                               *)
(***************************************************************************)
EXTENDS Integers, FiniteSets

CONSTANTS Models,       \* monitored models
          Slots,        \* values of scheduledFor, as numbers: their order
          Agents,       \* enabled agents with the platform and capabilities of the provider
          Listings,     \* own listings a model may be given
          Reports,      \* reports that satisfy the report contract
          Lease,        \* COLLECTOR_RUN_LEASE_MILLISECONDS, in ticks
          MaxRequests,  \* bound: ingestion calls in flight
          NoRun, NoAgent, NoJob, NoReport

ReportStatuses == {"SUCCEEDED", "PARTIAL_FAILED", "FAILED"}

(* What validateTerminalSemantics leaves of a report: PAUSED_* is refused, *)
(* and a SUCCEEDED report names own items.  `digest` tells reports apart   *)
(* that agree in the rest: the digest covers every captured value.         *)
ReportRecord == [digest : Nat, status : ReportStatuses, own : SUBSET Listings]

ASSUME ReportsAssumption ==
    /\ Reports \subseteq ReportRecord
    /\ \A rep \in Reports : rep.status = "SUCCEEDED" => rep.own # {}
    /\ NoReport \notin Reports

ASSUME SlotsAssumption == Slots \subseteq Nat

ASSUME LeaseAssumption == Lease \in Nat \ {0}

ASSUME MaxRequestsAssumption == MaxRequests \in Nat

RunIds == [model : Models, slot : Slots]

Job == [collector : Agents, own : SUBSET Listings]

ASSUME NullsAssumption ==
    /\ NoRun \notin RunIds
    /\ NoAgent \notin Agents
    /\ NoJob \notin Job

VARIABLES
    runs,      \* the CollectionRun table
    enabled,   \* MonitoredModel.enabled
    active,    \* the active own listings of each model
    requests,  \* report submissions the API has checked and not answered yet
    acked      \* history: the reports whose submitter was told they are the run's report

vars == <<runs, enabled, active, requests, acked>>

-----------------------------------------------------------------------------
(* Types.                                                                  *)

Paused == {"PAUSED_LOGIN", "PAUSED_CHALLENGE"}

Unfinished == {"QUEUED", "RUNNING"} \cup Paused

Terminal == ReportStatuses

Statuses == {"ABSENT", "COALESCED"} \cup Unfinished \cup Terminal

PauseCodes == {"LOGIN_REQUIRED", "PLATFORM_CHALLENGE"}

Errors == {"", "INVALID_CHECKPOINT", "DESKTOP_REPORT_INGESTION_FAILED"} \cup PauseCodes

(* A row: `age` counts the ticks since heartbeatAt while the run is        *)
(* RUNNING, up to the lease; `report` stands for desktopReportDigest and   *)
(* the stored summary, `error` for errorCode.                              *)
Run == [status : Statuses,
        agent  : Agents \cup {NoAgent},
        job    : Job \cup {NoJob},
        report : Reports \cup {NoReport},
        into   : RunIds \cup {NoRun},
        error  : Errors,
        age    : 0..Lease]

Request == [run : RunIds, agent : Agents, report : Reports, step : {"checked", "failed"}]

(* Every row, call in flight and acknowledgement is well formed; the       *)
(* statuses and errors are those the code writes.                          *)
TypeOK ==
    /\ runs \in [RunIds -> Run]
    /\ enabled \subseteq Models
    /\ active \in [Models -> SUBSET Listings]
    /\ requests \subseteq Request
    /\ acked \subseteq RunIds \X Reports

Row(status, into) ==
    [status |-> status, agent |-> NoAgent, job |-> NoJob, report |-> NoReport,
     into |-> into, error |-> "", age |-> 0]

Init ==
    /\ runs = [r \in RunIds |-> Row("ABSENT", NoRun)]
    /\ enabled = Models
    /\ active \in [Models -> {{l} : l \in Listings}]
    /\ requests = {}
    /\ acked = {}

-----------------------------------------------------------------------------
(* The catalog, as far as runs read it.                                    *)

SetModelEnabled(m, on) ==
    /\ enabled' = IF on THEN enabled \cup {m} ELSE enabled \ {m}
    /\ UNCHANGED <<runs, active, requests, acked>>

(* Editing or importing a model deactivates its listings and makes one of  *)
(* them, new or old, the active one.                                       *)
UpdateListing(m, l) ==
    /\ active' = [active EXCEPT ![m] = {l}]
    /\ UNCHANGED <<runs, enabled, requests, acked>>

-----------------------------------------------------------------------------
(* The run queue.                                                          *)

UnfinishedRuns(m) == {r \in RunIds : r.model = m /\ runs[r].status \in Unfinished}

Earliest(R) == {r \in R : \A q \in R : r.slot <= q.slot}

CountsOnlyRunning(m) == {r \in RunIds : r.model = m /\ runs[r].status \in {"QUEUED", "RUNNING"}}

(* The runs that keep a model busy.                                        *)
ActiveRuns(m) == UnfinishedRuns(m)

CoalescesIntoEarlierSlot(m) ==
    Earliest({r \in RunIds : r.model = m /\ runs[r].status # "ABSENT"})

(* The run a busy model's new slot is coalesced into: its first unfinished *)
(* run by scheduledFor.                                                    *)
CoalescingTarget(m) == Earliest(ActiveRuns(m))

(* A slot that has a row already is answered from it and changes nothing.  *)
CreateOrCoalesce(m, s) ==
    LET r == [model |-> m, slot |-> s]
    IN  /\ m \in enabled
        /\ runs[r].status = "ABSENT"
        /\ \/ /\ ActiveRuns(m) = {}
              /\ runs' = [runs EXCEPT ![r] = Row("QUEUED", NoRun)]
           \/ /\ ActiveRuns(m) # {}
              /\ \E target \in CoalescingTarget(m) :
                    runs' = [runs EXCEPT ![r] = Row("COALESCED", target)]
        /\ UNCHANGED <<enabled, active, requests, acked>>

RequeuesFailed(r) ==
    /\ runs[r].status \in Paused \cup {"FAILED"}
    /\ runs[r].into = NoRun
    /\ runs' = [runs EXCEPT ![r] = [@ EXCEPT !.status = "QUEUED", !.error = ""]]
    /\ UNCHANGED <<enabled, active, requests, acked>>

(* An operator sends a paused run back to the queue; it keeps its agent.   *)
RequeuePaused(r) ==
    /\ runs[r].status \in Paused
    /\ runs[r].into = NoRun
    /\ runs' = [runs EXCEPT ![r] = [@ EXCEPT !.status = "QUEUED", !.error = ""]]
    /\ UNCHANGED <<enabled, active, requests, acked>>

-----------------------------------------------------------------------------
(* The collector agent's calls.                                            *)

Owned(a, r) == runs[r].agent = a

Working(a, r) == Owned(a, r) /\ runs[r].status = "RUNNING"

(* Runs the agent holds and has not been heard of for a whole lease.       *)
OwnStale(a) ==
    {r \in RunIds : /\ Working(a, r)
                    /\ runs[r].age = Lease
                    /\ runs[r].report = NoReport
                    /\ active[r.model] # {}}

Claimable(a) ==
    {r \in RunIds : /\ runs[r].status = "QUEUED"
                    /\ runs[r].agent \in {NoAgent, a}
                    /\ active[r.model] # {}}

RebuiltJob(a, r) == [collector |-> a, own |-> active[r.model]]

(* The job handed out: the stored one when there is one, else built from   *)
(* the catalog and stored.                                                 *)
JobFor(a, r) == IF runs[r].job = NoJob THEN RebuiltJob(a, r) ELSE runs[r].job

(* A stored job of another collector makes the call fail and changes       *)
(* nothing.                                                                *)
JobUsable(a, r) == JobFor(a, r).collector = a

ReclaimStale(a) ==
    /\ \E r \in OwnStale(a) :
          /\ JobUsable(a, r)
          /\ runs' = [runs EXCEPT ![r] = [@ EXCEPT !.age = 0, !.job = JobFor(a, r)]]
    /\ UNCHANGED <<enabled, active, requests, acked>>

(* The order of runs with the same scheduledFor (createdAt, then id) is    *)
(* left open.                                                              *)
ClaimQueued(a) ==
    /\ OwnStale(a) = {}
    /\ \E r \in Earliest(Claimable(a)) :
          /\ JobUsable(a, r)
          /\ runs' = [runs EXCEPT ![r] = [@ EXCEPT !.status = "RUNNING", !.agent = a,
                                                   !.job = JobFor(a, r), !.error = "",
                                                   !.age = 0]]
    /\ UNCHANGED <<enabled, active, requests, acked>>

Heartbeat(a, r) ==
    /\ Working(a, r)
    /\ runs' = [runs EXCEPT ![r] = [@ EXCEPT !.age = 0]]
    /\ UNCHANGED <<enabled, active, requests, acked>>

PauseStatusIsCode(code) == code

PauseStatus(code) == IF code = "LOGIN_REQUIRED" THEN "PAUSED_LOGIN" ELSE "PAUSED_CHALLENGE"

Pause(a, r, code) ==
    /\ Working(a, r)
    /\ runs' = [runs EXCEPT ![r] = [@ EXCEPT !.status = PauseStatus(code), !.error = code,
                                             !.age = 0]]
    /\ UNCHANGED <<enabled, active, requests, acked>>

ReleaseForgetsAgent(a, r) ==
    /\ Working(a, r)
    /\ runs' = [runs EXCEPT ![r] = [@ EXCEPT !.status = "QUEUED", !.agent = NoAgent,
                                             !.error = "", !.age = 0]]
    /\ UNCHANGED <<enabled, active, requests, acked>>

(* Release with disposition REQUEUE: the run stays with its agent.         *)
ReleaseRequeue(a, r) ==
    /\ Working(a, r)
    /\ runs' = [runs EXCEPT ![r] = [@ EXCEPT !.status = "QUEUED", !.error = "", !.age = 0]]
    /\ UNCHANGED <<enabled, active, requests, acked>>

ReleaseQuarantine(a, r) ==
    /\ Working(a, r)
    /\ runs' = [runs EXCEPT ![r] = [@ EXCEPT !.status = "FAILED",
                                             !.error = "INVALID_CHECKPOINT", !.age = 0]]
    /\ UNCHANGED <<enabled, active, requests, acked>>

-----------------------------------------------------------------------------
(* Report ingestion.                                                       *)

CoversByCount(rep, job) == Cardinality(rep.own) <= Cardinality(job.own)

(* The report names listings of the claimed job only, and a SUCCEEDED one  *)
(* names all of them.                                                      *)
CoversClaim(rep, job) ==
    /\ rep.own \subseteq job.own
    /\ rep.status = "SUCCEEDED" => rep.own = job.own

(* inspectRun: a run of the agent whose stored job is the agent's.         *)
Inspected(a, r) ==
    /\ Owned(a, r)
    /\ runs[r].job # NoJob
    /\ runs[r].job.collector = a

(* assertRunOwnership, inspectRun and validateClaimBinding, read before    *)
(* the transaction begins.                                                 *)
SubmitReport(a, r, rep) ==
    /\ Cardinality(requests) < MaxRequests
    /\ Inspected(a, r)
    /\ runs[r].status \in {"RUNNING"} \cup Terminal
    /\ CoversClaim(rep, runs[r].job)
    /\ requests' = requests \cup {[run |-> r, agent |-> a, report |-> rep, step |-> "checked"]}
    /\ UNCHANGED <<runs, enabled, active, acked>>

AcceptsWhileUnreported(q) == /\ Owned(q.agent, q.run)
                             /\ runs[q.run].status \in {"RUNNING"} \cup Terminal
                             /\ runs[q.run].report = NoReport

(* What the transaction asks of the locked row before it takes a new       *)
(* report.                                                                 *)
Accepts(q) ==
    /\ Owned(q.agent, q.run)
    /\ runs[q.run].status = "RUNNING"

(* assertClaim: the claim is asked once more under the lock.               *)
ClaimHolds(q) == CoversClaim(q.report, runs[q.run].job)

Accepted(q) ==
    [runs EXCEPT ![q.run] = [@ EXCEPT !.status = q.report.status, !.report = q.report,
                                      !.error = "", !.age = 0]]

AcceptReport(q) ==
    /\ q.step = "checked"
    /\ Accepts(q)
    /\ ClaimHolds(q)
    /\ runs' = Accepted(q)
    /\ requests' = requests \ {q}
    /\ acked' = acked \cup {<<q.run, q.report>>}
    /\ UNCHANGED <<enabled, active>>

ReplaysAnyTerminal(q) == runs[q.run].status \in Terminal

(* A finished run answers its own report again, and no other.              *)
Replays(q) ==
    /\ runs[q.run].status \in Terminal
    /\ runs[q.run].report = q.report

ReplayReport(q) ==
    /\ q.step = "checked"
    /\ Owned(q.agent, q.run)
    /\ Replays(q)
    /\ requests' = requests \ {q}
    /\ acked' = acked \cup {<<q.run, q.report>>}
    /\ UNCHANGED <<runs, enabled, active>>

(* The call ends with no effect: the row is in no state for the report,    *)
(* evidence the report names is not in the store, or the API stops.        *)
RejectReport(q) ==
    /\ requests' = requests \ {q}
    /\ UNCHANGED <<runs, enabled, active, acked>>

(* The transaction fails with another error.  It was rolled back, or it    *)
(* was committed and the error is about its outcome.                       *)
FailIngest(q) ==
    /\ q.step = "checked"
    /\ \/ runs' = runs
       \/ /\ Accepts(q)
          /\ ClaimHolds(q)
          /\ runs' = Accepted(q)
    /\ requests' = (requests \ {q}) \cup {[q EXCEPT !.step = "failed"]}
    /\ UNCHANGED <<enabled, active, acked>>

NotesAnyStatus(q) == Owned(q.agent, q.run)

(* The failure is noted on a row that is still RUNNING.                    *)
NotesError(q) == Working(q.agent, q.run)

RecordSystemError(q) ==
    /\ q.step = "failed"
    /\ runs' = IF NotesError(q)
               THEN [runs EXCEPT ![q.run] = [@ EXCEPT !.error = "DESKTOP_REPORT_INGESTION_FAILED"]]
               ELSE runs
    /\ requests' = requests \ {q}
    /\ UNCHANGED <<enabled, active, acked>>

-----------------------------------------------------------------------------
(* Time passes.                                                            *)
Tick ==
    /\ \E r \in RunIds : runs[r].status = "RUNNING" /\ runs[r].age < Lease
    /\ runs' = [r \in RunIds |->
                   IF runs[r].status = "RUNNING" /\ runs[r].age < Lease
                   THEN [runs[r] EXCEPT !.age = @ + 1]
                   ELSE runs[r]]
    /\ UNCHANGED <<enabled, active, requests, acked>>

CatalogNext ==
    \E m \in Models :
        \/ \E on \in BOOLEAN : SetModelEnabled(m, on)
        \/ \E l \in Listings : UpdateListing(m, l)

QueueNext ==
    \/ \E m \in Models, s \in Slots : CreateOrCoalesce(m, s)
    \/ \E r \in RunIds : RequeuePaused(r)

AgentNext ==
    \E a \in Agents :
        \/ ReclaimStale(a)
        \/ ClaimQueued(a)
        \/ \E r \in RunIds :
              \/ Heartbeat(a, r)
              \/ \E code \in PauseCodes : Pause(a, r, code)
              \/ ReleaseRequeue(a, r)
              \/ ReleaseQuarantine(a, r)
              \/ \E rep \in Reports : SubmitReport(a, r, rep)

IngestNext ==
    \E q \in requests :
        \/ AcceptReport(q)
        \/ ReplayReport(q)
        \/ RejectReport(q)
        \/ FailIngest(q)
        \/ RecordSystemError(q)

Next == CatalogNext \/ QueueNext \/ AgentNext \/ IngestNext \/ Tick

Spec == Init /\ [][Next]_vars

-----------------------------------------------------------------------------
(* Properties.                                                             *)

(* A model is worked one run at a time: whatever the scheduler, the        *)
(* operators and the agents do, at most one of its runs is queued, running *)
(* or paused.                                                              *)
AtMostOneUnfinished ==
    \A r, q \in RunIds :
        /\ r.model = q.model
        /\ runs[r].status \in Unfinished
        /\ runs[q].status \in Unfinished
        => r = q

(* A coalesced slot points at a run of its model that does the work: never *)
(* at nothing, at itself or at another coalesced slot; and only coalesced  *)
(* slots point anywhere.                                                   *)
CoalescedIntoRealRun ==
    \A r \in RunIds :
        /\ runs[r].status = "COALESCED" <=> runs[r].into # NoRun
        /\ runs[r].into # NoRun =>
              /\ runs[r].into.model = r.model
              /\ runs[runs[r].into].status \notin {"ABSENT", "COALESCED"}

(* The frozen job names the run's agent.  If it ever named another one,    *)
(* every claim of the run would fail on its stored job and every report    *)
(* would conflict, and the model would stay busy for ever.                 *)
JobMatchesAgent ==
    \A r \in RunIds :
        IF runs[r].agent = NoAgent
        THEN runs[r].job = NoJob /\ runs[r].status \in {"ABSENT", "COALESCED", "QUEUED"}
        ELSE /\ runs[r].job # NoJob /\ runs[r].job.collector = runs[r].agent
             /\ runs[r].status \notin {"ABSENT", "COALESCED"}

(* A finished run is either closed by a report, whose status it has and    *)
(* which leaves no error, or quarantined with the checkpoint's error and   *)
(* no report; an unfinished run has no report.                             *)
OutcomeExplained ==
    \A r \in RunIds :
        IF runs[r].status \in Terminal
        THEN \/ /\ runs[r].report # NoReport
                /\ runs[r].status = runs[r].report.status
                /\ runs[r].error = ""
             \/ /\ runs[r].report = NoReport
                /\ runs[r].status = "FAILED"
                /\ runs[r].error = "INVALID_CHECKPOINT"
        ELSE runs[r].report = NoReport

(* The report a run was closed by covers the listings the run was claimed  *)
(* with, however the catalog changed while it was worked.                  *)
ReportCoversClaim ==
    \A r \in RunIds : runs[r].report # NoReport =>
        /\ \A l \in runs[r].report.own : l \in runs[r].job.own
        /\ runs[r].status = "SUCCEEDED" =>
              \A l \in runs[r].job.own : l \in runs[r].report.own

(* Two different reports of one run are never both acknowledged, and the   *)
(* acknowledged one is the stored one: retries, late answers and a second  *)
(* process with the same token included.                                   *)
AckedIsStored ==
    \A p \in acked : runs[p[1]].report = p[2]

(* A finished or coalesced run never changes again: no late heartbeat,     *)
(* pause, release, report or failure note reaches it.                      *)
ClosedRunsFrozen ==
    [][\A r \in RunIds : runs[r].status \in Terminal \cup {"COALESCED"} => runs'[r] = runs[r]]_vars

(* From its first claim on a run keeps its agent and its job, through      *)
(* pauses, releases, lost leases and catalog edits.                        *)
ClaimFrozen ==
    [][\A r \in RunIds : runs[r].job # NoJob =>
          runs'[r].job = runs[r].job /\ runs'[r].agent = runs[r].agent]_vars

=============================================================================
