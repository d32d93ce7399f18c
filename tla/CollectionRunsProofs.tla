------------------------ MODULE CollectionRunsProofs ------------------------
(***************************************************************************)
(* Proofs about CollectionRuns, for every set of models, slots, agents,    *)
(* listings and reports, every lease and any number of calls in flight.    *)
(***************************************************************************)
EXTENDS CollectionRuns, TLAPS

USE DEF RunIds, Unfinished, Terminal, ReportStatuses, Paused

-----------------------------------------------------------------------------
(* Type correctness.                                                       *)

LEMMA Literals ==
    /\ 0 \in 0..Lease
    /\ {"ABSENT", "QUEUED", "RUNNING", "COALESCED", "FAILED"} \subseteq Statuses
    /\ ReportStatuses \subseteq Statuses
    /\ {"", "INVALID_CHECKPOINT", "DESKTOP_REPORT_INGESTION_FAILED"} \subseteq Errors
    /\ PauseCodes \subseteq Errors
    /\ \A code \in PauseCodes : PauseStatus(code) \in Statuses
BY LeaseAssumption DEF Statuses, Errors, PauseCodes, PauseStatus

LEMMA FreshRow ==
    ASSUME NEW s \in Statuses, NEW i \in RunIds \cup {NoRun}
    PROVE  Row(s, i) \in Run
BY Literals DEF Row, Run

(* A row stays a row under each kind of update the actions make.           *)
LEMMA RowUpdates ==
    ASSUME NEW row \in Run, NEW s \in Statuses, NEW e \in Errors, NEW n \in 0..Lease,
           NEW a \in Agents, NEW j \in Job, NEW rep \in Reports
    PROVE  /\ [row EXCEPT !.age = n] \in Run
           /\ [row EXCEPT !.error = e] \in Run
           /\ [row EXCEPT !.age = n, !.job = j] \in Run
           /\ [row EXCEPT !.status = s, !.error = e] \in Run
           /\ [row EXCEPT !.status = s, !.error = e, !.age = n] \in Run
           /\ [row EXCEPT !.status = s, !.agent = a, !.job = j, !.error = e, !.age = n] \in Run
           /\ [row EXCEPT !.status = s, !.report = rep, !.error = e, !.age = n] \in Run
<1>1. [row EXCEPT !.age = n] \in Run
  BY DEF Run
<1>2. [row EXCEPT !.error = e] \in Run
  BY DEF Run
<1>3. [row EXCEPT !.age = n, !.job = j] \in Run
  BY DEF Run
<1>4. [row EXCEPT !.status = s, !.error = e] \in Run
  BY DEF Run
<1>5. [row EXCEPT !.status = s, !.error = e, !.age = n] \in Run
  BY DEF Run
<1>6. [row EXCEPT !.status = s, !.agent = a, !.job = j, !.error = e, !.age = n] \in Run
  BY DEF Run
<1>7. [row EXCEPT !.status = s, !.report = rep, !.error = e, !.age = n] \in Run
  BY DEF Run
<1> QED
  BY <1>1, <1>2, <1>3, <1>4, <1>5, <1>6, <1>7

LEMMA JobForType ==
    ASSUME TypeOK, NEW a \in Agents, NEW r \in RunIds
    PROVE  JobFor(a, r) \in Job
<1>1. runs[r] \in Run /\ active[r.model] \in SUBSET Listings
  BY DEF TypeOK
<1>2. runs[r].job \in Job \cup {NoJob}
  BY <1>1 DEF Run
<1>3. RebuiltJob(a, r) \in Job
  BY <1>1 DEF RebuiltJob, Job
<1> QED
  BY <1>2, <1>3 DEF JobFor

LEMMA AcceptedType ==
    ASSUME TypeOK, NEW q \in requests
    PROVE  Accepted(q) \in [RunIds -> Run]
<1>1. q.run \in RunIds /\ q.report \in Reports
  BY DEF TypeOK, Request
<1>2. runs[q.run] \in Run
  BY <1>1 DEF TypeOK
<1>3. q.report.status \in Statuses
  BY <1>1, ReportsAssumption, Literals DEF ReportRecord
<1>4. [runs[q.run] EXCEPT !.status = q.report.status, !.report = q.report, !.error = "", !.age = 0]
         \in Run
  BY <1>1, <1>2, <1>3, Literals DEF Run
<1> QED
  BY <1>1, <1>4 DEF Accepted, TypeOK

LEMMA TypeStep == TypeOK /\ [Next]_vars => TypeOK'
<1> SUFFICES ASSUME TypeOK, [Next]_vars PROVE TypeOK'
  OBVIOUS
<1>0. \A r \in RunIds : runs[r] \in Run
  BY DEF TypeOK
<1>1. CASE UNCHANGED vars
  BY <1>1 DEF vars, TypeOK
<1>2. ASSUME NEW m \in Models, NEW on \in BOOLEAN, SetModelEnabled(m, on) PROVE TypeOK'
  BY <1>2 DEF SetModelEnabled, TypeOK
<1>3. ASSUME NEW m \in Models, NEW l \in Listings, UpdateListing(m, l) PROVE TypeOK'
  BY <1>3 DEF UpdateListing, TypeOK
<1>4. ASSUME NEW m \in Models, NEW s \in Slots, CreateOrCoalesce(m, s) PROVE TypeOK'
  <2> DEFINE r == [model |-> m, slot |-> s]
  <2>1. \E st \in Statuses, i \in RunIds \cup {NoRun} : runs' = [runs EXCEPT ![r] = Row(st, i)]
    BY <1>4, Literals DEF CreateOrCoalesce, CoalescingTarget, ActiveRuns, UnfinishedRuns, Earliest
  <2>2. runs' \in [RunIds -> Run]
    BY <2>1, FreshRow DEF TypeOK
  <2> QED
    BY <1>4, <2>2 DEF CreateOrCoalesce, TypeOK
<1>5. ASSUME NEW r \in RunIds, RequeuePaused(r) PROVE TypeOK'
  <2>1. [runs[r] EXCEPT !.status = "QUEUED", !.error = ""] \in Run
    BY <1>0, Literals DEF Run
  <2> QED
    BY <1>5, <2>1 DEF RequeuePaused, TypeOK
<1>6. ASSUME NEW a \in Agents, ReclaimStale(a) PROVE TypeOK'
  <2>1. PICK r \in OwnStale(a) :
           runs' = [runs EXCEPT ![r] = [@ EXCEPT !.age = 0, !.job = JobFor(a, r)]]
    BY <1>6 DEF ReclaimStale
  <2>2. r \in RunIds
    BY DEF OwnStale
  <2>3. [runs[r] EXCEPT !.age = 0, !.job = JobFor(a, r)] \in Run
    BY <1>0, <2>2, Literals, JobForType DEF Run
  <2> QED
    BY <1>6, <2>1, <2>2, <2>3 DEF ReclaimStale, TypeOK
<1>7. ASSUME NEW a \in Agents, ClaimQueued(a) PROVE TypeOK'
  <2>1. PICK r \in Earliest(Claimable(a)) :
           runs' = [runs EXCEPT ![r] = [@ EXCEPT !.status = "RUNNING", !.agent = a,
                                                 !.job = JobFor(a, r), !.error = "", !.age = 0]]
    BY <1>7 DEF ClaimQueued
  <2>2. r \in RunIds
    BY DEF Earliest, Claimable
  <2>3. [runs[r] EXCEPT !.status = "RUNNING", !.agent = a, !.job = JobFor(a, r), !.error = "",
                        !.age = 0] \in Run
    BY <1>0, <2>2, Literals, JobForType DEF Run
  <2> QED
    BY <1>7, <2>1, <2>2, <2>3 DEF ClaimQueued, TypeOK
<1>8. ASSUME NEW a \in Agents, NEW r \in RunIds, Heartbeat(a, r) PROVE TypeOK'
  <2>1. [runs[r] EXCEPT !.age = 0] \in Run
    BY <1>0, Literals DEF Run
  <2> QED
    BY <1>8, <2>1 DEF Heartbeat, TypeOK
<1>9. ASSUME NEW a \in Agents, NEW r \in RunIds, NEW code \in PauseCodes, Pause(a, r, code) PROVE TypeOK'
  <2>1. [runs[r] EXCEPT !.status = PauseStatus(code), !.error = code, !.age = 0] \in Run
    BY <1>0, Literals DEF Run
  <2> QED
    BY <1>9, <2>1 DEF Pause, TypeOK
<1>10. ASSUME NEW a \in Agents, NEW r \in RunIds, ReleaseRequeue(a, r) PROVE TypeOK'
  <2>1. [runs[r] EXCEPT !.status = "QUEUED", !.error = "", !.age = 0] \in Run
    BY <1>0, Literals DEF Run
  <2> QED
    BY <1>10, <2>1 DEF ReleaseRequeue, TypeOK
<1>11. ASSUME NEW a \in Agents, NEW r \in RunIds, ReleaseQuarantine(a, r) PROVE TypeOK'
  <2>1. [runs[r] EXCEPT !.status = "FAILED", !.error = "INVALID_CHECKPOINT", !.age = 0] \in Run
    BY <1>0, Literals DEF Run
  <2> QED
    BY <1>11, <2>1 DEF ReleaseQuarantine, TypeOK
<1>12. ASSUME NEW a \in Agents, NEW r \in RunIds, NEW rep \in Reports, SubmitReport(a, r, rep)
       PROVE TypeOK'
  BY <1>12 DEF SubmitReport, Request, TypeOK
<1>13. ASSUME NEW q \in requests, AcceptReport(q) PROVE TypeOK'
  <2>1. q.run \in RunIds /\ q.report \in Reports
    BY DEF Request, TypeOK
  <2>2. Accepted(q) \in [RunIds -> Run]
    BY AcceptedType
  <2> QED
    BY <1>13, <2>1, <2>2 DEF AcceptReport, TypeOK
<1>14. ASSUME NEW q \in requests, ReplayReport(q) PROVE TypeOK'
  BY <1>14 DEF ReplayReport, Request, TypeOK
<1>15. ASSUME NEW q \in requests, RejectReport(q) PROVE TypeOK'
  BY <1>15 DEF RejectReport, TypeOK
<1>16. ASSUME NEW q \in requests, FailIngest(q) PROVE TypeOK'
  <2>1. [q EXCEPT !.step = "failed"] \in Request
    BY DEF Request, TypeOK
  <2> QED
    BY <1>16, <2>1, AcceptedType DEF FailIngest, TypeOK
<1>17. ASSUME NEW q \in requests, RecordSystemError(q) PROVE TypeOK'
  <2>1. q.run \in RunIds
    BY DEF Request, TypeOK
  <2>2. [runs[q.run] EXCEPT !.error = "DESKTOP_REPORT_INGESTION_FAILED"] \in Run
    BY <1>0, <2>1, Literals DEF Run
  <2> QED
    BY <1>17, <2>1, <2>2 DEF RecordSystemError, TypeOK
<1>18. CASE Tick
  <2>1. ASSUME NEW r \in RunIds, runs[r].age < Lease PROVE [runs[r] EXCEPT !.age = @ + 1] \in Run
    <3>1. runs[r].age + 1 \in 0..Lease
      BY <1>0, <2>1, LeaseAssumption DEF Run
    <3> QED
      BY <1>0, <3>1 DEF Run
  <2> QED
    BY <1>0, <1>18, <2>1 DEF Tick, TypeOK
<1> QED
  BY <1>1, <1>2, <1>3, <1>4, <1>5, <1>6, <1>7, <1>8, <1>9, <1>10, <1>11, <1>12, <1>13, <1>14,
     <1>15, <1>16, <1>17, <1>18
  DEF Next, CatalogNext, QueueNext, AgentNext, IngestNext

(* The table, the catalog, the calls in flight and the acknowledgements    *)
(* keep their types in every reachable state.                              *)
THEOREM TypeCorrect == Spec => []TypeOK
<1>1. Init => TypeOK
  <2> SUFFICES ASSUME Init PROVE TypeOK
    OBVIOUS
  <2>1. Row("ABSENT", NoRun) \in Run
    BY FreshRow, Literals
  <2>2. runs \in [RunIds -> Run]
    BY <2>1 DEF Init
  <2>3. active \in [Models -> SUBSET Listings]
    BY DEF Init
  <2> QED
    BY <2>2, <2>3 DEF Init, TypeOK
<1> QED
  BY <1>1, TypeStep, PTL DEF Spec

-----------------------------------------------------------------------------
(* What a step does to one row.                                            *)

(* The row of a free model's new slot; no other row changes.               *)
Queued(r) ==
    /\ runs[r].status = "ABSENT"
    /\ ActiveRuns(r.model) = {}
    /\ runs'[r] = Row("QUEUED", NoRun)
    /\ \A q \in RunIds \ {r} : runs'[q] = runs[q]

(* The row of a busy model's new slot.                                     *)
Coalesced(r) ==
    /\ runs[r].status = "ABSENT"
    /\ \E target \in ActiveRuns(r.model) : runs'[r] = Row("COALESCED", target)

(* The row keeps its claim; only a running one is taken further than back  *)
(* to the queue.                                                           *)
Worked(r) ==
    /\ runs[r].status = "RUNNING" \/ runs'[r].status = "QUEUED"
    /\ runs'[r].status \in Unfinished
    /\ runs'[r].agent = runs[r].agent
    /\ runs'[r].job = runs[r].job
    /\ runs'[r].report = runs[r].report

Claimed(r) ==
    \E a \in Agents :
        /\ runs[r].agent \in {NoAgent, a}
        /\ JobUsable(a, r)
        /\ runs'[r].status = "RUNNING"
        /\ runs'[r].agent = a
        /\ runs'[r].job = JobFor(a, r)
        /\ runs'[r].report = runs[r].report

Finished(r) ==
    /\ runs[r].status = "RUNNING"
    /\ runs'[r].agent = runs[r].agent
    /\ runs'[r].job = runs[r].job
    /\ \/ /\ runs'[r].status = "FAILED"
          /\ runs'[r].error = "INVALID_CHECKPOINT"
          /\ runs'[r].report = runs[r].report
       \/ \E rep \in Reports : /\ CoversClaim(rep, runs[r].job)
                               /\ runs'[r].status = rep.status
                               /\ runs'[r].report = rep
                               /\ runs'[r].error = ""

InWork(r) ==
    /\ runs[r].status \in Unfinished
    /\ runs'[r].into = runs[r].into
    /\ Worked(r) \/ Claimed(r)

Moved(r) ==
    /\ runs[r].status \in Unfinished
    /\ runs'[r].into = runs[r].into
    /\ Worked(r) \/ Claimed(r) \/ Finished(r)

LEMMA AcceptedRow ==
    ASSUME TypeOK, NEW q \in requests, Accepts(q), CoversClaim(q.report, runs[q.run].job),
           runs' = Accepted(q)
    PROVE  /\ \A r \in RunIds : runs'[r] = runs[r] \/ Moved(r)
           /\ runs'[q.run].report = q.report
<1>1. q.run \in RunIds /\ q.report \in Reports
  BY DEF TypeOK, Request
<1>2. runs[q.run] \in Run
  BY <1>1 DEF TypeOK
<1>3. runs'[q.run] = [runs[q.run] EXCEPT !.status = q.report.status, !.report = q.report,
                                         !.error = "", !.age = 0]
  BY <1>1 DEF Accepted, TypeOK
<1>4. Moved(q.run)
  BY <1>1, <1>2, <1>3 DEF Moved, Finished, Accepts, Run
<1>5. \A r \in RunIds \ {q.run} : runs'[r] = runs[r]
  BY <1>1 DEF Accepted, TypeOK
<1>6. runs'[q.run].report = q.report
  BY <1>2, <1>3 DEF Run
<1> QED
  BY <1>4, <1>5, <1>6

(* The actions that keep a run unfinished.                                 *)
WorkAction ==
    \/ \E r \in RunIds : RequeuePaused(r)
    \/ \E a \in Agents : ReclaimStale(a) \/ ClaimQueued(a)
    \/ \E a \in Agents, r \in RunIds :
          \/ Heartbeat(a, r)
          \/ \E code \in PauseCodes : Pause(a, r, code)
          \/ ReleaseRequeue(a, r)
    \/ \E q \in requests : RecordSystemError(q)
    \/ Tick

LEMMA WorkStep ==
    ASSUME TypeOK, WorkAction
    PROVE  /\ \A r \in RunIds : runs'[r] = runs[r] \/ InWork(r)
           /\ acked' = acked
<1> DEFINE Good == \A r \in RunIds : runs'[r] = runs[r] \/ InWork(r)
<1>0. \A r \in RunIds : runs[r] \in Run
  BY DEF TypeOK
<1>1. ASSUME NEW r \in RunIds, RequeuePaused(r) PROVE Good
  <2>1. runs'[r] = [runs[r] EXCEPT !.status = "QUEUED", !.error = ""]
    BY <1>1 DEF RequeuePaused, TypeOK
  <2>2. /\ runs'[r].into = runs[r].into /\ runs'[r].report = runs[r].report
        /\ runs'[r].agent = runs[r].agent /\ runs'[r].job = runs[r].job
        /\ runs'[r].status = "QUEUED"
    BY <1>0, <2>1 DEF Run
  <2>3. InWork(r)
    BY <1>1, <2>2 DEF RequeuePaused, InWork, Worked
  <2> QED
    BY <1>1, <2>3 DEF RequeuePaused, TypeOK
<1>2. ASSUME NEW a \in Agents, ReclaimStale(a) PROVE Good
  <2>1. PICK r \in OwnStale(a) :
           /\ JobUsable(a, r)
           /\ runs' = [runs EXCEPT ![r] = [@ EXCEPT !.age = 0, !.job = JobFor(a, r)]]
    BY <1>2 DEF ReclaimStale
  <2>2. r \in RunIds /\ runs[r].status = "RUNNING" /\ runs[r].agent = a
    BY DEF OwnStale, Working, Owned
  <2>3. runs'[r] = [runs[r] EXCEPT !.age = 0, !.job = JobFor(a, r)]
    BY <2>1, <2>2 DEF TypeOK
  <2>4. /\ runs'[r].into = runs[r].into /\ runs'[r].report = runs[r].report
        /\ runs'[r].status = "RUNNING" /\ runs'[r].agent = a /\ runs'[r].job = JobFor(a, r)
    BY <1>0, <2>2, <2>3 DEF Run
  <2>5. InWork(r)
    BY <2>1, <2>2, <2>4 DEF InWork, Claimed
  <2> QED
    BY <2>1, <2>2, <2>5 DEF TypeOK
<1>3. ASSUME NEW a \in Agents, ClaimQueued(a) PROVE Good
  <2>1. PICK r \in Earliest(Claimable(a)) :
           /\ JobUsable(a, r)
           /\ runs' = [runs EXCEPT ![r] = [@ EXCEPT !.status = "RUNNING", !.agent = a,
                                                    !.job = JobFor(a, r), !.error = "", !.age = 0]]
    BY <1>3 DEF ClaimQueued
  <2>2. r \in RunIds /\ runs[r].status = "QUEUED" /\ runs[r].agent \in {NoAgent, a}
    BY DEF Earliest, Claimable
  <2>3. runs'[r] = [runs[r] EXCEPT !.status = "RUNNING", !.agent = a, !.job = JobFor(a, r),
                                   !.error = "", !.age = 0]
    BY <2>1, <2>2 DEF TypeOK
  <2>4. /\ runs'[r].into = runs[r].into /\ runs'[r].report = runs[r].report
        /\ runs'[r].status = "RUNNING" /\ runs'[r].agent = a /\ runs'[r].job = JobFor(a, r)
    BY <1>0, <2>2, <2>3 DEF Run
  <2>5. InWork(r)
    BY <2>1, <2>2, <2>4 DEF InWork, Claimed
  <2> QED
    BY <2>1, <2>2, <2>5 DEF TypeOK
<1>4. ASSUME NEW a \in Agents, NEW r \in RunIds, Heartbeat(a, r) PROVE Good
  <2>1. runs'[r] = [runs[r] EXCEPT !.age = 0]
    BY <1>4 DEF Heartbeat, TypeOK
  <2>2. /\ runs'[r].into = runs[r].into /\ runs'[r].report = runs[r].report
        /\ runs'[r].agent = runs[r].agent /\ runs'[r].job = runs[r].job
        /\ runs'[r].status = runs[r].status
    BY <1>0, <2>1 DEF Run
  <2>3. InWork(r)
    BY <1>4, <2>2 DEF Heartbeat, Working, InWork, Worked
  <2> QED
    BY <1>4, <2>3 DEF Heartbeat, TypeOK
<1>5. ASSUME NEW a \in Agents, NEW r \in RunIds, NEW code \in PauseCodes, Pause(a, r, code) PROVE Good
  <2>1. runs'[r] = [runs[r] EXCEPT !.status = PauseStatus(code), !.error = code, !.age = 0]
    BY <1>5 DEF Pause, TypeOK
  <2>2. /\ runs'[r].into = runs[r].into /\ runs'[r].report = runs[r].report
        /\ runs'[r].agent = runs[r].agent /\ runs'[r].job = runs[r].job
        /\ runs'[r].status = PauseStatus(code)
    BY <1>0, <2>1 DEF Run
  <2>3. InWork(r)
    BY <1>5, <2>2 DEF Pause, Working, InWork, Worked, PauseStatus
  <2> QED
    BY <1>5, <2>3 DEF Pause, TypeOK
<1>6. ASSUME NEW a \in Agents, NEW r \in RunIds, ReleaseRequeue(a, r) PROVE Good
  <2>1. runs'[r] = [runs[r] EXCEPT !.status = "QUEUED", !.error = "", !.age = 0]
    BY <1>6 DEF ReleaseRequeue, TypeOK
  <2>2. /\ runs'[r].into = runs[r].into /\ runs'[r].report = runs[r].report
        /\ runs'[r].agent = runs[r].agent /\ runs'[r].job = runs[r].job
        /\ runs'[r].status = "QUEUED"
    BY <1>0, <2>1 DEF Run
  <2>3. InWork(r)
    BY <1>6, <2>2 DEF ReleaseRequeue, Working, InWork, Worked
  <2> QED
    BY <1>6, <2>3 DEF ReleaseRequeue, TypeOK
<1>7. ASSUME NEW q \in requests, RecordSystemError(q) PROVE Good
  <2>1. CASE NotesError(q)
    <3>1. q.run \in RunIds /\ runs[q.run].status = "RUNNING"
      BY <2>1 DEF NotesError, Working, Request, TypeOK
    <3>2. runs'[q.run] = [runs[q.run] EXCEPT !.error = "DESKTOP_REPORT_INGESTION_FAILED"]
      BY <1>7, <2>1, <3>1 DEF RecordSystemError, TypeOK
    <3>3. InWork(q.run)
      BY <1>0, <3>1, <3>2 DEF InWork, Worked, Run
    <3> QED
      BY <1>7, <2>1, <3>1, <3>3 DEF RecordSystemError, TypeOK
  <2> QED
    BY <1>7, <2>1 DEF RecordSystemError
<1>8. CASE Tick
  <2>1. ASSUME NEW r \in RunIds, runs[r].status = "RUNNING",
               runs'[r] = [runs[r] EXCEPT !.age = @ + 1]
        PROVE  InWork(r)
    BY <1>0, <2>1 DEF InWork, Worked, Run
  <2> QED
    BY <1>8, <2>1 DEF Tick
<1>9. Good
  BY <1>1, <1>2, <1>3, <1>4, <1>5, <1>6, <1>7, <1>8 DEF WorkAction
<1>10. acked' = acked
  BY DEF WorkAction, RequeuePaused, ReclaimStale, ClaimQueued, Heartbeat, Pause, ReleaseRequeue,
     RecordSystemError, Tick
<1> QED
  BY <1>9, <1>10

(* Every step leaves each row alone, creates it, or moves it.              *)
LEMMA RowStep ==
    ASSUME TypeOK, [Next]_vars
    PROVE  \A r \in RunIds : runs'[r] = runs[r] \/ Queued(r) \/ Coalesced(r) \/ Moved(r)
<1> DEFINE Good == \A r \in RunIds : runs'[r] = runs[r] \/ Queued(r) \/ Coalesced(r) \/ Moved(r)
<1> SUFFICES Good
  OBVIOUS
<1>0. \A r \in RunIds : runs[r] \in Run
  BY DEF TypeOK
<1>1. CASE UNCHANGED runs
  BY <1>1
<1>2. ASSUME NEW m \in Models, NEW s \in Slots, CreateOrCoalesce(m, s) PROVE Good
  <2> DEFINE t == [model |-> m, slot |-> s]
  <2>1. t \in RunIds /\ t.model = m
    OBVIOUS
  <2>2. \A r \in RunIds \ {t} : runs'[r] = runs[r]
    BY <1>2, <2>1 DEF CreateOrCoalesce, TypeOK
  <2>3. CASE ActiveRuns(m) = {}
    <3>1. Queued(t)
      BY <1>2, <2>1, <2>2, <2>3 DEF CreateOrCoalesce, Queued, TypeOK
    <3> QED
      BY <2>2, <3>1
  <2>4. CASE ActiveRuns(m) # {}
    <3>1. Coalesced(t)
      BY <1>2, <2>1, <2>4 DEF CreateOrCoalesce, Coalesced, CoalescingTarget, Earliest, TypeOK
    <3> QED
      BY <2>2, <3>1
  <2> QED
    BY <2>3, <2>4
<1>3. ASSUME NEW a \in Agents, NEW r \in RunIds, ReleaseQuarantine(a, r) PROVE Good
  <2>1. runs'[r] = [runs[r] EXCEPT !.status = "FAILED", !.error = "INVALID_CHECKPOINT", !.age = 0]
    BY <1>3 DEF ReleaseQuarantine, TypeOK
  <2>2. /\ runs'[r].into = runs[r].into /\ runs'[r].report = runs[r].report
        /\ runs'[r].agent = runs[r].agent /\ runs'[r].job = runs[r].job
        /\ runs'[r].status = "FAILED" /\ runs'[r].error = "INVALID_CHECKPOINT"
    BY <1>0, <2>1 DEF Run
  <2>3. Moved(r)
    BY <1>3, <2>2 DEF ReleaseQuarantine, Working, Moved, Finished
  <2> QED
    BY <1>3, <2>3 DEF ReleaseQuarantine, TypeOK
<1>4. ASSUME NEW q \in requests, AcceptReport(q) PROVE Good
  BY <1>4, AcceptedRow DEF AcceptReport, ClaimHolds
<1>5. ASSUME NEW q \in requests, FailIngest(q) PROVE Good
  BY <1>5, AcceptedRow DEF FailIngest, ClaimHolds
<1>6. CASE WorkAction
  BY <1>6, WorkStep DEF InWork, Moved
<1> QED
  BY <1>1, <1>2, <1>3, <1>4, <1>5, <1>6
  DEF Next, CatalogNext, QueueNext, AgentNext, IngestNext, WorkAction, SetModelEnabled,
      UpdateListing, SubmitReport, ReplayReport, RejectReport, vars

-----------------------------------------------------------------------------
(* The inductive invariant.  The frozen job is right for its agent because *)
(* no step forgets the agent; the coalescing targets exist because no row  *)
(* is ever removed; the acknowledgements are right because a row with a    *)
(* report is finished, and a finished row never moves.                     *)

IInv ==
    /\ TypeOK
    /\ AtMostOneUnfinished
    /\ CoalescedIntoRealRun
    /\ JobMatchesAgent
    /\ OutcomeExplained
    /\ ReportCoversClaim
    /\ AckedIsStored

LEMMA FreshRowFields ==
    ASSUME NEW s, NEW i
    PROVE  /\ Row(s, i).status = s
           /\ Row(s, i).into = i
           /\ Row(s, i).agent = NoAgent
           /\ Row(s, i).job = NoJob
           /\ Row(s, i).report = NoReport
BY DEF Row

LEMMA InvInit == Init => IInv
<1> SUFFICES ASSUME Init PROVE IInv
  OBVIOUS
<1>1. \A r \in RunIds : runs[r] = Row("ABSENT", NoRun)
  BY DEF Init
<1>2. TypeOK
  <2>1. Row("ABSENT", NoRun) \in Run
    BY FreshRow, Literals
  <2>2. runs \in [RunIds -> Run]
    BY <2>1 DEF Init
  <2> QED
    BY <2>2 DEF Init, TypeOK
<1>3. \A r \in RunIds : /\ runs[r].status = "ABSENT" /\ runs[r].into = NoRun
                        /\ runs[r].agent = NoAgent /\ runs[r].job = NoJob
                        /\ runs[r].report = NoReport
  BY <1>1, FreshRowFields
<1>4. acked = {}
  BY DEF Init
<1> QED
  BY <1>2, <1>3, <1>4 DEF IInv, AtMostOneUnfinished, CoalescedIntoRealRun, JobMatchesAgent,
     OutcomeExplained, ReportCoversClaim, AckedIsStored

(* A step that leaves a model's unfinished runs unfinished adds at most    *)
(* one, and only to a free model.                                          *)
LEMMA OneUnfinishedStep ==
    ASSUME TypeOK, AtMostOneUnfinished, [Next]_vars
    PROVE  AtMostOneUnfinished'
<1> SUFFICES ASSUME NEW r \in RunIds, NEW q \in RunIds, r.model = q.model,
                    runs'[r].status \in Unfinished, runs'[q].status \in Unfinished
             PROVE  r = q
  BY DEF AtMostOneUnfinished
<1>1. \A x \in RunIds : runs'[x].status \in Unfinished => runs[x].status \in Unfinished \/ Queued(x)
  BY RowStep, FreshRowFields DEF Coalesced, Moved
<1>2. CASE Queued(r)
  BY <1>1, <1>2 DEF Queued, ActiveRuns, UnfinishedRuns
<1>3. CASE Queued(q)
  BY <1>1, <1>3 DEF Queued, ActiveRuns, UnfinishedRuns
<1> QED
  BY <1>1, <1>2, <1>3 DEF AtMostOneUnfinished

LEMMA CoalescedStep ==
    ASSUME TypeOK, CoalescedIntoRealRun, [Next]_vars
    PROVE  CoalescedIntoRealRun'
<1>1. \A x \in RunIds : runs[x].status \notin {"ABSENT", "COALESCED"} =>
                         runs'[x].status \notin {"ABSENT", "COALESCED"}
  BY RowStep, ReportsAssumption DEF Queued, Coalesced, Moved, Worked, Claimed, Finished, ReportRecord
<1> SUFFICES ASSUME NEW r \in RunIds
             PROVE  /\ runs'[r].status = "COALESCED" <=> runs'[r].into # NoRun
                    /\ runs'[r].into # NoRun =>
                          /\ runs'[r].into.model = r.model
                          /\ runs'[runs'[r].into].status \notin {"ABSENT", "COALESCED"}
  BY DEF CoalescedIntoRealRun
<1>2. runs[r].into \in RunIds \cup {NoRun}
  BY DEF TypeOK, Run
<1>3. CASE runs'[r] = runs[r]
  BY <1>1, <1>2, <1>3 DEF CoalescedIntoRealRun
<1>4. CASE Queued(r)
  BY <1>4, FreshRowFields DEF Queued
<1>5. CASE Coalesced(r)
  <2>1. PICK target \in ActiveRuns(r.model) : runs'[r] = Row("COALESCED", target)
    BY <1>5 DEF Coalesced
  <2>2. target \in RunIds /\ target.model = r.model /\ runs[target].status \in Unfinished
    BY DEF ActiveRuns, UnfinishedRuns
  <2> QED
    BY <1>1, <2>1, <2>2, FreshRowFields, NullsAssumption
<1>6. CASE Moved(r)
  <2>1. runs[r].into = NoRun
    BY <1>6 DEF Moved, CoalescedIntoRealRun
  <2>2. runs'[r].status \in Unfinished \cup Terminal
    BY <1>6, ReportsAssumption DEF Moved, Worked, Claimed, Finished, ReportRecord
  <2> QED
    BY <1>6, <2>1, <2>2 DEF Moved
<1> QED
  BY <1>3, <1>4, <1>5, <1>6, RowStep

LEMMA JobStep ==
    ASSUME TypeOK, JobMatchesAgent, [Next]_vars
    PROVE  JobMatchesAgent'
<1> SUFFICES ASSUME NEW r \in RunIds
             PROVE  IF runs'[r].agent = NoAgent
                    THEN /\ runs'[r].job = NoJob
                         /\ runs'[r].status \in {"ABSENT", "COALESCED", "QUEUED"}
                    ELSE /\ runs'[r].job # NoJob /\ runs'[r].job.collector = runs'[r].agent
                         /\ runs'[r].status \notin {"ABSENT", "COALESCED"}
  BY DEF JobMatchesAgent
<1>1. CASE runs'[r] = runs[r]
  BY <1>1 DEF JobMatchesAgent
<1>2. CASE Queued(r) \/ Coalesced(r)
  BY <1>2, FreshRowFields DEF Queued, Coalesced
<1>3. CASE Worked(r)
  BY <1>3 DEF Worked, JobMatchesAgent
<1>4. CASE Claimed(r)
  <2>1. PICK a \in Agents : /\ JobUsable(a, r)
                            /\ runs'[r].status = "RUNNING"
                            /\ runs'[r].agent = a
                            /\ runs'[r].job = JobFor(a, r)
    BY <1>4 DEF Claimed
  <2>2. JobFor(a, r) # NoJob
    BY JobForType, NullsAssumption
  <2> QED
    BY <2>1, <2>2, NullsAssumption DEF JobUsable
<1>5. CASE Finished(r)
  BY <1>5, ReportsAssumption DEF Finished, JobMatchesAgent, ReportRecord
<1> QED
  BY <1>1, <1>2, <1>3, <1>4, <1>5, RowStep DEF Moved

LEMMA OutcomeStep ==
    ASSUME TypeOK, OutcomeExplained, ReportCoversClaim, [Next]_vars
    PROVE  OutcomeExplained' /\ ReportCoversClaim'
<1> SUFFICES ASSUME NEW r \in RunIds
             PROVE  /\ IF runs'[r].status \in Terminal
                       THEN \/ /\ runs'[r].report # NoReport
                               /\ runs'[r].status = runs'[r].report.status
                               /\ runs'[r].error = ""
                            \/ /\ runs'[r].report = NoReport
                               /\ runs'[r].status = "FAILED"
                               /\ runs'[r].error = "INVALID_CHECKPOINT"
                       ELSE runs'[r].report = NoReport
                    /\ runs'[r].report # NoReport =>
                          /\ \A l \in runs'[r].report.own : l \in runs'[r].job.own
                          /\ runs'[r].status = "SUCCEEDED" =>
                                \A l \in runs'[r].job.own : l \in runs'[r].report.own
  BY DEF OutcomeExplained, ReportCoversClaim
<1>1. CASE runs'[r] = runs[r]
  BY <1>1 DEF OutcomeExplained, ReportCoversClaim
<1>2. CASE Queued(r) \/ Coalesced(r)
  <2>1. runs'[r].status \in {"QUEUED", "COALESCED"} /\ runs'[r].report = NoReport
    BY <1>2, FreshRowFields DEF Queued, Coalesced
  <2> QED
    BY <2>1
<1>3. CASE Moved(r) /\ (Worked(r) \/ Claimed(r))
  BY <1>3 DEF Moved, Worked, Claimed, OutcomeExplained
<1>4. CASE Moved(r) /\ Finished(r)
  <2>1. runs[r].report = NoReport
    BY <1>4 DEF Moved, OutcomeExplained
  <2>2. \A rep \in Reports : rep.status \in Terminal /\ rep # NoReport
    BY ReportsAssumption DEF ReportRecord
  <2> QED
    BY <1>4, <2>1, <2>2 DEF Finished, CoversClaim
<1> QED
  BY <1>1, <1>2, <1>3, <1>4, RowStep DEF Moved

(* A row with a report is finished, and a finished row is left alone.      *)
LEMMA ReportedRowKept ==
    ASSUME TypeOK, OutcomeExplained, [Next]_vars, NEW r \in RunIds, runs[r].report # NoReport
    PROVE  runs'[r] = runs[r]
<1>1. runs[r].status \in Terminal
  BY DEF OutcomeExplained
<1> QED
  BY <1>1, RowStep DEF Queued, Coalesced, Moved

LEMMA AckedStep ==
    ASSUME TypeOK, OutcomeExplained, AckedIsStored, [Next]_vars
    PROVE  AckedIsStored'
<1> SUFFICES ASSUME NEW p \in acked' PROVE runs'[p[1]].report = p[2]
  BY DEF AckedIsStored
<1>1. CASE p \in acked
  <2>1. p[1] \in RunIds /\ p[2] # NoReport /\ runs[p[1]].report = p[2]
    BY <1>1, ReportsAssumption DEF TypeOK, AckedIsStored
  <2> QED
    BY <2>1, ReportedRowKept
<1>2. CASE p \notin acked
  <2>1. PICK q \in requests : (AcceptReport(q) \/ ReplayReport(q)) /\ p = <<q.run, q.report>>
    BY <1>2 DEF Next, CatalogNext, QueueNext, AgentNext, IngestNext, SetModelEnabled,
       UpdateListing, CreateOrCoalesce, RequeuePaused, ReclaimStale, ClaimQueued, Heartbeat,
       Pause, ReleaseRequeue, ReleaseQuarantine, SubmitReport, AcceptReport, ReplayReport,
       RejectReport, FailIngest, RecordSystemError, Tick, vars
  <2>2. CASE AcceptReport(q)
    BY <2>1, <2>2, AcceptedRow DEF AcceptReport, ClaimHolds
  <2>3. CASE ReplayReport(q)
    BY <2>1, <2>3 DEF ReplayReport, Replays
  <2> QED
    BY <2>1, <2>2, <2>3
<1> QED
  BY <1>1, <1>2

LEMMA InvStep == IInv /\ [Next]_vars => IInv'
BY TypeStep, OneUnfinishedStep, CoalescedStep, JobStep, OutcomeStep, AckedStep DEF IInv

(* The inductive invariant holds in every reachable state.                 *)
THEOREM Invariance == Spec => []IInv
BY InvInit, InvStep, PTL DEF Spec

(* A model is worked one run at a time.                                    *)
THEOREM OneUnfinishedRun == Spec => []AtMostOneUnfinished
<1>1. IInv => AtMostOneUnfinished
  BY DEF IInv
<1> QED
  BY <1>1, Invariance, PTL

(* A coalesced slot always points at a run of its model that does the work. *)
THEOREM CoalescedSlotsPointAtRuns == Spec => []CoalescedIntoRealRun
<1>1. IInv => CoalescedIntoRealRun
  BY DEF IInv
<1> QED
  BY <1>1, Invariance, PTL

(* How a run ended is always told by its status, report and error.         *)
THEOREM OutcomesAreExplained == Spec => []OutcomeExplained
<1>1. IInv => OutcomeExplained
  BY DEF IInv
<1> QED
  BY <1>1, Invariance, PTL

(* A stored report covers the listings its run was claimed with.           *)
THEOREM ReportsCoverClaims == Spec => []ReportCoversClaim
<1>1. IInv => ReportCoversClaim
  BY DEF IInv
<1> QED
  BY <1>1, Invariance, PTL

(* The frozen job always fits the agent that may claim the run again.      *)
THEOREM JobFitsAgent == Spec => []JobMatchesAgent
<1>1. IInv => JobMatchesAgent
  BY DEF IInv
<1> QED
  BY <1>1, Invariance, PTL

(* Whoever was told that a report closed a run was told of the stored one. *)
THEOREM AcknowledgedReportStored == Spec => []AckedIsStored
<1>1. IInv => AckedIsStored
  BY DEF IInv
<1> QED
  BY <1>1, Invariance, PTL

(* A finished or coalesced run never changes again.                        *)
THEOREM ClosedRunsNeverChange == Spec => ClosedRunsFrozen
<1>1. TypeOK /\ [Next]_vars =>
        [\A r \in RunIds : runs[r].status \in Terminal \cup {"COALESCED"} => runs'[r] = runs[r]]_vars
  BY RowStep DEF Queued, Coalesced, Moved
<1> QED
  BY <1>1, TypeCorrect, PTL DEF Spec, ClosedRunsFrozen

(* From its first claim on a run keeps its agent and its job.              *)
THEOREM ClaimsNeverChange == Spec => ClaimFrozen
<1>1. TypeOK /\ JobMatchesAgent /\ [Next]_vars =>
        [\A r \in RunIds : runs[r].job # NoJob =>
            runs'[r].job = runs[r].job /\ runs'[r].agent = runs[r].agent]_vars
  <2> SUFFICES ASSUME TypeOK, JobMatchesAgent, [Next]_vars, NEW r \in RunIds, runs[r].job # NoJob
               PROVE  runs'[r].job = runs[r].job /\ runs'[r].agent = runs[r].agent
    OBVIOUS
  <2>1. runs[r].agent # NoAgent /\ runs[r].job.collector = runs[r].agent /\ runs[r].status # "ABSENT"
    BY DEF JobMatchesAgent
  <2>2. CASE Claimed(r)
    BY <2>1, <2>2 DEF Claimed, JobUsable, JobFor
  <2>3. CASE Worked(r) \/ Finished(r)
    BY <2>3 DEF Worked, Finished
  <2> QED
    BY <2>1, <2>2, <2>3, RowStep DEF Queued, Coalesced, Moved
<1> QED
  BY <1>1, TypeCorrect, JobFitsAgent, PTL DEF Spec, ClaimFrozen

=============================================================================
