-------------------- MODULE CollectionRunsLedgerProofs ----------------------
(***************************************************************************)
(* The proof that CollectionRuns implements RunLedger.                     *)
(***************************************************************************)
EXTENDS CollectionRunsLedger, CollectionRunsProofs

USE DEF RunIds, Unfinished, Terminal, ReportStatuses, Paused

(* What the mapped variables are, from the rows.                           *)
LEMMA WorkingBar ==
    ASSUME AtMostOneUnfinished
    PROVE  /\ \A r \in RunIds : runs[r].status \in Unfinished => workingBar[r.model] = r
           /\ \A m \in Models : UnfinishedRuns(m) = {} => workingBar[m] = NoRun
<1>1. ASSUME NEW r \in RunIds, runs[r].status \in Unfinished PROVE workingBar[r.model] = r
  <2>1. UnfinishedRuns(r.model) = {r}
    BY <1>1 DEF UnfinishedRuns, AtMostOneUnfinished
  <2> QED
    BY <2>1 DEF workingBar
<1> QED
  BY <1>1 DEF workingBar

(* A step that keeps every row open, closed or neither, with its report,   *)
(* keeps the mapped variables.                                             *)
Alike(r) ==
    /\ runs'[r].status \in Unfinished <=> runs[r].status \in Unfinished
    /\ runs'[r].status \in Terminal <=> runs[r].status \in Terminal
    /\ runs'[r].report = runs[r].report

LEMMA AlikeKeepsWorking ==
    ASSUME NEW m \in Models, \A r \in RunIds : r.model = m => Alike(r)
    PROVE  workingBar'[m] = workingBar[m]
<1>1. UnfinishedRuns(m)' = UnfinishedRuns(m)
  BY DEF UnfinishedRuns, Alike
<1> QED
  BY <1>1 DEF workingBar

LEMMA AlikeKeepsOutcome ==
    ASSUME NEW r \in RunIds, Alike(r)
    PROVE  outcomeBar'[r] = outcomeBar[r]
BY DEF outcomeBar, Alike

LEMMA AlikeKeepsBars ==
    ASSUME \A r \in RunIds : Alike(r)
    PROVE  workingBar' = workingBar /\ outcomeBar' = outcomeBar
<1>1. \A m \in Models : workingBar'[m] = workingBar[m]
  BY AlikeKeepsWorking
<1>2. \A r \in RunIds : outcomeBar'[r] = outcomeBar[r]
  BY AlikeKeepsOutcome
<1> QED
  BY <1>1, <1>2 DEF workingBar, outcomeBar

(* Opening and closing one row.                                            *)
LEMMA OpenStep ==
    ASSUME AtMostOneUnfinished, AtMostOneUnfinished', NEW r \in RunIds, Queued(r),
           acked' = acked
    PROVE  Ledger!Open(r)
<1>1. runs'[r].status = "QUEUED"
  BY FreshRowFields DEF Queued
<1>2. workingBar[r.model] = NoRun /\ outcomeBar[r] = NoOutcome
  BY WorkingBar DEF Queued, ActiveRuns, outcomeBar
<1>3. workingBar'[r.model] = r
  <2>1. UnfinishedRuns(r.model)' = {r}
    BY <1>1 DEF UnfinishedRuns, AtMostOneUnfinished
  <2> QED
    BY <2>1 DEF workingBar
<1>4. \A q \in RunIds \ {r} : Alike(q)
  BY DEF Queued, Alike
<1>5. \A m \in Models \ {r.model} : workingBar'[m] = workingBar[m]
  BY <1>4, AlikeKeepsWorking
<1>6. workingBar' = [workingBar EXCEPT ![r.model] = r]
  BY <1>3, <1>5 DEF workingBar
<1>7. \A q \in RunIds : outcomeBar'[q] = outcomeBar[q]
  BY <1>1, <1>4, AlikeKeepsOutcome DEF outcomeBar, Queued
<1>8. outcomeBar' = outcomeBar
  BY <1>7 DEF outcomeBar
<1> QED
  BY <1>2, <1>6, <1>8 DEF Ledger!Open

LEMMA CloseStep ==
    ASSUME AtMostOneUnfinished, NEW r \in RunIds, NEW o \in Reports \cup {Quarantined},
           runs[r].status \in Unfinished, runs'[r].status \in Terminal,
           runs'[r].report = IF o = Quarantined THEN NoReport ELSE o,
           \A q \in RunIds \ {r} : Alike(q),
           acked' = acked \/ (o # Quarantined /\ acked' = acked \cup {<<r, o>>})
    PROVE  Ledger!Close(r, o)
<1>1. workingBar[r.model] = r
  BY WorkingBar
<1>2. workingBar'[r.model] = NoRun
  <2>1. UnfinishedRuns(r.model)' = {}
    BY DEF UnfinishedRuns, AtMostOneUnfinished, Alike
  <2> QED
    BY <2>1 DEF workingBar
<1>3. \A m \in Models \ {r.model} : workingBar'[m] = workingBar[m]
  BY AlikeKeepsWorking
<1>4. workingBar' = [workingBar EXCEPT ![r.model] = NoRun]
  BY <1>2, <1>3 DEF workingBar
<1>5. outcomeBar'[r] = o
  BY ReportsAssumption DEF outcomeBar
<1>6. \A q \in RunIds \ {r} : outcomeBar'[q] = outcomeBar[q]
  BY AlikeKeepsOutcome
<1>7. outcomeBar' = [outcomeBar EXCEPT ![r] = o]
  BY <1>5, <1>6 DEF outcomeBar
<1> QED
  BY <1>1, <1>4, <1>7 DEF Ledger!Close

LEMMA AcceptCloses ==
    ASSUME IInv, NEW q \in requests, Accepts(q), runs' = Accepted(q),
           acked' = acked \/ acked' = acked \cup {<<q.run, q.report>>}
    PROVE  Ledger!Close(q.run, q.report)
<1>1. q.run \in RunIds /\ q.report \in Reports
  BY DEF IInv, TypeOK, Request
<1>2. runs'[q.run] = [runs[q.run] EXCEPT !.status = q.report.status, !.report = q.report,
                                         !.error = "", !.age = 0]
  BY <1>1 DEF Accepted, IInv, TypeOK
<1>3. runs[q.run] \in Run
  BY <1>1 DEF IInv, TypeOK
<1>4. runs'[q.run].status = q.report.status /\ runs'[q.run].report = q.report
  BY <1>2, <1>3 DEF Run
<1>5. runs'[q.run].status \in Terminal
  BY <1>1, <1>4, ReportsAssumption DEF ReportRecord
<1>6. \A x \in RunIds \ {q.run} : Alike(x)
  BY <1>1 DEF Accepted, Alike, IInv, TypeOK
<1>7. runs[q.run].status \in Unfinished /\ q.report # Quarantined
  BY <1>1, OutcomesAssumption DEF Accepts
<1> QED
  BY <1>1, <1>4, <1>5, <1>6, <1>7, CloseStep DEF IInv

LEMMA LedgerStep ==
    ASSUME IInv, IInv', [Next]_vars
    PROVE  [Ledger!LedgerNext]_<<workingBar, outcomeBar, acked>>
<1> DEFINE Stutter == workingBar' = workingBar /\ outcomeBar' = outcomeBar /\ acked' = acked
<1> SUFFICES Ledger!LedgerNext \/ Stutter
  OBVIOUS
<1>0. \A r \in RunIds : runs[r] \in Run
  BY DEF IInv, TypeOK
<1>1. ASSUME UNCHANGED <<runs, acked>> PROVE Stutter
  <2>1. \A r \in RunIds : Alike(r)
    BY <1>1 DEF Alike
  <2> QED
    BY <1>1, <2>1, AlikeKeepsBars
<1>2. ASSUME NEW m \in Models, NEW s \in Slots, CreateOrCoalesce(m, s)
      PROVE  Ledger!LedgerNext \/ Stutter
  <2>1. PICK r \in RunIds : Queued(r) \/ (Coalesced(r) /\ \A q \in RunIds \ {r} : runs'[q] = runs[q])
    <3> DEFINE t == [model |-> m, slot |-> s]
    <3>1. t \in RunIds /\ t.model = m
      OBVIOUS
    <3>2. \A r \in RunIds \ {t} : runs'[r] = runs[r]
      BY <1>2, <3>1 DEF CreateOrCoalesce, IInv, TypeOK
    <3>3. ActiveRuns(m) = {} => Queued(t)
      BY <1>2, <3>1, <3>2 DEF CreateOrCoalesce, Queued, IInv, TypeOK
    <3>4. ActiveRuns(m) # {} => Coalesced(t)
      BY <1>2, <3>1 DEF CreateOrCoalesce, Coalesced, CoalescingTarget, Earliest, IInv, TypeOK
    <3> QED
      BY <3>1, <3>2, <3>3, <3>4
  <2>2. acked' = acked
    BY <1>2 DEF CreateOrCoalesce
  <2>3. CASE Queued(r)
    BY <2>2, <2>3, OpenStep DEF IInv, Ledger!LedgerNext
  <2>4. CASE Coalesced(r) /\ \A q \in RunIds \ {r} : runs'[q] = runs[q]
    <3>1. runs'[r].status = "COALESCED" /\ runs'[r].report = NoReport
      BY <2>4, FreshRowFields DEF Coalesced
    <3>2. runs[r].status = "ABSENT" /\ runs[r].report = NoReport
      BY <2>4 DEF Coalesced, IInv, OutcomeExplained
    <3>3. \A q \in RunIds : Alike(q)
      BY <2>4, <3>1, <3>2 DEF Alike
    <3> QED
      BY <2>2, <3>3, AlikeKeepsBars
  <2> QED
    BY <2>1, <2>3, <2>4
<1>3. ASSUME NEW a \in Agents, NEW r \in RunIds, ReleaseQuarantine(a, r) PROVE Ledger!LedgerNext
  <2>1. runs'[r] = [runs[r] EXCEPT !.status = "FAILED", !.error = "INVALID_CHECKPOINT", !.age = 0]
    BY <1>3 DEF ReleaseQuarantine, IInv, TypeOK
  <2>2. runs'[r].status = "FAILED" /\ runs'[r].report = runs[r].report
    BY <1>0, <2>1 DEF Run
  <2>3. runs[r].status = "RUNNING" /\ runs[r].report = NoReport
    BY <1>3 DEF ReleaseQuarantine, Working, IInv, OutcomeExplained
  <2>4. \A q \in RunIds \ {r} : Alike(q)
    BY <1>3 DEF ReleaseQuarantine, Alike, IInv, TypeOK
  <2>5. Ledger!Close(r, Quarantined)
    BY <1>3, <2>2, <2>3, <2>4, CloseStep DEF ReleaseQuarantine, IInv
  <2> QED
    BY <2>5 DEF Ledger!LedgerNext
<1>4. ASSUME NEW q \in requests, AcceptReport(q) PROVE Ledger!LedgerNext
  <2>1. q.run \in RunIds /\ q.report \in Reports
    BY DEF IInv, TypeOK, Request
  <2> QED
    BY <1>4, <2>1, AcceptCloses DEF AcceptReport, Ledger!LedgerNext
<1>5. ASSUME NEW q \in requests, FailIngest(q) PROVE Ledger!LedgerNext \/ Stutter
  <2>1. q.run \in RunIds /\ q.report \in Reports
    BY DEF IInv, TypeOK, Request
  <2> QED
    BY <1>1, <1>5, <2>1, AcceptCloses DEF FailIngest, Ledger!LedgerNext
<1>6. ASSUME NEW q \in requests, ReplayReport(q) PROVE Ledger!LedgerNext
  <2>1. q.run \in RunIds /\ q.report \in Reports
    BY DEF IInv, TypeOK, Request
  <2>2. outcomeBar[q.run] = q.report
    BY <1>6, <2>1, ReportsAssumption DEF ReplayReport, Replays, outcomeBar
  <2>3. workingBar' = workingBar /\ outcomeBar' = outcomeBar
    BY <1>6, AlikeKeepsBars DEF ReplayReport, Alike
  <2>4. Ledger!Answer(q.run)
    BY <1>6, <2>1, <2>2, <2>3 DEF ReplayReport, Ledger!Answer
  <2> QED
    BY <2>1, <2>4 DEF Ledger!LedgerNext
<1>7. CASE WorkAction
  <2>1. \A r \in RunIds : (runs'[r] = runs[r] \/ InWork(r)) /\ acked' = acked
    BY <1>7, WorkStep DEF IInv
  <2>2. \A r \in RunIds : Alike(r)
    BY <2>1 DEF Alike, InWork, Worked, Claimed
  <2>3. acked' = acked
    BY <1>7, WorkStep DEF IInv
  <2> QED
    BY <2>2, <2>3, AlikeKeepsBars
<1> QED
  BY <1>1, <1>2, <1>3, <1>4, <1>5, <1>6, <1>7
  DEF Next, CatalogNext, QueueNext, AgentNext, IngestNext, WorkAction, SetModelEnabled,
      UpdateListing, SubmitReport, RejectReport, vars

LEMMA LedgerInitial == Init => Ledger!LedgerInit
<1> SUFFICES ASSUME Init PROVE Ledger!LedgerInit
  OBVIOUS
<1>1. \A r \in RunIds : runs[r].status = "ABSENT"
  BY FreshRowFields DEF Init
<1>2. \A m \in Models : UnfinishedRuns(m) = {}
  BY <1>1 DEF UnfinishedRuns
<1> QED
  BY <1>1, <1>2 DEF Init, Ledger!LedgerInit, workingBar, outcomeBar

(* Scheduler, operators, agents and report ingestion together keep the     *)
(* ledger's promise.                                                       *)
THEOREM LedgerRefinement == Spec => ImplementsLedger
<1>1. Init => Ledger!LedgerInit
  BY LedgerInitial
<1>2. IInv /\ IInv' /\ [Next]_vars => [Ledger!LedgerNext]_<<workingBar, outcomeBar, acked>>
  BY LedgerStep
<1> QED
  BY <1>1, <1>2, Invariance, PTL DEF Spec, ImplementsLedger, Ledger!LedgerSpec, Ledger!ledger

=============================================================================
