-------------------------- MODULE RunReportProofs ---------------------------
(***************************************************************************)
(* What becomes of a run's report, for every report and every model.       *)
(*                                                                         *)
(* Nothing but the ingestion creates rows: an evaluation rewrites each of  *)
(* them and keeps its identity, so that the counts of the report stay      *)
(* those of the rows (CountsAreOfRows); and a candidate's best SKU exists  *)
(* and is comparable whenever one of its SKUs is (CandidatesShowTheirBest).*)
(*                                                                         *)
(* A price the collector calculated, or migrated from a checkpoint, is     *)
(* confirmed exactly when it is the least to be paid (PricesArePayable):   *)
(* the promotions taken are the largest of each group, and any that may be *)
(* used together map injectively to larger ones among them.                *)
(*                                                                         *)
(* Whatever the reads of a page found, its rows are those of the report as *)
(* one evaluation left them, or none, and these rows tell that             *)
(* evaluation's lower prices and missing combinations                      *)
(* (PagesTellOneEvaluation).  What the evaluations told, and the alerts    *)
(* they stored, are the competitors' offers below the cheapest of ours     *)
(* with the same signature (AlertsTellSignedOffers), and with the same     *)
(* goods where signatures tell them (AlertsTellClearOffers).               *)
(*                                                                         *)
(* An item goes under the shop of its first rank; and a list whose members *)
(* fill the places from 0 on is shown by its pages completely and nothing  *)
(* twice.                                                                  *)
(***************************************************************************)
EXTENDS RunReport, FiniteSetTheorems, SequenceTheorems, WellFoundedInduction, TLAPS

-----------------------------------------------------------------------------
(* The inductive invariant.                                                *)

(* A stored row has its columns, and so has the run's row.                 *)
IsRow(row) ==
    row = [id |-> row.id, listing |-> row.listing, item |-> row.item, sku |-> row.sku,
           stock |-> row.stock, confidence |-> row.confidence, payable |-> row.payable,
           offer |-> row.offer, components |-> row.components, decision |-> row.decision,
           comparable |-> row.comparable, confidenceBps |-> row.confidenceBps,
           state |-> row.state, signature |-> row.signature, own |-> row.own,
           reasons |-> row.reasons]

IsRun(r) ==
    /\ r = [status |-> r.status, covered |-> r.covered, counts |-> r.counts,
            answer |-> r.answer, baseline |-> r.baseline]
    /\ r.counts = [searched |-> r.counts.searched, skus |-> r.counts.skus,
                   failed |-> r.counts.failed]

IsSequence(s) == s \in Seq({s[i] : i \in 1..Len(s)})

(* The SKU a row was made of.                                              *)
RowOf(row, sku) ==
    row.id = sku.id /\ row.listing = sku.listing /\ row.item = sku.item /\ row.sku = sku.sku

(* The rows are those of the report, one for each SKU.                     *)
RowsOfReport(all, skus) ==
    /\ \A row \in all : IsRow(row) /\ \E sku \in skus : RowOf(row, sku)
    /\ \A sku \in skus : \E row \in all : RowOf(row, sku)
    /\ \A row, other \in all : row.id = other.id => row = other

(* A SKU of ours was captured.                                             *)
Seen == \E sku \in report.skus : sku.listing \in Listings

(* Nothing is stored before the report is.                                 *)
Empty ==
    /\ rows = {} /\ positions = <<>> /\ issues = {} /\ alerts = {} /\ batch = {}
    /\ decided = <<>>

(* What is stored is what was reported, and what the first evaluation      *)
(* found missing.                                                          *)
Reported ==
    /\ run.covered = report.covered
    /\ positions = report.positions
    /\ RowsOfReport(rows, report.skus)
    /\ issues = report.issues \cup {i \in {BaselineMissing} : decided # <<>> /\ ~Seen}
    /\ run.counts = [searched |-> Len(positions), skus |-> Cardinality(rows),
                     failed |-> Cardinality(issues)]
    /\ run.answer = [items       |-> Cardinality({p.item : p \in ToSet(positions)}),
                     own         |-> {row.id : row \in {r \in rows : IsOwn(r)}},
                     competitors |-> {row.id : row \in {r \in rows : ~IsOwn(r)}}]

(* The one batch was made by the first evaluation.                         *)
Announced ==
    /\ batch = {} <=> decided = <<>>
    /\ \A announced \in batch :
           /\ announced.positions = Len(positions) /\ announced.skus = Cardinality(rows)
           /\ announced.issues = Cardinality(issues)
           /\ announced.missing = decided[1].missing
           /\ {a.item : a \in announced.alerts} \subseteq {row.item : row \in rows}

CompetitorItems == {row.item : row \in {r \in rows : ~IsOwn(r)}}

Shown(item) ==
    candidates[item].comparable
        <=> \E row \in rows : row.item = item /\ ~IsOwn(row) /\ row.comparable

(* An evaluation leaves a candidate for every competitor's item.           *)
CandidatesShown ==
    decided # <<>> => /\ CompetitorItems \subseteq DOMAIN candidates
                      /\ \A item \in CompetitorItems \ touched : Shown(item)

IInv ==
    /\ report \in Reports
    /\ IsRun(run) /\ run.status \in {"RUNNING", "REPORTED"}
    /\ IsSequence(decided)
    /\ run.status = "RUNNING" => Empty
    /\ run.status = "REPORTED" => Reported /\ Announced /\ CandidatesShown

-----------------------------------------------------------------------------
(* Counting what has numbers of its own.                                   *)

LEMMA CountById ==
    ASSUME NEW S, IsFiniteSet(S), \A s, t \in S : s.id = t.id => s = t
    PROVE  /\ IsFiniteSet({s.id : s \in S})
           /\ Cardinality({s.id : s \in S}) = Cardinality(S)
<1> DEFINE T == {s.id : s \in S}
           f == [s \in S |-> s.id]
<1>1. f \in Bijection(S, T)
  <2>1. f \in [S -> T] /\ \A t \in T : \E s \in S : f[s] = t
    OBVIOUS
  <2>2. \A s, t \in S : f[s] = f[t] => s = t
    OBVIOUS
  <2> QED
    BY <2>1, <2>2 DEF Bijection, Injection, Surjection, IsInjective
<1>2. ExistsBijection(S, T)
  BY <1>1 DEF ExistsBijection
<1> QED
  BY <1>2, FS_Bijection

(* Two sets with the same numbers have as many members.                    *)
LEMMA SameIdsSameCount ==
    ASSUME NEW S, NEW T, IsFiniteSet(S), {s.id : s \in S} = {t.id : t \in T},
           \A s, t \in S : s.id = t.id => s = t,
           \A s, t \in T : s.id = t.id => s = t
    PROVE  IsFiniteSet(T) /\ Cardinality(T) = Cardinality(S)
<1> DEFINE Twin(s) == CHOOSE t \in T : t.id = s.id
           f == [s \in S |-> Twin(s)]
<1>1. \A s \in S : Twin(s) \in T /\ Twin(s).id = s.id
  <2> TAKE s \in S
  <2>1. \E t \in T : t.id = s.id
    OBVIOUS
  <2> QED
    BY <2>1
<1> HIDE DEF Twin
<1>2. f \in [S -> T]
  BY <1>1
<1>3. \A s, t \in S : f[s] = f[t] => s = t
  BY <1>1
<1>4. ASSUME NEW t \in T
      PROVE  \E s \in S : f[s] = t
  <2>1. PICK s \in S : s.id = t.id
    OBVIOUS
  <2> QED
    BY <1>1, <2>1
<1>5. f \in Bijection(S, T)
  BY <1>2, <1>3, <1>4 DEF Bijection, Injection, Surjection, IsInjective
<1> QED
  BY <1>5, FS_Bijection DEF ExistsBijection

(* The set is the sum of two halves.                                       *)
LEMMA HalvesCount ==
    ASSUME NEW S, IsFiniteSet(S), NEW A, A \subseteq S
    PROVE  Cardinality(A) + Cardinality(S \ A) = Cardinality(S)
<1>1. IsFiniteSet(A) /\ IsFiniteSet(S \ A)
  BY FS_Subset
<1>2. A \cup (S \ A) = S /\ A \cap (S \ A) = {}
  OBVIOUS
<1>3. Cardinality(A) \in Nat /\ Cardinality(S \ A) \in Nat /\ Cardinality({}) = 0
  BY <1>1, FS_CardinalityType, FS_EmptySet
<1>4. Cardinality(A \cup (S \ A)) = Cardinality(A) + Cardinality(S \ A) - Cardinality(A \cap (S \ A))
  BY <1>1, FS_Union
<1>5. Cardinality(S) = Cardinality(A) + Cardinality(S \ A) - 0
  BY <1>2, <1>3, <1>4
<1> QED
  BY <1>3, <1>5

(* A sequence has at most as many things as places.                        *)
LEMMA ThingsAtPlaces ==
    ASSUME NEW s, s \in Seq(ToSet(s))
    PROVE  LET things == {p.item : p \in ToSet(s)}
           IN  /\ IsFiniteSet(things) /\ Cardinality(things) \in Nat
               /\ Len(s) \in Nat /\ Cardinality(things) <= Len(s)
<1> DEFINE things == {p.item : p \in ToSet(s)}
           f == [i \in 1..Len(s) |-> s[i].item]
<1>1. Len(s) \in Nat /\ DOMAIN s = 1..Len(s)
  OBVIOUS
<1>2. IsFiniteSet(1..Len(s)) /\ Cardinality(1..Len(s)) = Len(s)
  BY <1>1, FS_Interval
<1>3. f \in Surjection(1..Len(s), things)
  BY <1>1 DEF Surjection, ToSet
<1>4. IsFiniteSet(things) /\ Cardinality(things) <= Len(s)
  BY <1>2, <1>3, FS_Surjection DEF ExistsSurjection
<1> QED
  BY <1>1, <1>4, FS_CardinalityType

LEMMA RowsCounted ==
    ASSUME NEW captured \in Reports, NEW all, RowsOfReport(all, captured.skus)
    PROVE  IsFiniteSet(all) /\ Cardinality(all) = Cardinality(captured.skus)
<1>1. /\ IsFiniteSet(captured.skus)
      /\ \A sku, other \in captured.skus : sku.id = other.id => sku = other
  BY ReportsAssumption
<1>2. {sku.id : sku \in captured.skus} = {row.id : row \in all}
  BY DEF RowsOfReport, RowOf
<1> QED
  BY <1>1, <1>2, SameIdsSameCount DEF RowsOfReport

-----------------------------------------------------------------------------
(* What follows from the invariant.                                        *)

LEMMA InvCounts == IInv => CountsTellRows
<1> SUFFICES ASSUME IInv PROVE CountsTellRows
  OBVIOUS
<1>1. ASSUME run.status = "REPORTED"
      PROVE  /\ run.counts = [searched |-> Len(positions), skus |-> Cardinality(rows),
                              failed |-> Cardinality(issues)]
             /\ Cardinality(run.answer.own) + Cardinality(run.answer.competitors) = Cardinality(rows)
             /\ run.answer.items <= run.counts.searched
             /\ completion(toRawRun).complete <=>
                    /\ report.covered /\ report.issues = {}
                    /\ decided = <<>> \/ \E sku \in report.skus : sku.listing \in Listings
  <2>1. Reported /\ report \in Reports
    BY <1>1 DEF IInv
  <2>2. run.counts = [searched |-> Len(positions), skus |-> Cardinality(rows),
                      failed |-> Cardinality(issues)]
    BY <2>1 DEF Reported
  <2>3. Cardinality(run.answer.own) + Cardinality(run.answer.competitors) = Cardinality(rows)
    <3> DEFINE ours == {row \in rows : IsOwn(row)}
               theirs == {row \in rows : ~IsOwn(row)}
    <3>1. IsFiniteSet(rows) /\ \A row, other \in rows : row.id = other.id => row = other
      BY <2>1, RowsCounted DEF Reported, RowsOfReport
    <3>2. theirs = rows \ ours /\ ours \subseteq rows
      OBVIOUS
    <3>3. IsFiniteSet(ours) /\ IsFiniteSet(theirs)
      BY <3>1, <3>2, FS_Subset
    <3>4. run.answer.own = {row.id : row \in ours} /\ run.answer.competitors = {row.id : row \in theirs}
      BY <2>1 DEF Reported
    <3>5. Cardinality(run.answer.own) = Cardinality(ours)
      BY <3>1, <3>2, <3>3, <3>4, CountById
    <3>6. Cardinality(run.answer.competitors) = Cardinality(theirs)
      BY <3>1, <3>2, <3>3, <3>4, CountById
    <3> HIDE DEF ours, theirs
    <3> QED
      BY <3>1, <3>2, <3>5, <3>6, HalvesCount
  <2>4. run.answer.items <= run.counts.searched
    <3>1. positions \in Seq(ToSet(positions))
      BY <2>1, ReportsAssumption DEF Reported
    <3> QED
      BY <2>1, <2>2, <3>1, ThingsAtPlaces DEF Reported
  <2>5. completion(toRawRun).complete <=> report.covered /\ issues = {}
    <3>1. IsFiniteSet(issues)
      <4>1. IsFiniteSet(report.issues)
        BY <2>1, ReportsAssumption
      <4>2. IsFiniteSet({i \in {BaselineMissing} : decided # <<>> /\ ~Seen})
        BY FS_Singleton, FS_Subset
      <4> QED
        BY <2>1, <4>1, <4>2, FS_Union DEF Reported
    <3>2. Cardinality(issues) = 0 <=> issues = {}
      BY <3>1, FS_EmptySet
    <3>3. completion(toRawRun).complete <=> (run.covered /\ run.counts.failed = 0)
      BY DEF completion, toRawRun
    <3>4. run.covered = report.covered
      BY <2>1 DEF Reported
    <3>5. run.counts.failed = Cardinality(issues)
      BY <2>2
    <3> QED
      BY <3>2, <3>3, <3>4, <3>5, Zenon
  <2>6. issues = {} <=> report.issues = {} /\ (decided = <<>> \/ Seen)
    BY <2>1 DEF Reported
  <2> QED
    BY <2>2, <2>3, <2>4, <2>5, <2>6 DEF Seen
<1>2. ASSUME NEW announced \in batch
      PROVE  /\ announced.positions = Len(positions) /\ announced.skus = Cardinality(rows)
             /\ announced.issues = Cardinality(issues)
             /\ announced.missing = decided[1].missing
             /\ {a.item : a \in announced.alerts} \subseteq {row.item : row \in rows}
  BY <1>2 DEF IInv, Empty, Announced
<1> QED
  BY <1>1, <1>2 DEF CountsTellRows

LEMMA InvCandidates == IInv => CandidateShowsItsBestSku
BY DEF IInv, Empty, CandidatesShown, CandidateShowsItsBestSku, CompetitorItems, Shown

-----------------------------------------------------------------------------
(* The best SKU of a candidate.                                            *)

LEMMA LeastNat ==
    ASSUME NEW T \in SUBSET Nat, T # {}
    PROVE  \E n \in T : \A m \in T : ~(m < n)
<1>1. \E n \in T : \A m \in T : ~(<<m, n>> \in OpToRel(<, Nat))
  BY NatLessThanWellFounded, WFMin
<1> QED
  BY <1>1 DEF OpToRel

(* Of a set whose members have a rank, one has the least.                  *)
LEMMA LeastBy ==
    ASSUME NEW S, S # {}, NEW f \in [S -> Nat]
    PROVE  \E m \in S : \A o \in S : f[m] <= f[o]
<1> DEFINE T == {f[m] : m \in S}
<1>1. T \in SUBSET Nat /\ T # {} /\ \A o \in S : f[o] \in T
  OBVIOUS
<1>2. \A n \in T : \E m \in S : f[m] = n
  OBVIOUS
<1> HIDE DEF T
<1>3. PICK n \in T : \A k \in T : ~(k < n)
  BY <1>1, LeastNat
<1>4. PICK m \in S : f[m] = n
  BY <1>2
<1>5. ASSUME NEW o \in S
      PROVE  f[m] <= f[o]
  <2>1. f[m] \in Nat /\ f[o] \in Nat
    OBVIOUS
  <2>2. ~(f[o] < f[m])
    BY <1>1, <1>3, <1>4
  <2> QED
    BY <2>1, <2>2
<1> QED
  BY <1>5

LEMMA MostBy ==
    ASSUME NEW S, S # {}, NEW n \in Nat, NEW f \in [S -> Nat], \A m \in S : f[m] <= n
    PROVE  \E m \in S : \A o \in S : f[o] <= f[m]
<1> DEFINE g == [m \in S |-> n - f[m]]
<1>1. \A m \in S : f[m] \in Nat /\ f[m] <= n /\ g[m] = n - f[m]
  OBVIOUS
<1>2. g \in [S -> Nat]
  BY <1>1
<1> HIDE DEF g
<1>3. PICK m \in S : \A o \in S : g[m] <= g[o]
  BY <1>2, LeastBy
<1>4. ASSUME NEW o \in S
      PROVE  f[o] <= f[m]
  BY <1>1, <1>3
<1> QED
  BY <1>4

(* A decision to store is comparable exactly when it names a category.     *)
LEMMA DecisionKinds ==
    ASSUME NEW asked, NEW offer
    PROVE  LET d == persistenceDecision(asked, offer)
           IN  /\ d.confidence \in Nat /\ d.confidence <= 10000
               /\ d.comparable <=> d.decision \in {"BARE", "BUNDLE"}
<1> DEFINE m == match(asked, offer)
           d == persistenceDecision(asked, offer)
           category == classifyOffer(offer)
           out == offer.excluded \/ offer.lacking \/ offer.model = "NONE"
           Known(comparable, ifExact, ifAlias) ==
               [category |-> category, comparable |-> comparable,
                confidence |-> IF offer.model = "EXACT" THEN ifExact ELSE ifAlias]
<1>1. category \in {"BARE", "BUNDLE", "MANUAL"}
  BY DEF classifyOffer
<1>2. /\ d.confidence = m.confidence
      /\ d.comparable = m.comparable
      /\ d.decision = IF m.category = "REJECTED" THEN "REJECTED"
                      ELSE IF m.comparable THEN m.category ELSE "MANUAL"
  BY DEF persistenceDecision
<1>3. m \in {Rejected, Known(FALSE, 7500, 6500), Known(FALSE, 9500, 8500)}
         \/ /\ m \in {Known(TRUE, 9800, 9000), Known(TRUE, 9300, 8500)}
            /\ category # "MANUAL"
  BY DEF match
<1> HIDE DEF m, d, category
<1>4. m.confidence \in Nat /\ m.confidence <= 10000
  BY <1>3 DEF Rejected
<1>5. \/ m.comparable = FALSE
      \/ m.comparable = TRUE /\ m.category \in {"BARE", "BUNDLE"}
  BY <1>1, <1>3 DEF Rejected
<1>6. d.comparable <=> d.decision \in {"BARE", "BUNDLE"}
  <2>1. CASE m.comparable = FALSE
    BY <1>2, <2>1
  <2>2. CASE m.comparable = TRUE /\ m.category \in {"BARE", "BUNDLE"}
    BY <1>2, <2>2
  <2> QED
    BY <1>5, <2>1, <2>2, Zenon
<1>7. d.confidence \in Nat /\ d.confidence <= 10000
  BY <1>2, <1>4
<1> QED
  BY <1>6, <1>7 DEF d

LEMMA BestSkuExists ==
    ASSUME NEW S, S # {},
           \A m \in S : m.id \in Nat /\ m.decision.confidence \in Nat /\ m.decision.confidence <= 10000
    PROVE  \E m \in S : \A o \in S : BetterSku(m, o)
<1> DEFINE pr == [m \in S |-> Priority(m.decision.decision)]
           cf == [m \in S |-> m.decision.confidence]
           id == [m \in S |-> m.id]
<1>1. \A m \in S : Priority(m.decision.decision) \in 0..2
  BY DEF Priority
<1>2. /\ pr \in [S -> Nat] /\ cf \in [S -> Nat] /\ id \in [S -> Nat]
      /\ \A m \in S : pr[m] <= 2 /\ cf[m] <= 10000
  BY <1>1
<1>3. \A m, o \in S : BetterSku(m, o) <=>
         \/ pr[m] > pr[o]
         \/ pr[m] = pr[o] /\ (cf[m] > cf[o] \/ (cf[m] = cf[o] /\ id[m] <= id[o]))
  BY DEF BetterSku
<1> HIDE DEF pr, cf, id
<1>4. PICK a \in S : \A o \in S : pr[o] <= pr[a]
  BY <1>2, MostBy
<1> DEFINE A == {m \in S : pr[m] = pr[a]}
<1>5. PICK b \in A : \A o \in A : cf[o] <= cf[b]
  <2> DEFINE f == [m \in A |-> cf[m]]
  <2>1. f \in [A -> Nat] /\ A # {} /\ \A m \in A : f[m] = cf[m] /\ f[m] <= 10000
    BY <1>2
  <2> HIDE DEF f, A
  <2>2. PICK b \in A : \A o \in A : f[o] <= f[b]
    BY <2>1, MostBy
  <2> QED
    BY <2>1, <2>2
<1> DEFINE B == {m \in A : cf[m] = cf[b]}
<1>6. PICK c \in B : \A o \in B : id[c] <= id[o]
  <2> DEFINE f == [m \in B |-> id[m]]
  <2>1. f \in [B -> Nat] /\ B # {} /\ \A m \in B : f[m] = id[m]
    BY <1>2
  <2> HIDE DEF f, B
  <2>2. PICK c \in B : \A o \in B : f[c] <= f[o]
    BY <2>1, LeastBy
  <2> QED
    BY <2>1, <2>2
<1>7. ASSUME NEW o \in S
      PROVE  BetterSku(c, o)
  <2>1. c \in S /\ pr[c] = pr[a] /\ cf[c] = cf[b]
    OBVIOUS
  <2>2. pr[o] \in Nat /\ pr[c] \in Nat /\ cf[o] \in Nat /\ cf[c] \in Nat
    BY <1>2, <2>1
  <2>3. pr[o] = pr[c] => cf[o] <= cf[c]
    BY <1>5, <2>1
  <2>4. pr[o] = pr[c] /\ cf[o] = cf[c] => id[c] <= id[o]
    BY <1>6, <2>1
  <2>5. pr[o] <= pr[c]
    BY <1>4, <2>1
  <2> HIDE DEF A, B
  <2>6. \/ pr[c] > pr[o]
        \/ pr[c] = pr[o] /\ (cf[c] > cf[o] \/ (cf[c] = cf[o] /\ id[c] <= id[o]))
    BY <2>2, <2>3, <2>4, <2>5
  <2> QED
    BY <1>3, <2>1, <2>6
<1> QED
  BY <1>7

(* So a candidate is comparable when, and only when, one of its SKUs is.   *)
MatchedRows(all) == {Matched(row) : row \in all}

DecidedByBest(decisions, all) ==
    /\ DOMAIN decisions = {row.item : row \in {r \in all : ~IsOwn(r)}}
    /\ \A item \in {row.item : row \in {r \in all : ~IsOwn(r)}} :
          decisions[item].comparable
             <=> \E row \in all : row.item = item /\ ~IsOwn(row) /\ Matched(row).decision.comparable

LEMMA CandidateDecided ==
    ASSUME NEW all, \A row \in all : row.id \in Nat
    PROVE  DecidedByBest(candidateDecisions(MatchedRows(all)), all)
<1> DEFINE matched == MatchedRows(all)
<1> USE DEF MatchedRows
<1>1. \A row \in all : /\ Matched(row).id = row.id /\ Matched(row).item = row.item
                       /\ Matched(row).listing = row.listing
                       /\ Matched(row).decision = persistenceDecision(rule, rawOffer(row))
  BY DEF Matched
<1>2. \A m \in matched : /\ m.id \in Nat /\ m.decision.confidence \in Nat /\ m.decision.confidence <= 10000
                         /\ m.decision.comparable <=> m.decision.decision \in {"BARE", "BUNDLE"}
  BY <1>1, DecisionKinds
<1>3. {m.item : m \in {c \in matched : ~IsOwn(c)}} = {row.item : row \in {r \in all : ~IsOwn(r)}}
  <2>1. ASSUME NEW m \in matched, ~IsOwn(m)
        PROVE  \E row \in all : ~IsOwn(row) /\ row.item = m.item
    <3>1. PICK row \in all : m = Matched(row)
      OBVIOUS
    <3>2. m.item = row.item /\ m.listing = row.listing
      BY <1>1, <3>1
    <3> QED
      BY <2>1, <3>2 DEF IsOwn
  <2>2. ASSUME NEW row \in all, ~IsOwn(row)
        PROVE  \E m \in matched : ~IsOwn(m) /\ m.item = row.item
    <3>1. Matched(row) \in matched /\ ~IsOwn(Matched(row)) /\ Matched(row).item = row.item
      BY <1>1, <2>2 DEF IsOwn
    <3> QED
      BY <3>1
  <2> QED
    BY <2>1, <2>2
<1>4. DOMAIN candidateDecisions(matched) = {row.item : row \in {r \in all : ~IsOwn(r)}}
  BY <1>3 DEF candidateDecisions
<1>5. ASSUME NEW item \in {row.item : row \in {r \in all : ~IsOwn(r)}}
      PROVE  candidateDecisions(matched)[item].comparable
                <=> \E row \in all : row.item = item /\ ~IsOwn(row) /\ Matched(row).decision.comparable
  <2> DEFINE S == {m \in matched : m.item = item /\ ~IsOwn(m)}
             best == CHOOSE m \in S : \A o \in S : BetterSku(m, o)
  <2>1. S # {}
    BY <1>3
  <2>2. \E m \in S : \A o \in S : BetterSku(m, o)
    <3>1. \A m \in S : m.id \in Nat /\ m.decision.confidence \in Nat /\ m.decision.confidence <= 10000
      BY <1>2
    <3> HIDE DEF S
    <3> QED
      BY <2>1, <3>1, BestSkuExists
  <2>3. best \in S /\ \A o \in S : BetterSku(best, o)
    BY <2>2
  <2>4. candidateDecisions(matched)[item].comparable = best.decision.comparable
    BY <1>3 DEF candidateDecisions
  <2> HIDE DEF best
  <2>5. ASSUME NEW o \in S, o.decision.comparable
        PROVE  best.decision.comparable
    <3>1. Priority(o.decision.decision) = 2
      BY <1>2, <2>5 DEF Priority
    <3>2. Priority(best.decision.decision) = 0 \/ Priority(best.decision.decision) = 1
             \/ Priority(best.decision.decision) = 2
      BY DEF Priority
    <3>3. BetterSku(best, o)
      BY <2>3
    <3>4. Priority(best.decision.decision) = 2
      BY <3>1, <3>2, <3>3 DEF BetterSku
    <3>5. best.decision.decision \in {"BARE", "BUNDLE"}
      BY <3>4 DEF Priority
    <3> QED
      BY <1>2, <2>3, <3>5
  <2>6. best.decision.comparable <=> \E o \in S : o.decision.comparable
    BY <2>3, <2>5
  <2>7. (\E o \in S : o.decision.comparable)
           <=> \E row \in all : row.item = item /\ ~IsOwn(row) /\ Matched(row).decision.comparable
    <3>1. ASSUME NEW o \in S, o.decision.comparable
          PROVE  \E row \in all : row.item = item /\ ~IsOwn(row) /\ Matched(row).decision.comparable
      <4>1. PICK row \in all : o = Matched(row)
        OBVIOUS
      <4> QED
        BY <1>1, <3>1, <4>1 DEF IsOwn
    <3>2. ASSUME NEW row \in all, row.item = item, ~IsOwn(row), Matched(row).decision.comparable
          PROVE  \E o \in S : o.decision.comparable
      <4>1. Matched(row) \in S
        BY <1>1, <3>2 DEF IsOwn
      <4> QED
        BY <3>2, <4>1
    <3> QED
      BY <3>1, <3>2
  <2> QED
    BY <2>4, <2>6, <2>7
<1> QED
  BY <1>4, <1>5 DEF DecidedByBest

-----------------------------------------------------------------------------
(* What an evaluation does to the rows, and what is recorded of it.        *)

LEMMA EvaluatedRow ==
    ASSUME NEW row, IsRow(row), NEW matched, NEW complete
    PROVE  LET e == Evaluated(row, matched, complete)
           IN  /\ IsRow(e)
               /\ e.id = row.id /\ e.listing = row.listing /\ e.item = row.item /\ e.sku = row.sku
               /\ e.comparable = Matched(row).decision.comparable
<1> DEFINE of == Matched(row)
           found == Decision(matched, complete, of)
           e == Evaluated(row, matched, complete)
<1>1. e = [row EXCEPT !.decision = of.decision.decision, !.comparable = of.decision.comparable,
                      !.confidenceBps = of.decision.confidence,
                      !.state = found.state, !.signature = of.combination.signature,
                      !.own = found.own, !.reasons = found.reasons]
  BY DEF Evaluated
<1> HIDE DEF of, found, e
<1>2. e = [id |-> row.id, listing |-> row.listing, item |-> row.item, sku |-> row.sku,
           stock |-> row.stock, confidence |-> row.confidence, payable |-> row.payable,
           offer |-> row.offer, components |-> row.components,
           decision |-> of.decision.decision, comparable |-> of.decision.comparable,
           confidenceBps |-> of.decision.confidence, state |-> found.state,
           signature |-> of.combination.signature, own |-> found.own,
           reasons |-> found.reasons]
  BY <1>1 DEF IsRow
<1>3. /\ e.id = row.id /\ e.listing = row.listing /\ e.item = row.item /\ e.sku = row.sku
      /\ e.comparable = of.decision.comparable
  BY <1>2
<1>4. IsRow(e)
  BY <1>2 DEF IsRow
<1> QED
  BY <1>3, <1>4 DEF e, of

EvaluatedRows(all, matched, complete) == {Evaluated(row, matched, complete) : row \in all}

KeepsRows(after, all) ==
    /\ {row.item : row \in after} = {row.item : row \in all}
    /\ {row.id : row \in {r \in after : IsOwn(r)}} = {row.id : row \in {r \in all : IsOwn(r)}}
    /\ {row.id : row \in {r \in after : ~IsOwn(r)}} = {row.id : row \in {r \in all : ~IsOwn(r)}}
    /\ {row.item : row \in {r \in after : ~IsOwn(r)}} = {row.item : row \in {r \in all : ~IsOwn(r)}}
    /\ \A item : (\E row \in after : row.item = item /\ ~IsOwn(row) /\ row.comparable)
           <=> \E row \in all : row.item = item /\ ~IsOwn(row) /\ Matched(row).decision.comparable

LEMMA RowsEvaluated ==
    ASSUME NEW all, NEW skus, RowsOfReport(all, skus), NEW matched, NEW complete
    PROVE  /\ RowsOfReport(EvaluatedRows(all, matched, complete), skus)
           /\ KeepsRows(EvaluatedRows(all, matched, complete), all)
<1> DEFINE after == EvaluatedRows(all, matched, complete)
<1> DEFINE ev == [row \in all |-> Evaluated(row, matched, complete)]
           of == [row \in all |-> Matched(row).decision.comparable]
<1>1. \A row \in all : /\ ev[row] \in after /\ IsRow(ev[row])
                       /\ ev[row].id = row.id /\ ev[row].listing = row.listing
                       /\ ev[row].item = row.item /\ ev[row].sku = row.sku
                       /\ ev[row].comparable = of[row]
  BY EvaluatedRow DEF RowsOfReport, EvaluatedRows
<1>2. \A new \in after : \E row \in all : new = ev[row]
  BY DEF EvaluatedRows
<1>3. \A row \in all : of[row] = Matched(row).decision.comparable
  OBVIOUS
<1> HIDE DEF ev, of, after
<1>4. \A new \in after : \E row \in all :
         /\ IsRow(new) /\ new = ev[row] /\ new.id = row.id /\ new.listing = row.listing
         /\ new.item = row.item /\ new.sku = row.sku /\ new.comparable = of[row]
  BY <1>1, <1>2
<1>5. RowsOfReport(after, skus)
  <2>1. \A new \in after : IsRow(new) /\ \E sku \in skus : RowOf(new, sku)
    BY <1>4 DEF RowsOfReport, RowOf
  <2>2. \A sku \in skus : \E new \in after : RowOf(new, sku)
    BY <1>1 DEF RowsOfReport, RowOf
  <2>3. ASSUME NEW new \in after, NEW other \in after, new.id = other.id
        PROVE  new = other
    <3>1. PICK row \in all : new = ev[row] /\ new.id = row.id
      BY <1>4
    <3>2. PICK row2 \in all : other = ev[row2] /\ other.id = row2.id
      BY <1>4
    <3>3. row = row2
      BY <2>3, <3>1, <3>2 DEF RowsOfReport
    <3> QED
      BY <3>1, <3>2, <3>3
  <2> QED
    BY <2>1, <2>2, <2>3 DEF RowsOfReport
<1>6. {row.item : row \in after} = {row.item : row \in all}
  <2>1. \A new \in after : \E row \in all : new.item = row.item
    BY <1>4
  <2>2. \A row \in all : \E new \in after : new.item = row.item
    BY <1>1
  <2> QED
    BY <2>1, <2>2
<1>7. /\ \A new \in after : \E row \in all :
             /\ new.id = row.id /\ new.item = row.item /\ new.comparable = of[row]
             /\ IsOwn(new) <=> IsOwn(row)
      /\ \A row \in all : \E new \in after :
             /\ new.id = row.id /\ new.item = row.item /\ new.comparable = of[row]
             /\ IsOwn(new) <=> IsOwn(row)
  <2>1. \A row, new : new.listing = row.listing => (IsOwn(new) <=> IsOwn(row))
    BY DEF IsOwn
  <2> QED
    BY <1>1, <1>4, <2>1
<1> DEFINE oursAfter == {r \in after : IsOwn(r)}
           ours == {r \in all : IsOwn(r)}
           theirsAfter == {r \in after : ~IsOwn(r)}
           theirs == {r \in all : ~IsOwn(r)}
<1>8. /\ {row.id : row \in oursAfter} = {row.id : row \in ours}
      /\ {row.id : row \in theirsAfter} = {row.id : row \in theirs}
      /\ {row.item : row \in theirsAfter} = {row.item : row \in theirs}
  <2>1. /\ \A new \in oursAfter : \E row \in ours : new.id = row.id
        /\ \A row \in ours : \E new \in oursAfter : new.id = row.id
    BY <1>7
  <2>2. /\ \A new \in theirsAfter : \E row \in theirs : new.id = row.id /\ new.item = row.item
        /\ \A row \in theirs : \E new \in theirsAfter : new.id = row.id /\ new.item = row.item
    BY <1>7
  <2> HIDE DEF oursAfter, ours, theirsAfter, theirs
  <2> QED
    BY <2>1, <2>2
<1>9. ASSUME NEW item
      PROVE  (\E row \in after : row.item = item /\ ~IsOwn(row) /\ row.comparable)
                <=> \E row \in all : row.item = item /\ ~IsOwn(row) /\ Matched(row).decision.comparable
  <2>1. ASSUME NEW new \in after, new.item = item, ~IsOwn(new), new.comparable
        PROVE  \E row \in all : row.item = item /\ ~IsOwn(row) /\ Matched(row).decision.comparable
    <3>1. PICK row \in all : /\ new.item = row.item /\ new.comparable = of[row]
                             /\ IsOwn(new) <=> IsOwn(row)
      BY <1>7
    <3> QED
      BY <1>3, <2>1, <3>1
  <2>2. ASSUME NEW row \in all, row.item = item, ~IsOwn(row), Matched(row).decision.comparable
        PROVE  \E new \in after : new.item = item /\ ~IsOwn(new) /\ new.comparable
    <3>1. PICK new \in after : /\ new.item = row.item /\ new.comparable = of[row]
                               /\ IsOwn(new) <=> IsOwn(row)
      BY <1>7
    <3> QED
      BY <1>3, <2>2, <3>1
  <2> QED
    BY <2>1, <2>2
<1> QED
  BY <1>5, <1>6, <1>8, <1>9 DEF KeepsRows, after

LEMMA Recorded ==
    ASSUME NEW s, IsSequence(s), NEW e
    PROVE  /\ IsSequence(Append(s, e)) /\ Append(s, e) # <<>>
           /\ s = <<>> => Append(s, e)[1] = e
           /\ s # <<>> => Append(s, e)[1] = s[1]
<1> DEFINE S == {s[i] : i \in 1..Len(s)}
           t == Append(s, e)
           T == {t[i] : i \in 1..Len(t)}
<1>1. s \in Seq(S)
  BY DEF IsSequence
<1> HIDE DEF S
<1>2. s \in Seq(S \cup {e})
  BY <1>1
<1>3. t \in Seq(S \cup {e}) /\ Len(t) = Len(s) + 1 /\ Len(s) \in Nat
  BY <1>2
<1>4. \A i \in 1..Len(s) : t[i] = s[i]
  BY <1>2
<1>5. t[Len(s) + 1] = e
  BY <1>2
<1>6. t \in Seq(T)
  <2> HIDE DEF t
  <2>1. t \in [1..Len(t) -> S \cup {e}] /\ Len(t) \in Nat
    BY <1>3
  <2>2. \A i \in 1..Len(t) : t[i] \in T
    OBVIOUS
  <2> HIDE DEF T
  <2>3. t \in [1..Len(t) -> T]
    BY <2>1, <2>2
  <2> QED
    BY <2>1, <2>3
<1>7. t # <<>>
  <2> HIDE DEF t
  <2> QED
    BY <1>3
<1>8. s = <<>> => t[1] = e
  BY <1>5
<1>9. s # <<>> => t[1] = s[1]
  <2>1. s # <<>> => Len(s) > 0
    BY <1>1
  <2> QED
    BY <1>3, <1>4, <2>1
<1> QED
  BY <1>6, <1>7, <1>8, <1>9 DEF IsSequence

-----------------------------------------------------------------------------
(* The invariant is inductive.                                             *)

LEMMA InvInit == Init => IInv
<1> SUFFICES ASSUME Init PROVE IInv
  OBVIOUS
<1>1. IsRun(run) /\ run.status = "RUNNING"
  BY DEF Init, IsRun, NoCounts
<1>2. IsSequence(decided)
  BY DEF Init, IsSequence
<1> QED
  BY <1>1, <1>2 DEF Init, IInv, Empty

LEMMA RunEvaluated ==
    ASSUME NEW r, IsRun(r), NEW baseline, NEW created,
           NEW new, new = [r EXCEPT !.baseline = baseline, !.counts.failed = @ + created]
    PROVE  /\ IsRun(new) /\ new.status = r.status /\ new.covered = r.covered
           /\ new.answer = r.answer
           /\ new.counts = [searched |-> r.counts.searched, skus |-> r.counts.skus,
                            failed |-> r.counts.failed + created]
BY DEF IsRun

(* Storing the report.                                                     *)
LEMMA IngestStep == IInv /\ Ingest => IInv'
<1> SUFFICES ASSUME IInv, Ingest PROVE IInv'
  OBVIOUS
<1>1. /\ report \in Reports /\ IsRun(run) /\ decided = <<>> /\ batch = {}
      /\ report' = report /\ decided' = decided /\ batch' = batch
      /\ positions' = report.positions /\ issues' = report.issues
      /\ rows' = {snapshotValues(sku) : sku \in report.skus}
  BY DEF IInv, Empty, Ingest
<1>2. /\ IsRun(run)' /\ run'.status = "REPORTED" /\ run'.covered = report.covered
      /\ run'.counts = expectedCounters
      /\ run'.answer = [items       |-> Cardinality({p.item : p \in ToSet(positions')}),
                        own         |-> {row.id : row \in {r \in rows' : IsOwn(r)}},
                        competitors |-> {row.id : row \in {r \in rows' : ~IsOwn(r)}}]
  <2>1. PICK new, answer, counts : new = run' /\ answer = summary /\ counts = expectedCounters
    OBVIOUS
  <2>2. counts = [searched |-> counts.searched, skus |-> counts.skus, failed |-> counts.failed]
    BY <2>1 DEF expectedCounters
  <2>3. new = [run EXCEPT !.status = "REPORTED", !.covered = report.covered,
                          !.counts = counts, !.answer = answer]
    BY <2>1 DEF Ingest
  <2>4. /\ IsRun(new) /\ new.status = "REPORTED" /\ new.covered = report.covered
        /\ new.counts = counts /\ new.answer = answer
    <3>1. PICK r, covered : r = run /\ covered = report.covered
      OBVIOUS
    <3>2. IsRun(r)
      BY <1>1, <3>1
    <3>3. new = [r EXCEPT !.status = "REPORTED", !.covered = covered,
                          !.counts = counts, !.answer = answer]
      BY <2>3, <3>1, Zenon
    <3>4. /\ IsRun(new) /\ new.status = "REPORTED" /\ new.covered = covered
          /\ new.counts = counts /\ new.answer = answer
      BY <2>2, <3>2, <3>3 DEF IsRun
    <3> QED
      BY <3>1, <3>4
  <2> QED
    BY <2>1, <2>4 DEF summary, IsRun
<1>3. RowsOfReport(rows', report.skus)
  <2>1. \A sku \in report.skus : IsRow(snapshotValues(sku)) /\ RowOf(snapshotValues(sku), sku)
    BY DEF IsRow, RowOf, snapshotValues
  <2>2. \A sku, other \in report.skus : sku.id = other.id => sku = other
    BY <1>1, ReportsAssumption
  <2>3. ASSUME NEW row \in rows', NEW other \in rows', row.id = other.id
        PROVE  row = other
    <3>1. PICK sku \in report.skus : row = snapshotValues(sku)
      BY <1>1
    <3>2. PICK sku2 \in report.skus : other = snapshotValues(sku2)
      BY <1>1
    <3>3. sku.id = sku2.id
      BY <2>1, <2>3, <3>1, <3>2 DEF RowOf
    <3> QED
      BY <2>2, <3>1, <3>2, <3>3
  <2> QED
    BY <1>1, <2>1, <2>3 DEF RowsOfReport
<1>4. Reported'
  <2>1. Cardinality(rows') = Cardinality(report.skus)
    BY <1>1, <1>3, RowsCounted
  <2>2. {i \in {BaselineMissing} : decided' # <<>> /\ ~Seen'} = {}
    BY <1>1
  <2>3. run'.counts = [searched |-> Len(positions'), skus |-> Cardinality(rows'),
                       failed |-> Cardinality(issues')]
    BY <1>1, <1>2, <2>1 DEF expectedCounters
  <2>4. issues' = report.issues \cup {i \in {BaselineMissing} : decided' # <<>> /\ ~Seen'}
    BY <1>1, <2>2
  <2> QED
    BY <1>1, <1>2, <1>3, <2>3, <2>4 DEF Reported
<1>5. Announced' /\ CandidatesShown'
  BY <1>1 DEF Announced, CandidatesShown
<1>6. IsSequence(decided')
  BY <1>1 DEF IInv, IsSequence
<1> QED
  BY <1>1, <1>2, <1>4, <1>5, <1>6 DEF IInv

(* What an evaluation reads, and what it makes of it.                      *)
EvaluatedFrom(data, matched) ==
    LET complete == data.complete
        lows     == AlertCandidates(matched, complete)
        missing  == MissingOwnGroups(matched, complete)
        keys     == IF data.seen THEN AlertKeys(matched, lows) ELSE {}
        created  == ensureBaselineIssue(data.seen)
    IN  /\ rows' = EvaluatedRows(rows, matched, complete)
        /\ candidates' = Over(candidateDecisions(matched), candidates)
        /\ run' = [run EXCEPT !.baseline = PrimaryOwn(matched), !.counts.failed = @ + created]
        /\ issues' = IF data.seen THEN issues ELSE issues \cup {BaselineMissing}
        /\ batch' = IF batch = {} THEN {RunAlertSummary(data, keys \ alerts, missing, created)}
                    ELSE batch
        /\ alerts' = alerts \cup keys
        /\ decided' = Append(decided,
               [rule |-> rule, complete |-> complete, lows |-> lows, missing |-> missing])

LEMMA EvaluateReads ==
    ASSUME Evaluate
    PROVE  \E data, matched :
              /\ matched = MatchedRows(rows)
              /\ data.complete = deriveOwnCatalogCompleteness(Listings, rows, issues)
              /\ data.seen = (\E row \in rows : row.listing \in Listings)
              /\ data.positions = Len(positions) /\ data.skus = run.counts.skus
              /\ data.issues = Cardinality(issues)
              /\ EvaluatedFrom(data, matched)
<1>1. PICK data : data = withEvaluation
  OBVIOUS
<1>2. /\ data.snapshots = MatchedRows(rows)
      /\ data.complete = deriveOwnCatalogCompleteness(Listings, rows, issues)
      /\ data.seen = (\E row \in rows : row.listing \in Listings)
      /\ data.positions = Len(positions) /\ data.skus = run.counts.skus
      /\ data.issues = Cardinality(issues)
  BY <1>1 DEF withEvaluation, MatchedRows
<1>3. EvaluatedFrom(data, data.snapshots)
  BY <1>1 DEF Evaluate, EvaluatedFrom, EvaluatedRows, saveCandidateDecisions, saveOwnBaselineSnapshot
<1> QED
  BY <1>2, <1>3

(* An alert is of one of the rows.                                         *)
LEMMA AlertsAreOfRows ==
    ASSUME NEW matched, NEW lows
    PROVE  {a.item : a \in AlertKeys(matched, lows)} \subseteq {m.item : m \in matched}
BY DEF AlertKeys

(* Evaluating the run.                                                     *)
LEMMA EvaluateStep == IInv /\ Evaluate => IInv'
<1> SUFFICES ASSUME IInv, Evaluate PROVE IInv'
  OBVIOUS
<1>1. /\ report \in Reports /\ IsRun(run) /\ run.status = "REPORTED"
      /\ Reported /\ Announced /\ CandidatesShown /\ IsSequence(decided)
      /\ report' = report /\ positions' = positions /\ touched' = {}
  BY DEF IInv, Evaluate
<1>2. PICK data, matched :
         /\ matched = MatchedRows(rows)
         /\ data.seen = (\E row \in rows : row.listing \in Listings)
         /\ data.positions = Len(positions) /\ data.skus = run.counts.skus
         /\ data.issues = Cardinality(issues)
         /\ EvaluatedFrom(data, matched)
  BY EvaluateReads
<1> DEFINE complete == data.complete
           lows     == AlertCandidates(matched, complete)
           missing  == MissingOwnGroups(matched, complete)
           keys     == IF data.seen THEN AlertKeys(matched, lows) ELSE {}
           created  == ensureBaselineIssue(data.seen)
           record   == [rule |-> rule, complete |-> complete, lows |-> lows, missing |-> missing]
<1>3. /\ rows' = EvaluatedRows(rows, matched, complete)
      /\ candidates' = Over(candidateDecisions(matched), candidates)
      /\ run' = [run EXCEPT !.baseline = PrimaryOwn(matched), !.counts.failed = @ + created]
      /\ issues' = IF data.seen THEN issues ELSE issues \cup {BaselineMissing}
      /\ batch' = IF batch = {} THEN {RunAlertSummary(data, keys \ alerts, missing, created)}
                  ELSE batch
      /\ decided' = Append(decided, record)
  BY <1>2 DEF EvaluatedFrom
<1> HIDE DEF complete, lows, missing, keys, created, record
<1>4. RowsOfReport(rows', report.skus) /\ KeepsRows(rows', rows)
  <2>1. PICK all, skus, whole : all = rows /\ skus = report.skus /\ whole = complete
    OBVIOUS
  <2>2. RowsOfReport(all, skus) /\ rows' = EvaluatedRows(all, matched, whole)
    BY <1>1, <1>3, <2>1 DEF Reported
  <2>3. /\ RowsOfReport(EvaluatedRows(all, matched, whole), skus)
        /\ KeepsRows(EvaluatedRows(all, matched, whole), all)
    BY <2>2, RowsEvaluated
  <2> QED
    BY <2>1, <2>2, <2>3
<1>5. Cardinality(rows') = Cardinality(rows)
  <2>1. PICK all, after, captured : all = rows /\ after = rows' /\ captured = report
    OBVIOUS
  <2>2. captured \in Reports /\ RowsOfReport(all, captured.skus) /\ RowsOfReport(after, captured.skus)
    BY <1>1, <1>4, <2>1 DEF Reported
  <2>3. Cardinality(all) = Cardinality(captured.skus) /\ Cardinality(after) = Cardinality(captured.skus)
    BY <2>2, RowsCounted
  <2> QED
    BY <2>1, <2>3
<1>6. data.seen <=> Seen
  BY <1>1, <1>2 DEF Reported, RowsOfReport, RowOf, Seen
<1>7. /\ IsSequence(decided') /\ decided' # <<>>
      /\ decided = <<>> => decided'[1] = record
      /\ decided # <<>> => decided'[1] = decided[1]
  <2>1. PICK s, e : s = decided /\ e = record
    OBVIOUS
  <2> QED
    BY <1>1, <1>3, <2>1, Recorded
<1>8. /\ IsFiniteSet(issues) /\ created \in Nat
      /\ created = IF data.seen \/ BaselineMissing \in issues THEN 0 ELSE 1
      /\ issues' = report.issues \cup {i \in {BaselineMissing} : decided' # <<>> /\ ~Seen'}
      /\ Cardinality(issues') = Cardinality(issues) + created
      /\ decided # <<>> => created = 0
  <2>1. IsFiniteSet(issues)
    <3>1. IsFiniteSet(report.issues)
      BY <1>1, ReportsAssumption
    <3>2. IsFiniteSet({i \in {BaselineMissing} : decided # <<>> /\ ~Seen})
      BY FS_Singleton, FS_Subset
    <3> QED
      BY <1>1, <3>1, <3>2, FS_Union DEF Reported
  <2>2. created = IF data.seen \/ BaselineMissing \in issues THEN 0 ELSE 1
    BY DEF created, ensureBaselineIssue
  <2>3. issues' = report.issues \cup {i \in {BaselineMissing} : decided' # <<>> /\ ~Seen'}
    <3>1. Seen' <=> Seen
      BY <1>1 DEF Seen
    <3>2. issues = report.issues \cup {i \in {BaselineMissing} : decided # <<>> /\ ~Seen}
      BY <1>1 DEF Reported
    <3> QED
      BY <1>3, <1>6, <1>7, <3>1, <3>2
  <2>4. Cardinality(issues') = Cardinality(issues) + created
    <3>1. Cardinality(issues) \in Nat
      BY <2>1, FS_CardinalityType
    <3>2. CASE created = 0
      <4>1. issues' = issues
        BY <1>3, <2>2, <3>2
      <4> QED
        BY <3>1, <3>2, <4>1
    <3>3. CASE created = 1
      <4>1. issues' = issues \cup {BaselineMissing} /\ BaselineMissing \notin issues
        BY <1>3, <2>2, <3>3
      <4>2. Cardinality(issues \cup {BaselineMissing}) = Cardinality(issues) + 1
        BY <2>1, <4>1, FS_AddElement
      <4> QED
        BY <3>3, <4>1, <4>2
    <3> QED
      BY <2>2, <3>2, <3>3
  <2>5. decided # <<>> => created = 0
    BY <1>1, <1>6, <2>2 DEF Reported
  <2> QED
    BY <2>1, <2>2, <2>3, <2>4, <2>5
<1>9. /\ IsRun(run)' /\ run'.status = run.status /\ run'.covered = run.covered
      /\ run'.answer = run.answer
      /\ run'.counts = [searched |-> run.counts.searched, skus |-> run.counts.skus,
                        failed |-> run.counts.failed + created]
  <2>1. PICK r, new, baseline, more :
           r = run /\ new = run' /\ baseline = PrimaryOwn(matched) /\ more = created
    OBVIOUS
  <2>2. new = [r EXCEPT !.baseline = baseline, !.counts.failed = @ + more]
    BY <1>3, <2>1, Zenon
  <2>3. IsRun(r)
    BY <1>1, <2>1
  <2>4. /\ IsRun(new) /\ new.status = r.status /\ new.covered = r.covered
        /\ new.answer = r.answer
        /\ new.counts = [searched |-> r.counts.searched, skus |-> r.counts.skus,
                         failed |-> r.counts.failed + more]
    BY <2>2, <2>3 DEF IsRun
  <2> QED
    BY <2>1, <2>4 DEF IsRun
<1>10. Reported'
  <2>1. run'.counts = [searched |-> Len(positions'), skus |-> Cardinality(rows'),
                       failed |-> Cardinality(issues')]
    BY <1>1, <1>5, <1>8, <1>9 DEF Reported
  <2>2. run'.answer = [items       |-> Cardinality({p.item : p \in ToSet(positions')}),
                       own         |-> {row.id : row \in {r \in rows' : IsOwn(r)}},
                       competitors |-> {row.id : row \in {r \in rows' : ~IsOwn(r)}}]
    BY <1>1, <1>4, <1>9 DEF Reported, KeepsRows
  <2>3. run'.covered = report'.covered /\ positions' = report'.positions
    BY <1>1, <1>9 DEF Reported
  <2> QED
    BY <1>1, <1>4, <1>8, <2>1, <2>2, <2>3 DEF Reported
<1>11. Announced'
  <2>1. batch' # {}
    BY <1>1, <1>3 DEF Announced
  <2>2. ASSUME batch = {}, NEW announced \in batch'
        PROVE  /\ announced.positions = Len(positions') /\ announced.skus = Cardinality(rows')
               /\ announced.issues = Cardinality(issues')
               /\ announced.missing = decided'[1].missing
               /\ {a.item : a \in announced.alerts} \subseteq {row.item : row \in rows'}
    <3>1. decided = <<>>
      BY <1>1, <2>2 DEF Announced
    <3>2. announced = [alerts |-> keys \ alerts, missing |-> missing, positions |-> data.positions,
                       skus |-> data.skus, issues |-> data.issues + created]
      BY <1>3, <2>2 DEF RunAlertSummary
    <3>3. run.counts.skus = Cardinality(rows)
      BY <1>1 DEF Reported
    <3>4. decided'[1].missing = missing
      BY <1>7, <3>1 DEF record
    <3>5. {a.item : a \in keys} \subseteq {m.item : m \in matched}
      BY AlertsAreOfRows DEF keys
    <3>6. {m.item : m \in matched} \subseteq {row.item : row \in rows}
      <4>1. \A row \in rows : Matched(row).item = row.item
        BY DEF Matched
      <4> QED
        BY <1>2, <4>1 DEF MatchedRows
    <3>7. announced.alerts \subseteq keys
      BY <3>2
    <3>8. {a.item : a \in announced.alerts} \subseteq {row.item : row \in rows'}
      BY <1>4, <3>5, <3>6, <3>7 DEF KeepsRows
    <3> QED
      BY <1>1, <1>2, <1>5, <1>8, <3>2, <3>3, <3>4, <3>8
  <2>3. ASSUME batch # {}, NEW announced \in batch'
        PROVE  /\ announced.positions = Len(positions') /\ announced.skus = Cardinality(rows')
               /\ announced.issues = Cardinality(issues')
               /\ announced.missing = decided'[1].missing
               /\ {a.item : a \in announced.alerts} \subseteq {row.item : row \in rows'}
    <3>1. decided # <<>> /\ announced \in batch
      BY <1>1, <1>3, <2>3 DEF Announced
    <3>2. Cardinality(issues') = Cardinality(issues)
      BY <1>8, <3>1, FS_CardinalityType
    <3> QED
      BY <1>1, <1>4, <1>5, <1>7, <3>1, <3>2 DEF Announced, KeepsRows
  <2> QED
    BY <1>7, <2>1, <2>2, <2>3 DEF Announced
<1>12. CandidatesShown'
  <2>1. PICK all, new : all = rows /\ new = candidateDecisions(matched)
    OBVIOUS
  <2>2. \A row \in all : row.id \in Nat
    <3>1. \A sku \in report.skus : sku.id \in Nat
      BY <1>1, ReportsAssumption
    <3> QED
      BY <1>1, <2>1, <3>1 DEF Reported, RowsOfReport, RowOf
  <2>3. DecidedByBest(new, all)
    <3>1. DecidedByBest(candidateDecisions(MatchedRows(all)), all)
      BY <2>2, CandidateDecided
    <3> QED
      BY <1>2, <2>1, <3>1
  <2> DEFINE theirs == {row.item : row \in {r \in all : ~IsOwn(r)}}
             Compared(item) ==
                 \E row \in all : row.item = item /\ ~IsOwn(row) /\ Matched(row).decision.comparable
  <2>4. DOMAIN new = theirs /\ \A item \in theirs : new[item].comparable <=> Compared(item)
    BY <2>3 DEF DecidedByBest
  <2>5. CompetitorItems' = theirs
    BY <1>4, <2>1 DEF CompetitorItems, KeepsRows
  <2>6. \A item : (\E row \in rows' : row.item = item /\ ~IsOwn(row) /\ row.comparable)
                      <=> Compared(item)
    BY <1>4, <2>1 DEF KeepsRows
  <2> HIDE DEF theirs
  <2>7. \A item \in theirs : item \in DOMAIN candidates' /\ candidates'[item] = new[item]
    BY <1>3, <2>1, <2>4 DEF Over
  <2>8. ASSUME NEW item \in theirs
        PROVE  Shown(item)'
    <3> HIDE DEF Compared
    <3>1. candidates'[item].comparable <=> Compared(item)
      BY <2>4, <2>7, Zenon
    <3> QED
      BY <2>6, <3>1, Zenon DEF Shown
  <2> QED
    BY <2>5, <2>7, <2>8 DEF CandidatesShown
<1> QED
  BY <1>1, <1>7, <1>9, <1>10, <1>11, <1>12 DEF IInv

(* What the invariant speaks of, but for the candidates and what an        *)
(* operator decided on.                                                    *)
lasting == <<report, run, rows, positions, issues, alerts, batch, decided>>

LEMMA KeptStep ==
    ASSUME IInv, UNCHANGED lasting, CandidatesShown => CandidatesShown'
    PROVE  IInv'
<1>1. IsRun(run)' <=> IsRun(run)
  BY DEF lasting, IsRun
<1>2. IsSequence(decided)' <=> IsSequence(decided)
  BY DEF lasting, IsSequence
<1>3. Empty' <=> Empty
  BY DEF lasting, Empty
<1>4. Reported' <=> Reported
  <2>1. RowsOfReport(rows, report.skus)' <=> RowsOfReport(rows, report.skus)
    BY DEF lasting, RowsOfReport, IsRow, RowOf
  <2>2. Seen' <=> Seen
    BY DEF lasting, Seen
  <2>3. issues' = issues /\ report' = report /\ decided' = decided
    BY DEF lasting
  <2>4. /\ run' = run /\ positions' = positions /\ rows' = rows
    BY DEF lasting
  <2> QED
    BY <2>1, <2>2, <2>3, <2>4, Zenon DEF Reported
<1>5. Announced' <=> Announced
  BY DEF lasting, Announced
<1>6. report' = report /\ run' = run
  BY DEF lasting
<1> QED
  BY <1>1, <1>2, <1>3, <1>4, <1>5, <1>6 DEF IInv

(* A candidate an operator decides on is touched, and no other changes.    *)
LEMMA ClassifyStep ==
    ASSUME IInv, NEW decision, ClassifyCandidate(decision)
    PROVE  IInv'
<1>1. UNCHANGED lasting
  BY DEF ClassifyCandidate, catalog, lasting
<1>2. ASSUME CandidatesShown, decided # <<>>
      PROVE  CandidatesShown'
  <2>1. CompetitorItems' = CompetitorItems
    BY <1>1 DEF lasting, CompetitorItems
  <2>2. DOMAIN candidates' = DOMAIN candidates /\ touched' = touched \cup {clerk.item}
    BY DEF ClassifyCandidate
  <2>3. CompetitorItems \subseteq DOMAIN candidates
    BY <1>2 DEF CandidatesShown
  <2>4. ASSUME NEW item \in CompetitorItems \ touched'
        PROVE  Shown(item)'
    <3>1. item \notin touched /\ item # clerk.item /\ item \in DOMAIN candidates
      BY <2>2, <2>3, <2>4
    <3>2. candidates'[item] = candidates[item]
      BY <3>1 DEF ClassifyCandidate
    <3>3. Shown(item)
      BY <1>2, <2>4, <3>1 DEF CandidatesShown
    <3>4. rows' = rows
      BY <1>1 DEF lasting
    <3> QED
      BY <3>2, <3>3, <3>4 DEF Shown
  <2> QED
    BY <2>1, <2>2, <2>3, <2>4 DEF CandidatesShown
<1>3. CandidatesShown => CandidatesShown'
  BY <1>1, <1>2 DEF CandidatesShown, lasting
<1> QED
  BY <1>1, <1>3, KeptStep

(* The other steps change nothing the invariant speaks of.                 *)
LEMMA OtherSteps ==
    ASSUME IInv, UNCHANGED <<lasting, candidates, touched>>
    PROVE  IInv'
<1>1. CandidatesShown => CandidatesShown'
  BY DEF lasting, CandidatesShown, CompetitorItems, Shown
<1> QED
  BY <1>1, KeptStep

LEMMA InvNext == IInv /\ [Next]_vars => IInv'
<1> SUFFICES ASSUME IInv, [Next]_vars PROVE IInv'
  OBVIOUS
<1>1. CASE Ingest
  BY <1>1, IngestStep
<1>2. CASE Evaluate
  BY <1>2, EvaluateStep
<1>3. CASE OpenPage \/ ClosePage
  BY <1>3, OtherSteps DEF OpenPage, ClosePage, stored, history, lasting
<1>4. CASE \E new \in Rules : EditModel(new)
  BY <1>4, OtherSteps DEF EditModel, stored, history, lasting
<1>5. CASE \E item \in DOMAIN candidates : FindCandidate(item)
  BY <1>5, OtherSteps DEF FindCandidate, stored, history, lasting
<1>6. CASE \E decision \in {"BARE", "BUNDLE", "REJECTED"} : ClassifyCandidate(decision)
  BY <1>6, ClassifyStep
<1>7. CASE UNCHANGED vars
  BY <1>7, OtherSteps DEF vars, stored, history, lasting
<1> QED
  BY <1>1, <1>2, <1>3, <1>4, <1>5, <1>6, <1>7 DEF Next

-----------------------------------------------------------------------------
(* Sums over finite sets.                                                  *)

(* Induction over finite sets: of sets that do not have a property, one    *)
(* has it as soon as any member is removed.                                *)
LEMMA SmallestSet ==
    ASSUME NEW B, B # {}, \A U \in B : IsFiniteSet(U)
    PROVE  \E U \in B : \A x \in U : U \ {x} \notin B
<1> DEFINE f == [U \in B |-> Cardinality(U)]
<1>1. f \in [B -> Nat]
  BY FS_CardinalityType
<1>2. PICK U \in B : \A V \in B : f[U] <= f[V]
  BY <1>1, LeastBy
<1>3. ASSUME NEW x \in U, U \ {x} \in B
      PROVE  FALSE
  <2>1. Cardinality(U \ {x}) = Cardinality(U) - 1 /\ Cardinality(U) \in Nat
    BY <1>3, FS_RemoveElement, FS_CardinalityType
  <2>2. Cardinality(U) <= Cardinality(U \ {x})
    BY <1>2, <1>3
  <2> QED
    BY <2>1, <2>2
<1> QED
  BY <1>3

AnyOf(s) == CHOOSE x \in s : TRUE

(* The function by which a sum over S is defined.                          *)
IsTotal(g, f, S) ==
    g = [s \in SUBSET S |-> IF s = {} THEN 0 ELSE f[AnyOf(s)] + g[s \ {AnyOf(s)}]]

Total(f, S) == MapThenSumSet(LAMBDA x : f[x], S)

LEMMA TotalExists ==
    ASSUME NEW S, IsFiniteSet(S), NEW f
    PROVE  \E g : IsTotal(g, f, S)
<1> DEFINE Step(g, s) == IF s = {} THEN 0 ELSE f[AnyOf(s)] + g[s \ {AnyOf(s)}]
           Fine(n, g) == \A s \in SUBSET S : Cardinality(s) <= n => g[s] = Step(g, s)
           Bad == {n \in Nat : ~ \E g : Fine(n, g)}
<1>1. \A s \in SUBSET S : /\ IsFiniteSet(s) /\ Cardinality(s) \in Nat
                         /\ s # {} => AnyOf(s) \in s
  BY FS_Subset, FS_CardinalityType DEF AnyOf
<1>2. Bad = {}
  <2> SUFFICES ASSUME Bad # {} PROVE FALSE
    OBVIOUS
  <2>1. PICK n \in Bad : \A m \in Bad : ~(m < n)
    BY LeastNat
  <2>2. n # 0
    <3> DEFINE g == [s \in SUBSET S |-> 0]
    <3>1. Fine(0, g)
      <4> SUFFICES ASSUME NEW s \in SUBSET S, Cardinality(s) <= 0 PROVE g[s] = Step(g, s)
        OBVIOUS
      <4>1. IsFiniteSet(s) /\ Cardinality(s) = 0
        BY FS_Subset, FS_CardinalityType
      <4>2. s = {}
        BY <4>1, FS_EmptySet
      <4> QED
        BY <4>2
    <3> QED
      BY <3>1
  <2>3. n \in Nat /\ n - 1 \in Nat /\ n - 1 < n
    BY <2>2
  <2>4. PICK g : Fine(n - 1, g)
    BY <2>1, <2>3
  <2> DEFINE h == [s \in SUBSET S |-> IF Cardinality(s) <= n - 1 THEN g[s] ELSE Step(g, s)]
  <2>5. Fine(n, h)
    <3> SUFFICES ASSUME NEW s \in SUBSET S, Cardinality(s) <= n PROVE h[s] = Step(h, s)
      OBVIOUS
    <3>1. h[s] = Step(g, s)
      BY <2>4
    <3>2. CASE s = {}
      BY <3>1, <3>2
    <3>3. CASE s # {}
      <4> DEFINE t == s \ {AnyOf(s)}
      <4>1. t \in SUBSET S /\ IsFiniteSet(s) /\ AnyOf(s) \in s
        BY <3>3, FS_Subset DEF AnyOf
      <4>2. Cardinality(t) = Cardinality(s) - 1 /\ Cardinality(s) \in Nat
        BY <4>1, FS_RemoveElement, FS_CardinalityType
      <4>3. Cardinality(t) <= n - 1
        BY <2>3, <4>2
      <4>4. h[t] = g[t]
        BY <4>1, <4>3
      <4> QED
        BY <3>1, <3>3, <4>4
    <3> QED
      BY <3>2, <3>3
  <2> QED
    BY <2>1, <2>5
<1>3. PICK g : Fine(Cardinality(S), g)
  BY <1>2, FS_CardinalityType
<1> DEFINE h == [s \in SUBSET S |-> g[s]]
<1>4. ASSUME NEW s \in SUBSET S
      PROVE  h[s] = Step(h, s)
  <2>1. Cardinality(s) <= Cardinality(S)
    BY FS_Subset
  <2>2. g[s] = Step(g, s)
    BY <1>3, <2>1
  <2> QED
    BY <2>2
<1>5. IsTotal(h, f, S)
  <2>1. h = [s \in SUBSET S |-> Step(h, s)]
    BY <1>4
  <2> QED
    BY <2>1 DEF IsTotal
<1> QED
  BY <1>5

(* It is the same whatever it is a part of.                                *)
LEMMA TotalUnique ==
    ASSUME NEW S, NEW T, NEW f, NEW k, NEW g, NEW h, IsTotal(g, f, S), IsTotal(h, k, T),
           NEW U \in SUBSET (S \cap T), IsFiniteSet(U), \A x \in U : f[x] = k[x]
    PROVE  g[U] = h[U]
<1> DEFINE B == {V \in SUBSET U : g[V] # h[V]}
<1>1. B = {}
  <2> SUFFICES ASSUME B # {} PROVE FALSE
    OBVIOUS
  <2>1. \A V \in B : IsFiniteSet(V)
    BY FS_Subset
  <2>2. PICK V \in B : \A x \in V : V \ {x} \notin B
    BY <2>1, SmallestSet
  <2>3. V \in SUBSET S /\ V \in SUBSET T
    OBVIOUS
  <2>4. /\ g[V] = IF V = {} THEN 0 ELSE f[AnyOf(V)] + g[V \ {AnyOf(V)}]
        /\ h[V] = IF V = {} THEN 0 ELSE k[AnyOf(V)] + h[V \ {AnyOf(V)}]
    BY <2>3 DEF IsTotal
  <2>5. V # {} /\ AnyOf(V) \in V
    BY <2>4 DEF AnyOf
  <2>6. g[V \ {AnyOf(V)}] = h[V \ {AnyOf(V)}]
    BY <2>2, <2>5
  <2> QED
    BY <2>4, <2>5, <2>6
<1> QED
  BY <1>1

(* The sum over S, as a value of any such function.                        *)
LEMMA TotalIs ==
    ASSUME NEW S, IsFiniteSet(S), NEW f, NEW k, NEW T, S \subseteq T, NEW g, IsTotal(g, k, T),
           \A x \in S : f[x] = k[x]
    PROVE  Total(f, S) = g[S]
<1>1. PICK h : h = (CHOOSE h1 : IsTotal(h1, f, S))
  OBVIOUS
<1>2. IsTotal(h, f, S)
  BY <1>1, TotalExists
<1>3. Total(f, S) = h[S]
  BY <1>1 DEF Total, MapThenSumSet, MapThenFoldSet, IsTotal, AnyOf
<1> QED
  BY <1>2, <1>3, TotalUnique

(* The sum over nothing.                                                   *)
LEMMA TotalEmpty == ASSUME NEW f PROVE Total(f, {}) = 0
<1>1. IsFiniteSet({})
  BY FS_EmptySet
<1>2. PICK g : IsTotal(g, f, {})
  BY <1>1, TotalExists
<1>3. Total(f, {}) = g[{}]
  BY <1>1, <1>2, TotalIs
<1>4. g[{}] = 0
  BY <1>2 DEF IsTotal
<1> QED
  BY <1>3, <1>4

(* A sum begins with any of its summands.                                  *)
LEMMA TotalAny ==
    ASSUME NEW S, IsFiniteSet(S), S # {}, NEW f
    PROVE  /\ AnyOf(S) \in S
           /\ Total(f, S) = f[AnyOf(S)] + Total(f, S \ {AnyOf(S)})
<1>1. PICK g : IsTotal(g, f, S)
  BY TotalExists
<1>2. AnyOf(S) \in S
  BY DEF AnyOf
<1>3. g[S] = f[AnyOf(S)] + g[S \ {AnyOf(S)}]
  BY <1>1 DEF IsTotal
<1>4. IsFiniteSet(S \ {AnyOf(S)})
  BY FS_Subset
<1>5. Total(f, S) = g[S] /\ Total(f, S \ {AnyOf(S)}) = g[S \ {AnyOf(S)}]
  BY <1>1, <1>4, TotalIs
<1> QED
  BY <1>2, <1>3, <1>5

(* A sum of numbers is one.                                                *)
LEMMA TotalNat ==
    ASSUME NEW S, IsFiniteSet(S), NEW f, \A x \in S : f[x] \in Nat
    PROVE  Total(f, S) \in Nat
<1> DEFINE B == {U \in SUBSET S : Total(f, U) \notin Nat}
<1>1. B = {}
  <2> SUFFICES ASSUME B # {} PROVE FALSE
    OBVIOUS
  <2>1. \A U \in B : IsFiniteSet(U)
    BY FS_Subset
  <2>2. PICK U \in B : \A x \in U : U \ {x} \notin B
    BY <2>1, SmallestSet
  <2>3. CASE U = {}
    BY <2>3, TotalEmpty
  <2>4. CASE U # {}
    <3>1. AnyOf(U) \in U /\ Total(f, U) = f[AnyOf(U)] + Total(f, U \ {AnyOf(U)})
      BY <2>1, <2>4, TotalAny
    <3>2. Total(f, U \ {AnyOf(U)}) \in Nat
      BY <2>2, <3>1
    <3> QED
      BY <3>1, <3>2
  <2> QED
    BY <2>3, <2>4
<1> QED
  BY <1>1

(* The order of the summands does not matter.                              *)
LEMMA TotalWithout ==
    ASSUME NEW S, IsFiniteSet(S), NEW f, \A x \in S : f[x] \in Nat, NEW x \in S
    PROVE  Total(f, S) = f[x] + Total(f, S \ {x})
<1> DEFINE B == {U \in SUBSET S : \E y \in U : Total(f, U) # f[y] + Total(f, U \ {y})}
<1>1. B = {}
  <2> SUFFICES ASSUME B # {} PROVE FALSE
    OBVIOUS
  <2>1. \A U \in SUBSET S : IsFiniteSet(U) /\ Total(f, U) \in Nat
    BY FS_Subset, TotalNat
  <2>2. PICK U \in B : \A z \in U : U \ {z} \notin B
    BY <2>1, SmallestSet
  <2>3. PICK y \in U : Total(f, U) # f[y] + Total(f, U \ {y})
    OBVIOUS
  <2> DEFINE a == AnyOf(U)
  <2>4. a \in U /\ Total(f, U) = f[a] + Total(f, U \ {a})
    BY <2>1, <2>3, TotalAny
  <2> HIDE DEF a
  <2>5. a # y
    BY <2>3, <2>4
  <2>6. Total(f, U \ {a}) = f[y] + Total(f, (U \ {a}) \ {y})
    BY <2>2, <2>4, <2>5
  <2>7. Total(f, U \ {y}) = f[a] + Total(f, (U \ {y}) \ {a})
    BY <2>2, <2>4, <2>5
  <2>8. (U \ {a}) \ {y} = (U \ {y}) \ {a}
    OBVIOUS
  <2>9. PICK t : t = Total(f, (U \ {a}) \ {y}) /\ t \in Nat
    BY <2>1
  <2>10. f[a] \in Nat /\ f[y] \in Nat
    BY <2>4
  <2> QED
    BY <2>3, <2>4, <2>6, <2>7, <2>8, <2>9, <2>10
<1> QED
  BY <1>1

(* Two sums add up to that of the union.                                   *)
LEMMA TotalUnion ==
    ASSUME NEW S, IsFiniteSet(S), NEW T, IsFiniteSet(T), S \cap T = {},
           NEW f, \A x \in S \cup T : f[x] \in Nat
    PROVE  Total(f, S \cup T) = Total(f, S) + Total(f, T)
<1> DEFINE B == {U \in SUBSET T : Total(f, S \cup U) # Total(f, S) + Total(f, U)}
<1>1. B = {}
  <2> SUFFICES ASSUME B # {} PROVE FALSE
    OBVIOUS
  <2>1. \A U \in SUBSET T : IsFiniteSet(U) /\ IsFiniteSet(S \cup U) /\ Total(f, U) \in Nat
    BY FS_Subset, FS_Union, TotalNat
  <2>2. PICK U \in B : \A z \in U : U \ {z} \notin B
    BY <2>1, SmallestSet
  <2>3. Total(f, S) \in Nat
    BY TotalNat
  <2>4. U # {}
    <3> SUFFICES ASSUME U = {} PROVE FALSE
      OBVIOUS
    <3>1. Total(f, U) = 0 /\ S \cup U = S
      BY TotalEmpty
    <3>2. Total(f, S \cup U) = Total(f, S)
      BY <3>1
    <3> QED
      BY <2>2, <2>3, <3>1, <3>2
  <2>5. PICK y : y \in U
    BY <2>4
  <2>6. Total(f, U) = f[y] + Total(f, U \ {y})
    BY <2>1, <2>5, TotalWithout
  <2>7. Total(f, S \cup U) = f[y] + Total(f, (S \cup U) \ {y})
    BY <2>1, <2>5, TotalWithout
  <2>8. (S \cup U) \ {y} = S \cup (U \ {y})
    BY <2>5
  <2>9. Total(f, S \cup (U \ {y})) = Total(f, S) + Total(f, U \ {y})
    BY <2>2, <2>5
  <2>10. f[y] \in Nat /\ Total(f, U \ {y}) \in Nat
    BY <2>1, <2>5
  <2>11. Total(f, (S \cup U) \ {y}) = Total(f, S) + Total(f, U \ {y})
    BY <2>8, <2>9
  <2>12. Total(f, S \cup U) = Total(f, S) + Total(f, U)
    BY <2>3, <2>6, <2>7, <2>10, <2>11
  <2> QED
    BY <2>2, <2>12
<1> QED
  BY <1>1

(* A part of a sum is not more than all of it.                             *)
LEMMA TotalPart ==
    ASSUME NEW S, IsFiniteSet(S), NEW T \in SUBSET S, NEW f, \A x \in S : f[x] \in Nat
    PROVE  Total(f, T) \in Nat /\ Total(f, S) \in Nat /\ Total(f, T) <= Total(f, S)
<1>1. IsFiniteSet(T) /\ IsFiniteSet(S \ T) /\ T \cup (S \ T) = S /\ T \cap (S \ T) = {}
  BY FS_Subset
<1>2. Total(f, T \cup (S \ T)) = Total(f, T) + Total(f, S \ T)
  BY <1>1, TotalUnion
<1>3. Total(f, T) \in Nat /\ Total(f, S \ T) \in Nat /\ Total(f, S) \in Nat
  BY <1>1, TotalNat
<1>4. Total(f, S) = Total(f, T) + Total(f, S \ T)
  BY <1>1, <1>2
<1> QED
  BY <1>3, <1>4

(* Nor is one of its summands.                                             *)
LEMMA TotalMember ==
    ASSUME NEW S, IsFiniteSet(S), NEW x \in S, NEW f, \A y \in S : f[y] \in Nat
    PROVE  f[x] <= Total(f, S)
<1>1. Total(f, S) = f[x] + Total(f, S \ {x})
  BY TotalWithout
<1>2. Total(f, S \ {x}) \in Nat /\ f[x] \in Nat
  BY TotalPart
<1> QED
  BY <1>1, <1>2

(* A sum does not get smaller when each summand is replaced by another one *)
(* that is not smaller.                                                    *)
LEMMA TotalReplaced ==
    ASSUME NEW S, IsFiniteSet(S), NEW T, IsFiniteSet(T),
           NEW f, \A x \in S \cup T : f[x] \in Nat,
           NEW h, \A x \in S : h[x] \in T /\ f[x] <= f[h[x]],
           \A x, y \in S : h[x] = h[y] => x = y
    PROVE  Total(f, S) <= Total(f, T)
<1> DEFINE Image(U) == {h[x] : x \in U}
           B == {U \in SUBSET S : ~(Total(f, U) <= Total(f, Image(U)))}
<1>1. \A U \in SUBSET S : /\ IsFiniteSet(U) /\ Total(f, U) \in Nat
                          /\ Image(U) \in SUBSET T /\ IsFiniteSet(Image(U)) /\ Total(f, Image(U)) \in Nat
  <2> TAKE U \in SUBSET S
  <2>1. Image(U) \in SUBSET T
    OBVIOUS
  <2> QED
    BY <2>1, FS_Subset, TotalNat
<1>2. B = {}
  <2> SUFFICES ASSUME B # {} PROVE FALSE
    OBVIOUS
  <2>1. PICK U \in B : \A z \in U : U \ {z} \notin B
    BY <1>1, SmallestSet
  <2>2. U # {}
    <3> SUFFICES ASSUME U = {} PROVE FALSE
      OBVIOUS
    <3>1. Total(f, U) = 0 /\ U \in SUBSET S
      BY TotalEmpty
    <3> QED
      BY <1>1, <2>1, <3>1
  <2>3. PICK y : y \in U
    BY <2>2
  <2> DEFINE V == U \ {y}
  <2>4. Total(f, U) = f[y] + Total(f, V)
    BY <1>1, <2>3, TotalWithout
  <2>5. Image(U) \ {h[y]} = Image(V) /\ h[y] \in Image(U)
    BY <2>3
  <2>6. Total(f, Image(U)) = f[h[y]] + Total(f, Image(U) \ {h[y]})
    <3> HIDE DEF Image
    <3>1. \A x \in Image(U) : f[x] \in Nat
      BY <1>1, <2>1
    <3> QED
      BY <1>1, <2>1, <2>5, <3>1, TotalWithout
  <2>7. Total(f, Image(U)) = f[h[y]] + Total(f, Image(V))
    BY <2>5, <2>6
  <2>8. V \in SUBSET S /\ Total(f, V) <= Total(f, Image(V))
    BY <2>1, <2>3
  <2>9. f[y] \in Nat /\ f[h[y]] \in Nat /\ f[y] <= f[h[y]]
    BY <2>3
  <2>10. Total(f, V) \in Nat /\ Total(f, Image(V)) \in Nat
    BY <1>1, <2>8
  <2> HIDE DEF Image, V
  <2>11. Total(f, U) <= Total(f, Image(U))
    BY <2>4, <2>7, <2>8, <2>9, <2>10
  <2> QED
    BY <2>1, <2>11
<1>3. Total(f, S) <= Total(f, Image(S))
  BY <1>2
<1>4. Total(f, Image(S)) <= Total(f, T)
  BY <1>1, TotalPart
<1> HIDE DEF Image
<1> QED
  BY <1>1, <1>3, <1>4, TotalNat

-----------------------------------------------------------------------------
(* What a captured price comes to.                                         *)

Amounts(ps) == [i \in DOMAIN ps |-> ps[i].amount]

(* Evidence as the page gives it, or as a migration leaves it.             *)
IsEvidence(e) ==
    LET ps == e.promotions
    IN  /\ e.activity \in Nat /\ e.fee \in Nat
        /\ IsFiniteSet(DOMAIN ps) /\ DOMAIN ps \subseteq Nat
        /\ \A i \in DOMAIN ps : /\ ps[i].amount \in Nat \cup {PP!NoFen}
                                /\ ps[i].threshold \in Nat \cup {PP!NoFen}
                                /\ ps[i].inclusion \in Inclusions

(* A price that follows from its evidence.                                 *)
PricedBy(e, p) ==
    LET parts == PP!derivePromotionDiscounts(e.activity, e.promotions)
        sum   == e.activity - PP!PublicDiscount(parts) + e.fee
    IN  /\ p.coupon = parts.coupon /\ p.full = parts.full /\ p.direct = parts.direct
        /\ p.confidence = "CONFIRMED" <=> ~parts.review /\ sum >= 0
        /\ p.confidence = "CONFIRMED" => p.payable = sum
        /\ p.confidence = "ESTIMATED" => p.payable # PP!NoFen

(* The sums the discount is defined by are sums of amounts.                *)
LEMMA AmountsSummed ==
    ASSUME NEW ps, NEW S, IsFiniteSet(S), S \subseteq DOMAIN ps
    PROVE  /\ MapThenSumSet(LAMBDA i : ps[i].amount, S) = Total(Amounts(ps), S)
<1> DEFINE IsSum(g) == g = [s \in SUBSET S |->
               IF s = {} THEN 0 ELSE ps[AnyOf(s)].amount + g[s \ {AnyOf(s)}]]
<1>1. \E g : IsSum(g)
  <2>1. PICK g : IsTotal(g, Amounts(ps), S)
    BY TotalExists
  <2>2. \A s \in SUBSET S : s # {} => Amounts(ps)[AnyOf(s)] = ps[AnyOf(s)].amount
    BY DEF Amounts, AnyOf
  <2>3. IsSum(g)
    BY <2>1, <2>2 DEF IsTotal
  <2> QED
    BY <2>3
<1>2. PICK g : g = CHOOSE h : IsSum(h)
  OBVIOUS
<1>3. IsSum(g)
  BY <1>1, <1>2
<1>4. IsTotal(g, Amounts(ps), S)
  <2>1. \A s \in SUBSET S : s # {} => Amounts(ps)[AnyOf(s)] = ps[AnyOf(s)].amount
    BY DEF Amounts, AnyOf
  <2> QED
    BY <1>3, <2>1 DEF IsTotal
<1>5. MapThenSumSet(LAMBDA i : ps[i].amount, S) = g[S]
  BY <1>2 DEF MapThenSumSet, MapThenFoldSet, AnyOf
<1>6. Total(Amounts(ps), S) = g[S]
  BY <1>4, TotalIs
<1> QED
  BY <1>5, <1>6

(* The discount of some kinds of promotions.                               *)
LEMMA DiscountSums ==
    ASSUME NEW ps, NEW S, IsFiniteSet(S), S \subseteq DOMAIN ps, NEW kinds
    PROVE  PP!Discount(ps, S, kinds) = Total(Amounts(ps), {i \in S : ps[i].kind \in kinds})
<1> DEFINE T == {i \in S : ps[i].kind \in kinds}
<1>1. IsFiniteSet(T) /\ T \subseteq DOMAIN ps
  BY FS_Subset
<1> HIDE DEF T
<1>2. MapThenSumSet(LAMBDA i : ps[i].amount, T) = Total(Amounts(ps), T)
  BY <1>1, AmountsSummed
<1>3. PP!Discount(ps, S, kinds) = MapThenSumSet(LAMBDA i : ps[i].amount, T)
  BY DEF PP!Discount, PP!MapThenSumSet, PP!MapThenFoldSet, MapThenSumSet, MapThenFoldSet, T
<1> QED
  BY <1>2, <1>3 DEF T

Usable(ps, activity) == {i \in DOMAIN ps : PP!Counts(ps[i], activity) /\ PP!Complete(ps[i])}

(* Of each group the largest promotion is applied, one and no more.        *)
LEMMA AppliedOnce ==
    ASSUME NEW ps, NEW activity, IsFiniteSet(DOMAIN ps), DOMAIN ps \subseteq Nat,
           \A i \in Usable(ps, activity) : ps[i].amount \in Nat
    PROVE  /\ PP!Applied(ps, activity) \subseteq Usable(ps, activity)
           /\ \A i, j \in PP!Applied(ps, activity) : ps[i].group = ps[j].group => i = j
           /\ \A i \in Usable(ps, activity) : \E j \in PP!Applied(ps, activity) :
                  ps[j].group = ps[i].group /\ ps[i].amount <= ps[j].amount
<1> DEFINE A == PP!Applied(ps, activity)
           U == Usable(ps, activity)
<1>1. A = {i \in U : \A j \in U : ps[j].group = ps[i].group =>
                 \/ ps[j].amount < ps[i].amount
                 \/ ps[j].amount = ps[i].amount /\ j >= i}
  BY DEF PP!Applied, Usable
<1>2. U \subseteq Nat /\ U \subseteq DOMAIN ps /\ IsFiniteSet(U)
  BY FS_Subset DEF Usable
<1> HIDE DEF A, U
<1>3. \A i, j \in A : ps[i].group = ps[j].group => i = j
  BY <1>1, <1>2 DEF U
<1>4. ASSUME NEW i \in U
      PROVE  \E j \in A : ps[j].group = ps[i].group /\ ps[i].amount <= ps[j].amount
  <2> DEFINE G == {k \in U : ps[k].group = ps[i].group}
             f == [k \in G |-> ps[k].amount]
  <2>1. IsFiniteSet(G) /\ f \in [G -> Nat] /\ G # {}
    BY <1>2, FS_Subset DEF U
  <2>2. Total(f, G) \in Nat /\ \A k \in G : f[k] <= Total(f, G)
    <3> HIDE DEF G, f
    <3> QED
      BY <2>1, TotalNat, TotalMember
  <2>3. PICK m \in G : \A k \in G : f[k] <= f[m]
    <3> HIDE DEF G, f
    <3> QED
      BY <2>1, <2>2, MostBy
  <2> DEFINE M == {k \in G : f[k] = f[m]}
             n == [k \in M |-> k]
  <2>4. n \in [M -> Nat] /\ M # {}
    BY <1>2
  <2>5. PICK j \in M : \A k \in M : n[j] <= n[k]
    <3> HIDE DEF M, n
    <3> QED
      BY <2>4, LeastBy
  <2>6. j \in G /\ f[j] = f[m] /\ \A k \in M : j <= k
    BY <2>5
  <2>7. ASSUME NEW k \in U, ps[k].group = ps[j].group
        PROVE  ps[k].amount < ps[j].amount \/ (ps[k].amount = ps[j].amount /\ k >= j)
    <3>1. k \in G /\ f[k] = ps[k].amount /\ f[j] = ps[j].amount
      BY <2>6, <2>7
    <3>2. f[k] \in Nat /\ f[j] \in Nat /\ f[k] <= f[j]
      BY <2>1, <2>3, <2>6, <3>1
    <3>3. f[k] = f[j] => k >= j
      BY <1>2, <2>6, <3>1
    <3> HIDE DEF f, G, M, n
    <3> QED
      BY <3>1, <3>2, <3>3
  <2>8. j \in A
    BY <1>1, <2>6, <2>7
  <2>9. ps[i].amount <= ps[j].amount
    BY <2>3, <2>6
  <2> QED
    BY <2>6, <2>8, <2>9
<1> QED
  BY <1>1, <1>3, <1>4 DEF A, U

(* The parts of the discount are those of the promotions applied.          *)
LEMMA DiscountIsTotal ==
    ASSUME NEW ps, NEW activity, IsFiniteSet(DOMAIN ps), DOMAIN ps \subseteq Nat,
           \A i \in Usable(ps, activity) : ps[i].amount \in Nat
    PROVE  PP!PublicDiscount(PP!derivePromotionDiscounts(activity, ps))
               = Total(Amounts(ps), PP!Applied(ps, activity))
<1> DEFINE A == PP!Applied(ps, activity)
           f == Amounts(ps)
           kinds == {ps[i].kind : i \in A}
           C == {i \in A : ps[i].kind \in {"COUPON"}}
           F == {i \in A : ps[i].kind \in {"FULL_REDUCTION"}}
           D == {i \in A : ps[i].kind \in kinds \ {"COUPON", "FULL_REDUCTION"}}
<1>1. A \subseteq Usable(ps, activity) /\ A \subseteq DOMAIN ps /\ IsFiniteSet(A)
  <2>1. A \subseteq Usable(ps, activity)
    BY AppliedOnce
  <2> QED
    BY <2>1, FS_Subset DEF Usable
<1>2. \A i \in A : f[i] \in Nat
  BY <1>1 DEF Amounts
<1>3. PP!PublicDiscount(PP!derivePromotionDiscounts(activity, ps))
         = PP!Discount(ps, A, {"COUPON"}) + PP!Discount(ps, A, {"FULL_REDUCTION"})
             + PP!Discount(ps, A, kinds \ {"COUPON", "FULL_REDUCTION"})
  BY DEF PP!PublicDiscount, PP!derivePromotionDiscounts
<1> HIDE DEF A, f
<1>4. /\ PP!Discount(ps, A, {"COUPON"}) = Total(f, C)
      /\ PP!Discount(ps, A, {"FULL_REDUCTION"}) = Total(f, F)
      /\ PP!Discount(ps, A, kinds \ {"COUPON", "FULL_REDUCTION"}) = Total(f, D)
  BY <1>1, DiscountSums DEF f
<1>5. /\ IsFiniteSet(C) /\ IsFiniteSet(F) /\ IsFiniteSet(D) /\ IsFiniteSet(C \cup F)
      /\ C \cap F = {} /\ (C \cup F) \cap D = {} /\ (C \cup F) \cup D = A
  BY <1>1, FS_Subset, FS_Union
<1>6. \A i \in C \cup F : f[i] \in Nat
  BY <1>2
<1>7. \A i \in (C \cup F) \cup D : f[i] \in Nat
  BY <1>2
<1> HIDE DEF C, F, D, kinds
<1>8. Total(f, C \cup F) = Total(f, C) + Total(f, F)
  BY <1>5, <1>6, TotalUnion
<1>9. Total(f, (C \cup F) \cup D) = Total(f, C \cup F) + Total(f, D)
  BY <1>5, <1>7, TotalUnion
<1>10. Total(f, A) = Total(f, C) + Total(f, F) + Total(f, D)
  BY <1>5, <1>8, <1>9
<1> QED
  BY <1>3, <1>4, <1>10 DEF A, f, C, F, D, kinds

Sure(e) == \A i \in DOMAIN e.promotions : ~Doubtful(e.promotions[i], e.activity)

(* The two readings of a promotion agree: what leaves a price in doubt, and *)
(* what may be subtracted.                                                 *)
LEMMA DoubtIsReview ==
    ASSUME NEW e, IsEvidence(e)
    PROVE  /\ PP!derivePromotionDiscounts(e.activity, e.promotions).review <=> ~Sure(e)
           /\ Sure(e) => \A i \in DOMAIN e.promotions :
                  i \in Usable(e.promotions, e.activity)
                     <=> /\ e.promotions[i].audience = "PUBLIC"
                         /\ e.promotions[i].inclusion = "EXCLUDED"
                         /\ e.activity >= e.promotions[i].threshold
<1> DEFINE ps == e.promotions
           a == e.activity
<1>1. a \in Nat /\ \A i \in DOMAIN ps :
         /\ ps[i].amount \in Nat \cup {-1} /\ ps[i].threshold \in Nat \cup {-1}
         /\ ps[i].inclusion \in {"INCLUDED", "EXCLUDED", "UNKNOWN"}
  BY DEF IsEvidence, Inclusions, PP!NoFen
<1>2. ASSUME NEW i \in DOMAIN ps
      PROVE  PP!NeedsReview(ps[i], a) <=> Doubtful(ps[i], a)
  <2>1. PICK p : p = ps[i]
    OBVIOUS
  <2>2. p.amount \in Nat \cup {-1} /\ p.threshold \in Nat \cup {-1}
        /\ p.inclusion \in {"INCLUDED", "EXCLUDED", "UNKNOWN"}
    BY <1>1, <2>1
  <2>3. PP!NeedsReview(p, a) <=> Doubtful(p, a)
    BY <1>1, <2>2 DEF PP!NeedsReview, PP!Counts, PP!Complete, Doubtful, PP!NoFen, PP!KnownPrivateAudiences
  <2> QED
    BY <2>1, <2>3
<1>3. PP!derivePromotionDiscounts(a, ps).review <=> \E i \in DOMAIN ps : PP!NeedsReview(ps[i], a)
  BY DEF PP!derivePromotionDiscounts
<1>4. ASSUME NEW i \in DOMAIN ps, ~Doubtful(ps[i], a)
      PROVE  i \in Usable(ps, a) <=> /\ ps[i].audience = "PUBLIC" /\ ps[i].inclusion = "EXCLUDED"
                                     /\ a >= ps[i].threshold
  <2>1. PICK p : p = ps[i]
    OBVIOUS
  <2>2. p.amount \in Nat \cup {-1} /\ p.threshold \in Nat \cup {-1}
    BY <1>1, <2>1
  <2>3. PP!Counts(p, a) /\ PP!Complete(p)
           <=> p.audience = "PUBLIC" /\ p.inclusion = "EXCLUDED" /\ a >= p.threshold
    BY <1>1, <1>4, <2>1, <2>2 DEF PP!Counts, PP!Complete, Doubtful, PP!NoFen, PP!KnownPrivateAudiences
  <2> QED
    BY <2>1, <2>3 DEF Usable
<1> QED
  BY <1>2, <1>3, <1>4 DEF Sure

(* A promotion that can be used has an amount.                             *)
LEMMA UsableAmounts ==
    ASSUME NEW e, IsEvidence(e)
    PROVE  \A i \in Usable(e.promotions, e.activity) : e.promotions[i].amount \in Nat
BY DEF Usable, IsEvidence, PP!Complete

(* The promotions applied come to the most that may be subtracted.         *)
LEMMA AppliedIsBest ==
    ASSUME NEW e, IsEvidence(e), Sure(e)
    PROVE  /\ BestDiscount(e) = PP!PublicDiscount(PP!derivePromotionDiscounts(e.activity, e.promotions))
           /\ BestDiscount(e) \in Nat
<1> DEFINE ps == e.promotions
           A == PP!Applied(ps, e.activity)
           U == Usable(ps, e.activity)
           f == Amounts(ps)
           choices == {c \in SUBSET U : \A i, j \in c : i # j => ps[i].group # ps[j].group}
           sums == {Total(f, c) : c \in choices}
<1>1. IsFiniteSet(DOMAIN ps) /\ DOMAIN ps \subseteq Nat /\ \A i \in U : ps[i].amount \in Nat
  BY UsableAmounts DEF IsEvidence
<1>2. /\ A \subseteq U
      /\ \A i, j \in A : ps[i].group = ps[j].group => i = j
      /\ \A i \in U : \E j \in A : ps[j].group = ps[i].group /\ ps[i].amount <= ps[j].amount
  BY <1>1, AppliedOnce
<1>3. U \subseteq DOMAIN ps /\ IsFiniteSet(U) /\ IsFiniteSet(A)
  BY <1>1, <1>2, FS_Subset DEF Usable
<1>4. U = {i \in DOMAIN ps : /\ ps[i].audience = "PUBLIC" /\ ps[i].inclusion = "EXCLUDED"
                             /\ e.activity >= ps[i].threshold}
  BY <1>3, DoubtIsReview
<1>5. \A i \in U : f[i] = ps[i].amount /\ f[i] \in Nat
  BY <1>1, <1>3 DEF Amounts
<1> HIDE DEF A, U, f
<1>6. BestDiscount(e) = Max(sums)
  <2>1. \A c \in choices : MapThenSumSet(LAMBDA i : ps[i].amount, c) = Total(f, c)
    <3> TAKE c \in choices
    <3>1. IsFiniteSet(c) /\ c \subseteq DOMAIN ps
      BY <1>3, FS_Subset
    <3> QED
      BY <3>1, AmountsSummed DEF f
  <2>2. BestDiscount(e) = Max({MapThenSumSet(LAMBDA i : ps[i].amount, c) : c \in choices})
    BY <1>4 DEF BestDiscount
  <2> HIDE DEF choices
  <2>3. {MapThenSumSet(LAMBDA i : ps[i].amount, c) : c \in choices} = sums
    BY <2>1
  <2> QED
    BY <2>2, <2>3
<1>7. Total(f, A) \in Nat
  BY <1>2, <1>3, <1>5, TotalNat
<1>8. Total(f, A) \in sums
  <2>1. A \in choices
    BY <1>2
  <2> QED
    BY <2>1
<1>9. ASSUME NEW c \in choices
      PROVE  Total(f, c) \in Nat /\ Total(f, c) <= Total(f, A)
  <2> DEFINE h == [i \in c |-> CHOOSE j \in A : ps[j].group = ps[i].group /\ ps[i].amount <= ps[j].amount]
  <2>1. \A i \in c : h[i] \in A /\ ps[h[i]].group = ps[i].group /\ ps[i].amount <= ps[h[i]].amount
    <3> TAKE i \in c
    <3>1. i \in U
      OBVIOUS
    <3>2. \E j \in A : ps[j].group = ps[i].group /\ ps[i].amount <= ps[j].amount
      BY <1>2, <3>1
    <3> QED
      BY <3>2
  <2> HIDE DEF h
  <2>2. IsFiniteSet(c) /\ \A i \in c : f[i] \in Nat
    BY <1>3, <1>5, FS_Subset
  <2>3. \A i \in c \cup A : f[i] \in Nat
    BY <1>2, <1>5, <2>2
  <2>4. \A i \in c : h[i] \in A /\ f[i] <= f[h[i]]
    <3> TAKE i \in c
    <3>1. h[i] \in A /\ h[i] \in U /\ i \in U
      BY <1>2, <2>1
    <3>2. f[i] = ps[i].amount /\ f[h[i]] = ps[h[i]].amount
      BY <1>5, <3>1
    <3> QED
      BY <2>1, <3>1, <3>2
  <2>5. \A i, j \in c : h[i] = h[j] => i = j
    <3> TAKE i, j \in c
    <3>1. h[i] = h[j] => ps[i].group = ps[j].group
      BY <2>1
    <3> QED
      BY <3>1
  <2> HIDE DEF choices
  <2> QED
    BY <1>3, <2>2, <2>3, <2>4, <2>5, TotalReplaced, TotalNat
<1>10. \A s \in sums : s \in Nat /\ s <= Total(f, A)
  BY <1>9
<1> HIDE DEF sums
<1>11. Max(sums) = Total(f, A)
  <2>1. \E m \in sums : \A s \in sums : m >= s
    BY <1>7, <1>8, <1>10
  <2>2. PICK m : m = Max(sums)
    OBVIOUS
  <2>3. m \in sums /\ \A s \in sums : m >= s
    BY <2>1, <2>2 DEF Max
  <2> QED
    BY <1>7, <1>8, <1>10, <2>2, <2>3
<1>12. PP!PublicDiscount(PP!derivePromotionDiscounts(e.activity, e.promotions)) = Total(f, A)
  BY <1>1, DiscountIsTotal DEF U, f, A
<1> QED
  BY <1>6, <1>7, <1>11, <1>12

(* A price that follows from its evidence is confirmed when it is the      *)
(* least, and the schema accepts it.                                       *)
LEMMA PricedIsPayable ==
    ASSUME NEW e, IsEvidence(e), NEW p, PricedBy(e, p)
    PROVE  LET least == e.activity + e.fee - BestDiscount(e)
           IN  /\ PP!SchemaAccepts(e, p)
               /\ p.confidence = "CONFIRMED" <=> (Sure(e) /\ least >= 0)
               /\ p.confidence = "CONFIRMED" => p.payable = least
<1> DEFINE parts == PP!derivePromotionDiscounts(e.activity, e.promotions)
           d == PP!PublicDiscount(parts)
           sum == e.activity - d + e.fee
<1>1. /\ p.coupon = parts.coupon /\ p.full = parts.full /\ p.direct = parts.direct
      /\ p.confidence = "CONFIRMED" <=> ~parts.review /\ sum >= 0
      /\ p.confidence = "CONFIRMED" => p.payable = sum
      /\ p.confidence = "ESTIMATED" => p.payable # PP!NoFen
  BY DEF PricedBy
<1>2. parts.review <=> ~Sure(e)
  BY DoubtIsReview
<1>3. PP!PublicDiscount(p) = d
  BY <1>1 DEF PP!PublicDiscount
<1>4. Sure(e) => BestDiscount(e) = d /\ d \in Nat
  BY AppliedIsBest
<1>5. e.activity \in Nat /\ e.fee \in Nat
  BY DEF IsEvidence
<1>6. Sure(e) => \A i \in DOMAIN e.promotions :
         ~(e.promotions[i].audience = "PUBLIC" /\ e.promotions[i].inclusion = "UNKNOWN")
  BY DEF Sure, Doubtful, PP!KnownPrivateAudiences
<1> HIDE DEF parts, d
<1>7. PP!SchemaAccepts(e, p)
  <2>1. CASE p.confidence = "CONFIRMED"
    <3>1. Sure(e) /\ sum >= 0 /\ p.payable = sum
      BY <1>1, <1>2, <2>1
    <3>2. p.payable >= 0 /\ p.payable = e.activity - PP!PublicDiscount(p) + e.fee
      BY <1>3, <3>1
    <3>3. p.confidence # "ESTIMATED"
      BY <2>1
    <3> QED
      BY <1>1, <1>6, <3>1, <3>2, <3>3 DEF PP!SchemaAccepts, parts
  <2>2. CASE p.confidence # "CONFIRMED"
    BY <1>1, <2>2 DEF PP!SchemaAccepts
  <2> QED
    BY <2>1, <2>2
<1>8. Sure(e) => e.activity + e.fee - BestDiscount(e) = sum
  BY <1>4, <1>5
<1> QED
  BY <1>1, <1>2, <1>7, <1>8

(* What a price is made of comes to a number.                              *)
LEMMA SumIsNumber ==
    ASSUME NEW e, IsEvidence(e),
           NEW parts, parts = PP!derivePromotionDiscounts(e.activity, e.promotions)
    PROVE  e.activity - PP!PublicDiscount(parts) + e.fee \in Int
<1> DEFINE S == PP!Applied(e.promotions, e.activity)
<1>1. \A i \in S : i \in DOMAIN e.promotions /\ Amounts(e.promotions)[i] \in Nat
  BY DEF PP!Applied, PP!Complete, Amounts, IsEvidence
<1>2. IsFiniteSet(S) /\ S \subseteq DOMAIN e.promotions
  BY <1>1, FS_Subset DEF IsEvidence
<1> HIDE DEF S
<1>3. \A kinds : PP!Discount(e.promotions, S, kinds) \in Int
  <2> TAKE kinds
  <2> DEFINE T == {i \in S : e.promotions[i].kind \in kinds}
  <2>1. PP!Discount(e.promotions, S, kinds) = Total(Amounts(e.promotions), T)
    BY <1>2, DiscountSums
  <2>2. IsFiniteSet(T) /\ \A i \in T : Amounts(e.promotions)[i] \in Nat
    BY <1>1, <1>2, FS_Subset
  <2> QED
    BY <2>1, <2>2, TotalNat
<1>4. parts.coupon \in Int /\ parts.full \in Int /\ parts.direct \in Int
  BY <1>3 DEF S, PP!derivePromotionDiscounts
<1> QED
  BY <1>4 DEF PP!PublicDiscount, IsEvidence

(* What the collector calculates follows from its evidence.                *)
LEMMA CalculatedIsPriced ==
    ASSUME NEW e, IsEvidence(e)
    PROVE  PricedBy(e, PP!calculatePublicPrice(e))
<1> DEFINE parts == PP!derivePromotionDiscounts(e.activity, e.promotions)
           sum == e.activity - PP!PublicDiscount(parts) + e.fee
           p == PP!calculatePublicPrice(e)
<1>1. /\ p.coupon = parts.coupon /\ p.full = parts.full /\ p.direct = parts.direct
      /\ \/ parts.review /\ e.shown # PP!NoFen /\ p.confidence = "ESTIMATED" /\ p.payable = e.shown
         \/ (parts.review \/ sum < 0) /\ p.confidence = "MANUAL_REVIEW"
         \/ ~parts.review /\ ~(sum < 0) /\ p.confidence = "CONFIRMED" /\ p.payable = sum
  BY DEF PP!calculatePublicPrice
<1>2. sum \in Int
  BY SumIsNumber
<1> HIDE DEF parts, p
<1>3. sum < 0 <=> ~(sum >= 0)
  BY <1>2
<1> HIDE DEF sum
<1>4. /\ p.confidence = "CONFIRMED" <=> ~parts.review /\ sum >= 0
      /\ p.confidence = "CONFIRMED" => p.payable = sum
      /\ p.confidence = "ESTIMATED" => p.payable # PP!NoFen
  BY <1>1, <1>3
<1> QED
  BY <1>1, <1>4 DEF PricedBy, parts, p, sum

(* What the page says is evidence.                                         *)
LEMMA EvidenceRead ==
    ASSUME NEW inclusions, inclusions \subseteq Inclusions, NEW e \in EvidenceWith(inclusions)
    PROVE  IsEvidence(e)
<1>1. /\ e.activity \in Nat /\ e.fee \in Nat
      /\ e.promotions \in Seq([kind : STRING, audience : STRING, inclusion : inclusions,
                               group : STRING, threshold : MaybeFen, amount : MaybeFen])
  BY DEF EvidenceWith
<1>2. DOMAIN e.promotions = 1..Len(e.promotions) /\ Len(e.promotions) \in Nat
  BY <1>1, LenProperties
<1>3. IsFiniteSet(DOMAIN e.promotions) /\ DOMAIN e.promotions \subseteq Nat
  BY <1>2, FS_Interval
<1>4. \A i \in DOMAIN e.promotions :
         e.promotions[i] \in [kind : STRING, audience : STRING, inclusion : inclusions,
                              group : STRING, threshold : MaybeFen, amount : MaybeFen]
  BY <1>1, <1>2, ElementOfSeq
<1>5. \A i \in DOMAIN e.promotions :
         /\ e.promotions[i].amount \in Nat \cup {PP!NoFen}
         /\ e.promotions[i].threshold \in Nat \cup {PP!NoFen}
         /\ e.promotions[i].inclusion \in Inclusions
  BY <1>4 DEF MaybeFen
<1> QED
  BY <1>1, <1>3, <1>5 DEF IsEvidence

(* However its promotions are read, it stays evidence.                     *)
LEMMA EvidenceReadAs ==
    ASSUME NEW some, NEW e \in EvidenceWith(some),
           NEW inclusions \in [DOMAIN e.promotions -> Inclusions]
    PROVE  ReadAs(e, inclusions) \in EvidenceWith(Inclusions)
<1> DEFINE R(set) == [kind : STRING, audience : STRING, inclusion : set,
                      group : STRING, threshold : MaybeFen, amount : MaybeFen]
           read == [i \in DOMAIN e.promotions |->
                       [e.promotions[i] EXCEPT !.inclusion = inclusions[i]]]
<1>1. e.promotions \in Seq(R(some))
  BY DEF EvidenceWith
<1>2. DOMAIN e.promotions = 1..Len(e.promotions) /\ Len(e.promotions) \in Nat
  BY <1>1, LenProperties
<1>3. \A i \in DOMAIN e.promotions : e.promotions[i] \in R(some)
  BY <1>1, <1>2, ElementOfSeq
<1>4. \A i \in DOMAIN e.promotions : inclusions[i] \in Inclusions
  OBVIOUS
<1>5. \A i \in DOMAIN e.promotions :
         [e.promotions[i] EXCEPT !.inclusion = inclusions[i]] \in R(Inclusions)
  BY <1>3, <1>4
<1>6. read \in Seq(R(Inclusions))
  BY <1>2, <1>5, SeqDef
<1> HIDE DEF read, R
<1>7. e \in [activity : Nat, fee : Nat, shown : MaybeFen, promotions : Seq(R(some))]
  BY DEF EvidenceWith, R
<1>8. [e EXCEPT !.promotions = read]
         \in [activity : Nat, fee : Nat, shown : MaybeFen, promotions : Seq(R(Inclusions))]
  BY <1>6, <1>7
<1> QED
  BY <1>8 DEF ReadAs, EvidenceWith, read, R

(* A migration reads the promotions of an old checkpoint.                  *)
LEMMA MigratedReads ==
    ASSUME NEW some, NEW e \in EvidenceWith(some), some \subseteq Inclusions \cup {"TRUE", "FALSE"}
    PROVE  LET read == [i \in DOMAIN e.promotions |->
                            PP!normalizePromotion(e.promotions[i]).inclusion]
           IN  /\ read \in [DOMAIN e.promotions -> Inclusions]
               /\ PP!migrateLegacyCheckpointReport(e) = ReadAs(e, read)
<1> DEFINE R(set) == [kind : STRING, audience : STRING, inclusion : set,
                      group : STRING, threshold : MaybeFen, amount : MaybeFen]
           read == [i \in DOMAIN e.promotions |->
                        PP!normalizePromotion(e.promotions[i]).inclusion]
<1>1. \A i \in DOMAIN e.promotions : e.promotions[i] \in R(some)
  <2>1. e.promotions \in Seq(R(some))
    BY DEF EvidenceWith
  <2>2. DOMAIN e.promotions = 1..Len(e.promotions)
    BY <2>1, LenProperties
  <2> QED
    BY <2>1, <2>2, ElementOfSeq
<1>2. \A i \in DOMAIN e.promotions :
         /\ PP!normalizePromotion(e.promotions[i]).inclusion \in Inclusions
         /\ PP!normalizePromotion(e.promotions[i])
              = [e.promotions[i] EXCEPT !.inclusion = PP!normalizePromotion(e.promotions[i]).inclusion]
  <2> TAKE i \in DOMAIN e.promotions
  <2>1. e.promotions[i] \in R(some)
    BY <1>1
  <2>2. e.promotions[i].inclusion \in Inclusions \cup {"TRUE", "FALSE"}
    BY <2>1
  <2>3. PP!normalizePromotion(e.promotions[i]).inclusion =
            CASE e.promotions[i].inclusion = "TRUE"  -> "INCLUDED"
              [] e.promotions[i].inclusion = "FALSE" -> "UNKNOWN"
              [] OTHER -> e.promotions[i].inclusion
    BY <2>1 DEF PP!normalizePromotion
  <2>4. PP!normalizePromotion(e.promotions[i]).inclusion \in Inclusions
    BY <2>2, <2>3 DEF Inclusions
  <2>5. PP!normalizePromotion(e.promotions[i])
            = [e.promotions[i] EXCEPT !.inclusion = PP!normalizePromotion(e.promotions[i]).inclusion]
    BY <2>3 DEF PP!normalizePromotion
  <2> QED
    BY <2>4, <2>5
<1>3. read \in [DOMAIN e.promotions -> Inclusions]
  BY <1>2
<1>4. [i \in DOMAIN e.promotions |-> PP!normalizePromotion(e.promotions[i])]
        = [i \in DOMAIN e.promotions |-> [e.promotions[i] EXCEPT !.inclusion = read[i]]]
  BY <1>2
<1>5. PP!migrateLegacyCheckpointReport(e) = ReadAs(e, read)
  BY <1>4 DEF PP!migrateLegacyCheckpointReport, ReadAs
<1> QED
  BY <1>3, <1>5

(* Reading a promotion changes nothing but its inclusion.                  *)
LEMMA ReadShows ==
    ASSUME NEW some, NEW e \in EvidenceWith(some),
           NEW inclusions \in [DOMAIN e.promotions -> Inclusions]
    PROVE  LET read == ReadAs(e, inclusions)
           IN  /\ read.activity = e.activity /\ read.fee = e.fee
               /\ DOMAIN read.promotions = DOMAIN e.promotions
               /\ \A i \in DOMAIN e.promotions :
                      /\ read.promotions[i].inclusion = inclusions[i]
                      /\ read.promotions[i].audience = e.promotions[i].audience
                      /\ read.promotions[i].group = e.promotions[i].group
                      /\ read.promotions[i].threshold = e.promotions[i].threshold
                      /\ read.promotions[i].amount = e.promotions[i].amount
<1> DEFINE R(set) == [kind : STRING, audience : STRING, inclusion : set,
                      group : STRING, threshold : MaybeFen, amount : MaybeFen]
           ps == [i \in DOMAIN e.promotions |->
                     [e.promotions[i] EXCEPT !.inclusion = inclusions[i]]]
<1>1. \A i \in DOMAIN e.promotions : e.promotions[i] \in R(some)
  <2>1. e.promotions \in Seq(R(some))
    BY DEF EvidenceWith
  <2>2. DOMAIN e.promotions = 1..Len(e.promotions)
    BY <2>1, LenProperties
  <2> QED
    BY <2>1, <2>2, ElementOfSeq
<1>2. \A i \in DOMAIN e.promotions :
         /\ ps[i].inclusion = inclusions[i]
         /\ ps[i].audience = e.promotions[i].audience
         /\ ps[i].group = e.promotions[i].group
         /\ ps[i].threshold = e.promotions[i].threshold
         /\ ps[i].amount = e.promotions[i].amount
  BY <1>1
<1>3. DOMAIN ps = DOMAIN e.promotions
  OBVIOUS
<1> HIDE DEF ps, R
<1>4. ReadAs(e, inclusions).promotions = ps
  BY DEF ReadAs, EvidenceWith, ps
<1>5. ReadAs(e, inclusions).activity = e.activity /\ ReadAs(e, inclusions).fee = e.fee
  BY DEF ReadAs, EvidenceWith
<1> QED
  BY <1>2, <1>3, <1>4, <1>5

(* With nothing open a promotion asks for a look however it was read.      *)
LEMMA SameReview ==
    ASSUME NEW some, NEW e \in EvidenceWith(some),
           NEW one \in [DOMAIN e.promotions -> Inclusions],
           NEW other \in [DOMAIN e.promotions -> Inclusions],
           \A i \in DOMAIN e.promotions : e.promotions[i].audience = "PUBLIC" => one[i] = other[i]
    PROVE  PP!derivePromotionDiscounts(ReadAs(e, one).activity, ReadAs(e, one).promotions).review
             <=> PP!derivePromotionDiscounts(ReadAs(e, other).activity, ReadAs(e, other).promotions).review
<1> DEFINE Needs(e1, i) == PP!NeedsReview(e1.promotions[i], e1.activity)
<1>1. \A i \in DOMAIN e.promotions : Needs(ReadAs(e, one), i) <=> Needs(ReadAs(e, other), i)
  BY ReadShows DEF PP!NeedsReview, PP!Counts, PP!Complete
<1>2. DOMAIN ReadAs(e, one).promotions = DOMAIN ReadAs(e, other).promotions
  BY ReadShows
<1>3. DOMAIN ReadAs(e, one).promotions = DOMAIN e.promotions
  BY ReadShows
<1> QED
  BY <1>1, <1>2, <1>3 DEF PP!derivePromotionDiscounts

(* A migrated price follows from the migrated evidence.                    *)
LEMMA KeptIsPriced ==
    ASSUME NEW e \in EvidenceWith(Inclusions \cup {"TRUE", "FALSE"}),
           NEW inclusions \in [DOMAIN e.promotions -> Inclusions],
           \A i \in DOMAIN e.promotions : e.promotions[i].inclusion # "FALSE" =>
               inclusions[i] = PP!normalizePromotion(e.promotions[i]).inclusion,
           NEW kept, kept = PP!calculatePublicPrice(ReadAs(e, inclusions))
    PROVE  LET migrated == PP!migrateLegacyCheckpointReport(e)
           IN  IsEvidence(migrated) /\ PricedBy(migrated, PP!migrateItemSkus(e, kept))
<1> DEFINE migrated == PP!migrateLegacyCheckpointReport(e)
           plain == [migrated EXCEPT !.shown = PP!NoFen]
           fresh == PP!calculatePublicPrice(plain)
           Parts(e1) == PP!derivePromotionDiscounts(e1.activity, e1.promotions)
           open == \E i \in DOMAIN migrated.promotions :
                       /\ migrated.promotions[i].audience = "PUBLIC"
                       /\ migrated.promotions[i].inclusion = "UNKNOWN"
           stale == <<kept.coupon, kept.full, kept.direct>> # <<fresh.coupon, fresh.full, fresh.direct>>
           read == [i \in DOMAIN e.promotions |-> PP!normalizePromotion(e.promotions[i]).inclusion]
<1>1. read \in [DOMAIN e.promotions -> Inclusions] /\ migrated = ReadAs(e, read)
  BY MigratedReads
<1>2. migrated \in EvidenceWith(Inclusions)
  BY <1>1, EvidenceReadAs
<1>3. IsEvidence(migrated)
  BY <1>2, EvidenceRead
<1>4. /\ plain.activity = migrated.activity /\ plain.fee = migrated.fee
      /\ plain.promotions = migrated.promotions
  <2> HIDE DEF migrated
  <2> QED
    BY <1>2 DEF EvidenceWith
<1>5. IsEvidence(plain)
  BY <1>3, <1>4 DEF IsEvidence
<1>6. PricedBy(plain, fresh)
  BY <1>5, CalculatedIsPriced
<1>7. PricedBy(migrated, fresh)
  BY <1>4, <1>6 DEF PricedBy
<1>8. PP!migrateItemSkus(e, kept) = IF open \/ stale THEN fresh ELSE kept
  BY DEF PP!migrateItemSkus
<1>9. ASSUME ~open, ~stale PROVE PricedBy(migrated, kept)
  <2> DEFINE first == ReadAs(e, inclusions)
  <2>1. IsEvidence(first)
    BY EvidenceReadAs, EvidenceRead
  <2>2. PricedBy(first, kept)
    BY <2>1, CalculatedIsPriced
  <2>3. \A i \in DOMAIN e.promotions : e.promotions[i].audience = "PUBLIC" => inclusions[i] = read[i]
    <3> SUFFICES ASSUME NEW i \in DOMAIN e.promotions, e.promotions[i].audience = "PUBLIC",
                        e.promotions[i].inclusion = "FALSE"
                 PROVE  FALSE
      OBVIOUS
    <3>1. read[i] = "UNKNOWN"
      <4>1. e.promotions[i] \in [kind : STRING, audience : STRING,
                inclusion : Inclusions \cup {"TRUE", "FALSE"},
                group : STRING, threshold : MaybeFen, amount : MaybeFen]
        <5>1. e.promotions \in Seq([kind : STRING, audience : STRING,
                  inclusion : Inclusions \cup {"TRUE", "FALSE"},
                  group : STRING, threshold : MaybeFen, amount : MaybeFen])
          BY DEF EvidenceWith
        <5>2. i \in 1..Len(e.promotions)
          BY <5>1, LenProperties
        <5> QED
          BY <5>1, <5>2, ElementOfSeq
      <4> QED
        BY <4>1 DEF PP!normalizePromotion
    <3>2. /\ i \in DOMAIN migrated.promotions /\ migrated.promotions[i].audience = "PUBLIC"
          /\ migrated.promotions[i].inclusion = "UNKNOWN"
      <4> HIDE DEF read, migrated
      <4> QED
        BY <1>1, <3>1, ReadShows
    <3> QED
      BY <3>2, <1>9
  <2>4. Parts(first).review <=> Parts(migrated).review
    <3> HIDE DEF read, migrated
    <3> QED
      BY <1>1, <2>3, SameReview
  <2>5. /\ Parts(first).coupon = Parts(migrated).coupon /\ Parts(first).full = Parts(migrated).full
        /\ Parts(first).direct = Parts(migrated).direct
    <3>1. /\ kept.coupon = fresh.coupon /\ kept.full = fresh.full /\ kept.direct = fresh.direct
      BY <1>9
    <3> HIDE DEF fresh, migrated, first
    <3> QED
      BY <3>1, <1>7, <2>2 DEF PricedBy
  <2>6. first.activity = migrated.activity /\ first.fee = migrated.fee
    <3> HIDE DEF read, migrated
    <3> QED
      BY <1>1, ReadShows
  <2>7. first.activity - PP!PublicDiscount(Parts(first)) + first.fee
          = migrated.activity - PP!PublicDiscount(Parts(migrated)) + migrated.fee
    <3> HIDE DEF Parts, first, migrated
    <3> QED
      BY <2>5, <2>6 DEF PP!PublicDiscount
  <2> HIDE DEF first, migrated
  <2> QED
    BY <2>2, <2>4, <2>5, <2>7 DEF PricedBy
<1> QED
  BY <1>3, <1>7, <1>8, <1>9

(* Every price the collector reports follows from its evidence.            *)
LEMMA CapturedIsPriced ==
    ASSUME NEW captured \in Reports, NEW sku \in captured.skus
    PROVE  IsEvidence(CapturedEvidence(sku)) /\ PricedBy(CapturedEvidence(sku), Captured(sku))
<1>1. CASE sku.kept = {}
  <2>1. sku.evidence \in EvidenceWith(Inclusions \cup {})
    BY <1>1, PricesAssumption
  <2>2. IsEvidence(sku.evidence)
    BY <2>1, EvidenceRead
  <2>3. CapturedEvidence(sku) = sku.evidence /\ Captured(sku) = PP!calculatePublicPrice(sku.evidence)
    BY <1>1 DEF CapturedEvidence, Captured
  <2> QED
    BY <2>2, <2>3, CalculatedIsPriced
<1>2. CASE sku.kept # {}
  <2> DEFINE e == sku.evidence
             kept == CHOOSE k \in sku.kept : TRUE
  <2>1. kept \in sku.kept
    BY <1>2
  <2>2. e \in EvidenceWith(Inclusions \cup {"TRUE", "FALSE"})
    BY <1>2, PricesAssumption
  <2>3. PICK inclusions \in [DOMAIN e.promotions -> Inclusions] :
          /\ \A i \in DOMAIN e.promotions : e.promotions[i].inclusion # "FALSE" =>
                 inclusions[i] = PP!normalizePromotion(e.promotions[i]).inclusion
          /\ kept = PP!calculatePublicPrice(ReadAs(e, inclusions))
    BY <2>1, PricesAssumption
  <2>4. CapturedEvidence(sku) = PP!migrateLegacyCheckpointReport(e)
        /\ Captured(sku) = PP!migrateItemSkus(e, kept)
    BY <1>2 DEF CapturedEvidence, Captured
  <2> HIDE DEF e, kept
  <2> QED
    BY <2>2, <2>3, <2>4, KeptIsPriced
<1> QED
  BY <1>1, <1>2

(* What the collector captured and calculated stays what it is.            *)
Calculated == report \in Reports /\ price = [sku \in report.skus |-> Captured(sku)]

LEMMA PricesStay == Spec => []Calculated
<1>1. Init => Calculated
  BY DEF Init, Calculated
<1>2. Calculated /\ [Next]_vars => Calculated'
  <2> SUFFICES ASSUME Calculated, [Next]_vars PROVE report' = report /\ price' = price
    BY DEF Calculated
  <2> QED
    BY DEF Next, vars, history, Ingest, Evaluate, OpenPage, ClosePage, EditModel,
           FindCandidate, ClassifyCandidate
<1> QED
  BY <1>1, <1>2, PTL DEF Spec

(* So each of them is the least to be paid when it is confirmed.           *)
LEMMA CalculatedIsPayable ==
    ASSUME Calculated
    PROVE  ConfirmedPricesArePayable
<1> SUFFICES ASSUME NEW sku \in report.skus
             PROVE  LET e     == CapturedEvidence(sku)
                        sure  == \A i \in DOMAIN e.promotions : ~Doubtful(e.promotions[i], e.activity)
                        least == e.activity + e.fee - BestDiscount(e)
                    IN  /\ PP!SchemaAccepts(e, price[sku])
                        /\ price[sku].confidence = "CONFIRMED" <=> (sure /\ least >= 0)
                        /\ price[sku].confidence = "CONFIRMED" => price[sku].payable = least
  BY DEF ConfirmedPricesArePayable, SchemaAccepts
<1>1. price[sku] = Captured(sku)
  BY DEF Calculated
<1>2. IsEvidence(CapturedEvidence(sku)) /\ PricedBy(CapturedEvidence(sku), Captured(sku))
  BY CapturedIsPriced DEF Calculated
<1> QED
  BY <1>1, <1>2, PricedIsPayable DEF Sure

-----------------------------------------------------------------------------
(* Lists, page by page.                                                    *)

(* The members of the sets f[x] ...                                        *)
Gathered(f, S) == UNION {f[x] : x \in S}

(* ... which, when they share none, are counted set by set.                *)
LEMMA DisjointCount ==
    ASSUME NEW S, IsFiniteSet(S), NEW f, \A x \in S : IsFiniteSet(f[x]),
           \A x, y \in S : x # y => f[x] \cap f[y] = {},
           NEW n, \A x \in S : n[x] = Cardinality(f[x])
    PROVE  IsFiniteSet(Gathered(f, S)) /\ Total(n, S) = Cardinality(Gathered(f, S))
<1> DEFINE Of(U) == UNION {f[x] : x \in U}
           B == {U \in SUBSET S : ~(IsFiniteSet(Of(U)) /\ Total(n, U) = Cardinality(Of(U)))}
<1>1. B = {}
  <2> SUFFICES ASSUME B # {} PROVE FALSE
    OBVIOUS
  <2>1. \A U \in B : IsFiniteSet(U)
    BY FS_Subset
  <2>2. PICK U \in B : \A z \in U : U \ {z} \notin B
    BY <2>1, SmallestSet
  <2>3. U # {}
    <3> SUFFICES ASSUME U = {} PROVE FALSE
      OBVIOUS
    <3>1. Of({}) = {} /\ Total(n, {}) = 0 /\ IsFiniteSet({}) /\ Cardinality({}) = 0
      BY TotalEmpty, FS_EmptySet
    <3>2. {} \notin B
      BY <3>1
    <3> QED
      BY <2>2, <3>2
  <2>4. PICK y : y \in U
    BY <2>3
  <2> DEFINE V == U \ {y}
  <2>5. IsFiniteSet(Of(V)) /\ Total(n, V) = Cardinality(Of(V))
    BY <2>2, <2>4
  <2>6. \A x \in U : n[x] \in Nat
    BY FS_CardinalityType
  <2>7. Total(n, U) = n[y] + Total(n, V)
    BY <2>1, <2>4, <2>6, TotalWithout
  <2>8. Of(U) = f[y] \cup Of(V)
    BY <2>4
  <2>9. f[y] \cap Of(V) = {}
    BY <2>4
  <2>10. IsFiniteSet(f[y]) /\ n[y] = Cardinality(f[y])
    BY <2>4
  <2> HIDE DEF Of, V
  <2>11. /\ IsFiniteSet(Of(U))
         /\ Cardinality(Of(U)) = Cardinality(f[y]) + Cardinality(Of(V)) - Cardinality({})
    <3>1. PICK a, b : a = f[y] /\ b = Of(V)
      OBVIOUS
    <3>2. /\ IsFiniteSet(a \cup b)
          /\ Cardinality(a \cup b) = Cardinality(a) + Cardinality(b) - Cardinality(a \cap b)
      BY <2>5, <2>10, <3>1, FS_Union
    <3>3. Of(U) = a \cup b /\ a \cap b = {}
      BY <2>8, <2>9, <3>1
    <3> QED
      BY <3>1, <3>2, <3>3
  <2>12. Cardinality({}) = 0 /\ Cardinality(f[y]) \in Nat /\ Cardinality(Of(V)) \in Nat
    BY <2>5, <2>10, FS_EmptySet, FS_CardinalityType
  <2>13. Total(n, U) = Cardinality(Of(U))
    BY <2>5, <2>7, <2>10, <2>11, <2>12
  <2> QED
    BY <2>2, <2>11, <2>13
<1>2. S \in SUBSET S /\ S \notin B
  BY <1>1
<1> QED
  BY <1>2 DEF Gathered

(* The members of K before a.                                              *)
Preceding(K, R, a) == {o \in K : <<o, a>> \in R}

(* A set whose members are ordered, each at the place that is the number   *)
(* of members before it, has one member at every place.                    *)
LEMMA PlacesFilled ==
    ASSUME NEW K, IsFiniteSet(K), NEW R,
           \A a \in K : <<a, a>> \notin R,
           \A a, b \in K : a # b => <<a, b>> \in R \/ <<b, a>> \in R,
           \A a, b, c \in K : <<a, b>> \in R /\ <<b, c>> \in R => <<a, c>> \in R,
           NEW at, \A a \in K : at[a] = Cardinality(Preceding(K, R, a))
    PROVE  /\ \A a \in K : at[a] \in 0..(Cardinality(K) - 1)
           /\ \A i \in 0..(Cardinality(K) - 1) : \E a \in K : at[a] = i
           /\ \A a, b \in K : at[a] = at[b] => a = b
<1> DEFINE Earlier(a) == {o \in K : <<o, a>> \in R}
           n == Cardinality(K)
           f == [a \in K |-> at[a]]
<1>1. n \in Nat
  BY FS_CardinalityType
<1>2. ASSUME NEW a \in K
      PROVE  /\ IsFiniteSet(Earlier(a)) /\ at[a] \in 0..(n - 1) /\ at[a] \in Int
             /\ at[a] = Cardinality(Earlier(a))
  <2>1. Earlier(a) \subseteq K \ {a}
    OBVIOUS
  <2>2. IsFiniteSet(K \ {a}) /\ Cardinality(K \ {a}) = n - 1
    BY FS_RemoveElement
  <2>3. IsFiniteSet(Earlier(a)) /\ Cardinality(Earlier(a)) <= n - 1
    <3> HIDE DEF Earlier, n
    <3> QED
      BY <2>1, <2>2, FS_Subset
  <2>4. Cardinality(Earlier(a)) \in Nat
    BY <2>3, FS_CardinalityType
  <2>5. at[a] = Cardinality(Earlier(a))
    BY DEF Preceding
  <2> HIDE DEF Earlier, n
  <2> QED
    BY <1>1, <2>3, <2>4, <2>5
<1>3. ASSUME NEW a \in K, NEW b \in K, <<a, b>> \in R
      PROVE  at[a] < at[b]
  <2>1. Earlier(a) \subseteq Earlier(b) \ {a} /\ a \in Earlier(b)
    BY <1>3
  <2>2. IsFiniteSet(Earlier(b)) /\ at[b] = Cardinality(Earlier(b)) /\ at[b] \in Int
        /\ at[a] = Cardinality(Earlier(a)) /\ at[a] \in Int
    BY <1>2
  <2> HIDE DEF Earlier
  <2>3. IsFiniteSet(Earlier(b) \ {a}) /\ Cardinality(Earlier(b) \ {a}) = Cardinality(Earlier(b)) - 1
    BY <2>1, <2>2, FS_RemoveElement
  <2>4. Cardinality(Earlier(a)) <= Cardinality(Earlier(b) \ {a})
    BY <2>1, <2>3, FS_Subset
  <2> QED
    BY <2>2, <2>3, <2>4
<1>4. \A a, b \in K : at[a] = at[b] => a = b
  <2> SUFFICES ASSUME NEW a \in K, NEW b \in K, at[a] = at[b], a # b PROVE FALSE
    OBVIOUS
  <2>1. at[a] \in Int /\ at[b] \in Int
    <3>1. at[a] \in 0..(n - 1) /\ at[b] \in 0..(n - 1)
      BY <1>2
    <3> HIDE DEF n
    <3> QED
      BY <1>1, <3>1
  <2>2. at[a] < at[b] \/ at[b] < at[a]
    BY <1>3
  <2> QED
    BY <2>1, <2>2
<1>5. f \in Injection(K, 0..(n - 1))
  BY <1>2, <1>4 DEF Injection, IsInjective
<1>6. IsFiniteSet(0..(n - 1)) /\ Cardinality(0..(n - 1)) = n
  <2>1. PICK m : m = n - 1
    OBVIOUS
  <2> HIDE DEF n
  <2>2. m \in Int /\ n = m + 1 /\ m >= -1
    BY <1>1, <2>1
  <2>3. IsFiniteSet(0..m) /\ Cardinality(0..m) = IF 0 > m THEN 0 ELSE m - 0 + 1
    BY <2>2, FS_Interval
  <2>4. Cardinality(0..m) = n
    BY <2>2, <2>3
  <2> QED
    BY <2>1, <2>3, <2>4
<1>7. f \in Surjection(K, 0..(n - 1))
  BY <1>5, <1>6, FS_Injection
<1>8. \A i \in 0..(n - 1) : \E a \in K : f[a] = i
  BY <1>7 DEF Surjection
<1> QED
  BY <1>2, <1>4, <1>8

(* The pages of n places: each place is on one page, and none is empty.    *)
FitPages(n, s, K) ==
    /\ K \in 0..n
    /\ \A i \in 0..(n - 1) : \E p \in 1..K : i - (p - 1) * s \in 0..(s - 1)
    /\ \A i \in 0..(n - 1) : \A p, q \in 1..K :
           i - (p - 1) * s \in 0..(s - 1) /\ i - (q - 1) * s \in 0..(s - 1) => p = q
    /\ \A p \in 1..K : (p - 1) * s \in 0..(n - 1)

LEMMA PagesFit ==
    ASSUME NEW n \in Nat, NEW s \in {2, 50}
    PROVE  FitPages(n, s, (n + s - 1) \div s)
<1> DEFINE K == (n + s - 1) \div s
<1>1. CASE s = 2
  <2>1. K \in 0..n /\ 2 * K <= n + 1 /\ n <= 2 * K
    BY <1>1
  <2> HIDE DEF K
  <2>2. ASSUME NEW i \in 0..(n - 1)
        PROVE  \E p \in 1..K : i - (p - 1) * 2 \in 0..1
    <3> DEFINE p == i \div 2 + 1
    <3>1. p \in Int /\ 2 * (p - 1) <= i /\ i <= 2 * (p - 1) + 1
      OBVIOUS
    <3> HIDE DEF p
    <3>2. p \in 1..K /\ i - (p - 1) * 2 \in 0..1
      BY <2>1, <3>1
    <3> QED
      BY <3>2
  <2>3. \A i \in 0..(n - 1) : \A p, q \in 1..K :
           i - (p - 1) * 2 \in 0..1 /\ i - (q - 1) * 2 \in 0..1 => p = q
    BY <2>1
  <2>4. \A p \in 1..K : (p - 1) * 2 \in 0..(n - 1)
    BY <2>1
  <2>5. FitPages(n, 2, K)
    BY <2>1, <2>2, <2>3, <2>4 DEF FitPages
  <2> QED
    BY <1>1, <2>5 DEF K
<1>2. CASE s = 50
  <2>1. K \in 0..n /\ 50 * K <= n + 49 /\ n <= 50 * K
    BY <1>2
  <2> HIDE DEF K
  <2>2. ASSUME NEW i \in 0..(n - 1)
        PROVE  \E p \in 1..K : i - (p - 1) * 50 \in 0..49
    <3> DEFINE p == i \div 50 + 1
    <3>1. p \in Int /\ 50 * (p - 1) <= i /\ i <= 50 * (p - 1) + 49
      OBVIOUS
    <3> HIDE DEF p
    <3>2. p \in 1..K /\ i - (p - 1) * 50 \in 0..49
      BY <2>1, <3>1
    <3> QED
      BY <3>2
  <2>3. \A i \in 0..(n - 1) : \A p, q \in 1..K :
           i - (p - 1) * 50 \in 0..49 /\ i - (q - 1) * 50 \in 0..49 => p = q
    BY <2>1
  <2>4. \A p \in 1..K : (p - 1) * 50 \in 0..(n - 1)
    BY <2>1
  <2>5. FitPages(n, 50, K)
    BY <2>1, <2>2, <2>3, <2>4 DEF FitPages
  <2> QED
    BY <1>2, <2>5 DEF K
<1> QED
  BY <1>1, <1>2

(* What of a list is on the page requested, and the list asked for page by *)
(* page.                                                                   *)
OfPage(all, at, request) == {x \in all : OnPage(at[x], request)}

(* The pages of a list, one for each number of a page.                     *)
Pages(all, at, size) ==
    LET Meta(p) == pageMeta(normalizePageRequest(p, size), Cardinality(all))
    IN  [p \in 1..Meta(1).pages |-> OfPage(all, at, normalizePageRequest(p, size))]

LEMMA MaxPageIsNumber == MaxPage \in Nat /\ 1 <= MaxPage
BY DEF MaxPage

(* Whoever asks for page p of size size gets that page.                    *)
LEMMA RequestedPage ==
    ASSUME NEW size \in {0, 2}, NEW p \in 1..MaxPage
    PROVE  normalizePageRequest(p, size) = [page |-> p, size |-> IF size = 0 THEN 50 ELSE 2]
<1>0. MaxPage \in Nat /\ p \in Int /\ 1 <= p /\ p <= MaxPage
  BY MaxPageIsNumber
<1>1. boundedPositiveInteger(p, 1, MaxPage) = p
  <2>1. Min({p, MaxPage}) = p
    <3>1. p \in {p, MaxPage} /\ \A x \in {p, MaxPage} : p <= x
      BY <1>0
    <3>2. PICK m : m = Min({p, MaxPage})
      OBVIOUS
    <3>3. m \in {p, MaxPage} /\ \A x \in {p, MaxPage} : m <= x
      BY <3>1, <3>2 DEF Min
    <3>4. p <= m /\ m <= p /\ m \in Int /\ p \in Int
      BY <1>0, <3>1, <3>3
    <3> QED
      BY <3>2, <3>4
  <2>2. ~(p < 1)
    BY <1>0
  <2> QED
    BY <2>1, <2>2 DEF boundedPositiveInteger
<1>2. boundedPositiveInteger(size, DetailPageSize, MaxPageSize) = IF size = 0 THEN 50 ELSE 2
  <2>1. Min({2, MaxPageSize}) = 2
    <3>1. \E m \in {2, 100} : \A x \in {2, 100} : m <= x
      OBVIOUS
    <3>2. PICK m : m = Min({2, 100})
      OBVIOUS
    <3>3. m \in {2, 100} /\ \A x \in {2, 100} : m <= x
      BY <3>1, <3>2 DEF Min
    <3> QED
      BY <3>2, <3>3 DEF MaxPageSize
  <2> QED
    BY <2>1 DEF boundedPositiveInteger, DetailPageSize
<1> QED
  BY <1>1, <1>2 DEF normalizePageRequest

(* A sum of numbers of members, as the paging sums them.                   *)
LEMMA CountsSummed ==
    ASSUME NEW f, NEW S, IsFiniteSet(S)
    PROVE  MapThenSumSet(LAMBDA p : Cardinality(f[p]), S) = Total([p \in S |-> Cardinality(f[p])], S)
<1> DEFINE n == [p \in S |-> Cardinality(f[p])]
           IsSum(g) == g = [s \in SUBSET S |->
               IF s = {} THEN 0 ELSE Cardinality(f[AnyOf(s)]) + g[s \ {AnyOf(s)}]]
<1>1. \A s \in SUBSET S : s # {} => n[AnyOf(s)] = Cardinality(f[AnyOf(s)])
  BY DEF AnyOf
<1>2. \E g : IsSum(g)
  <2>1. PICK g : IsTotal(g, n, S)
    BY TotalExists
  <2> HIDE DEF n
  <2>2. IsSum(g)
    BY <1>1, <2>1 DEF IsTotal
  <2> QED
    BY <2>2
<1>3. PICK g : g = CHOOSE h : IsSum(h)
  OBVIOUS
<1>4. IsSum(g)
  BY <1>2, <1>3
<1>5. IsTotal(g, n, S)
  <2> HIDE DEF n
  <2> QED
    BY <1>1, <1>4 DEF IsTotal
<1>6. MapThenSumSet(LAMBDA p : Cardinality(f[p]), S) = g[S]
  BY <1>3 DEF MapThenSumSet, MapThenFoldSet, AnyOf
<1>7. Total(n, S) = g[S]
  <2> HIDE DEF n
  <2> QED
    BY <1>5, TotalIs
<1> QED
  BY <1>6, <1>7

(* A list whose members have one place each is shown, page by page,        *)
(* completely and nothing twice.                                           *)
LEMMA PagesShowAll ==
    ASSUME NEW size \in {0, 2}, NEW all, IsFiniteSet(all), Cardinality(all) <= MaxPage, NEW at,
           \A x \in all : at[x] \in 0..(Cardinality(all) - 1),
           \A i \in 0..(Cardinality(all) - 1) : \E x \in all : at[x] = i
    PROVE  LET On == Pages(all, at, size)
               Meta(p) == pageMeta(normalizePageRequest(p, size), Cardinality(all))
           IN  /\ DOMAIN On = 1..Meta(1).pages
               /\ UNION {On[p] : p \in DOMAIN On} = all
               /\ MapThenSumSet(LAMBDA p : Cardinality(On[p]), DOMAIN On) = Cardinality(all)
               /\ \A p \in DOMAIN On : On[p] # {} /\ (Meta(p).next <=> p + 1 \in DOMAIN On)
<1> DEFINE n == Cardinality(all)
           s == IF size = 0 THEN 50 ELSE 2
           K == (n + s - 1) \div s
           On == Pages(all, at, size)
           Meta(p) == pageMeta(normalizePageRequest(p, size), n)
           c == [p \in 1..K |-> Cardinality(On[p])]
<1>1. n \in Nat /\ s \in {2, 50}
  BY FS_CardinalityType
<1>2. /\ K \in 0..n
      /\ \A i \in 0..(n - 1) : \E p \in 1..K : i - (p - 1) * s \in 0..(s - 1)
      /\ \A i \in 0..(n - 1) : \A p, q \in 1..K :
             i - (p - 1) * s \in 0..(s - 1) /\ i - (q - 1) * s \in 0..(s - 1) => p = q
      /\ \A p \in 1..K : (p - 1) * s \in 0..(n - 1)
  <2> HIDE DEF n, s
  <2>1. FitPages(n, s, K)
    BY <1>1, PagesFit
  <2> HIDE DEF K
  <2> QED
    BY <2>1 DEF FitPages
<1>3. \A p \in 1..K : p \in 1..MaxPage
  <2>1. n <= MaxPage /\ MaxPage \in Int
    BY DEF MaxPage
  <2> HIDE DEF n, K
  <2> QED
    BY <1>1, <1>2, <2>1
<1>4. \A p \in 1..MaxPage : normalizePageRequest(p, size) = [page |-> p, size |-> s]
  BY RequestedPage
<1>5. 1 \in 1..MaxPage
  BY MaxPageIsNumber
<1>6. \A p \in 1..MaxPage : Meta(p).pages = K /\ (Meta(p).next <=> p < K)
  <2> TAKE p \in 1..MaxPage
  <2>1. PICK request : request = normalizePageRequest(p, size)
    OBVIOUS
  <2>2. request.page = p /\ request.size = s
    BY <1>4, <2>1
  <2>3. pageMeta(request, n) = [pages |-> (n + request.size - 1) \div request.size,
                               next |-> request.page < (n + request.size - 1) \div request.size,
                               previous |-> request.page > 1
                                   /\ (n + request.size - 1) \div request.size > 0]
    BY DEF pageMeta
  <2>4. /\ pageMeta(request, n).pages = (n + request.size - 1) \div request.size
        /\ pageMeta(request, n).next = (request.page < (n + request.size - 1) \div request.size)
    <3>1. PICK k, b, l : k = (n + request.size - 1) \div request.size /\ b = (request.page < k)
                         /\ l = (request.page > 1 /\ k > 0)
      OBVIOUS
    <3>2. pageMeta(request, n) = [pages |-> k, next |-> b, previous |-> l]
      BY <2>3, <3>1
    <3>3. pageMeta(request, n).pages = k /\ pageMeta(request, n).next = b
      BY <3>2
    <3> QED
      BY <3>1, <3>3
  <2> HIDE DEF n, s
  <2> QED
    BY <2>1, <2>2, <2>4
<1>7. DOMAIN On = 1..K /\ Meta(1).pages = K
  BY <1>5, <1>6 DEF Pages
<1>8. \A p \in 1..K : On[p] = {x \in all : at[x] - (p - 1) * s \in 0..(s - 1)}
  <2> TAKE p \in 1..K
  <2>1. normalizePageRequest(p, size) = [page |-> p, size |-> s]
    BY <1>3, <1>4
  <2>2. On[p] = {x \in all : OnPage(at[x], normalizePageRequest(p, size))}
    BY <1>7 DEF Pages, OfPage
  <2> HIDE DEF On, s
  <2> QED
    BY <2>1, <2>2 DEF OnPage, pageOffset
<1> HIDE DEF K, On, s, Meta, n
<1>9. \A x \in all : \E p \in 1..K : x \in On[p]
  <2> TAKE x \in all
  <2>1. at[x] \in 0..(n - 1)
    BY DEF n
  <2>2. PICK p \in 1..K : at[x] - (p - 1) * s \in 0..(s - 1)
    BY <1>2, <2>1
  <2> QED
    BY <1>8, <2>2
<1>10. UNION {On[p] : p \in 1..K} = all
  BY <1>8, <1>9
<1>11. \A p, q \in 1..K : p # q => On[p] \cap On[q] = {}
  <2> SUFFICES ASSUME NEW p \in 1..K, NEW q \in 1..K, NEW x \in On[p], x \in On[q]
               PROVE  p = q
    OBVIOUS
  <2>1. x \in all /\ at[x] - (p - 1) * s \in 0..(s - 1) /\ at[x] - (q - 1) * s \in 0..(s - 1)
    BY <1>8
  <2>2. at[x] \in 0..(n - 1)
    BY <2>1 DEF n
  <2> QED
    BY <1>2, <2>1, <2>2
<1>12. \A p \in 1..K : IsFiniteSet(On[p])
  BY <1>8, FS_Subset
<1>13. IsFiniteSet(1..K)
  BY <1>1, <1>2, FS_Interval
<1>14. Total(c, 1..K) = n
  <2> HIDE DEF c
  <2>1. \A p \in 1..K : c[p] = Cardinality(On[p])
    BY DEF c
  <2>2. Total(c, 1..K) = Cardinality(Gathered(On, 1..K))
    BY <1>11, <1>12, <1>13, <2>1, DisjointCount
  <2> QED
    BY <1>10, <2>2 DEF n, Gathered
<1>15. MapThenSumSet(LAMBDA p : Cardinality(On[p]), 1..K) = Total(c, 1..K)
  BY <1>13, CountsSummed DEF c
<1>16. \A p \in 1..K : On[p] # {} /\ (Meta(p).next <=> p + 1 \in 1..K)
  <2> TAKE p \in 1..K
  <2>1. (p - 1) * s \in 0..(n - 1)
    BY <1>2
  <2>2. PICK x \in all : at[x] = (p - 1) * s
    BY <2>1 DEF n
  <2>3. (p - 1) * s - (p - 1) * s \in 0..(s - 1)
    <3>1. PICK k : k = (p - 1) * s
      OBVIOUS
    <3>2. k - k = 0 /\ 0 \in 0..(s - 1)
      BY <1>1, <2>1, <3>1
    <3> QED
      BY <3>1, <3>2
  <2>4. x \in On[p]
    BY <1>8, <2>2, <2>3
  <2>5. Meta(p).next <=> p < K
    BY <1>3, <1>6
  <2>6. K \in Int
    BY <1>1, <1>2
  <2> QED
    BY <2>4, <2>5, <2>6
<1> QED
  BY <1>7, <1>10, <1>14, <1>15, <1>16 DEF Meta, n, On

(* A list has finitely many pages, each with finitely many members.        *)
LEMMA PagesFinitelyMany ==
    ASSUME NEW size \in {0, 2}, NEW all, IsFiniteSet(all), Cardinality(all) <= MaxPage
    PROVE  LET Meta(p) == pageMeta(normalizePageRequest(p, size), Cardinality(all))
           IN  IsFiniteSet(1..Meta(1).pages)
<1> DEFINE n == Cardinality(all)
           s == IF size = 0 THEN 50 ELSE 2
           K == (n + s - 1) \div s
<1>1. n \in Nat /\ s \in {2, 50}
  BY FS_CardinalityType
<1>2. K \in Int
  <2> HIDE DEF n
  <2> QED
    BY <1>1
<1>3. normalizePageRequest(1, size) = [page |-> 1, size |-> s]
  BY MaxPageIsNumber, RequestedPage
<1>4. pageMeta(normalizePageRequest(1, size), n).pages = K
  <2> HIDE DEF n, s
  <2> QED
    BY <1>3 DEF pageMeta
<1> HIDE DEF K
<1> QED
  BY <1>2, <1>4, FS_Interval

(* The order of the SKU list, column by column.                            *)
Earlier(a, b) ==
    \/ a[1] < b[1]
    \/ a[1] = b[1] /\ a[2] < b[2]
    \/ a[1] = b[1] /\ a[2] = b[2] /\ a[3] < b[3]
    \/ a[1] = b[1] /\ a[2] = b[2] /\ a[3] = b[3] /\ a[4] < b[4]
    \/ a[1] = b[1] /\ a[2] = b[2] /\ a[3] = b[3] /\ a[4] = b[4] /\ a[5] < b[5]

(* Five numbers a row is sorted by.                                        *)
IsKey(key) == DOMAIN key = 1..5 /\ \A i \in 1..5 : key[i] \in Int

(* The order the list uses is this one ...                                 *)
LEMMA BeforeIsEarlier ==
    ASSUME NEW a, NEW b, IsKey(a), IsKey(b)
    PROVE  Before(a, b) <=> Earlier(a, b)
<1> DEFINE At(i) == a[i] < b[i] /\ \A j \in 1..(i - 1) : a[j] = b[j]
<1>1. Before(a, b) <=> \E i \in 1..5 : At(i)
  BY DEF Before, IsKey
<1>2. 1..5 = {1, 2, 3, 4, 5}
  OBVIOUS
<1>3. Before(a, b) <=> At(1) \/ At(2) \/ At(3) \/ At(4) \/ At(5)
  <2> HIDE DEF At
  <2> QED
    BY <1>1, <1>2
<1>4. /\ 1..(1 - 1) = {} /\ 1..(2 - 1) = {1} /\ 1..(3 - 1) = {1, 2} /\ 1..(4 - 1) = {1, 2, 3}
      /\ 1..(5 - 1) = {1, 2, 3, 4}
  OBVIOUS
<1>5. /\ At(1) <=> a[1] < b[1]
      /\ At(2) <=> a[1] = b[1] /\ a[2] < b[2]
      /\ At(3) <=> a[1] = b[1] /\ a[2] = b[2] /\ a[3] < b[3]
      /\ At(4) <=> a[1] = b[1] /\ a[2] = b[2] /\ a[3] = b[3] /\ a[4] < b[4]
      /\ At(5) <=> a[1] = b[1] /\ a[2] = b[2] /\ a[3] = b[3] /\ a[4] = b[4] /\ a[5] < b[5]
  BY <1>4
<1> HIDE DEF At
<1> QED
  BY <1>3, <1>5 DEF Earlier

(* ... and it orders keys that end in a number of their own.               *)
LEMMA KeysOrdered ==
    ASSUME NEW K, \A a \in K : IsKey(a), \A a, b \in K : a[5] = b[5] => a = b
    PROVE  /\ \A a \in K : ~Before(a, a)
           /\ \A a, b \in K : a # b => Before(a, b) \/ Before(b, a)
           /\ \A a, b, c \in K : Before(a, b) /\ Before(b, c) => Before(a, c)
<1>1. \A a \in K : a[1] \in Int /\ a[2] \in Int /\ a[3] \in Int /\ a[4] \in Int /\ a[5] \in Int
  BY DEF IsKey
<1>2. \A a, b \in K : Before(a, b) <=> Earlier(a, b)
  BY BeforeIsEarlier
<1>3. \A a \in K : ~Earlier(a, a)
  BY <1>1 DEF Earlier
<1>4. ASSUME NEW a \in K, NEW b \in K, a # b
      PROVE  Earlier(a, b) \/ Earlier(b, a)
  BY <1>1, <1>4 DEF Earlier
<1>5. ASSUME NEW a \in K, NEW b \in K, NEW c \in K, Earlier(a, b), Earlier(b, c)
      PROVE  Earlier(a, c)
  BY <1>1, <1>5 DEF Earlier
<1> QED
  BY <1>2, <1>3, <1>4, <1>5

(* What the lists need of what is stored.                                  *)
Listable(found, all) ==
    /\ Len(found) \in Nat /\ DOMAIN found = 1..Len(found) /\ Len(found) <= MaxPage
    /\ IsFiniteSet(all) /\ Cardinality(all) <= MaxPage
    /\ \A row \in all : row.id \in Nat /\ row.item \in Nat /\ row.sku \in Nat
    /\ \A row, other \in all : row.id = other.id => row = other

(* A row is sorted by a key that ends in its id.                           *)
LEMMA RowsHaveKeys ==
    ASSUME NEW found, NEW all, Listable(found, all), NEW row \in all
    PROVE  IsKey(SortKey(found, row)) /\ SortKey(found, row)[5] = row.id
<1> DEFINE ranks == Ranks(found, row.item)
           first == IF ranks = {} THEN Len(found) + 1 ELSE Min(ranks)
           ours == IF IsOwn(row) THEN 0 ELSE 1
<1>1. first \in Int
  <2>1. CASE ranks = {}
    BY <2>1 DEF Listable
  <2>2. CASE ranks # {}
    <3>1. ranks \in SUBSET Nat
      BY DEF Ranks, Listable
    <3> HIDE DEF ranks
    <3>2. PICK r \in ranks : \A k \in ranks : ~(k < r)
      BY <2>2, <3>1, LeastNat
    <3>3. \A k \in ranks : r <= k
      BY <3>1, <3>2
    <3>4. Min(ranks) \in ranks
      BY <3>3 DEF Min
    <3>5. Min(ranks) \in Int
      <4>1. PICK m : m = Min(ranks)
        OBVIOUS
      <4>2. m \in Nat
        BY <3>1, <3>4, <4>1
      <4> QED
        BY <4>1, <4>2
    <3> QED
      BY <2>2, <3>5
  <2> QED
    BY <2>1, <2>2
<1>2. SortKey(found, row) = <<first, ours, row.item, row.sku, row.id>>
  BY DEF SortKey
<1>3. row.id \in Int /\ row.item \in Int /\ row.sku \in Int /\ ours \in Int
  BY DEF Listable
<1> HIDE DEF first, ours
<1>4. PICK a, b, c, d, e : a = first /\ b = ours /\ c = row.item /\ d = row.sku /\ e = row.id
  OBVIOUS
<1>5. SortKey(found, row) = <<a, b, c, d, e>> /\ a \in Int /\ b \in Int /\ c \in Int /\ d \in Int /\ e \in Int
  BY <1>1, <1>2, <1>3, <1>4
<1>6. IsKey(<<a, b, c, d, e>>) /\ <<a, b, c, d, e>>[5] = e
  BY <1>5 DEF IsKey
<1> QED
  BY <1>4, <1>5, <1>6

(* The ids of rows, and the places their order gives them.                 *)
RowIds(all) == {row.id : row \in all}

IsPlacing(at, type, found, all) ==
    /\ \A id \in RowIds(all) : at[id] \in 0..(Cardinality(RowIds(all)) - 1)
    /\ \A i \in 0..(Cardinality(RowIds(all)) - 1) : \E id \in RowIds(all) : at[id] = i
    /\ \A request : listSnapshots(Filter("", "", "", ""), type, found, all, request)
          = OfPage(RowIds(all), at, request)

(* One page of the list holds the SKUs whose places are on it.             *)
LEMMA SkusPlaced ==
    ASSUME NEW found, NEW all, Listable(found, all), NEW type
    PROVE  /\ IsFiniteSet(RowIds(all)) /\ Cardinality(RowIds(all)) = Cardinality(all)
           /\ \E at : IsPlacing(at, type, found, all)
<1> DEFINE ids == {row.id : row \in all}
           key == [row \in all |-> SortKey(found, row)]
           keys == {SortKey(found, row) : row \in all}
           R == {pair \in keys \X keys : Before(pair[1], pair[2])}
           place == [k \in keys |-> Cardinality({other \in keys : Before(other, k)})]
           at == [id \in ids |-> place[CHOOSE k \in keys : k[5] = id]]
<1>1. \A row \in all : IsKey(key[row]) /\ key[row][5] = row.id /\ key[row] \in keys
  BY RowsHaveKeys
<1>2. \A k \in keys : \E row \in all : k = key[row]
  OBVIOUS
<1>3. \A row, other \in all : row.id = other.id => row = other
  BY DEF Listable
<1>4. \A k \in keys : IsKey(k) /\ k[5] \in ids
  <2> HIDE DEF key, keys
  <2> QED
    BY <1>1, <1>2
<1>5. \A a, b \in keys : a[5] = b[5] => a = b
  <2> HIDE DEF key, keys
  <2> QED
    BY <1>1, <1>2, <1>3
<1>6. \A id \in ids : \E k \in keys : k[5] = id
  <2> HIDE DEF key, keys
  <2> QED
    BY <1>1
<1>7. IsFiniteSet(keys) /\ Cardinality(keys) = Cardinality(all)
  <2>1. key \in Bijection(all, keys)
    <3>1. key \in [all -> keys]
      OBVIOUS
    <3> HIDE DEF key, keys
    <3>2. key \in Injection(all, keys)
      BY <1>1, <1>3, <3>1 DEF Injection, IsInjective
    <3>3. key \in Surjection(all, keys)
      BY <1>2, <3>1 DEF Surjection
    <3> QED
      BY <3>2, <3>3 DEF Bijection
  <2> HIDE DEF key, keys
  <2> QED
    BY <2>1, FS_Bijection DEF ExistsBijection, Listable
<1>8. IsFiniteSet(ids) /\ Cardinality(ids) = Cardinality(all)
  <2> DEFINE number == [row \in all |-> row.id]
  <2>1. number \in Bijection(all, ids)
    <3>1. number \in [all -> ids] /\ \A id \in ids : \E row \in all : number[row] = id
      OBVIOUS
    <3>2. \A row \in all : number[row] = row.id
      OBVIOUS
    <3> HIDE DEF number, ids
    <3> QED
      BY <1>3, <3>1, <3>2 DEF Bijection, Injection, Surjection, IsInjective
  <2> HIDE DEF number, ids
  <2> QED
    BY <2>1, FS_Bijection DEF ExistsBijection, Listable
<1>9. \A request : listSnapshots(Filter("", "", "", ""), type, found, all, request)
                      = {k[5] : k \in {k \in keys : OnPage(place[k], request)}}
  <2> TAKE request
  <2>1. {r \in all : snapshotFilter(Filter("", "", "", ""), type, all, r)} = all
    BY DEF snapshotFilter, Filter
  <2> DEFINE Place(k) == Cardinality({other \in keys : Before(other, k)})
  <2>2. listSnapshots(Filter("", "", "", ""), type, found, all, request)
          = {k[5] : k \in {k \in keys : OnPage(Place(k), request)}}
    BY <2>1 DEF listSnapshots
  <2>3. \A k \in keys : place[k] = Place(k)
    OBVIOUS
  <2> HIDE DEF place, keys, Place
  <2>4. {k \in keys : OnPage(Place(k), request)} = {k \in keys : OnPage(place[k], request)}
    BY <2>3
  <2> QED
    BY <2>2, <2>4
<1> HIDE DEF keys, key
<1>10. /\ \A a \in keys : ~Before(a, a)
       /\ \A a, b \in keys : a # b => Before(a, b) \/ Before(b, a)
       /\ \A a, b, c \in keys : Before(a, b) /\ Before(b, c) => Before(a, c)
  BY <1>4, <1>5, KeysOrdered
<1>11. \A a, b \in keys : <<a, b>> \in R <=> Before(a, b)
  OBVIOUS
<1>12. \A k \in keys : place[k] = Cardinality(Preceding(keys, R, k))
  <2> TAKE k \in keys
  <2>1. Preceding(keys, R, k) = {other \in keys : Before(other, k)}
    BY <1>11 DEF Preceding
  <2> QED
    BY <2>1
<1> HIDE DEF R, place
<1>13. /\ \A k \in keys : place[k] \in 0..(Cardinality(keys) - 1)
       /\ \A i \in 0..(Cardinality(keys) - 1) : \E k \in keys : place[k] = i
  <2>1. /\ \A a \in keys : <<a, a>> \notin R
        /\ \A a, b \in keys : a # b => <<a, b>> \in R \/ <<b, a>> \in R
        /\ \A a, b, c \in keys : <<a, b>> \in R /\ <<b, c>> \in R => <<a, c>> \in R
    BY <1>10, <1>11
  <2> QED
    BY <1>7, <1>12, <2>1, PlacesFilled
<1>14. \A k \in keys : at[k[5]] = place[k] /\ k[5] \in ids
  <2> TAKE k \in keys
  <2>1. (CHOOSE j \in keys : j[5] = k[5]) = k
    BY <1>5
  <2>2. k[5] \in ids
    BY <1>4
  <2> HIDE DEF ids
  <2> QED
    BY <2>1, <2>2
<1> HIDE DEF at, ids
<1>15. \A id \in ids : at[id] \in 0..(Cardinality(ids) - 1)
  BY <1>6, <1>7, <1>8, <1>13, <1>14
<1>16. \A i \in 0..(Cardinality(ids) - 1) : \E id \in ids : at[id] = i
  BY <1>7, <1>8, <1>13, <1>14
<1>17. \A request : {k[5] : k \in {k \in keys : OnPage(place[k], request)}}
                       = {id \in ids : OnPage(at[id], request)}
  <2> TAKE request
  <2>1. \A k \in keys : OnPage(place[k], request) => k[5] \in ids /\ OnPage(at[k[5]], request)
    BY <1>14
  <2>2. \A id \in ids : OnPage(at[id], request) =>
           \E k \in keys : k[5] = id /\ OnPage(place[k], request)
    BY <1>6, <1>14
  <2> QED
    BY <2>1, <2>2
<1>18. \A request : listSnapshots(Filter("", "", "", ""), type, found, all, request)
                       = OfPage(ids, at, request)
  BY <1>9, <1>17 DEF OfPage
<1>19. ids = RowIds(all)
  BY DEF ids, RowIds
<1>20. IsPlacing(at, type, found, all)
  BY <1>15, <1>16, <1>18, <1>19, Zenon DEF IsPlacing
<1> QED
  BY <1>8, <1>19, <1>20

(* One request for each page of the SKU list ...                           *)
LEMMA SkuListPaged ==
    ASSUME Listable(positions, rows), NEW size \in {0, 2}
    PROVE  LET Skus(request) == listSnapshots(Filter("", "", "", ""), rule.comparisonType,
                                              positions, rows, request)
           IN  Paged(Skus, size, RowIds(rows))
<1>0. PICK at : IsPlacing(at, rule.comparisonType, positions, rows)
  BY SkusPlaced
<1> DEFINE ids == RowIds(rows)
           Skus(request) == listSnapshots(Filter("", "", "", ""), rule.comparisonType, positions, rows, request)
           Meta(p) == pageMeta(normalizePageRequest(p, size), Cardinality(ids))
           S == 1..Meta(1).pages
<1>1. IsFiniteSet(ids) /\ Cardinality(ids) <= MaxPage
  BY SkusPlaced DEF Listable
<1>2. /\ \A id \in ids : at[id] \in 0..(Cardinality(ids) - 1)
      /\ \A i \in 0..(Cardinality(ids) - 1) : \E id \in ids : at[id] = i
      /\ \A request : Skus(request) = OfPage(ids, at, request)
  BY <1>0, Zenon DEF ids, Skus, IsPlacing
<1> DEFINE On == Pages(ids, at, size)
<1> HIDE DEF ids
<1>3. /\ DOMAIN On = S
      /\ UNION {On[p] : p \in DOMAIN On} = ids
      /\ MapThenSumSet(LAMBDA p : Cardinality(On[p]), DOMAIN On) = Cardinality(ids)
      /\ \A p \in DOMAIN On : On[p] # {} /\ (Meta(p).next <=> p + 1 \in DOMAIN On)
  BY <1>1, <1>2, PagesShowAll
<1>4. \A p \in S : On[p] = Skus(normalizePageRequest(p, size))
  BY <1>2 DEF Pages
<1>5. MapThenSumSet(LAMBDA p : Cardinality(Skus(normalizePageRequest(p, size))), S)
        = MapThenSumSet(LAMBDA p : Cardinality(On[p]), S)
  <2>1. IsFiniteSet(S)
    BY <1>1, <1>3, PagesFinitelyMany
  <2> DEFINE n == [p \in S |-> Cardinality(On[p])]
             IsSum(g) == g = [s \in SUBSET S |-> IF s = {} THEN 0
                 ELSE Cardinality(Skus(normalizePageRequest(AnyOf(s), size))) + g[s \ {AnyOf(s)}]]
  <2>2. \A s \in SUBSET S : s # {} =>
           n[AnyOf(s)] = Cardinality(Skus(normalizePageRequest(AnyOf(s), size)))
    <3> HIDE DEF S, On, Skus
    <3> QED
      BY <1>4 DEF AnyOf
  <2> HIDE DEF S, On, Skus, n
  <2>3. \A g : IsSum(g) <=> IsTotal(g, n, S)
    BY <2>2 DEF IsTotal
  <2> HIDE DEF IsSum
  <2>4. \E g : IsSum(g)
    BY <2>1, <2>3, TotalExists
  <2>5. PICK g : g = CHOOSE h : IsSum(h)
    OBVIOUS
  <2>6. IsTotal(g, n, S)
    BY <2>3, <2>4, <2>5
  <2>7. MapThenSumSet(LAMBDA p : Cardinality(Skus(normalizePageRequest(p, size))), S) = g[S]
    BY <2>5 DEF MapThenSumSet, MapThenFoldSet, AnyOf, IsSum
  <2>8. Total(n, S) = g[S]
    BY <2>1, <2>6, TotalIs
  <2>9. MapThenSumSet(LAMBDA p : Cardinality(On[p]), S) = Total(n, S)
    BY <2>1, CountsSummed DEF n
  <2> QED
    BY <2>7, <2>8, <2>9
<1>6. UNION {Skus(normalizePageRequest(p, size)) : p \in S} = ids
  <2> HIDE DEF S, On, Skus
  <2> QED
    BY <1>3, <1>4
<1>7. \A p \in S : Skus(normalizePageRequest(p, size)) # {} /\ (Meta(p).next <=> p + 1 \in S)
  <2> HIDE DEF S, On, Skus, Meta
  <2> QED
    BY <1>3, <1>4
<1>8. MapThenSumSet(LAMBDA p : Cardinality(Skus(normalizePageRequest(p, size))), S) = Cardinality(ids)
  <2> HIDE DEF S, On
  <2> QED
    BY <1>3, <1>5
<1> HIDE DEF On, Skus
<1> QED
  BY <1>6, <1>7, <1>8 DEF Paged, ids, Skus

(* ... and one for each page of the search result show everything once.    *)
LEMMA FoundListPaged ==
    ASSUME NEW found, Len(found) \in Nat, DOMAIN found = 1..Len(found), Len(found) <= MaxPage,
           NEW size \in {0, 2}
    PROVE  LET Found(request) == listPositions(found, request)
           IN  Paged(Found, size, DOMAIN found)
<1> DEFINE all == DOMAIN found
           Found(request) == listPositions(found, request)
           Meta(p) == pageMeta(normalizePageRequest(p, size), Cardinality(all))
           S == 1..Meta(1).pages
           at == [rank \in all |-> rank - 1]
           On == Pages(all, at, size)
<1>1. /\ IsFiniteSet(all) /\ Cardinality(all) = Len(found)
  <2>1. IsFiniteSet(1..Len(found)) /\ Cardinality(1..Len(found)) = Len(found)
    <3>1. PICK n : n = Len(found)
      OBVIOUS
    <3>3. n \in Nat
      BY <3>1
    <3>2. IsFiniteSet(1..n) /\ Cardinality(1..n) = IF 1 > n THEN 0 ELSE n - 1 + 1
      BY <3>3, FS_Interval
    <3> QED
      BY <3>1, <3>2, <3>3
  <2> QED
    BY <2>1
<1>2. /\ \A rank \in all : at[rank] \in 0..(Cardinality(all) - 1)
      /\ \A i \in 0..(Cardinality(all) - 1) : \E rank \in all : at[rank] = i
  <2>1. PICK n : n = Len(found)
    OBVIOUS
  <2>2. /\ \A rank \in 1..n : rank - 1 \in 0..(n - 1)
        /\ \A i \in 0..(n - 1) : i + 1 \in 1..n /\ (i + 1) - 1 = i
    BY <2>1
  <2> QED
    BY <1>1, <2>1, <2>2
<1>3. \A request : Found(request) = OfPage(all, at, request)
  <2> TAKE request
  <2>1. \A rank \in all : at[rank] = rank - 1
    OBVIOUS
  <2> HIDE DEF at, all
  <2>2. {rank \in all : OnPage(at[rank], request)} = {rank \in all : OnPage(rank - 1, request)}
    BY <2>1
  <2> QED
    BY <2>2 DEF listPositions, OfPage, all
<1> HIDE DEF all, at
<1>4. /\ DOMAIN On = S
      /\ UNION {On[p] : p \in DOMAIN On} = all
      /\ MapThenSumSet(LAMBDA p : Cardinality(On[p]), DOMAIN On) = Cardinality(all)
      /\ \A p \in DOMAIN On : On[p] # {} /\ (Meta(p).next <=> p + 1 \in DOMAIN On)
  BY <1>1, <1>2, PagesShowAll
<1>5. \A p \in S : On[p] = Found(normalizePageRequest(p, size))
  BY <1>3 DEF Pages
<1>6. MapThenSumSet(LAMBDA p : Cardinality(Found(normalizePageRequest(p, size))), S)
        = MapThenSumSet(LAMBDA p : Cardinality(On[p]), S)
  <2>1. IsFiniteSet(S)
    BY <1>1, <1>4, PagesFinitelyMany
  <2> DEFINE n == [p \in S |-> Cardinality(On[p])]
             IsSum(g) == g = [s \in SUBSET S |-> IF s = {} THEN 0
                 ELSE Cardinality(Found(normalizePageRequest(AnyOf(s), size))) + g[s \ {AnyOf(s)}]]
  <2>2. \A s \in SUBSET S : s # {} =>
           n[AnyOf(s)] = Cardinality(Found(normalizePageRequest(AnyOf(s), size)))
    <3> HIDE DEF S, On, Found
    <3> QED
      BY <1>5 DEF AnyOf
  <2> HIDE DEF S, On, Found, n
  <2>3. \A g : IsSum(g) <=> IsTotal(g, n, S)
    BY <2>2 DEF IsTotal
  <2> HIDE DEF IsSum
  <2>4. \E g : IsSum(g)
    BY <2>1, <2>3, TotalExists
  <2>5. PICK g : g = CHOOSE h : IsSum(h)
    OBVIOUS
  <2>6. IsTotal(g, n, S)
    BY <2>3, <2>4, <2>5
  <2>7. MapThenSumSet(LAMBDA p : Cardinality(Found(normalizePageRequest(p, size))), S) = g[S]
    BY <2>5 DEF MapThenSumSet, MapThenFoldSet, AnyOf, IsSum
  <2>8. Total(n, S) = g[S]
    BY <2>1, <2>6, TotalIs
  <2>9. MapThenSumSet(LAMBDA p : Cardinality(On[p]), S) = Total(n, S)
    BY <2>1, CountsSummed DEF n
  <2> QED
    BY <2>7, <2>8, <2>9
<1>7. UNION {Found(normalizePageRequest(p, size)) : p \in S} = all
  <2> HIDE DEF S, On, Found
  <2> QED
    BY <1>4, <1>5
<1>8. \A p \in S : Found(normalizePageRequest(p, size)) # {} /\ (Meta(p).next <=> p + 1 \in S)
  <2> HIDE DEF S, On, Found, Meta
  <2> QED
    BY <1>4, <1>5
<1>9. MapThenSumSet(LAMBDA p : Cardinality(Found(normalizePageRequest(p, size))), S) = Cardinality(all)
  <2> HIDE DEF S, On
  <2> QED
    BY <1>4, <1>6
<1> HIDE DEF On, Found
<1> QED
  BY <1>7, <1>8, <1>9 DEF Paged, all, Found

(* So both lists show everything once.                                     *)
LEMMA ListsPaged == Listable(positions, rows) => ListsShowAllOnce
<1> SUFFICES ASSUME Listable(positions, rows) PROVE ListsShowAllOnce
  OBVIOUS
<1> DEFINE Skus(request)  == listSnapshots(Filter("", "", "", ""), rule.comparisonType,
                                           positions, rows, request)
           Found(request) == listPositions(positions, request)
<1>1. ASSUME NEW size \in {0, 2}
      PROVE  Paged(Skus, size, RowIds(rows))
  BY SkuListPaged
<1>2. ASSUME NEW size \in {0, 2}
      PROVE  Paged(Found, size, DOMAIN positions)
  BY FoundListPaged DEF Listable
<1> HIDE DEF Skus, Found
<1>3. \A size \in {0, 2} : Paged(Skus, size, RowIds(rows)) /\ Paged(Found, size, DOMAIN positions)
  BY <1>1, <1>2
<1> QED
  BY <1>3 DEF ListsShowAllOnce, RowIds, Skus, Found

-----------------------------------------------------------------------------
(* What a page shows of the rows it reads.                                 *)

(* No two rows have one number, and a confirmed price is one.              *)
IsStored(all) ==
    /\ \A row, other \in all : row.id = other.id => row = other
    /\ \A row \in all : row.confidence = "CONFIRMED" => row.payable \in Int

(* What an evaluation decided still makes sense: the row of ours a row was *)
(* compared with is there, and nothing of ours was missed where something  *)
(* is said to be missing.                                                  *)
Settled(all, complete) ==
    \A row \in all :
        /\ row.state \in {"", "MATCHED", "MISSING_OWN", "REVIEW", "OWN", "EXCLUDED"}
        /\ row.state = "MATCHED" => SelectedOwn(all, row) # {}
        /\ row.state = "MISSING_OWN" => complete
        /\ row.comparable => row.decision # "REJECTED"

(* A row and the row of ours it was compared with can be compared.         *)
HasPrices(facts, row) ==
    /\ ~IsOwn(row) /\ ShownState(facts, row) = "MATCHED" /\ confirmedInStockPrice(row)
    /\ \E own \in SelectedOwn(facts.rows, row) : confirmedInStockPrice(own)

(* What a line of the page shows of its row.                               *)
LEMMA ProjectedParts ==
    ASSUME NEW facts, NEW type, NEW row, NEW line, line = Projected(facts, type, row)
    PROVE  /\ line.row = row /\ line.ranks = Ranks(facts.positions, row.item)
           /\ line.match = matchCategory(type, row) /\ line.state = ShownState(facts, row)
           /\ line.selected = SelectedOwn(facts.rows, row)
           /\ line.comparison = "LOWER" <=>
                 /\ HasPrices(facts, row)
                 /\ \E own \in SelectedOwn(facts.rows, row) : own.payable > row.payable
           /\ line.comparison = "NOT_LOWER" <=>
                 /\ HasPrices(facts, row)
                 /\ ~ \E own \in SelectedOwn(facts.rows, row) : own.payable > row.payable
<1>1. PICK state, selected, eligible :
         /\ state = ShownState(facts, row) /\ selected = SelectedOwn(facts.rows, row)
         /\ eligible = (/\ ~IsOwn(row) /\ state = "MATCHED" /\ confirmedInStockPrice(row)
                        /\ \E own \in selected : confirmedInStockPrice(own))
  OBVIOUS
<1>2. Projected(facts, type, row) =
        [row |-> row, ranks |-> Ranks(facts.positions, row.item),
         match |-> matchCategory(type, row), state |-> state, selected |-> selected,
         others     |-> {own \in facts.rows \ selected :
                            /\ IsOwn(own) /\ own.signature = row.signature
                            /\ row.signature # NoSignature},
         difference |-> {own.payable - row.payable : own \in
                            {own \in selected : own.payable >= 0 /\ row.payable >= 0}},
         comparison |-> IF IsOwn(row) THEN "OWN"
                        ELSE IF ~eligible THEN "UNDECIDED"
                        ELSE IF \E own \in selected : own.payable > row.payable THEN "LOWER"
                        ELSE "NOT_LOWER"]
  BY <1>1 DEF Projected
<1>3. eligible <=> HasPrices(facts, row)
  BY <1>1 DEF HasPrices
<1> QED
  BY <1>1, <1>2, <1>3

(* A line shows the state stored.                                          *)
LEMMA StateShown ==
    ASSUME NEW facts, Settled(facts.rows, facts.complete), NEW row \in facts.rows
    PROVE  ShownState(facts, row) = IF row.state = "" THEN "REVIEW" ELSE row.state
BY DEF ShownState, Settled

(* A row was compared with one row.                                        *)
LEMMA SelectedOnce ==
    ASSUME NEW all, IsStored(all), NEW row, NEW own \in SelectedOwn(all, row)
    PROVE  SelectedOwn(all, row) = {own}
BY DEF SelectedOwn, IsStored

(* The filters of the database select what the page shows.                 *)
LEMMA FiltersAgree ==
    ASSUME NEW facts, IsStored(facts.rows), Settled(facts.rows, facts.complete), NEW type,
           NEW row \in facts.rows, NEW filter \in Filters
    PROVE  snapshotFilter(filter, type, facts.rows, row) <=> Shows(Projected(facts, type, row), filter)
<1>6. PICK line : line = Projected(facts, type, row)
  OBVIOUS
<1> DEFINE state == IF row.state = "" THEN "REVIEW" ELSE row.state
           selected == SelectedOwn(facts.rows, row)
<1> SUFFICES snapshotFilter(filter, type, facts.rows, row) <=> Shows(line, filter)
  BY <1>6
<1>0. state = ShownState(facts, row)
  BY StateShown
<1>1. /\ line.row = row /\ line.match = matchCategory(type, row) /\ line.state = state
      /\ line.comparison = "LOWER" <=>
            HasPrices(facts, row) /\ \E own \in selected : own.payable > row.payable
      /\ line.comparison = "NOT_LOWER" <=>
            HasPrices(facts, row) /\ ~ \E own \in selected : own.payable > row.payable
  <2>1. /\ line.row = row /\ line.match = matchCategory(type, row)
        /\ line.state = ShownState(facts, row)
    BY <1>6, ProjectedParts
  <2>2. line.comparison = "LOWER" <=>
            HasPrices(facts, row) /\ \E own \in SelectedOwn(facts.rows, row) : own.payable > row.payable
    BY <1>6, ProjectedParts
  <2>3. line.comparison = "NOT_LOWER" <=>
            HasPrices(facts, row) /\ ~ \E own \in SelectedOwn(facts.rows, row) : own.payable > row.payable
    BY <1>6, ProjectedParts
  <2>4. line.state = state
    BY <1>0, <2>1
  <2> QED
    BY <2>1, <2>2, <2>3, <2>4
<1>7. HasPrices(facts, row) <=>
         /\ ~IsOwn(row) /\ row.state = "MATCHED" /\ confirmedInStockPrice(row)
         /\ \E own \in selected : confirmedInStockPrice(own)
  BY <1>0 DEF HasPrices
<1>2. CASE \E s \in {"OWN", "COMPETITOR"} : filter = Filter(s, "", "", "")
  <2>1. PICK s \in {"OWN", "COMPETITOR"} : filter = Filter(s, "", "", "")
    BY <1>2
  <2>2. filter.source = s /\ filter.match = "" /\ filter.price = "" /\ filter.state = "" /\ s # ""
    BY <2>1 DEF Filter
  <2>3. Shows(line, filter) <=> s = IF IsOwn(row) THEN "OWN" ELSE "COMPETITOR"
    BY <1>1, <2>2 DEF Shows
  <2>4. snapshotFilter(filter, type, facts.rows, row) <=> (IsOwn(row) = (s = "OWN"))
    BY <2>2 DEF snapshotFilter
  <2>5. IsOwn(row) \in BOOLEAN
    BY DEF IsOwn
  <2> QED
    BY <2>1, <2>3, <2>4, <2>5
<1>3. CASE \E m \in {"EXACT", "REVIEW", "EXCLUDED"} : filter = Filter("", m, "", "")
  <2>1. PICK m \in {"EXACT", "REVIEW", "EXCLUDED"} : filter = Filter("", m, "", "")
    BY <1>3
  <2>2. filter.source = "" /\ filter.match = m /\ filter.price = "" /\ filter.state = "" /\ m # ""
    BY <2>1 DEF Filter
  <2>3. Shows(line, filter) <=> m = matchCategory(type, row)
    BY <1>1, <2>2 DEF Shows
  <2>4. snapshotFilter(filter, type, facts.rows, row) <=> MatchSelects(m, type, row)
    BY <2>2 DEF snapshotFilter
  <2>5. MatchSelects(m, type, row) <=> m = matchCategory(type, row)
    <3>1. row.comparable => row.decision # "REJECTED"
      BY DEF Settled
    <3> QED
      BY <2>1, <3>1 DEF MatchSelects, matchCategory
  <2> QED
    BY <2>3, <2>4, <2>5
<1>4. CASE \E p \in {"LOWER", "NOT_LOWER"} : filter = Filter("", "", p, "")
  <2>1. PICK p \in {"LOWER", "NOT_LOWER"} : filter = Filter("", "", p, "")
    BY <1>4
  <2>2. filter.source = "" /\ filter.match = "" /\ filter.price = p /\ filter.state = "" /\ p # ""
    BY <2>1 DEF Filter
  <2>3. Shows(line, filter) <=> p = line.comparison
    BY <1>1, <2>2 DEF Shows
  <2>4. snapshotFilter(filter, type, facts.rows, row) <=> PriceSelects(p, facts.rows, row)
    BY <2>2 DEF snapshotFilter
  <2>5. PriceSelects(p, facts.rows, row) <=>
           /\ ~IsOwn(row) /\ row.state = "MATCHED" /\ confirmedInStockPrice(row)
           /\ \E own \in selected :
                  /\ confirmedInStockPrice(own)
                  /\ IF p = "LOWER" THEN row.payable < own.payable ELSE row.payable >= own.payable
    BY DEF PriceSelects, SelectedOwn
  <2>6. CASE ~HasPrices(facts, row)
    <3>1. line.comparison \notin {"LOWER", "NOT_LOWER"}
      BY <1>1, <2>6
    <3>2. ~PriceSelects(p, facts.rows, row)
      BY <1>7, <2>5, <2>6
    <3> QED
      BY <2>1, <2>3, <2>4, <3>1, <3>2
  <2>7. CASE HasPrices(facts, row)
    <3>1. PICK own \in selected : confirmedInStockPrice(own)
      BY <1>7, <2>7
    <3>2. selected = {own} /\ own \in facts.rows
      BY SelectedOnce DEF SelectedOwn
    <3>3. row.payable \in Int /\ own.payable \in Int
      BY <1>7, <2>7, <3>1, <3>2 DEF IsStored, confirmedInStockPrice
    <3> HIDE DEF selected
    <3>4. PriceSelects(p, facts.rows, row) <=>
             IF p = "LOWER" THEN row.payable < own.payable ELSE row.payable >= own.payable
      BY <1>7, <2>5, <2>7, <3>1, <3>2
    <3>5. (line.comparison = "LOWER" <=> row.payable < own.payable)
          /\ (line.comparison = "NOT_LOWER" <=> row.payable >= own.payable)
      <4>1. (\E o \in selected : o.payable > row.payable) <=> row.payable < own.payable
        BY <3>2, <3>3
      <4>2. ~(row.payable < own.payable) <=> row.payable >= own.payable
        BY <3>3
      <4> QED
        BY <1>1, <2>7, <4>1, <4>2, Zenon
    <3>6. CASE p = "LOWER"
      BY <2>3, <2>4, <3>4, <3>5, <3>6
    <3>7. CASE p = "NOT_LOWER"
      BY <2>3, <2>4, <3>4, <3>5, <3>7
    <3> QED
      BY <2>1, <3>6, <3>7
  <2> QED
    BY <2>6, <2>7
<1>5. CASE \E s \in {"MATCHED", "MISSING_OWN", "REVIEW", "OWN", "EXCLUDED"} :
              filter = Filter("", "", "", s)
  <2>1. PICK s \in {"MATCHED", "MISSING_OWN", "REVIEW", "OWN", "EXCLUDED"} :
              filter = Filter("", "", "", s)
    BY <1>5
  <2>2. filter.source = "" /\ filter.match = "" /\ filter.price = "" /\ filter.state = s /\ s # ""
    BY <2>1 DEF Filter
  <2>3. Shows(line, filter) <=> s = state
    BY <1>1, <2>2 DEF Shows
  <2>4. snapshotFilter(filter, type, facts.rows, row) <=>
           row.state = s \/ (s = "REVIEW" /\ row.state = "")
    BY <2>2 DEF snapshotFilter
  <2> QED
    BY <2>1, <2>3, <2>4
<1> QED
  BY <1>2, <1>3, <1>4, <1>5 DEF Filters

(* The lines of a page.                                                    *)
Lines(facts, type) == {Projected(facts, type, row) : row \in facts.rows}

(* The lower prices and the missing combinations stored rows tell.         *)
Low(row, own) == [row |-> row.id, own |-> own.id, difference |-> own.payable - row.payable]

IsLow(all, row, own) ==
    /\ ~IsOwn(row) /\ row.state = "MATCHED" /\ confirmedInStockPrice(row)
    /\ own \in SelectedOwn(all, row) /\ confirmedInStockPrice(own) /\ own.payable > row.payable

TellsLows(all, lows) ==
    \A x : x \in lows <=> \E row, own \in all : IsLow(all, row, own) /\ x = Low(row, own)

Absent(all) == {row \in all : row.state = "MISSING_OWN" /\ row.signature # NoSignature}

Offers(absent, row) == {other \in absent : other.signature = row.signature}

Sold(absent, row) ==
    LET like == Offers(absent, row)
        sure == {other \in like : confirmedInStockPrice(other)}
    IN  [signature |-> row.signature,
         offers    |-> {other.id : other \in like},
         reasons   |-> IF \E other \in like : "OWN_OUT_OF_STOCK_ONLY" \in other.reasons
                       THEN {"OWN_OUT_OF_STOCK_ONLY"} ELSE {"OWN_COMBINATION_ABSENT"},
         minimum   |-> IF sure = {} THEN -1 ELSE Min({other.payable : other \in sure})]

TellsMissing(all, missing) == missing = {Sold(Absent(all), row) : row \in Absent(all)}

(* What a line shows, when the rows still make sense.                      *)
LEMMA LineOf ==
    ASSUME NEW facts, Settled(facts.rows, facts.complete), NEW type,
           NEW line \in Lines(facts, type)
    PROVE  /\ line.row \in facts.rows /\ line = Projected(facts, type, line.row)
           /\ line.ranks = Ranks(facts.positions, line.row.item)
           /\ line.selected = SelectedOwn(facts.rows, line.row)
           /\ line.state = IF line.row.state = "" THEN "REVIEW" ELSE line.row.state
<1>1. PICK row \in facts.rows : line = Projected(facts, type, row)
  BY DEF Lines
<1>2. /\ line.row = row /\ line.ranks = Ranks(facts.positions, row.item)
      /\ line.state = ShownState(facts, row)
      /\ line.selected = SelectedOwn(facts.rows, row)
  BY <1>1, ProjectedParts
<1>3. ShownState(facts, row) = IF row.state = "" THEN "REVIEW" ELSE row.state
  BY StateShown
<1> QED
  BY <1>1, <1>2, <1>3

(* A lower price that lines show.                                          *)
IsLowOf(all, lines, x) ==
    \E line \in lines : \E own \in all : IsLow(all, line.row, own) /\ x = Low(line.row, own)

(* The page lists the lower prices of its lines.                           *)
LEMMA LowsShown ==
    ASSUME NEW facts, Settled(facts.rows, facts.complete), NEW type,
           NEW lines, lines \subseteq Lines(facts, type), NEW x
    PROVE  x \in confirmedLows(lines) <=> IsLowOf(facts.rows, lines, x)
<1> DEFINE Matching == {l \in lines : /\ ~IsOwn(l.row) /\ l.state = "MATCHED"
                                      /\ confirmedInStockPrice(l.row)}
           Under(line) == {o \in line.selected :
                              confirmedInStockPrice(o) /\ o.payable > line.row.payable}
<1>1. x \in confirmedLows(lines) <=>
         \E line \in Matching : \E own \in Under(line) : x = Low(line.row, own)
  BY DEF confirmedLows, Low
<1>2. \A line \in lines :
         /\ line.selected = SelectedOwn(facts.rows, line.row)
         /\ line.state = "MATCHED" <=> line.row.state = "MATCHED"
  BY LineOf
<1>3. \A line \in lines : \A own :
         line \in Matching /\ own \in Under(line)
            <=> own \in facts.rows /\ IsLow(facts.rows, line.row, own)
  BY <1>2 DEF IsLow, SelectedOwn
<1> HIDE DEF Matching, Under
<1>4. \A line \in Matching : line \in lines
  BY DEF Matching
<1> QED
  BY <1>1, <1>3, <1>4 DEF IsLowOf

(* Lines show the missing combinations of their rows.                      *)
LEMMA SameMissing ==
    ASSUME NEW absent, NEW shown,
           \A line \in shown : line.state = "MISSING_OWN" /\ line.row.signature # NoSignature
                                  => line.row \in absent,
           \A row \in absent : \E line \in shown :
               line.row = row /\ line.state = "MISSING_OWN" /\ row.signature # NoSignature
    PROVE  missingGroups(shown) = {Sold(absent, row) : row \in absent}
<1> DEFINE missing == {line \in shown : /\ line.state = "MISSING_OWN"
                                        /\ line.row.signature # NoSignature}
           Like(line) == {other \in missing : other.row.signature = line.row.signature}
           Surely(line) == {other \in Like(line) : confirmedInStockPrice(other.row)}
           Group(line) ==
             [signature |-> line.row.signature,
              offers    |-> {other.row.id : other \in Like(line)},
              reasons   |-> IF \E other \in Like(line) : "OWN_OUT_OF_STOCK_ONLY" \in other.row.reasons
                            THEN {"OWN_OUT_OF_STOCK_ONLY"} ELSE {"OWN_COMBINATION_ABSENT"},
              minimum   |-> IF Surely(line) = {} THEN -1
                            ELSE Min({other.row.payable : other \in Surely(line)})]
<1>1. missingGroups(shown) = {Group(line) : line \in missing}
  BY DEF missingGroups
<1>2. /\ \A line \in missing : line.row \in absent
      /\ \A row \in absent : \E line \in missing : line.row = row
  OBVIOUS
<1>3. ASSUME NEW line \in missing
      PROVE  Group(line) = Sold(absent, line.row)
  <2> DEFINE like == Offers(absent, line.row)
             sure == {other \in like : confirmedInStockPrice(other)}
  <2> HIDE DEF missing
  <2>1. /\ \A other \in Like(line) : other.row \in like
        /\ \A row \in like : \E other \in Like(line) : other.row = row
    BY <1>2 DEF Offers
  <2>2. /\ \A other \in Surely(line) : other.row \in sure
        /\ \A row \in sure : \E other \in Surely(line) : other.row = row
    <3> HIDE DEF like
    <3> QED
      BY <2>1
  <2> HIDE DEF Like, like
  <2>3. {other.row.id : other \in Like(line)} = {row.id : row \in like}
    BY <2>1
  <2>4. (\E other \in Like(line) : "OWN_OUT_OF_STOCK_ONLY" \in other.row.reasons)
           <=> \E row \in like : "OWN_OUT_OF_STOCK_ONLY" \in row.reasons
    BY <2>1
  <2> HIDE DEF Sure, sure
  <2>5. /\ Surely(line) = {} <=> sure = {}
        /\ {other.row.payable : other \in Surely(line)} = {row.payable : row \in sure}
    BY <2>2
  <2>6. PICK s, o, w, p, q : /\ s = line.row.signature /\ o = {row.id : row \in like}
                             /\ w = (\E row \in like : "OWN_OUT_OF_STOCK_ONLY" \in row.reasons)
                             /\ p = {row.payable : row \in sure} /\ q = (sure = {})
    OBVIOUS
  <2>7. Group(line) = [signature |-> s, offers |-> o,
                       reasons |-> IF w THEN {"OWN_OUT_OF_STOCK_ONLY"} ELSE {"OWN_COMBINATION_ABSENT"},
                       minimum |-> IF q THEN -1 ELSE Min(p)]
    BY <2>3, <2>4, <2>5, <2>6
  <2>8. Sold(absent, line.row) = [signature |-> s, offers |-> o,
                       reasons |-> IF w THEN {"OWN_OUT_OF_STOCK_ONLY"} ELSE {"OWN_COMBINATION_ABSENT"},
                       minimum |-> IF q THEN -1 ELSE Min(p)]
    BY <2>6 DEF Sold, like, sure
  <2> QED
    BY <2>7, <2>8
<1> HIDE DEF missing, Group
<1> QED
  BY <1>1, <1>2, <1>3

(* The lines the lists are made of: competitors' SKUs with a rank.         *)
Business(facts, type) ==
    {line \in {l \in Lines(facts, type) : l.ranks # {}} : ~IsOwn(line.row)}

(* A page on which every competitor has a rank tells what its rows tell.   *)
LEMMA PageTells ==
    ASSUME NEW facts, Settled(facts.rows, facts.complete), NEW type,
           \A row \in facts.rows : ~IsOwn(row) => Ranks(facts.positions, row.item) # {},
           \A row \in facts.rows : row.state = "MISSING_OWN" => ~IsOwn(row),
           NEW lows, TellsLows(facts.rows, lows), NEW missing, TellsMissing(facts.rows, missing)
    PROVE  /\ confirmedLows(Business(facts, type)) = lows
           /\ missingGroups(Business(facts, type)) = missing
<1> DEFINE shown == Business(facts, type)
<1>1. \A line \in shown : /\ line \in Lines(facts, type) /\ line.row \in facts.rows
                          /\ line.state = IF line.row.state = "" THEN "REVIEW" ELSE line.row.state
  BY LineOf DEF Business
<1>2. ASSUME NEW row \in facts.rows, ~IsOwn(row)
      PROVE  \E line \in shown : /\ line.row = row
                                 /\ line.state = IF row.state = "" THEN "REVIEW" ELSE row.state
  <2>1. PICK line : line = Projected(facts, type, row)
    OBVIOUS
  <2>2. line \in Lines(facts, type)
    BY <2>1 DEF Lines
  <2>3. line.row = row /\ line.ranks = Ranks(facts.positions, row.item)
    BY <2>1, ProjectedParts
  <2>4. line \in shown
    BY <1>2, <2>2, <2>3 DEF Business
  <2> QED
    BY <1>1, <2>3, <2>4
<1>3. confirmedLows(shown) = lows
  <2>1. shown \subseteq Lines(facts, type)
    BY <1>1
  <2> HIDE DEF shown
  <2> SUFFICES ASSUME NEW x PROVE x \in confirmedLows(shown) <=> x \in lows
    OBVIOUS
  <2>2. x \in confirmedLows(shown) <=>
           \E line \in shown : \E own \in facts.rows :
              IsLow(facts.rows, line.row, own) /\ x = Low(line.row, own)
    BY <2>1, LowsShown DEF IsLowOf
  <2>3. x \in lows <=> \E row, own \in facts.rows : IsLow(facts.rows, row, own) /\ x = Low(row, own)
    BY DEF TellsLows
  <2>4. \A row, own : IsLow(facts.rows, row, own) => ~IsOwn(row)
    BY DEF IsLow
  <2> QED
    <3>1. ASSUME NEW row \in facts.rows, NEW own \in facts.rows,
                 IsLow(facts.rows, row, own), x = Low(row, own)
          PROVE  x \in confirmedLows(shown)
      <4>1. PICK line \in shown : line.row = row
        BY <1>2, <2>4, <3>1
      <4> QED
        BY <2>2, <3>1, <4>1
    <3>2. ASSUME x \in confirmedLows(shown)
          PROVE  x \in lows
      <4>1. PICK line \in shown : \E own \in facts.rows :
               IsLow(facts.rows, line.row, own) /\ x = Low(line.row, own)
        BY <2>2, <3>2
      <4>2. line.row \in facts.rows
        BY <1>1
      <4> QED
        BY <2>3, <4>1, <4>2
    <3> QED
      BY <2>3, <3>1, <3>2
<1>4. missingGroups(shown) = missing
  <2> HIDE DEF shown
  <2> DEFINE absent == Absent(facts.rows)
  <2>1. \A line \in shown : line.state = "MISSING_OWN" /\ line.row.signature # NoSignature
                               => line.row \in absent
    BY <1>1 DEF Absent
  <2>2. \A row \in absent : \E line \in shown :
           line.row = row /\ line.state = "MISSING_OWN" /\ row.signature # NoSignature
    BY <1>2 DEF Absent
  <2> HIDE DEF absent
  <2>3. missingGroups(shown) = {Sold(absent, row) : row \in absent}
    BY <2>1, <2>2, SameMissing
  <2> QED
    BY <2>3 DEF TellsMissing, absent
<1> QED
  BY <1>3, <1>4

-----------------------------------------------------------------------------
(* The board of shops.                                                     *)

(* What is found, rank by rank.                                            *)
IsFound(found) == Len(found) \in Nat /\ DOMAIN found = 1..Len(found)

(* The shop an item goes under.                                            *)
Home(found, item) == found[Min(Ranks(found, item))].shop

(* An item that was found was found first somewhere.                       *)
LEMMA FirstRank ==
    ASSUME NEW found, IsFound(found), NEW item, Ranks(found, item) # {}
    PROVE  Min(Ranks(found, item)) \in Ranks(found, item)
<1> DEFINE ranks == Ranks(found, item)
<1>1. ranks \in SUBSET Nat
  BY DEF Ranks, IsFound
<1> HIDE DEF ranks
<1>2. PICK r \in ranks : \A k \in ranks : ~(k < r)
  BY <1>1, LeastNat DEF ranks
<1>3. \A k \in ranks : r <= k
  BY <1>1, <1>2
<1> QED
  BY <1>3 DEF Min, ranks

(* An item goes under one shop, that of its first rank.                    *)
LEMMA ItemsHome ==
    ASSUME NEW found, IsFound(found), NEW item, NEW shop
    PROVE  item \in ItemsOf(found, shop) <=> Ranks(found, item) # {} /\ Home(found, item) = shop
<1>1. ASSUME item \in ItemsOf(found, shop)
      PROVE  Ranks(found, item) # {} /\ Home(found, item) = shop
  <2>1. PICK r \in DOMAIN found : /\ found[r].shop = shop /\ found[r].item = item
                                  /\ r = Min(Ranks(found, found[r].item))
    BY <1>1 DEF ItemsOf
  <2>2. r \in Ranks(found, item)
    BY <2>1 DEF Ranks
  <2> QED
    BY <2>1, <2>2 DEF Home
<1>2. ASSUME Ranks(found, item) # {}, Home(found, item) = shop
      PROVE  item \in ItemsOf(found, shop)
  <2>1. PICK r : r = Min(Ranks(found, item))
    OBVIOUS
  <2>2. r \in DOMAIN found /\ found[r].item = item
    BY <1>2, <2>1, FirstRank DEF Ranks
  <2>3. found[r].shop = shop /\ r = Min(Ranks(found, found[r].item))
    BY <1>2, <2>1, <2>2 DEF Home
  <2> QED
    BY <2>2, <2>3 DEF ItemsOf
<1> QED
  BY <1>1, <1>2

(* The shops of the board, each once and with its items' SKUs.             *)
LinesOf(shown, items) == {line \in shown : line.row.item \in items}

ShopOf(found, shown, shop) ==
    ShopRow(found, shop, ItemsOf(found, shop), LinesOf(shown, ItemsOf(found, shop)))

Shelved(lines) == {line.row.id : line \in lines}

(* What the board shows of a shop.                                         *)
LEMMA ShopParts ==
    ASSUME NEW found, NEW shop, NEW items, NEW lines
    PROVE  /\ ShopRow(found, shop, items, lines).shop = shop
           /\ ShopRow(found, shop, items, lines).skus = Shelved(lines)
           /\ ShopRow(found, shop, items, lines).lows = Cardinality(confirmedLows(lines))
<1>1. PICK skus, ranks, minimum, lows, missing :
         /\ skus = {line.row.id : line \in lines}
         /\ lows = Cardinality(confirmedLows(lines))
         /\ ShopRow(found, shop, items, lines) =
              [shop |-> shop, items |-> items, skus |-> skus, ranks |-> ranks,
               minimum |-> minimum, lows |-> lows, missing |-> missing]
  BY DEF ShopRow
<1> QED
  BY <1>1 DEF Shelved

(* The board has one entry for each shop with items.                       *)
LEMMA BoardShops ==
    ASSUME NEW found, IsFound(found), NEW shown
    PROVE  /\ \A b \in priceBoard(found, shown) : b = ShopOf(found, shown, b.shop)
           /\ \A shop : ItemsOf(found, shop) # {} =>
                 ShopOf(found, shown, shop) \in priceBoard(found, shown)
           /\ \A shop : ShopOf(found, shown, shop).shop = shop
<1> DEFINE shops == {found[r].shop : r \in DOMAIN found}
           pairs == {<<shop, ItemsOf(found, shop)>> : shop \in shops} \ {<<shop, {}>> : shop \in shops}
           row(pair) == ShopRow(found, pair[1], pair[2], {line \in shown : line.row.item \in pair[2]})
<1>1. priceBoard(found, shown) = {row(pair) : pair \in pairs}
  BY DEF priceBoard
<1>2. \A shop : ShopOf(found, shown, shop).shop = shop
  BY ShopParts DEF ShopOf
<1>3. \A shop : row(<<shop, ItemsOf(found, shop)>>) = ShopOf(found, shown, shop)
  BY DEF ShopOf, LinesOf
<1>4. \A pair \in pairs : \E shop \in shops : pair = <<shop, ItemsOf(found, shop)>>
  OBVIOUS
<1>5. \A shop : ItemsOf(found, shop) # {} => <<shop, ItemsOf(found, shop)>> \in pairs
  <2> TAKE shop
  <2>1. ItemsOf(found, shop) # {} => shop \in shops
    BY DEF ItemsOf
  <2> QED
    BY <2>1
<1> HIDE DEF shops, pairs, row
<1>6. ASSUME NEW b \in priceBoard(found, shown)
      PROVE  b = ShopOf(found, shown, b.shop)
  <2>1. PICK pair \in pairs : b = row(pair)
    BY <1>1
  <2>2. PICK shop \in shops : pair = <<shop, ItemsOf(found, shop)>>
    BY <1>4
  <2>3. b = ShopOf(found, shown, shop)
    BY <1>3, <2>1, <2>2
  <2> QED
    BY <1>2, <2>3
<1>7. ASSUME NEW shop, ItemsOf(found, shop) # {}
      PROVE  ShopOf(found, shown, shop) \in priceBoard(found, shown)
  <2>1. <<shop, ItemsOf(found, shop)>> \in pairs
    BY <1>5, <1>7
  <2>2. row(<<shop, ItemsOf(found, shop)>>) \in priceBoard(found, shown)
    BY <1>1, <2>1
  <2> QED
    BY <1>3, <2>2
<1> QED
  BY <1>2, <1>6, <1>7

(* The lines with a rank, and the shops of a board that hold a SKU.        *)
Ranked(facts, type) == {l \in Lines(facts, type) : l.ranks # {}}

Holding(board, id) == {shop \in board : id \in shop.skus}

(* Every ranked SKU is in one shop.                                        *)
LEMMA RankedOnce ==
    ASSUME NEW facts, IsFound(facts.positions), IsStored(facts.rows),
           Settled(facts.rows, facts.complete), NEW type,
           NEW ranked, ranked = Ranked(facts, type), NEW line \in ranked
    PROVE  Cardinality(Holding(priceBoard(facts.positions, ranked), line.row.id)) = 1
<1> DEFINE found == facts.positions
           board == priceBoard(found, ranked)
           home == Home(found, line.row.item)
           mine == ShopOf(found, ranked, home)
<1>1. \A l \in ranked : l.row \in facts.rows /\ l.ranks = Ranks(found, l.row.item) /\ l.ranks # {}
  BY LineOf DEF Ranked
<1>2. line.row.item \in ItemsOf(found, home)
  BY <1>1, ItemsHome
<1>3. mine \in board
  BY <1>2, BoardShops
<1>4. \A shop : ShopOf(found, ranked, shop).skus
                   = Shelved(LinesOf(ranked, ItemsOf(found, shop)))
  BY ShopParts DEF ShopOf
<1>5. line.row.id \in mine.skus
  BY <1>2, <1>4 DEF LinesOf, Shelved
<1>6. ASSUME NEW b \in board, line.row.id \in b.skus
      PROVE  b = mine
  <2>1. b = ShopOf(found, ranked, b.shop)
    BY BoardShops
  <2>2. b.skus = Shelved(LinesOf(ranked, ItemsOf(found, b.shop)))
    BY <1>4, <2>1
  <2>3. PICK l \in LinesOf(ranked, ItemsOf(found, b.shop)) : l.row.id = line.row.id
    BY <1>6, <2>2 DEF Shelved
  <2>4. l \in ranked /\ l.row.item \in ItemsOf(found, b.shop)
    BY DEF LinesOf
  <2>5. l.row = line.row
    BY <1>1, <2>3, <2>4 DEF IsStored
  <2>6. b.shop = home
    BY <2>4, <2>5, ItemsHome
  <2> QED
    BY <2>1, <2>6
<1> HIDE DEF board, mine
<1>7. Holding(board, line.row.id) = {mine}
  BY <1>3, <1>5, <1>6 DEF Holding
<1>8. Cardinality({mine}) = 1
  BY FS_Singleton
<1> QED
  BY <1>7, <1>8 DEF board

(* The sum of the shops' counts, as the page's property sums them.         *)
LEMMA LowsSummed ==
    ASSUME NEW S, IsFiniteSet(S)
    PROVE  MapThenSumSet(LAMBDA shop : shop.lows, S) = Total([shop \in S |-> shop.lows], S)
<1> DEFINE n == [shop \in S |-> shop.lows]
           IsSum(g) == g = [s \in SUBSET S |->
               IF s = {} THEN 0 ELSE AnyOf(s).lows + g[s \ {AnyOf(s)}]]
<1>1. \A s \in SUBSET S : s # {} => n[AnyOf(s)] = AnyOf(s).lows
  BY DEF AnyOf
<1>2. \E g : IsSum(g)
  <2>1. PICK g : IsTotal(g, n, S)
    BY TotalExists
  <2> HIDE DEF n
  <2>2. IsSum(g)
    BY <1>1, <2>1 DEF IsTotal
  <2> QED
    BY <2>2
<1>3. PICK g : g = CHOOSE h : IsSum(h)
  OBVIOUS
<1>4. IsSum(g)
  BY <1>2, <1>3
<1>5. IsTotal(g, n, S)
  <2> HIDE DEF n
  <2> QED
    BY <1>1, <1>4 DEF IsTotal
<1>6. MapThenSumSet(LAMBDA shop : shop.lows, S) = g[S]
  BY <1>3 DEF MapThenSumSet, MapThenFoldSet, AnyOf
<1>7. Total(n, S) = g[S]
  <2> HIDE DEF n
  <2> QED
    BY <1>5, TotalIs
<1> QED
  BY <1>6, <1>7

(* There are finitely many lower prices ...                                *)
LEMMA LowsFinite ==
    ASSUME NEW facts, IsFiniteSet(facts.rows), Settled(facts.rows, facts.complete), NEW type,
           NEW lines, lines \subseteq Lines(facts, type)
    PROVE  IsFiniteSet(confirmedLows(lines))
<1> DEFINE pairs == facts.rows \X facts.rows
           all == {Low(p[1], p[2]) : p \in pairs}
<1>1. IsFiniteSet(pairs)
  BY FS_Product
<1>2. IsFiniteSet(all)
  <2> DEFINE f == [p \in pairs |-> Low(p[1], p[2])]
  <2>1. f \in Surjection(pairs, all)
    BY DEF Surjection
  <2> HIDE DEF f, all, pairs
  <2> QED
    BY <1>1, <2>1, FS_Surjection
<1>3. \A x \in confirmedLows(lines) : x \in all
  <2> TAKE x \in confirmedLows(lines)
  <2>1. PICK line \in lines, own \in facts.rows : x = Low(line.row, own)
    BY LowsShown DEF IsLowOf
  <2>2. line.row \in facts.rows
    BY LineOf
  <2>3. <<line.row, own>> \in pairs
    BY <2>2
  <2> HIDE DEF pairs
  <2>4. Low(<<line.row, own>>[1], <<line.row, own>>[2]) \in all
    BY <2>3
  <2> QED
    BY <2>1, <2>4
<1> HIDE DEF all
<1> QED
  BY <1>2, <1>3, FS_Subset

(* ... and finitely many shops.                                            *)
LEMMA BoardFinite ==
    ASSUME NEW found, IsFound(found), NEW shown
    PROVE  IsFiniteSet(priceBoard(found, shown))
<1> DEFINE board == priceBoard(found, shown)
           f == [r \in 1..Len(found) |-> ShopOf(found, shown, found[r].shop)]
           all == {f[r] : r \in 1..Len(found)}
<1>1. IsFiniteSet(1..Len(found))
  <2>1. PICK n : n = Len(found)
    OBVIOUS
  <2>2. n \in Nat
    BY <2>1 DEF IsFound
  <2> QED
    BY <2>1, <2>2, FS_Interval
<1>2. IsFiniteSet(all)
  <2>1. f \in Surjection(1..Len(found), all)
    BY DEF Surjection
  <2> HIDE DEF f, all
  <2> QED
    BY <1>1, <2>1, FS_Surjection
<1>3. ASSUME NEW b \in board
      PROVE  b \in all
  <2>1. b = ShopOf(found, shown, b.shop)
    BY BoardShops
  <2>2. \E r \in DOMAIN found : b.shop = found[r].shop
    <3> DEFINE shops == {found[r].shop : r \in DOMAIN found}
               pairs == {<<shop, ItemsOf(found, shop)>> : shop \in shops}
                           \ {<<shop, {}>> : shop \in shops}
               row(pair) == ShopRow(found, pair[1], pair[2],
                                    {line \in shown : line.row.item \in pair[2]})
    <3>1. PICK pair \in pairs : b = row(pair)
      BY DEF priceBoard
    <3>2. pair[1] \in shops
      OBVIOUS
    <3>3. b.shop = pair[1]
      BY <3>1, ShopParts
    <3> QED
      BY <3>2, <3>3
  <2>3. PICK r \in 1..Len(found) : b.shop = found[r].shop
    BY <2>2 DEF IsFound
  <2>4. f[r] = b
    BY <2>1, <2>3
  <2> HIDE DEF f
  <2> QED
    BY <2>4
<1> HIDE DEF all
<1> QED
  BY <1>2, <1>3, FS_Subset

(* Every lower price is in one shop.                                       *)
LEMMA LowsOnce ==
    ASSUME NEW facts, IsFound(facts.positions), IsFiniteSet(facts.rows), IsStored(facts.rows),
           Settled(facts.rows, facts.complete), NEW type,
           NEW ranked, ranked = Ranked(facts, type)
    PROVE  MapThenSumSet(LAMBDA shop : shop.lows, priceBoard(facts.positions, ranked))
              = Cardinality(confirmedLows(Business(facts, type)))
<1> DEFINE found == facts.positions
           board == priceBoard(found, ranked)
           f == [b \in board |-> confirmedLows(LinesOf(ranked, ItemsOf(found, b.shop)))]
           n == [b \in board |-> b.lows]
<1>1. IsFiniteSet(board)
  BY BoardFinite
<1>2. \A l \in ranked : /\ l \in Lines(facts, type)
                        /\ l.row \in facts.rows /\ l.ranks = Ranks(found, l.row.item) /\ l.ranks # {}
  BY LineOf DEF Ranked
<1>3. \A b \in board : n[b] = Cardinality(f[b])
  <2> TAKE b \in board
  <2>1. b = ShopOf(found, ranked, b.shop)
    BY BoardShops
  <2>2. b.lows = Cardinality(confirmedLows(LinesOf(ranked, ItemsOf(found, b.shop))))
    BY <2>1, ShopParts DEF ShopOf
  <2> QED
    BY <2>2
<1>4. \A b \in board : LinesOf(ranked, ItemsOf(found, b.shop)) \subseteq Lines(facts, type)
  BY <1>2 DEF LinesOf
<1>5. \A b \in board : \A x :
         x \in f[b] <=> IsLowOf(facts.rows, LinesOf(ranked, ItemsOf(found, b.shop)), x)
  <2> TAKE b \in board
  <2>1. PICK lines : lines = LinesOf(ranked, ItemsOf(found, b.shop))
    OBVIOUS
  <2>2. f[b] = confirmedLows(lines) /\ lines \subseteq Lines(facts, type)
    BY <1>4, <2>1
  <2>3. \A x : x \in confirmedLows(lines) <=> IsLowOf(facts.rows, lines, x)
    BY <2>2, LowsShown
  <2> QED
    BY <2>1, <2>2, <2>3
<1>6. \A b \in board : IsFiniteSet(f[b])
  <2> TAKE b \in board
  <2>1. f[b] = confirmedLows(LinesOf(ranked, ItemsOf(found, b.shop)))
    OBVIOUS
  <2> HIDE DEF f, board
  <2> QED
    BY <1>4, <2>1, LowsFinite
<1> HIDE DEF f, n, board
<1>7. \A b, c \in board : b # c => f[b] \cap f[c] = {}
  <2> SUFFICES ASSUME NEW b \in board, NEW c \in board, NEW x \in f[b], x \in f[c]
               PROVE  b = c
    OBVIOUS
  <2>8. /\ IsLowOf(facts.rows, LinesOf(ranked, ItemsOf(found, b.shop)), x)
        /\ IsLowOf(facts.rows, LinesOf(ranked, ItemsOf(found, c.shop)), x)
    BY <1>5
  <2>1. PICK l \in LinesOf(ranked, ItemsOf(found, b.shop)) : \E own \in facts.rows : x = Low(l.row, own)
    BY <2>8 DEF IsLowOf
  <2>2. PICK k \in LinesOf(ranked, ItemsOf(found, c.shop)) : \E own \in facts.rows : x = Low(k.row, own)
    BY <2>8 DEF IsLowOf
  <2>3. x.row = l.row.id /\ x.row = k.row.id
    BY <2>1, <2>2 DEF Low
  <2>4. l \in ranked /\ k \in ranked /\ l.row.item \in ItemsOf(found, b.shop) /\ k.row.item \in ItemsOf(found, c.shop)
    BY DEF LinesOf
  <2>5. l.row = k.row
    BY <1>2, <2>3, <2>4 DEF IsStored
  <2>6. l.row.item \in ItemsOf(found, b.shop) /\ l.row.item \in ItemsOf(found, c.shop)
    BY <2>4, <2>5
  <2>7. b.shop = c.shop
    BY <2>6, ItemsHome
  <2> QED
    BY <2>7, BoardShops DEF board
<1>8. \A x : x \in Gathered(f, board) <=> x \in confirmedLows(Business(facts, type))
  <2> TAKE x
  <2>1. x \in confirmedLows(Business(facts, type)) <=>
           \E line \in Business(facts, type) : \E own \in facts.rows :
              IsLow(facts.rows, line.row, own) /\ x = Low(line.row, own)
    <3>1. Business(facts, type) \subseteq Lines(facts, type)
      BY DEF Business
    <3> QED
      BY <3>1, LowsShown DEF IsLowOf
  <2>2. ASSUME NEW b \in board, x \in f[b]
        PROVE  x \in confirmedLows(Business(facts, type))
    <3>3. IsLowOf(facts.rows, LinesOf(ranked, ItemsOf(found, b.shop)), x)
      BY <1>5, <2>2
    <3>1. PICK line \in LinesOf(ranked, ItemsOf(found, b.shop)) : \E own \in facts.rows :
             IsLow(facts.rows, line.row, own) /\ x = Low(line.row, own)
      BY <3>3 DEF IsLowOf
    <3>2. line \in Business(facts, type)
      BY <3>1 DEF Business, Ranked, LinesOf, IsLow
    <3> QED
      BY <2>1, <3>1, <3>2
  <2>3. ASSUME x \in confirmedLows(Business(facts, type))
        PROVE  \E b \in board : x \in f[b]
    <3>1. PICK line \in Business(facts, type) : \E own \in facts.rows :
             IsLow(facts.rows, line.row, own) /\ x = Low(line.row, own)
      BY <2>1, <2>3
    <3>2. line \in ranked
      BY DEF Business, Ranked
    <3>3. PICK home : home = Home(found, line.row.item)
      OBVIOUS
    <3>4. line.row.item \in ItemsOf(found, home)
      BY <1>2, <3>2, <3>3, ItemsHome
    <3>5. PICK b \in board : b.shop = home
      <4>1. ItemsOf(found, home) # {}
        BY <3>4
      <4>2. /\ ShopOf(found, ranked, home) \in board
            /\ ShopOf(found, ranked, home).shop = home
        BY <4>1, BoardShops DEF board
      <4> QED
        BY <4>2
    <3>6. line \in LinesOf(ranked, ItemsOf(found, b.shop))
      BY <3>2, <3>4, <3>5 DEF LinesOf
    <3> QED
      BY <1>5, <3>1, <3>6 DEF IsLowOf
  <2> QED
    BY <2>2, <2>3 DEF Gathered
<1>9. Total(n, board) = Cardinality(Gathered(f, board))
  BY <1>1, <1>3, <1>6, <1>7, DisjointCount
<1>10. Gathered(f, board) = confirmedLows(Business(facts, type))
  BY <1>8
<1>11. MapThenSumSet(LAMBDA shop : shop.lows, board) = Total(n, board)
  BY <1>1, LowsSummed DEF n
<1> QED
  BY <1>9, <1>10, <1>11 DEF board

-----------------------------------------------------------------------------
(* What an evaluation leaves in the rows.                                  *)

(* The cheapest of several is one of them.                                 *)
LEMMA CheapestIn ==
    ASSUME NEW S, S # {},
           \A m \in S : m.payable \in Nat /\ m.item \in Nat /\ m.sku \in Nat
    PROVE  Cheapest(S) \in S /\ \A o \in S : Cheaper(Cheapest(S), o)
<1> DEFINE pay == [m \in S |-> m.payable]
           item == [m \in S |-> m.item]
           sku == [m \in S |-> m.sku]
<1>1. pay \in [S -> Nat] /\ item \in [S -> Nat] /\ sku \in [S -> Nat]
  OBVIOUS
<1>2. \A m, o \in S : Cheaper(m, o) <=>
         \/ pay[m] < pay[o]
         \/ pay[m] = pay[o] /\ item[m] < item[o]
         \/ pay[m] = pay[o] /\ item[m] = item[o] /\ sku[m] <= sku[o]
  BY DEF Cheaper
<1> HIDE DEF pay, item, sku
<1>3. PICK a \in S : \A o \in S : pay[a] <= pay[o]
  BY <1>1, LeastBy
<1> DEFINE A == {m \in S : pay[m] = pay[a]}
<1>4. PICK b \in A : \A o \in A : item[b] <= item[o]
  <2> DEFINE f == [m \in A |-> item[m]]
  <2>1. f \in [A -> Nat] /\ A # {} /\ \A m \in A : f[m] = item[m]
    BY <1>1
  <2> HIDE DEF f, A
  <2>2. PICK b \in A : \A o \in A : f[b] <= f[o]
    BY <2>1, LeastBy
  <2> QED
    BY <2>1, <2>2
<1> DEFINE B == {m \in A : item[m] = item[b]}
<1>5. PICK c \in B : \A o \in B : sku[c] <= sku[o]
  <2> DEFINE f == [m \in B |-> sku[m]]
  <2>1. f \in [B -> Nat] /\ B # {} /\ \A m \in B : f[m] = sku[m]
    BY <1>1
  <2> HIDE DEF f, B
  <2>2. PICK c \in B : \A o \in B : f[c] <= f[o]
    BY <2>1, LeastBy
  <2> QED
    BY <2>1, <2>2
<1>6. ASSUME NEW o \in S
      PROVE  Cheaper(c, o)
  <2>1. c \in S /\ pay[c] = pay[a] /\ item[c] = item[b]
    OBVIOUS
  <2>2. pay[o] \in Nat /\ pay[c] \in Nat /\ item[o] \in Nat /\ item[c] \in Nat
        /\ sku[o] \in Nat /\ sku[c] \in Nat
    BY <1>1, <2>1
  <2>3. pay[c] <= pay[o]
    BY <1>3, <2>1
  <2>4. pay[o] = pay[c] => item[c] <= item[o]
    BY <1>4, <2>1
  <2>5. pay[o] = pay[c] /\ item[o] = item[c] => sku[c] <= sku[o]
    BY <1>5, <2>1
  <2> HIDE DEF A, B
  <2>6. \/ pay[c] < pay[o]
        \/ pay[c] = pay[o] /\ item[c] < item[o]
        \/ pay[c] = pay[o] /\ item[c] = item[o] /\ sku[c] <= sku[o]
    BY <2>2, <2>3, <2>4, <2>5
  <2> QED
    BY <1>2, <2>1, <2>6
<1>7. c \in S
  OBVIOUS
<1> HIDE DEF A, B
<1> QED
  BY <1>6, <1>7 DEF Cheapest

(* A combination has a signature exactly when it is signed.                *)
LEMMA CombinationKinds ==
    ASSUME NEW asked, NEW decision, NEW offer
    PROVE  LET c == buildSkuCombination(asked, decision, offer)
           IN  /\ c.kind \in {"SIGNED", "EXCLUDED", "REVIEW"}
               /\ c.kind = "SIGNED" <=> c.signature # NoSignature
<1>1. Signature(asked, offer) # NoSignature
  <2>1. PICK a, b, c, d : Signature(asked, offer) = <<a, b, c, d>>
    BY DEF Signature
  <2>2. DOMAIN <<a, b, c, d>> = 1..4 /\ DOMAIN <<>> = 1..0
    OBVIOUS
  <2>3. 1 \in 1..4 /\ 1 \notin 1..0
    OBVIOUS
  <2> QED
    BY <2>1, <2>2, <2>3 DEF NoSignature
<1> QED
  BY <1>1 DEF buildSkuCombination, Excluded, Review

(* What a decision rests on.                                               *)
LEMMA DecisionStates ==
    ASSUME NEW all, NEW complete, NEW row, row.combination.kind \in {"SIGNED", "EXCLUDED", "REVIEW"}
    PROVE  LET d == Decision(all, complete, row)
           IN  /\ d.state \in {"MATCHED", "MISSING_OWN", "REVIEW", "OWN", "EXCLUDED"}
               /\ d.state = "MATCHED" =>
                     /\ ~IsOwn(row) /\ IsSigned(row) /\ CanBeCompared(row)
                     /\ Baselines(all, row) # {} /\ d.own = Cheapest(Baselines(all, row)).id
               /\ d.state = "MISSING_OWN" =>
                     /\ ~IsOwn(row) /\ IsSigned(row) /\ CanBeCompared(row) /\ complete
                     /\ d.reasons = {IF OwnWith(all, row) = {} THEN "OWN_COMBINATION_ABSENT"
                                     ELSE "OWN_OUT_OF_STOCK_ONLY"}
<1> DEFINE d == Decision(all, complete, row)
<1>1. CASE row.combination.kind = "EXCLUDED"
  BY <1>1 DEF Decision, Decided
<1>2. CASE row.combination.kind = "REVIEW"
  BY <1>2 DEF Decision, Decided, ToReview
<1>3. CASE row.combination.kind = "SIGNED" /\ IsOwn(row)
  <2>1. d = OwnDecision(row)
    BY <1>3 DEF Decision
  <2>2. d.state \in {"OWN", "REVIEW"}
    BY <2>1 DEF OwnDecision, Decided, ToReview
  <2> HIDE DEF d
  <2>3. d.state # "MATCHED" /\ d.state # "MISSING_OWN"
    BY <2>2
  <2> QED
    BY <2>2, <2>3 DEF d
<1>4. CASE row.combination.kind = "SIGNED" /\ ~IsOwn(row)
  <2>1. d = CompetitorDecision(all, complete, row)
    BY <1>4 DEF Decision
  <2>2. CASE ~CanBeCompared(row) \/ ~complete
    <3>1. d.state = "REVIEW"
      BY <2>1, <2>2 DEF CompetitorDecision, ToReview, Decided
    <3> HIDE DEF d
    <3> QED
      BY <3>1 DEF d
  <2>3. CASE CanBeCompared(row) /\ complete /\ Baselines(all, row) # {}
    <3>1. d.state = "MATCHED" /\ d.own = Cheapest(Baselines(all, row)).id
      BY <2>1, <2>3 DEF CompetitorDecision, Decided
    <3> HIDE DEF d
    <3> QED
      BY <1>4, <2>3, <3>1 DEF d, IsSigned
  <2>4. CASE CanBeCompared(row) /\ complete /\ Baselines(all, row) = {}
    <3>1. d = UnmatchedDecision(OwnWith(all, row))
      BY <2>1, <2>4 DEF CompetitorDecision
    <3>2. \/ d.state = "REVIEW"
          \/ d.state = "MISSING_OWN" /\ d.reasons = {"OWN_COMBINATION_ABSENT"} /\ OwnWith(all, row) = {}
          \/ d.state = "MISSING_OWN" /\ d.reasons = {"OWN_OUT_OF_STOCK_ONLY"} /\ OwnWith(all, row) # {}
      BY <3>1 DEF UnmatchedDecision, ToReview, Missing, Decided
    <3> HIDE DEF d
    <3> QED
      BY <1>4, <2>4, <3>2 DEF d, IsSigned
  <2> QED
    BY <2>2, <2>3, <2>4
<1> QED
  BY <1>1, <1>2, <1>3, <1>4

(* What an evaluation reads of a row and what it writes into it.           *)
LEMMA RowEvaluated ==
    ASSUME NEW row, IsRow(row), NEW matched, NEW complete,
           NEW m, m = Matched(row), NEW d, d = Decision(matched, complete, m),
           NEW e, e = Evaluated(row, matched, complete)
    PROVE  /\ m.id = row.id /\ m.listing = row.listing /\ m.item = row.item /\ m.sku = row.sku
           /\ m.payable = row.payable
           /\ m.combination.kind \in {"SIGNED", "EXCLUDED", "REVIEW"}
           /\ IsSigned(m) <=> m.combination.signature # NoSignature
           /\ CanBeCompared(m) <=> confirmedInStockPrice(row)
           /\ e.id = row.id /\ e.listing = row.listing /\ e.item = row.item /\ e.sku = row.sku
           /\ e.payable = row.payable /\ e.confidence = row.confidence
           /\ confirmedInStockPrice(e) <=> confirmedInStockPrice(row)
           /\ e.state = d.state /\ e.own = d.own /\ e.reasons = d.reasons
           /\ e.signature = m.combination.signature
           /\ e.comparable => e.decision # "REJECTED"
<1>1. PICK decision, combination :
         /\ decision = persistenceDecision(rule, rawOffer(row))
         /\ combination = buildSkuCombination(rule, decision.decision, rawOffer(row))
  OBVIOUS
<1>2. m = [id |-> row.id, listing |-> row.listing, item |-> row.item, sku |-> row.sku,
           stock |-> row.stock, confidence |-> row.confidence, payable |-> row.payable,
           decision |-> decision, combination |-> combination]
  BY <1>1 DEF Matched
<1>3. /\ combination.kind \in {"SIGNED", "EXCLUDED", "REVIEW"}
      /\ combination.kind = "SIGNED" <=> combination.signature # NoSignature
  BY <1>1, CombinationKinds
<1>4. decision.comparable <=> decision.decision \in {"BARE", "BUNDLE"}
  BY <1>1, DecisionKinds
<1>5. e = [row EXCEPT !.decision = m.decision.decision, !.comparable = m.decision.comparable,
                      !.confidenceBps = m.decision.confidence,
                      !.state = d.state, !.signature = m.combination.signature,
                      !.own = d.own, !.reasons = d.reasons]
  BY DEF Evaluated
<1>6. e = [id |-> row.id, listing |-> row.listing, item |-> row.item, sku |-> row.sku,
           stock |-> row.stock, confidence |-> row.confidence, payable |-> row.payable,
           offer |-> row.offer, components |-> row.components,
           decision |-> m.decision.decision, comparable |-> m.decision.comparable,
           confidenceBps |-> m.decision.confidence, state |-> d.state,
           signature |-> m.combination.signature, own |-> d.own,
           reasons |-> d.reasons]
  <2>1. PICK a, b, c, st, sg, ow, rs :
           /\ a = m.decision.decision /\ b = m.decision.comparable /\ c = m.decision.confidence
           /\ st = d.state /\ sg = m.combination.signature /\ ow = d.own /\ rs = d.reasons
    OBVIOUS
  <2>2. e = [row EXCEPT !.decision = a, !.comparable = b, !.confidenceBps = c,
                        !.state = st, !.signature = sg, !.own = ow, !.reasons = rs]
    BY <1>5, <2>1
  <2>3. e = [id |-> row.id, listing |-> row.listing, item |-> row.item, sku |-> row.sku,
             stock |-> row.stock, confidence |-> row.confidence, payable |-> row.payable,
             offer |-> row.offer, components |-> row.components,
             decision |-> a, comparable |-> b, confidenceBps |-> c, state |-> st,
             signature |-> sg, own |-> ow, reasons |-> rs]
    BY <2>2 DEF IsRow
  <2> QED
    BY <2>1, <2>3
<1>7. /\ m.id = row.id /\ m.listing = row.listing /\ m.item = row.item /\ m.sku = row.sku
      /\ m.payable = row.payable /\ m.stock = row.stock /\ m.confidence = row.confidence
      /\ m.decision = decision /\ m.combination = combination
  BY <1>2
<1>8. /\ e.id = row.id /\ e.listing = row.listing /\ e.item = row.item /\ e.sku = row.sku
      /\ e.payable = row.payable /\ e.stock = row.stock /\ e.confidence = row.confidence
      /\ e.state = d.state /\ e.own = d.own /\ e.reasons = d.reasons
      /\ e.signature = m.combination.signature
      /\ e.decision = m.decision.decision /\ e.comparable = m.decision.comparable
  BY <1>6
<1>9. /\ CanBeCompared(m) <=> confirmedInStockPrice(row)
      /\ confirmedInStockPrice(e) <=> confirmedInStockPrice(row)
  BY <1>7, <1>8 DEF CanBeCompared, hasConfirmedPayable, confirmedInStockPrice
<1>10. e.comparable => e.decision # "REJECTED"
  BY <1>4, <1>7, <1>8
<1>11. /\ m.combination.kind \in {"SIGNED", "EXCLUDED", "REVIEW"}
       /\ IsSigned(m) <=> m.combination.signature # NoSignature
  BY <1>3, <1>7 DEF IsSigned
<1> QED
  BY <1>7, <1>8, <1>9, <1>10, <1>11

(* Rows an evaluation may read.                                            *)
IsEvaluable(all) ==
    /\ IsStored(all)
    /\ \A row \in all : IsRow(row) /\ row.id \in Nat /\ row.item \in Nat /\ row.sku \in Nat

(* The row of ours a matched SKU was compared with.                        *)
LEMMA OwnCompared ==
    ASSUME NEW all, IsEvaluable(all), NEW complete, NEW row \in all,
           NEW m, m = Matched(row), Decision(MatchedRows(all), complete, m).state = "MATCHED"
    PROVE  \E own \in all :
              /\ Matched(own) = Cheapest(Baselines(MatchedRows(all), m))
              /\ Decision(MatchedRows(all), complete, m).own = own.id
              /\ IsOwn(own) /\ confirmedInStockPrice(own)
              /\ ~IsOwn(row) /\ confirmedInStockPrice(row)
              /\ IsSigned(m) /\ SameGoods(Matched(own), m)
<1> DEFINE matched == MatchedRows(all)
           base == Baselines(matched, m)
<1>1. \A r \in all : /\ Matched(r).id = r.id /\ Matched(r).listing = r.listing
                     /\ Matched(r).item = r.item /\ Matched(r).sku = r.sku
                     /\ Matched(r).payable = r.payable
                     /\ Matched(r).combination.kind \in {"SIGNED", "EXCLUDED", "REVIEW"}
                     /\ CanBeCompared(Matched(r)) <=> confirmedInStockPrice(r)
  BY RowEvaluated DEF IsEvaluable
<1>2. /\ ~IsOwn(m) /\ IsSigned(m) /\ CanBeCompared(m)
      /\ base # {} /\ Decision(matched, complete, m).own = Cheapest(base).id
  <2>1. m.combination.kind \in {"SIGNED", "EXCLUDED", "REVIEW"}
    BY <1>1
  <2> QED
    BY <2>1, DecisionStates
<1>3. \A o \in base : /\ IsOwn(o) /\ CanBeCompared(o) /\ SameGoods(o, m)
                      /\ \E r \in all : o = Matched(r)
  BY DEF Baselines, OwnWith, OwnRows, MatchedRows
<1>4. \A o \in base : o.payable \in Nat /\ o.item \in Nat /\ o.sku \in Nat
  <2> TAKE o \in base
  <2>1. PICK r \in all : o = Matched(r)
    BY <1>3
  <2>2. o.payable = r.payable /\ o.item = r.item /\ o.sku = r.sku /\ confirmedInStockPrice(r)
    BY <1>1, <1>3, <2>1
  <2> QED
    BY <2>2 DEF confirmedInStockPrice, IsEvaluable, IsStored
<1> HIDE DEF base
<1>5. Cheapest(base) \in base
  BY <1>2, <1>4, CheapestIn
<1>6. PICK own \in all : Cheapest(base) = Matched(own)
  BY <1>3, <1>5
<1>7. IsOwn(own) /\ confirmedInStockPrice(own) /\ SameGoods(Matched(own), m)
  BY <1>1, <1>3, <1>5, <1>6 DEF IsOwn
<1>8. ~IsOwn(row) /\ confirmedInStockPrice(row)
  BY <1>1, <1>2 DEF IsOwn
<1>9. Decision(matched, complete, m).own = own.id
  BY <1>1, <1>2, <1>6
<1> QED
  BY <1>2, <1>6, <1>7, <1>8, <1>9 DEF base

(* Row by row, what an evaluation does.                                    *)
IsOutcome(all, complete, mt, dn, ev) ==
    LET matched == MatchedRows(all)
        after   == EvaluatedRows(all, matched, complete)
    IN  /\ matched = {mt[r] : r \in all} /\ after = {ev[r] : r \in all}
        /\ \A r \in all :
              /\ mt[r] = Matched(r) /\ dn[r] = Decision(matched, complete, mt[r])
              /\ mt[r].id = r.id /\ mt[r].payable = r.payable /\ IsOwn(mt[r]) = IsOwn(r)
              /\ IsSigned(mt[r]) <=> mt[r].combination.signature # NoSignature
              /\ CanBeCompared(mt[r]) <=> confirmedInStockPrice(r)
              /\ ev[r].id = r.id /\ IsOwn(ev[r]) = IsOwn(r) /\ ev[r].payable = r.payable
              /\ ev[r].confidence = r.confidence
              /\ confirmedInStockPrice(ev[r]) <=> confirmedInStockPrice(r)
              /\ ev[r].state = dn[r].state /\ ev[r].own = dn[r].own /\ ev[r].reasons = dn[r].reasons
              /\ ev[r].signature = mt[r].combination.signature
              /\ ev[r].comparable => ev[r].decision # "REJECTED"
              /\ dn[r].state \in {"MATCHED", "MISSING_OWN", "REVIEW", "OWN", "EXCLUDED"}
              /\ dn[r].state = "MISSING_OWN" =>
                    /\ ~IsOwn(r) /\ IsSigned(mt[r]) /\ confirmedInStockPrice(r) /\ complete
                    /\ dn[r].reasons = {IF OwnWith(matched, mt[r]) = {} THEN "OWN_COMBINATION_ABSENT"
                                        ELSE "OWN_OUT_OF_STOCK_ONLY"}
              /\ dn[r].state = "MATCHED" => \E own \in all :
                    /\ mt[own] = Cheapest(Baselines(matched, mt[r])) /\ dn[r].own = own.id
                    /\ IsOwn(own) /\ confirmedInStockPrice(own)
                    /\ ~IsOwn(r) /\ confirmedInStockPrice(r) /\ IsSigned(mt[r])
                    /\ mt[own].combination.signature = mt[r].combination.signature

(* It does so with three functions of the rows: what was matched, what was *)
(* decided, and what was written.                                          *)
LEMMA Outcome ==
    ASSUME NEW all, IsEvaluable(all), NEW complete
    PROVE  \E mt, dn, ev : IsOutcome(all, complete, mt, dn, ev)
<1> DEFINE matched == MatchedRows(all)
           mt == [r \in all |-> Matched(r)]
           dn == [r \in all |-> Decision(matched, complete, Matched(r))]
           ev == [r \in all |-> Evaluated(r, matched, complete)]
<1>1. \A r \in all : /\ mt[r] = Matched(r) /\ dn[r] = Decision(matched, complete, mt[r])
                     /\ ev[r] = Evaluated(r, matched, complete)
  OBVIOUS
<1>2. matched = {mt[r] : r \in all} /\ EvaluatedRows(all, matched, complete) = {ev[r] : r \in all}
  BY DEF MatchedRows, EvaluatedRows
<1> HIDE DEF mt, dn, ev
<1>3. ASSUME NEW r \in all
      PROVE  /\ mt[r].id = r.id /\ mt[r].payable = r.payable /\ mt[r].listing = r.listing
             /\ IsSigned(mt[r]) <=> mt[r].combination.signature # NoSignature
             /\ CanBeCompared(mt[r]) <=> confirmedInStockPrice(r)
             /\ ev[r].id = r.id /\ ev[r].listing = r.listing /\ ev[r].payable = r.payable
             /\ ev[r].confidence = r.confidence
             /\ confirmedInStockPrice(ev[r]) <=> confirmedInStockPrice(r)
             /\ ev[r].state = dn[r].state /\ ev[r].own = dn[r].own /\ ev[r].reasons = dn[r].reasons
             /\ ev[r].signature = mt[r].combination.signature
             /\ ev[r].comparable => ev[r].decision # "REJECTED"
             /\ mt[r].combination.kind \in {"SIGNED", "EXCLUDED", "REVIEW"}
  <2>1. PICK m, d, e : m = mt[r] /\ d = dn[r] /\ e = ev[r]
    OBVIOUS
  <2>2. /\ IsRow(r) /\ m = Matched(r) /\ d = Decision(matched, complete, m)
        /\ e = Evaluated(r, matched, complete)
    BY <1>1, <2>1 DEF IsEvaluable
  <2> HIDE DEF matched
  <2> QED
    BY <2>1, <2>2, RowEvaluated
<1>4. ASSUME NEW r \in all
      PROVE  IsOwn(mt[r]) = IsOwn(r) /\ IsOwn(ev[r]) = IsOwn(r)
  BY <1>3 DEF IsOwn
<1>5. ASSUME NEW r \in all
      PROVE  /\ dn[r].state \in {"MATCHED", "MISSING_OWN", "REVIEW", "OWN", "EXCLUDED"}
             /\ dn[r].state = "MISSING_OWN" =>
                   /\ ~IsOwn(r) /\ IsSigned(mt[r]) /\ confirmedInStockPrice(r) /\ complete
                   /\ dn[r].reasons = {IF OwnWith(matched, mt[r]) = {} THEN "OWN_COMBINATION_ABSENT"
                                       ELSE "OWN_OUT_OF_STOCK_ONLY"}
  <2>1. PICK m : m = mt[r]
    OBVIOUS
  <2>2. m.combination.kind \in {"SIGNED", "EXCLUDED", "REVIEW"} /\ dn[r] = Decision(matched, complete, m)
    BY <1>1, <1>3, <2>1
  <2>3. /\ dn[r].state \in {"MATCHED", "MISSING_OWN", "REVIEW", "OWN", "EXCLUDED"}
        /\ dn[r].state = "MISSING_OWN" =>
              /\ ~IsOwn(m) /\ IsSigned(m) /\ CanBeCompared(m) /\ complete
              /\ dn[r].reasons = {IF OwnWith(matched, m) = {} THEN "OWN_COMBINATION_ABSENT"
                                  ELSE "OWN_OUT_OF_STOCK_ONLY"}
    BY <2>2, DecisionStates
  <2>4. (CanBeCompared(m) <=> confirmedInStockPrice(r)) /\ IsOwn(m) = IsOwn(r)
    BY <1>3, <1>4, <2>1
  <2> QED
    BY <2>1, <2>3, <2>4
<1>6. ASSUME NEW r \in all, dn[r].state = "MATCHED"
      PROVE  \E own \in all :
                /\ mt[own] = Cheapest(Baselines(matched, mt[r])) /\ dn[r].own = own.id
                /\ IsOwn(own) /\ confirmedInStockPrice(own)
                /\ ~IsOwn(r) /\ confirmedInStockPrice(r) /\ IsSigned(mt[r])
                /\ mt[own].combination.signature = mt[r].combination.signature
  <2>1. PICK m : m = mt[r]
    OBVIOUS
  <2>2. m = Matched(r) /\ dn[r] = Decision(matched, complete, m)
    BY <1>1, <2>1
  <2>3. PICK own \in all :
              /\ Matched(own) = Cheapest(Baselines(matched, m))
              /\ Decision(matched, complete, m).own = own.id
              /\ IsOwn(own) /\ confirmedInStockPrice(own)
              /\ ~IsOwn(r) /\ confirmedInStockPrice(r)
              /\ IsSigned(m) /\ SameGoods(Matched(own), m)
    BY <1>6, <2>2, OwnCompared
  <2>4. Matched(own) = mt[own]
    BY <1>1
  <2> QED
    BY <2>1, <2>2, <2>3, <2>4 DEF SameGoods
<1> HIDE DEF matched
<1>7. IsOutcome(all, complete, mt, dn, ev)
  BY <1>1, <1>2, <1>3, <1>4, <1>5, <1>6 DEF IsOutcome, matched
<1> QED
  BY <1>7

(* A matched row was compared with one SKU of ours, and names it.          *)
ComparedWith(all, mt, dn, ev, after) ==
    \A r \in all : dn[r].state = "MATCHED" => \E own \in all :
        /\ mt[own] = Cheapest(Baselines(MatchedRows(all), mt[r]))
        /\ SelectedOwn(after, ev[r]) = {ev[own]}
        /\ ~IsOwn(r) /\ confirmedInStockPrice(r) /\ confirmedInStockPrice(own)
        /\ IsSigned(mt[r])

(* The rows an evaluation leaves make sense.                               *)
LEMMA OutcomeSettled ==
    ASSUME NEW all, IsEvaluable(all), NEW complete, NEW mt, NEW dn, NEW ev,
           IsOutcome(all, complete, mt, dn, ev),
           NEW after, after = EvaluatedRows(all, MatchedRows(all), complete)
    PROVE  /\ IsStored(after) /\ Settled(after, complete)
           /\ \A row \in after : row.state # "" /\ (row.state = "MISSING_OWN" => ~IsOwn(row))
           /\ ComparedWith(all, mt, dn, ev, after)
<1>1. \A e \in after : \E r \in all : e = ev[r]
  BY DEF IsOutcome
<1>2. \A r \in all : ev[r] \in after /\ ev[r].id = r.id /\ IsOwn(ev[r]) = IsOwn(r)
                     /\ ev[r].payable = r.payable /\ ev[r].confidence = r.confidence
                     /\ ev[r].state = dn[r].state /\ ev[r].own = dn[r].own
                     /\ ev[r].signature = mt[r].combination.signature
                     /\ (ev[r].comparable => ev[r].decision # "REJECTED")
                     /\ (confirmedInStockPrice(ev[r]) <=> confirmedInStockPrice(r))
                     /\ (IsSigned(mt[r]) <=> mt[r].combination.signature # NoSignature)
  <2> TAKE r \in all
  <2>1. ev[r] \in after
    BY DEF IsOutcome
  <2>2. /\ ev[r].id = r.id /\ IsOwn(ev[r]) = IsOwn(r)
        /\ ev[r].payable = r.payable /\ ev[r].confidence = r.confidence
        /\ ev[r].state = dn[r].state /\ ev[r].own = dn[r].own
        /\ ev[r].signature = mt[r].combination.signature
    BY DEF IsOutcome
  <2>3. /\ ev[r].comparable => ev[r].decision # "REJECTED"
        /\ confirmedInStockPrice(ev[r]) <=> confirmedInStockPrice(r)
        /\ IsSigned(mt[r]) <=> mt[r].combination.signature # NoSignature
    BY DEF IsOutcome
  <2> QED
    BY <2>1, <2>2, <2>3
<1>3. \A r, o \in all : r.id = o.id => r = o
  BY DEF IsEvaluable, IsStored
<1>4. \A r \in all : r.confidence = "CONFIRMED" => r.payable \in Int
  BY DEF IsEvaluable, IsStored
<1>5. IsStored(after)
  BY <1>1, <1>2, <1>3, <1>4 DEF IsStored
<1>6. \A r \in all : /\ dn[r].state \in {"MATCHED", "MISSING_OWN", "REVIEW", "OWN", "EXCLUDED"}
                     /\ dn[r].state = "MISSING_OWN" => ~IsOwn(r) /\ complete
  BY DEF IsOutcome
<1>7. ASSUME NEW r \in all, dn[r].state = "MATCHED"
      PROVE  \E own \in all :
                /\ mt[own] = Cheapest(Baselines(MatchedRows(all), mt[r]))
                /\ SelectedOwn(after, ev[r]) = {ev[own]}
                /\ ~IsOwn(r) /\ confirmedInStockPrice(r) /\ confirmedInStockPrice(own)
                /\ IsSigned(mt[r])
  <2>1. PICK own \in all :
           /\ mt[own] = Cheapest(Baselines(MatchedRows(all), mt[r])) /\ dn[r].own = own.id
           /\ IsOwn(own) /\ confirmedInStockPrice(own)
           /\ ~IsOwn(r) /\ confirmedInStockPrice(r) /\ IsSigned(mt[r])
           /\ mt[own].combination.signature = mt[r].combination.signature
    BY <1>7 DEF IsOutcome
  <2>2. ev[own] \in SelectedOwn(after, ev[r])
    <3>1. ev[own] \in after /\ IsOwn(ev[own]) /\ ev[own].id = ev[r].own
      BY <1>2, <2>1
    <3>2. ev[r].signature # NoSignature /\ ev[own].signature = ev[r].signature
      BY <1>2, <2>1
    <3> QED
      BY <3>1, <3>2 DEF SelectedOwn
  <2>3. SelectedOwn(after, ev[r]) = {ev[own]}
    BY <1>5, <2>2, SelectedOnce
  <2> QED
    BY <2>1, <2>3
<1>8. Settled(after, complete)
  <2> SUFFICES ASSUME NEW e \in after
               PROVE  /\ e.state \in {"", "MATCHED", "MISSING_OWN", "REVIEW", "OWN", "EXCLUDED"}
                      /\ e.state = "MATCHED" => SelectedOwn(after, e) # {}
                      /\ e.state = "MISSING_OWN" => complete
                      /\ e.comparable => e.decision # "REJECTED"
    BY DEF Settled
  <2>1. PICK r \in all : e = ev[r]
    BY <1>1
  <2>2. e.state = "MATCHED" => SelectedOwn(after, e) # {}
    <3> SUFFICES ASSUME e.state = "MATCHED" PROVE SelectedOwn(after, e) # {}
      OBVIOUS
    <3>1. dn[r].state = "MATCHED"
      BY <1>2, <2>1
    <3>2. PICK own \in all : SelectedOwn(after, ev[r]) = {ev[own]}
      BY <1>7, <3>1
    <3> QED
      BY <2>1, <3>2
  <2> QED
    BY <1>2, <1>6, <2>1, <2>2
<1>9. \A row \in after : row.state # "" /\ (row.state = "MISSING_OWN" => ~IsOwn(row))
  <2> TAKE e \in after
  <2>1. PICK r \in all : e = ev[r]
    BY <1>1
  <2>2. e.state = dn[r].state /\ IsOwn(e) = IsOwn(r)
    BY <1>2, <2>1
  <2> QED
    BY <1>6, <2>2
<1>10. ComparedWith(all, mt, dn, ev, after)
  BY <1>7 DEF ComparedWith
<1> QED
  BY <1>5, <1>8, <1>9, <1>10

(* The lower prices recorded are those the rows tell ...                   *)
LEMMA OutcomeTellsLows ==
    ASSUME NEW all, IsEvaluable(all), NEW complete, NEW mt, NEW dn, NEW ev,
           IsOutcome(all, complete, mt, dn, ev),
           NEW after, after = EvaluatedRows(all, MatchedRows(all), complete)
    PROVE  TellsLows(after, AlertCandidates(MatchedRows(all), complete))
<1> DEFINE matched == MatchedRows(all)
           Own(m) == Cheapest(Baselines(matched, m))
           Under == {m \in matched : /\ ~IsOwn(m) /\ IsSigned(m)
                                     /\ Decision(matched, complete, m).state = "MATCHED"
                                     /\ m.payable < Own(m).payable}
<1>1. \A x : x \in AlertCandidates(matched, complete) <=> \E m \in Under : x = Low(m, Own(m))
  BY DEF AlertCandidates, Low
<1>2. /\ \A m \in matched : \E r \in all : m = mt[r]
      /\ \A e \in after : \E r \in all : e = ev[r]
      /\ \A r \in all : mt[r] \in matched /\ ev[r] \in after
  BY DEF IsOutcome
<1>3. \A r \in all : /\ mt[r].id = r.id /\ mt[r].payable = r.payable /\ IsOwn(mt[r]) = IsOwn(r)
                     /\ dn[r] = Decision(matched, complete, mt[r])
                     /\ ev[r].id = r.id /\ ev[r].payable = r.payable /\ IsOwn(ev[r]) = IsOwn(r)
                     /\ ev[r].state = dn[r].state
                     /\ (confirmedInStockPrice(ev[r]) <=> confirmedInStockPrice(r))
  BY DEF IsOutcome
<1>4. \A r \in all : dn[r].state = "MATCHED" => \E own \in all :
         /\ mt[own] = Own(mt[r]) /\ SelectedOwn(after, ev[r]) = {ev[own]}
         /\ ~IsOwn(r) /\ confirmedInStockPrice(r) /\ confirmedInStockPrice(own)
         /\ IsSigned(mt[r])
  <2>1. \A r \in all : dn[r].state = "MATCHED" => \E own \in all :
           /\ mt[own] = Cheapest(Baselines(MatchedRows(all), mt[r]))
           /\ SelectedOwn(after, ev[r]) = {ev[own]}
           /\ ~IsOwn(r) /\ confirmedInStockPrice(r) /\ confirmedInStockPrice(own)
           /\ IsSigned(mt[r])
    <3> HIDE DEF Own, Under, matched
    <3>1. ComparedWith(all, mt, dn, ev, after)
      BY OutcomeSettled
    <3> QED
      BY <3>1 DEF ComparedWith
  <2>2. \A m : Own(m) = Cheapest(Baselines(MatchedRows(all), m))
    OBVIOUS
  <2> HIDE DEF Own, Under, matched
  <2> QED
    BY <2>1, <2>2
<1>5. \A r \in all : r.confidence = "CONFIRMED" => r.payable \in Int
  BY DEF IsEvaluable, IsStored
<1> SUFFICES ASSUME NEW x
             PROVE  (\E m \in Under : x = Low(m, Own(m)))
                       <=> \E row, own \in after : IsLow(after, row, own) /\ x = Low(row, own)
  <2>1. PICK lows : lows = AlertCandidates(matched, complete)
    OBVIOUS
  <2>2. \A x : x \in lows <=> \E m \in Under : x = Low(m, Own(m))
    BY <1>1, <2>1
  <2> HIDE DEF Own, Under, matched
  <2> QED
    BY <2>1, <2>2 DEF TellsLows, matched
<1>6. ASSUME NEW m \in Under, x = Low(m, Own(m))
      PROVE  \E row, own \in after : IsLow(after, row, own) /\ x = Low(row, own)
  <2>1. PICK r \in all : m = mt[r]
    BY <1>2
  <2>2. dn[r].state = "MATCHED" /\ m.payable < Own(m).payable
    BY <1>3, <2>1
  <2>3. PICK own \in all :
           /\ mt[own] = Own(mt[r]) /\ SelectedOwn(after, ev[r]) = {ev[own]}
           /\ ~IsOwn(r) /\ confirmedInStockPrice(r) /\ confirmedInStockPrice(own)
           /\ IsSigned(mt[r])
    BY <1>4, <2>2
  <2> HIDE DEF Own, Under, matched
  <2>4. r.payable \in Int /\ own.payable \in Int /\ r.payable < own.payable
    BY <1>3, <1>5, <2>1, <2>2, <2>3 DEF confirmedInStockPrice
  <2>5. IsLow(after, ev[r], ev[own])
    <3>1. ~IsOwn(ev[r]) /\ ev[r].state = "MATCHED" /\ confirmedInStockPrice(ev[r])
          /\ ev[own] \in SelectedOwn(after, ev[r]) /\ confirmedInStockPrice(ev[own])
      BY <1>3, <2>2, <2>3
    <3>2. ev[own].payable > ev[r].payable
      BY <1>3, <2>4
    <3> QED
      BY <3>1, <3>2 DEF IsLow
  <2>6. x = Low(ev[r], ev[own])
    BY <1>3, <1>6, <2>1, <2>3 DEF Low
  <2> QED
    BY <1>2, <2>5, <2>6
<1>7. ASSUME NEW row \in after, NEW low \in after, IsLow(after, row, low), x = Low(row, low)
      PROVE  \E m \in Under : x = Low(m, Own(m))
  <2>1. PICK r \in all : row = ev[r]
    BY <1>2
  <2>2. dn[r].state = "MATCHED" /\ low \in SelectedOwn(after, ev[r]) /\ low.payable > row.payable
    BY <1>3, <1>7, <2>1 DEF IsLow
  <2>3. PICK own \in all :
           /\ mt[own] = Own(mt[r]) /\ SelectedOwn(after, ev[r]) = {ev[own]}
           /\ ~IsOwn(r) /\ confirmedInStockPrice(r) /\ confirmedInStockPrice(own)
           /\ IsSigned(mt[r])
    BY <1>4, <2>2
  <2>4. low = ev[own]
    BY <2>2, <2>3
  <2> HIDE DEF Own
  <2>5. mt[r].payable < Own(mt[r]).payable
    <3>1. r.payable \in Int /\ own.payable \in Int
      BY <1>5, <2>3 DEF confirmedInStockPrice
    <3>2. own.payable > r.payable
      BY <1>3, <2>1, <2>2, <2>4
    <3>3. mt[r].payable = r.payable /\ Own(mt[r]).payable = own.payable
      BY <1>3, <2>3
    <3> QED
      BY <3>1, <3>2, <3>3
  <2>6. mt[r] \in Under
    <3>1. mt[r] \in matched /\ ~IsOwn(mt[r]) /\ IsSigned(mt[r])
          /\ Decision(matched, complete, mt[r]).state = "MATCHED"
      BY <1>2, <1>3, <2>2, <2>3
    <3> QED
      BY <2>5, <3>1 DEF Under
  <2>7. x = Low(mt[r], Own(mt[r]))
    BY <1>3, <1>7, <2>1, <2>3, <2>4 DEF Low
  <2> QED
    BY <2>6, <2>7
<1> HIDE DEF Under, Own
<1> QED
  BY <1>6, <1>7

(* ... and so are the missing combinations.                                *)
LEMMA OutcomeTellsMissing ==
    ASSUME NEW all, IsEvaluable(all), NEW complete, NEW mt, NEW dn, NEW ev,
           IsOutcome(all, complete, mt, dn, ev),
           NEW after, after = EvaluatedRows(all, MatchedRows(all), complete)
    PROVE  TellsMissing(after, MissingOwnGroups(MatchedRows(all), complete))
<1> DEFINE matched == MatchedRows(all)
           missing == {m \in matched : Decision(matched, complete, m).state = "MISSING_OWN"}
           Like(m) == {other \in missing : SameGoods(other, m)}
           Group(m) == [signature |-> m.combination.signature,
                        offers    |-> {other.id : other \in Like(m)},
                        reasons   |-> Decision(matched, complete, m).reasons,
                        minimum   |-> Min({other.payable : other \in Like(m)})]
           absent == Absent(after)
<1>1. MissingOwnGroups(matched, complete) = {Group(m) : m \in missing}
  BY DEF MissingOwnGroups
<1>2. /\ \A m \in matched : \E r \in all : m = mt[r]
      /\ \A e \in after : \E r \in all : e = ev[r]
      /\ \A r \in all : mt[r] \in matched /\ ev[r] \in after
  BY DEF IsOutcome
<1>3. \A r \in all : /\ mt[r].id = r.id /\ mt[r].payable = r.payable
                     /\ dn[r] = Decision(matched, complete, mt[r])
                     /\ ev[r].id = r.id /\ ev[r].payable = r.payable
                     /\ ev[r].state = dn[r].state /\ ev[r].reasons = dn[r].reasons
                     /\ ev[r].signature = mt[r].combination.signature
                     /\ (confirmedInStockPrice(ev[r]) <=> confirmedInStockPrice(r))
  BY DEF IsOutcome
<1>4. \A r \in all : dn[r].state = "MISSING_OWN" =>
         /\ mt[r].combination.signature # NoSignature /\ confirmedInStockPrice(r)
         /\ dn[r].reasons = {IF OwnWith(matched, mt[r]) = {} THEN "OWN_COMBINATION_ABSENT"
                             ELSE "OWN_OUT_OF_STOCK_ONLY"}
  BY DEF IsOutcome
<1> HIDE DEF matched
<1>5. \A r \in all : /\ mt[r] \in missing <=> dn[r].state = "MISSING_OWN"
                     /\ ev[r] \in absent <=> dn[r].state = "MISSING_OWN"
  BY <1>2, <1>3, <1>4 DEF Absent
<1>6. /\ \A m \in missing : \E r \in all : m = mt[r] /\ dn[r].state = "MISSING_OWN"
      /\ \A e \in absent : \E r \in all : e = ev[r] /\ dn[r].state = "MISSING_OWN"
  BY <1>2, <1>3 DEF Absent
<1>7. ASSUME NEW r \in all, dn[r].state = "MISSING_OWN"
      PROVE  Group(mt[r]) = Sold(absent, ev[r])
  <2> DEFINE like == Offers(absent, ev[r])
             sure == {other \in like : confirmedInStockPrice(other)}
             sold == Like(mt[r])
  <2> HIDE DEF missing, absent
  <2>1. /\ \A m \in sold : \E o \in all : m = mt[o] /\ ev[o] \in like
        /\ \A e \in like : \E o \in all : e = ev[o] /\ mt[o] \in sold
    <3>1. \A o \in all : mt[o] \in sold <=> ev[o] \in like
      BY <1>3, <1>5 DEF Offers, SameGoods
    <3>2. \A m \in sold : m \in missing
      OBVIOUS
    <3>3. \A e \in like : e \in absent
      BY DEF Offers
    <3> HIDE DEF sold, like
    <3> QED
      BY <1>6, <3>1, <3>2, <3>3
  <2>2. \A e \in like : \E o \in all : e = ev[o] /\ dn[o].state = "MISSING_OWN" /\ ev[o].signature = ev[r].signature
    BY <1>6 DEF Offers
  <2>3. ev[r] \in like
    BY <1>5, <1>7 DEF Offers
  <2> HIDE DEF like, sold
  <2>4. /\ {other.id : other \in sold} = {other.id : other \in like}
        /\ {other.payable : other \in sold} = {other.payable : other \in like}
    BY <1>3, <2>1
  <2>5. sure = like
    BY <1>3, <1>4, <2>2
  <2>6. \A e \in like : e.reasons = dn[r].reasons
    <3> TAKE e \in like
    <3>1. PICK o \in all : e = ev[o] /\ dn[o].state = "MISSING_OWN" /\ ev[o].signature = ev[r].signature
      BY <2>2
    <3>2. OwnWith(matched, mt[o]) = OwnWith(matched, mt[r])
      <4>1. mt[o].combination.signature = mt[r].combination.signature
        BY <1>3, <3>1
      <4> QED
        BY <4>1 DEF OwnWith, SameGoods
    <3>3. dn[o].reasons = dn[r].reasons
      BY <1>4, <1>7, <3>1, <3>2
    <3> QED
      BY <1>3, <3>1, <3>3
  <2>7. (IF \E other \in like : "OWN_OUT_OF_STOCK_ONLY" \in other.reasons
         THEN {"OWN_OUT_OF_STOCK_ONLY"} ELSE {"OWN_COMBINATION_ABSENT"}) = dn[r].reasons
    <3>1. (\E other \in like : "OWN_OUT_OF_STOCK_ONLY" \in other.reasons)
             <=> "OWN_OUT_OF_STOCK_ONLY" \in dn[r].reasons
      BY <2>3, <2>6
    <3>2. dn[r].reasons \in {{"OWN_OUT_OF_STOCK_ONLY"}, {"OWN_COMBINATION_ABSENT"}}
      BY <1>4, <1>7
    <3>3. "OWN_OUT_OF_STOCK_ONLY" \notin {"OWN_COMBINATION_ABSENT"}
      OBVIOUS
    <3> QED
      BY <3>1, <3>2, <3>3
  <2>8. like # {}
    BY <2>3
  <2>9. PICK ids, paid, rs, s : /\ ids = {other.id : other \in like}
                                /\ paid = {other.payable : other \in like}
                                /\ rs = dn[r].reasons /\ s = ev[r].signature
    OBVIOUS
  <2>10. Group(mt[r]) = [signature |-> s, offers |-> ids, reasons |-> rs, minimum |-> Min(paid)]
    BY <1>3, <2>4, <2>9 DEF sold
  <2>11. Sold(absent, ev[r]) = [signature |-> s, offers |-> ids, reasons |-> rs, minimum |-> Min(paid)]
    BY <2>5, <2>7, <2>8, <2>9 DEF Sold, like, sure
  <2> QED
    BY <2>10, <2>11
<1> HIDE DEF missing, Group, absent
<1>8. {Group(m) : m \in missing} = {Sold(absent, e) : e \in absent}
  BY <1>5, <1>6, <1>7
<1> QED
  BY <1>1, <1>8 DEF TellsMissing, matched, absent

(* What an evaluation found is what its rows tell.                         *)
Pictured(all, complete, lows, missing) ==
    /\ IsStored(all) /\ Settled(all, complete)
    /\ \A row \in all : row.state # "" /\ (row.state = "MISSING_OWN" => ~IsOwn(row))
    /\ TellsLows(all, lows) /\ TellsMissing(all, missing)

LEMMA EvaluationPictured ==
    ASSUME NEW all, IsEvaluable(all), NEW complete,
           NEW matched, matched = MatchedRows(all)
    PROVE  Pictured(EvaluatedRows(all, matched, complete), complete,
                    AlertCandidates(matched, complete), MissingOwnGroups(matched, complete))
<1>1. PICK after : after = EvaluatedRows(all, matched, complete)
  OBVIOUS
<1>2. PICK mt, dn, ev : IsOutcome(all, complete, mt, dn, ev)
  BY Outcome
<1>3. after = EvaluatedRows(all, MatchedRows(all), complete)
  BY <1>1
<1>4. /\ IsStored(after) /\ Settled(after, complete)
      /\ \A row \in after : row.state # "" /\ (row.state = "MISSING_OWN" => ~IsOwn(row))
  BY <1>2, <1>3, OutcomeSettled
<1>5. TellsLows(after, AlertCandidates(MatchedRows(all), complete))
  BY <1>2, <1>3, OutcomeTellsLows
<1>6. TellsMissing(after, MissingOwnGroups(MatchedRows(all), complete))
  BY <1>2, <1>3, OutcomeTellsMissing
<1> QED
  BY <1>1, <1>4, <1>5, <1>6 DEF Pictured

-----------------------------------------------------------------------------
(* Whether something of ours was missed.                                   *)

(* Whether something of ours may have been missed can be told from the     *)
(* report: the rows are of its listings, items and SKUs, and nothing the   *)
(* evaluation adds to its failures hides one of them.                      *)
LEMMA StaysComplete ==
    ASSUME NEW skus, NEW all, RowsOfReport(all, skus), NEW known, NEW found,
           found \subseteq known \cup {BaselineMissing},
           deriveOwnCatalogCompleteness(Listings, skus, known)
    PROVE  deriveOwnCatalogCompleteness(Listings, all, found)
<1> DEFINE ours == {sku \in skus : sku.listing \in Listings}
           kept == {row \in all : row.listing \in Listings}
<1>1. \A row \in kept : \E sku \in ours : RowOf(row, sku)
  BY DEF RowsOfReport, RowOf
<1>2. \A sku \in ours : \E row \in kept : RowOf(row, sku)
  BY DEF RowsOfReport, RowOf
<1>3. /\ Listings # {} /\ Listings \subseteq {sku.listing : sku \in ours}
      /\ \A issue \in known :
            /\ issue.code \notin UnattributedFailures
            /\ issue.code \in OwnItemDetailFailures => issue.item \notin {sku.item : sku \in ours}
            /\ issue.code \in OwnItemDetailFailures /\ issue.item = 0
                  => issue.sku \notin {sku.sku : sku \in ours}
  BY DEF deriveOwnCatalogCompleteness
<1> HIDE DEF ours, kept
<1>4. /\ {row.listing : row \in kept} = {sku.listing : sku \in ours}
      /\ {row.item : row \in kept} = {sku.item : sku \in ours}
      /\ {row.sku : row \in kept} = {sku.sku : sku \in ours}
  BY <1>1, <1>2 DEF RowOf
<1>5. BaselineMissing.code \notin UnattributedFailures \cup OwnItemDetailFailures
  BY DEF BaselineMissing, UnattributedFailures, OwnItemDetailFailures
<1>6. \A issue \in found :
         /\ issue.code \notin UnattributedFailures
         /\ issue.code \in OwnItemDetailFailures => issue.item \notin {row.item : row \in kept}
         /\ issue.code \in OwnItemDetailFailures /\ issue.item = 0
               => issue.sku \notin {row.sku : row \in kept}
  BY <1>3, <1>4, <1>5
<1> QED
  BY <1>3, <1>4, <1>6 DEF deriveOwnCatalogCompleteness, kept

(* So an evaluation that missed nothing was of a report that did not.      *)
LEMMA WasComplete ==
    ASSUME NEW skus, NEW all, RowsOfReport(all, skus), NEW known, NEW found,
           known \subseteq found, deriveOwnCatalogCompleteness(Listings, all, found)
    PROVE  deriveOwnCatalogCompleteness(Listings, skus, known)
<1> DEFINE ours == {sku \in skus : sku.listing \in Listings}
           kept == {row \in all : row.listing \in Listings}
<1>1. \A row \in kept : \E sku \in ours : RowOf(row, sku)
  BY DEF RowsOfReport, RowOf
<1>2. \A sku \in ours : \E row \in kept : RowOf(row, sku)
  BY DEF RowsOfReport, RowOf
<1>3. /\ Listings # {} /\ Listings \subseteq {row.listing : row \in kept}
      /\ \A issue \in found :
            /\ issue.code \notin UnattributedFailures
            /\ issue.code \in OwnItemDetailFailures => issue.item \notin {row.item : row \in kept}
            /\ issue.code \in OwnItemDetailFailures /\ issue.item = 0
                  => issue.sku \notin {row.sku : row \in kept}
  BY DEF deriveOwnCatalogCompleteness
<1> HIDE DEF ours, kept
<1>4. /\ {row.listing : row \in kept} = {sku.listing : sku \in ours}
      /\ {row.item : row \in kept} = {sku.item : sku \in ours}
      /\ {row.sku : row \in kept} = {sku.sku : sku \in ours}
  BY <1>1, <1>2 DEF RowOf
<1>5. \A issue \in known :
         /\ issue.code \notin UnattributedFailures
         /\ issue.code \in OwnItemDetailFailures => issue.item \notin {sku.item : sku \in ours}
         /\ issue.code \in OwnItemDetailFailures /\ issue.item = 0
               => issue.sku \notin {sku.sku : sku \in ours}
  BY <1>3, <1>4
<1> QED
  BY <1>3, <1>4, <1>5 DEF deriveOwnCatalogCompleteness, ours

(* A confirmed price is a number.                                          *)
LEMMA ConfirmedIsNumber ==
    ASSUME Calculated, NEW sku \in report.skus, price[sku].confidence = "CONFIRMED"
    PROVE  price[sku].payable \in Int
<1>1. PICK e, p, parts : /\ e = CapturedEvidence(sku) /\ p = Captured(sku)
                         /\ parts = PP!derivePromotionDiscounts(e.activity, e.promotions)
  OBVIOUS
<1>2. price[sku] = p
  BY <1>1 DEF Calculated
<1>3. IsEvidence(e) /\ PricedBy(e, p)
  BY <1>1, CapturedIsPriced DEF Calculated
<1>4. p.confidence = "CONFIRMED" => p.payable = e.activity - PP!PublicDiscount(parts) + e.fee
  BY <1>1, <1>3 DEF PricedBy
<1>5. e.activity - PP!PublicDiscount(parts) + e.fee \in Int
  BY <1>1, <1>3, SumIsNumber
<1> QED
  BY <1>2, <1>4, <1>5

-----------------------------------------------------------------------------
(* What the reads of a page find.                                          *)

(* What a read of the database may find of a run: nothing, or its report,  *)
(* not evaluated or as one of the evaluations left it.                     *)
IsUntold(all) == \A row \in all : row.state = "" /\ ~row.comparable

ToldBy(all, done) == Pictured(all, done.complete, done.lows, done.missing)

EmptyDb(db) == db.rows = {} /\ db.positions = <<>> /\ db.issues = {}

StoredDb(db, captured, evaluations) ==
    /\ db.positions = captured.positions
    /\ db.issues \subseteq captured.issues \cup {BaselineMissing}
    /\ RowsOfReport(db.rows, captured.skus) /\ IsStored(db.rows)
    /\ IsUntold(db.rows) \/ \E i \in DOMAIN evaluations : ToldBy(db.rows, evaluations[i])

(* A complete evaluation is one of a complete report.                      *)
CompleteOfReport(captured, evaluations) ==
    \A i \in DOMAIN evaluations :
        evaluations[i].complete => deriveOwnCatalogCompleteness(Listings, captured.skus, captured.issues)

IsPage(p) == p = [type |-> p.type, head |-> p.head, seen |-> p.seen]

(* The head of a page promises nothing, or what every read of it finds.    *)
HeadTells(p, captured, evaluations) ==
    \/ p.head.skus = 0 /\ p.head.positions = 0
    \/ /\ p.head.skus = Cardinality(captured.skus) /\ p.head.positions = Len(captured.positions)
       /\ \A db \in p.seen : StoredDb(db, captured, evaluations)

(* Every read found nothing, or the report.                                *)
PageSees(p, status, captured, evaluations) ==
    /\ \A db \in p.seen : \/ EmptyDb(db)
                          \/ status = "REPORTED" /\ StoredDb(db, captured, evaluations)
    /\ HeadTells(p, captured, evaluations)

(* The invariant of the reads of a page.                                   *)
PageInv ==
    /\ run.status = "REPORTED" => StoredDb(Db, report, decided)
    /\ CompleteOfReport(report, decided)
    /\ page = NoPage \/ (IsPage(page) /\ page.seen # {} /\ PageSees(page, run.status, report, decided))

LEMMA PageInit == Init => PageInv
BY DEF Init, PageInv, CompleteOfReport

(* Evaluations are added and none is lost.                                 *)
Continues(evaluations, earlier) ==
    \A i \in DOMAIN earlier : i \in DOMAIN evaluations /\ evaluations[i] = earlier[i]

LEMMA StaysStored ==
    ASSUME NEW db, NEW captured, NEW earlier, StoredDb(db, captured, earlier),
           NEW evaluations, Continues(evaluations, earlier)
    PROVE  StoredDb(db, captured, evaluations)
BY DEF StoredDb, Continues

(* Recording an evaluation adds one.                                       *)
LEMMA AppendContinues ==
    ASSUME NEW s, IsSequence(s), NEW e
    PROVE  /\ Continues(Append(s, e), s)
           /\ Len(Append(s, e)) \in DOMAIN Append(s, e)
           /\ Append(s, e)[Len(Append(s, e))] = e
           /\ \A i \in DOMAIN Append(s, e) : i \in DOMAIN s \/ Append(s, e)[i] = e
<1> DEFINE S == {s[i] : i \in 1..Len(s)}
           t == Append(s, e)
<1>1. s \in Seq(S)
  BY DEF IsSequence
<1> HIDE DEF S
<1>2. s \in Seq(S \cup {e})
  BY <1>1
<1>3. t \in Seq(S \cup {e}) /\ Len(t) = Len(s) + 1 /\ Len(s) \in Nat
  BY <1>2
<1>4. /\ \A i \in 1..Len(s) : t[i] = s[i]
      /\ t[Len(s) + 1] = e
  BY <1>2
<1>5. DOMAIN s = 1..Len(s) /\ DOMAIN t = 1..Len(t)
  BY <1>2, <1>3
<1> HIDE DEF t
<1>6. Continues(t, s)
  BY <1>3, <1>4, <1>5 DEF Continues
<1>7. Len(t) \in DOMAIN t /\ t[Len(t)] = e
  BY <1>3, <1>4, <1>5
<1>8. \A i \in DOMAIN t : i \in DOMAIN s \/ t[i] = e
  BY <1>3, <1>4, <1>5
<1> QED
  BY <1>6, <1>7, <1>8 DEF t

(* A page being put together sees what was written.                        *)
LEMMA PageWatched ==
    ASSUME PageInv, Watched, report' = report, Continues(decided', decided),
           run'.status = "REPORTED", StoredDb(Db', report, decided'),
           CompleteOfReport(report, decided')
    PROVE  PageInv'
<1>1. PICK p, q, captured, earlier, evaluations, status, db :
         /\ p = page /\ q = page' /\ captured = report /\ earlier = decided
         /\ evaluations = decided' /\ status = run.status /\ db = Db'
  OBVIOUS
<1>2. q = IF p = NoPage THEN p ELSE [p EXCEPT !.seen = @ \cup {db}]
  BY <1>1 DEF Watched
<1>3. StoredDb(db, captured, evaluations) /\ Continues(evaluations, earlier)
  BY <1>1
<1>4. p = NoPage \/ (IsPage(p) /\ p.seen # {} /\ PageSees(p, status, captured, earlier))
  BY <1>1 DEF PageInv
<1>5. q = NoPage \/ (IsPage(q) /\ q.seen # {} /\ PageSees(q, "REPORTED", captured, evaluations))
  <2>1. CASE p = NoPage
    BY <1>2, <2>1
  <2>2. CASE p # NoPage
    <3>1. q = [p EXCEPT !.seen = @ \cup {db}] /\ IsPage(p) /\ PageSees(p, status, captured, earlier)
      BY <1>2, <1>4, <2>2
    <3>2. IsPage(q) /\ q.seen = p.seen \cup {db} /\ q.head = p.head
      BY <3>1 DEF IsPage
    <3>3. \A old \in p.seen : /\ EmptyDb(old) \/ StoredDb(old, captured, earlier)
                              /\ StoredDb(old, captured, earlier) => StoredDb(old, captured, evaluations)
      BY <1>3, <3>1, StaysStored DEF PageSees
    <3>4. \A new \in q.seen : EmptyDb(new) \/ StoredDb(new, captured, evaluations)
      BY <1>3, <3>2, <3>3
    <3>5. HeadTells(q, captured, evaluations)
      BY <1>3, <3>1, <3>2, <3>3 DEF PageSees, HeadTells
    <3> QED
      BY <3>2, <3>4, <3>5 DEF PageSees
  <2> QED
    BY <2>1, <2>2
<1>6. page' = NoPage \/ (IsPage(page)' /\ page'.seen # {} /\ PageSees(page', "REPORTED", report, decided'))
  BY <1>1, <1>5 DEF IsPage
<1> QED
  BY <1>6 DEF PageInv

(* Storing the report.                                                     *)
LEMMA PageIngest ==
    ASSUME IInv, Calculated, PageInv, Ingest
    PROVE  PageInv'
<1>1. /\ report \in Reports /\ decided = <<>> /\ report' = report /\ decided' = decided
      /\ positions' = report.positions /\ issues' = report.issues
      /\ rows' = {snapshotValues(sku) : sku \in report.skus} /\ Watched
  BY DEF IInv, Empty, Ingest
<1>2. run'.status = "REPORTED" /\ RowsOfReport(rows', report.skus)
  <2>1. PICK answer, covered, counts : /\ answer = summary /\ counts = expectedCounters
                                       /\ covered = report.covered
    OBVIOUS
  <2>2. run' = [run EXCEPT !.status = "REPORTED", !.covered = covered,
                           !.counts = counts, !.answer = answer]
    BY <2>1 DEF Ingest
  <2>3. run'.status = "REPORTED"
    BY <2>2 DEF IInv, IsRun
  <2>4. IInv'
    BY IngestStep
  <2>5. Reported'
    BY <2>3, <2>4 DEF IInv
  <2> QED
    BY <1>1, <2>3, <2>5 DEF Reported
<1>3. \A sku \in report.skus :
         /\ snapshotValues(sku).state = "" /\ ~snapshotValues(sku).comparable
         /\ snapshotValues(sku).confidence = price[sku].confidence
         /\ snapshotValues(sku).payable = price[sku].payable
  BY DEF snapshotValues
<1>4. IsStored(rows') /\ IsUntold(rows')
  <2>1. \A row, other \in rows' : row.id = other.id => row = other
    BY <1>2 DEF RowsOfReport
  <2>2. \A row \in rows' : row.confidence = "CONFIRMED" => row.payable \in Int
    BY <1>1, <1>3, ConfirmedIsNumber
  <2> QED
    BY <1>1, <1>3, <2>1, <2>2 DEF IsStored, IsUntold
<1>5. /\ Db'.rows = rows' /\ Db'.positions = positions' /\ Db'.issues = issues'
  BY DEF Db
<1>6. StoredDb(Db', report, decided')
  BY <1>1, <1>2, <1>4, <1>5 DEF StoredDb
<1>7. CompleteOfReport(report, decided') /\ Continues(decided', decided)
  BY <1>1 DEF CompleteOfReport, Continues
<1> QED
  BY <1>1, <1>2, <1>6, <1>7, PageWatched

(* Stored rows can be evaluated.                                           *)
LEMMA StoredEvaluable ==
    ASSUME NEW captured \in Reports, NEW all, RowsOfReport(all, captured.skus), IsStored(all)
    PROVE  IsEvaluable(all)
<1>1. \A sku \in captured.skus : sku.id \in Nat /\ sku.item \in Nat /\ sku.sku \in Nat
  BY ReportsAssumption
<1>2. \A row \in all : IsRow(row) /\ row.id \in Nat /\ row.item \in Nat /\ row.sku \in Nat
  BY <1>1 DEF RowsOfReport, RowOf
<1> QED
  BY <1>2 DEF IsEvaluable

(* Evaluating the run.                                                     *)
LEMMA PageEvaluate ==
    ASSUME IInv, PageInv, Evaluate
    PROVE  PageInv'
<1>1. /\ report \in Reports /\ IsRun(run) /\ run.status = "REPORTED" /\ Reported /\ IsSequence(decided)
      /\ report' = report /\ positions' = positions /\ Watched
  BY DEF IInv, Evaluate
<1>2. PICK data, matched :
         /\ matched = MatchedRows(rows)
         /\ data.complete = deriveOwnCatalogCompleteness(Listings, rows, issues)
         /\ data.seen = (\E row \in rows : row.listing \in Listings)
         /\ EvaluatedFrom(data, matched)
  BY EvaluateReads
<1> DEFINE created == ensureBaselineIssue(data.seen)
           record  == [rule |-> rule, complete |-> data.complete,
                       lows |-> AlertCandidates(matched, data.complete),
                       missing |-> MissingOwnGroups(matched, data.complete)]
<1>3. /\ rows' = EvaluatedRows(rows, matched, data.complete)
      /\ run' = [run EXCEPT !.baseline = PrimaryOwn(matched), !.counts.failed = @ + created]
      /\ issues' = IF data.seen THEN issues ELSE issues \cup {BaselineMissing}
      /\ decided' = Append(decided, record)
  BY <1>2 DEF EvaluatedFrom
<1> HIDE DEF created
<1>4. run'.status = "REPORTED"
  BY <1>1, <1>3 DEF IsRun
<1>5. StoredDb(Db, report, decided)
  BY <1>1 DEF PageInv
<1>6. PICK all, done, later, captured, found, e :
         /\ all = rows /\ done = decided /\ later = decided' /\ captured = report
         /\ found = issues /\ e = record
  OBVIOUS
<1>7. /\ captured \in Reports /\ RowsOfReport(all, captured.skus) /\ IsStored(all)
      /\ found \subseteq captured.issues \cup {BaselineMissing} /\ captured.issues \subseteq found
      /\ positions = captured.positions
  <2>1. Db.rows = rows /\ Db.issues = issues /\ Db.positions = positions
    BY DEF Db
  <2> QED
    BY <1>1, <1>5, <1>6, <2>1 DEF StoredDb, Reported
<1>8. /\ Continues(later, done) /\ Len(later) \in DOMAIN later /\ later[Len(later)] = e
      /\ \A i \in DOMAIN later : i \in DOMAIN done \/ later[i] = e
  BY <1>1, <1>3, <1>6, AppendContinues
<1>9. CompleteOfReport(captured, later)
  <2>1. CompleteOfReport(captured, done)
    BY <1>6 DEF PageInv
  <2>2. e.complete => deriveOwnCatalogCompleteness(Listings, captured.skus, captured.issues)
    <3>1. e.complete = deriveOwnCatalogCompleteness(Listings, all, found)
      BY <1>2, <1>6
    <3> QED
      BY <1>7, <3>1, WasComplete
  <2> QED
    BY <1>8, <2>1, <2>2 DEF CompleteOfReport, Continues
<1>10. PICK after : after = rows'
  OBVIOUS
<1>11. RowsOfReport(after, captured.skus)
  <2>1. PICK whole : whole = data.complete
    OBVIOUS
  <2>2. after = EvaluatedRows(all, matched, whole)
    BY <1>3, <1>6, <1>10, <2>1
  <2> QED
    BY <1>7, <2>2, RowsEvaluated
<1>12. ToldBy(after, e)
  <2>1. PICK whole : whole = data.complete
    OBVIOUS
  <2>2. /\ after = EvaluatedRows(all, matched, whole) /\ matched = MatchedRows(all)
        /\ e.complete = whole /\ e.lows = AlertCandidates(matched, whole)
        /\ e.missing = MissingOwnGroups(matched, whole)
    BY <1>2, <1>3, <1>6, <1>10, <2>1
  <2>3. IsEvaluable(all)
    BY <1>7, StoredEvaluable
  <2> QED
    BY <2>2, <2>3, EvaluationPictured DEF ToldBy
<1>13. /\ Db'.rows = after /\ Db'.positions = positions' /\ Db'.issues = issues'
  BY <1>10 DEF Db
<1>14. StoredDb(Db', captured, later)
  <2>1. IsStored(after)
    BY <1>12 DEF ToldBy, Pictured
  <2>2. issues' \subseteq captured.issues \cup {BaselineMissing}
    BY <1>3, <1>6, <1>7
  <2> QED
    BY <1>1, <1>7, <1>8, <1>11, <1>12, <1>13, <2>1, <2>2 DEF StoredDb
<1> QED
  BY <1>1, <1>4, <1>6, <1>8, <1>9, <1>14, PageWatched

(* A step that changes nothing a page reads.                               *)
LEMMA PageKept ==
    ASSUME PageInv, UNCHANGED <<report, run, rows, positions, issues, decided, page>>
    PROVE  PageInv'
<1>1. Db' = Db
  BY DEF Db
<1> QED
  BY <1>1 DEF PageInv, IsPage

(* Reading the head of a page.                                             *)
LEMMA PageOpened ==
    ASSUME IInv, PageInv, OpenPage
    PROVE  PageInv'
<1>1. /\ report' = report /\ run' = run /\ rows' = rows /\ positions' = positions
      /\ issues' = issues /\ decided' = decided
      /\ page' = [type |-> rule.comparisonType, head |-> completion(toRawRun), seen |-> {Db}]
  BY DEF OpenPage, stored, history
<1>2. IsPage(page)' /\ page'.seen = {Db} /\ Db' = Db
  BY <1>1 DEF IsPage, Db
<1>3. page'.head.skus = Cardinality(rows) /\ page'.head.positions = Len(positions)
  BY <1>1 DEF completion, toRawRun
<1>4. Db.rows = rows /\ Db.positions = positions /\ Db.issues = issues
  BY DEF Db
<1>5. CASE run.status = "RUNNING"
  <2>1. rows = {} /\ positions = <<>> /\ issues = {}
    BY <1>5 DEF IInv, Empty
  <2>2. Cardinality(rows) = 0 /\ Len(positions) = 0
    BY <2>1, FS_EmptySet
  <2>3. PageSees(page', run'.status, report', decided')
    BY <1>2, <1>3, <1>4, <2>1, <2>2 DEF PageSees, EmptyDb, HeadTells
  <2> QED
    BY <1>1, <1>2, <2>3 DEF PageInv
<1>6. CASE run.status = "REPORTED"
  <2>1. StoredDb(Db, report, decided)
    BY <1>6 DEF PageInv
  <2>2. Cardinality(rows) = Cardinality(report.skus) /\ positions = report.positions
    <3>1. report \in Reports /\ Reported
      BY <1>6 DEF IInv
    <3> QED
      BY <3>1, RowsCounted DEF Reported
  <2>3. PageSees(page', run'.status, report', decided')
    BY <1>1, <1>2, <1>3, <1>6, <2>1, <2>2 DEF PageSees, HeadTells
  <2> QED
    BY <1>1, <1>2, <2>3 DEF PageInv
<1> QED
  BY <1>5, <1>6 DEF IInv

LEMMA PageNext == IInv /\ Calculated /\ PageInv /\ [Next]_vars => PageInv'
<1> SUFFICES ASSUME IInv, Calculated, PageInv, [Next]_vars PROVE PageInv'
  OBVIOUS
<1>1. CASE Ingest
  BY <1>1, PageIngest
<1>2. CASE Evaluate
  BY <1>2, PageEvaluate
<1>3. CASE OpenPage
  BY <1>3, PageOpened
<1>4. CASE ClosePage
  <2>1. Db' = Db
    BY <1>4 DEF ClosePage, stored, Db
  <2> QED
    BY <1>4, <2>1 DEF ClosePage, stored, history, PageInv
<1>5. CASE \E new \in Rules : EditModel(new)
  BY <1>5, PageKept DEF EditModel, stored, history
<1>6. CASE \E item \in DOMAIN candidates : FindCandidate(item)
  BY <1>6, PageKept DEF FindCandidate, stored, history
<1>7. CASE \E decision \in {"BARE", "BUNDLE", "REJECTED"} : ClassifyCandidate(decision)
  BY <1>7, PageKept DEF ClassifyCandidate
<1>8. CASE UNCHANGED vars
  BY <1>8, PageKept DEF vars, stored, history
<1> QED
  BY <1>1, <1>2, <1>3, <1>4, <1>5, <1>6, <1>7, <1>8 DEF Next

-----------------------------------------------------------------------------
(* What a page tells.                                                      *)

(* The rows of a report can be listed, and every competitor was found.     *)
LEMMA RowsFinite ==
    ASSUME NEW captured \in Reports, NEW all, RowsOfReport(all, captured.skus)
    PROVE  /\ IsFiniteSet(all) /\ Cardinality(all) = Cardinality(captured.skus)
           /\ IsFound(captured.positions)
           /\ Listable(captured.positions, all)
           /\ \A row \in all : ~IsOwn(row) => Ranks(captured.positions, row.item) # {}
<1> DEFINE found == captured.positions
<1>1. IsFiniteSet(captured.skus) /\ found \in Seq(ToSet(found))
      /\ Cardinality(captured.skus) <= MaxPage /\ Len(found) <= MaxPage
  BY ReportsAssumption
<1>2. \A sku \in captured.skus :
         /\ sku.id \in Nat /\ sku.item \in Nat /\ sku.sku \in Nat
         /\ sku.listing = "" => \E p \in ToSet(found) : p.item = sku.item
  BY ReportsAssumption
<1>3. \A sku, other \in captured.skus : sku.id = other.id => sku = other
  BY ReportsAssumption
<1> HIDE DEF found
<1>4. Len(found) \in Nat /\ DOMAIN found = 1..Len(found) /\ ToSet(found) = {found[i] : i \in DOMAIN found}
  BY <1>1 DEF ToSet
<1>5. IsFiniteSet(all) /\ Cardinality(all) = Cardinality(captured.skus)
  BY RowsCounted
<1>6. \A row \in all : row.id \in Nat /\ row.item \in Nat /\ row.sku \in Nat
  BY <1>2 DEF RowsOfReport, RowOf
<1>7. Listable(found, all)
  BY <1>1, <1>4, <1>5, <1>6 DEF Listable, RowsOfReport
<1>8. ASSUME NEW row \in all, ~IsOwn(row)
      PROVE  Ranks(found, row.item) # {}
  <2>1. PICK sku \in captured.skus : RowOf(row, sku)
    BY DEF RowsOfReport
  <2>2. PICK p \in ToSet(found) : p.item = row.item
    BY <1>2, <1>8, <2>1 DEF RowOf, IsOwn
  <2>3. PICK i \in DOMAIN found : p = found[i]
    BY <1>4, <2>2
  <2> QED
    BY <2>2, <2>3 DEF Ranks
<1> QED
  BY <1>4, <1>5, <1>7, <1>8 DEF found, IsFound

(* What a page is computed from: the search result or nothing yet, and the *)
(* rows of the report or none, not evaluated or as an evaluation left      *)
(* them.                                                                   *)
Readable(facts, captured, evaluations) ==
    /\ facts.positions \in {<<>>, captured.positions}
    /\ \/ facts.rows = {}
       \/ /\ RowsOfReport(facts.rows, captured.skus)
          /\ \/ IsUntold(facts.rows)
             \/ \E i \in DOMAIN evaluations : ToldBy(facts.rows, evaluations[i])
    /\ IsStored(facts.rows) /\ Settled(facts.rows, facts.complete)

(* However the reads interleave, that is what they found.                  *)
LEMMA FactsReadable ==
    ASSUME NEW captured, NEW evaluations, CompleteOfReport(captured, evaluations),
           NEW a, NEW b, NEW c,
           EmptyDb(a) \/ StoredDb(a, captured, evaluations),
           EmptyDb(b) \/ StoredDb(b, captured, evaluations),
           EmptyDb(c) \/ StoredDb(c, captured, evaluations),
           NEW facts, facts.positions = a.positions, facts.rows = b.rows,
           facts.complete = deriveOwnCatalogCompleteness(Listings, b.rows, c.issues)
    PROVE  Readable(facts, captured, evaluations)
<1>1. facts.positions \in {<<>>, captured.positions}
  BY DEF EmptyDb, StoredDb
<1>2. CASE EmptyDb(b)
  <2>1. facts.rows = {}
    BY <1>2 DEF EmptyDb
  <2> QED
    BY <1>1, <2>1 DEF Readable, IsStored, Settled
<1>3. CASE StoredDb(b, captured, evaluations)
  <2>1. PICK all : all = facts.rows /\ all = b.rows
    OBVIOUS
  <2>2. /\ RowsOfReport(all, captured.skus) /\ IsStored(all)
        /\ IsUntold(all) \/ \E i \in DOMAIN evaluations : ToldBy(all, evaluations[i])
    BY <1>3, <2>1 DEF StoredDb
  <2>3. CASE IsUntold(all)
    <3>1. Settled(all, facts.complete)
      BY <2>3 DEF IsUntold, Settled
    <3> QED
      BY <1>1, <2>1, <2>2, <2>3, <3>1 DEF Readable
  <2>4. ASSUME NEW i \in DOMAIN evaluations, ToldBy(all, evaluations[i])
        PROVE  Readable(facts, captured, evaluations)
    <3>1. Settled(all, evaluations[i].complete)
      BY <2>4 DEF ToldBy, Pictured
    <3>2. evaluations[i].complete => facts.complete
      <4>1. c.issues \subseteq captured.issues \cup {BaselineMissing}
        BY DEF EmptyDb, StoredDb
      <4> QED
        BY <2>1, <2>2, <4>1, StaysComplete DEF CompleteOfReport
    <3>3. Settled(all, facts.complete)
      BY <3>1, <3>2 DEF Settled
    <3> QED
      BY <1>1, <2>1, <2>2, <2>4, <3>3 DEF Readable
  <2> QED
    BY <2>2, <2>3, <2>4
<1> QED
  BY <1>2, <1>3

(* Rows no evaluation has seen tell nothing, and neither does a page       *)
(* without a search result.                                                *)
LEMMA NothingTold ==
    ASSUME NEW facts, Settled(facts.rows, facts.complete), NEW type,
           IsUntold(facts.rows) \/ facts.positions = <<>>
    PROVE  confirmedLows(Business(facts, type)) = {} /\ missingGroups(Business(facts, type)) = {}
<1>1. ASSUME NEW line \in Business(facts, type)
      PROVE  line.state = "REVIEW"
  <2>1. line \in Lines(facts, type) /\ line.ranks # {}
    BY DEF Business
  <2>2. /\ line.row \in facts.rows /\ line.ranks = Ranks(facts.positions, line.row.item)
        /\ line.state = IF line.row.state = "" THEN "REVIEW" ELSE line.row.state
    BY <2>1, LineOf
  <2>3. facts.positions # <<>>
    <3>1. DOMAIN <<>> = {}
      OBVIOUS
    <3> QED
      BY <2>1, <2>2, <3>1 DEF Ranks
  <2> QED
    BY <2>2, <2>3 DEF IsUntold
<1> QED
  BY <1>1 DEF confirmedLows, missingGroups

(* What the page shows of facts it may have read.                          *)
TellsOneEvaluation(facts, type, evaluations) ==
    LET shown     == aggregateCollectionRunReport(facts, type)
        ranked    == {line \in shown.rows : line.ranks # {}}
        evaluated == \E row \in facts.rows : row.state # ""
    IN  /\ IF ~evaluated \/ facts.positions = <<>>
           THEN shown.lows = {} /\ shown.missing = {}
           ELSE \E i \in DOMAIN evaluations : /\ shown.lows = evaluations[i].lows
                                              /\ shown.missing = evaluations[i].missing
        /\ \A line \in ranked :
               Cardinality({shop \in shown.board : line.row.id \in shop.skus}) = 1
        /\ MapThenSumSet(LAMBDA shop : shop.lows, shown.board) = Cardinality(shown.lows)
        /\ \A filter \in Filters, line \in shown.rows :
               snapshotFilter(filter, type, facts.rows, line.row) <=> Shows(line, filter)

(* What is on the page.                                                    *)
LEMMA PageShows ==
    ASSUME NEW facts, NEW type, NEW ranked, ranked = Ranked(facts, type),
           NEW shown, shown = aggregateCollectionRunReport(facts, type)
    PROVE  /\ shown.rows = Lines(facts, type)
           /\ shown.lows = confirmedLows(Business(facts, type))
           /\ shown.missing = missingGroups(Business(facts, type))
           /\ shown.board = priceBoard(facts.positions, ranked)
<1>1. PICK lows, missing, board, rest :
         /\ lows = confirmedLows(Business(facts, type))
         /\ missing = missingGroups(Business(facts, type))
         /\ board = priceBoard(facts.positions, ranked)
         /\ rest = Lines(facts, type)
  OBVIOUS
<1>2. rest = {Projected(facts, type, row) : row \in facts.rows}
      /\ Business(facts, type) = {line \in ranked : ~IsOwn(line.row)}
  BY <1>1 DEF Lines, Ranked, Business
<1>3. ranked = {line \in rest : line.ranks # {}}
  BY <1>1 DEF Ranked
<1>4. /\ lows = confirmedLows({line \in ranked : ~IsOwn(line.row)})
      /\ missing = missingGroups({line \in ranked : ~IsOwn(line.row)})
  BY <1>1, <1>2
<1>5. shown.rows = rest /\ shown.lows = lows /\ shown.missing = missing /\ shown.board = board
  BY <1>1, <1>2, <1>3, <1>4 DEF aggregateCollectionRunReport
<1> QED
  BY <1>1, <1>5

(* It tells the lower prices and missing combinations of one evaluation.   *)
LEMMA PageTellsOne ==
    ASSUME NEW captured \in Reports, NEW evaluations, NEW facts,
           Readable(facts, captured, evaluations), NEW type
    PROVE  TellsOneEvaluation(facts, type, evaluations)
<1>1. PICK shown, ranked : /\ shown = aggregateCollectionRunReport(facts, type)
                           /\ ranked = Ranked(facts, type)
  OBVIOUS
<1>2. /\ shown.rows = Lines(facts, type)
      /\ shown.lows = confirmedLows(Business(facts, type))
      /\ shown.missing = missingGroups(Business(facts, type))
      /\ shown.board = priceBoard(facts.positions, ranked)
  BY <1>1, PageShows
<1>3. IsStored(facts.rows) /\ Settled(facts.rows, facts.complete)
  BY DEF Readable
<1>4. IsFound(facts.positions) /\ IsFiniteSet(facts.rows)
  <2>1. facts.positions = <<>> \/ facts.positions = captured.positions
    BY DEF Readable
  <2>2. IsFound(<<>>)
    BY DEF IsFound
  <2>3. \E p : p = captured.positions /\ IsFound(p)
    <3>1. IsFound(captured.positions)
      <4>1. captured.positions \in Seq(ToSet(captured.positions))
        BY ReportsAssumption
      <4> QED
        BY <4>1 DEF IsFound
    <3> QED
      BY <3>1
  <2>4. facts.rows = {} \/ RowsOfReport(facts.rows, captured.skus)
    BY DEF Readable
  <2>5. IsFiniteSet(facts.rows)
    BY <2>4, RowsCounted, FS_EmptySet
  <2> QED
    BY <2>1, <2>2, <2>3, <2>5
<1> DEFINE evaluated == \E row \in facts.rows : row.state # ""
<1>5. ASSUME ~evaluated \/ facts.positions = <<>>
      PROVE  shown.lows = {} /\ shown.missing = {}
  <2>1. IsUntold(facts.rows) \/ facts.positions = <<>>
    <3>1. CASE facts.rows = {}
      BY <3>1 DEF IsUntold
    <3>2. ASSUME NEW i \in DOMAIN evaluations, ToldBy(facts.rows, evaluations[i])
          PROVE  evaluated \/ facts.rows = {}
      BY <3>2 DEF ToldBy, Pictured
    <3> QED
      BY <1>5, <3>1, <3>2 DEF Readable
  <2> QED
    BY <1>2, <1>3, <2>1, NothingTold
<1>6. ASSUME evaluated, facts.positions # <<>>
      PROVE  \E i \in DOMAIN evaluations : /\ shown.lows = evaluations[i].lows
                                           /\ shown.missing = evaluations[i].missing
  <2>1. facts.rows # {} /\ ~IsUntold(facts.rows) /\ facts.positions = captured.positions
    BY <1>6 DEF IsUntold, Readable
  <2>2. RowsOfReport(facts.rows, captured.skus)
    BY <2>1 DEF Readable
  <2>3. PICK i \in DOMAIN evaluations : ToldBy(facts.rows, evaluations[i])
    BY <2>1 DEF Readable
  <2>4. PICK lows, missing : lows = evaluations[i].lows /\ missing = evaluations[i].missing
    OBVIOUS
  <2>5. /\ \A row \in facts.rows : row.state = "MISSING_OWN" => ~IsOwn(row)
        /\ TellsLows(facts.rows, lows) /\ TellsMissing(facts.rows, missing)
    BY <2>3, <2>4 DEF ToldBy, Pictured
  <2>6. \A row \in facts.rows : ~IsOwn(row) => Ranks(facts.positions, row.item) # {}
    BY <2>1, <2>2, RowsFinite
  <2>7. /\ confirmedLows(Business(facts, type)) = lows
        /\ missingGroups(Business(facts, type)) = missing
    BY <1>3, <2>5, <2>6, PageTells
  <2> QED
    BY <1>2, <2>4, <2>7
<1>7. ASSUME NEW line \in ranked
      PROVE  Cardinality({shop \in shown.board : line.row.id \in shop.skus}) = 1
  <2>1. Cardinality(Holding(priceBoard(facts.positions, ranked), line.row.id)) = 1
    BY <1>1, <1>3, <1>4, RankedOnce
  <2> QED
    BY <1>2, <2>1 DEF Holding
<1>8. MapThenSumSet(LAMBDA shop : shop.lows, shown.board) = Cardinality(shown.lows)
  <2>1. MapThenSumSet(LAMBDA shop : shop.lows, priceBoard(facts.positions, ranked))
           = Cardinality(confirmedLows(Business(facts, type)))
    BY <1>1, <1>3, <1>4, LowsOnce
  <2> QED
    BY <1>2, <2>1
<1>9. ASSUME NEW filter \in Filters, NEW line \in Lines(facts, type)
      PROVE  snapshotFilter(filter, type, facts.rows, line.row) <=> Shows(line, filter)
  <2>1. line.row \in facts.rows /\ line = Projected(facts, type, line.row)
    BY <1>3, LineOf
  <2>2. PICK row : row = line.row
    OBVIOUS
  <2>3. snapshotFilter(filter, type, facts.rows, row) <=> Shows(Projected(facts, type, row), filter)
    BY <1>3, <2>1, <2>2, FiltersAgree
  <2> QED
    BY <2>1, <2>2, <2>3
<1>10. ranked = {line \in shown.rows : line.ranks # {}}
  BY <1>1, <1>2 DEF Ranked
<1>11. \A filter \in Filters, line \in shown.rows :
          snapshotFilter(filter, type, facts.rows, line.row) <=> Shows(line, filter)
  BY <1>2, <1>9
<1> QED
  BY <1>1, <1>5, <1>6, <1>7, <1>8, <1>10, <1>11 DEF TellsOneEvaluation

(* So whatever a page shows was one evaluation's.                          *)
LEMMA InvReport ==
    ASSUME IInv, PageInv
    PROVE  ReportTellsOneEvaluation
<1>1. report \in Reports
  BY DEF IInv
<1>2. ASSUME page = NoPage
      PROVE  ListsShowAllOnce
  <2>1. CASE run.status = "RUNNING"
    <3>1. rows = {} /\ positions = <<>>
      BY <2>1 DEF IInv, Empty
    <3>2. Listable(<<>>, {})
      BY FS_EmptySet DEF Listable, MaxPage
    <3> QED
      BY <3>1, <3>2, ListsPaged
  <2>2. CASE run.status = "REPORTED"
    <3>1. RowsOfReport(rows, report.skus) /\ positions = report.positions
      BY <2>2 DEF IInv, Reported
    <3>2. Listable(positions, rows)
      BY <1>1, <3>1, RowsFinite
    <3> QED
      BY <3>2, ListsPaged
  <2> QED
    BY <2>1, <2>2 DEF IInv
<1>3. ASSUME page # NoPage, NEW facts \in loadBusinessFacts
      PROVE  /\ page.head.skus \in {0, Cardinality(facts.rows)}
             /\ page.head.positions \in {0, Len(facts.positions)}
             /\ TellsOneEvaluation(facts, page.type, decided)
  <2>1. PICK p, captured, evaluations :
           p = page /\ captured = report /\ evaluations = decided
    OBVIOUS
  <2>2. PICK a \in p.seen, b \in p.seen, c \in p.seen :
           /\ facts.positions = a.positions /\ facts.rows = b.rows
           /\ facts.complete = deriveOwnCatalogCompleteness(Listings, b.rows, c.issues)
    BY <1>3, <2>1 DEF loadBusinessFacts
  <2>3. CompleteOfReport(captured, evaluations) /\ PageSees(p, run.status, captured, evaluations)
    BY <1>3, <2>1 DEF PageInv
  <2>4. \A db \in p.seen : EmptyDb(db) \/ StoredDb(db, captured, evaluations)
    BY <2>3 DEF PageSees
  <2>5. Readable(facts, captured, evaluations)
    BY <2>2, <2>3, <2>4, FactsReadable
  <2>6. TellsOneEvaluation(facts, p.type, evaluations)
    BY <1>1, <2>1, <2>5, PageTellsOne
  <2>7. \/ p.head.skus = 0 /\ p.head.positions = 0
        \/ p.head.skus = Cardinality(facts.rows) /\ p.head.positions = Len(facts.positions)
    <3>1. CASE p.head.skus = 0 /\ p.head.positions = 0
      BY <3>1
    <3>2. CASE /\ p.head.skus = Cardinality(captured.skus) /\ p.head.positions = Len(captured.positions)
               /\ \A db \in p.seen : StoredDb(db, captured, evaluations)
      <4>1. RowsOfReport(facts.rows, captured.skus) /\ facts.positions = captured.positions
        BY <2>2, <3>2 DEF StoredDb
      <4>2. Cardinality(facts.rows) = Cardinality(captured.skus)
        BY <1>1, <2>1, <4>1, RowsCounted
      <4> QED
        BY <3>2, <4>1, <4>2
    <3> QED
      BY <2>3, <3>1, <3>2 DEF PageSees, HeadTells
  <2> QED
    BY <2>1, <2>6, <2>7
<1> QED
  BY <1>2, <1>3 DEF ReportTellsOneEvaluation, TellsOneEvaluation

-----------------------------------------------------------------------------
(* What an evaluation tells of what is offered.                            *)

(* Rows that are signed and can be compared are the offers, SKU by SKU.    *)
IsOffered(m) == IsSigned(m) /\ CanBeCompared(m)

OfferOf(m, o) ==
    /\ m.id = o.sku.id /\ m.listing = o.sku.listing
    /\ m.payable = o.ask /\ m.combination.signature = o.goods

AreOffers(matched, offers) ==
    /\ \A m \in matched :
          /\ m.combination.kind \in {"SIGNED", "EXCLUDED", "REVIEW"}
          /\ CanBeCompared(m) => m.payable \in Nat
          /\ m.item \in Nat /\ m.sku \in Nat
    /\ \A m \in matched : IsOffered(m) => \E o \in offers : OfferOf(m, o)
    /\ \A o \in offers : \E m \in matched : IsOffered(m) /\ OfferOf(m, o)

(* A competitor's row, and the cheapest of ours it was compared with.      *)
Compared(matched, m, own) ==
    /\ m \in matched /\ ~IsOwn(m) /\ IsOffered(m)
    /\ own = Cheapest(Baselines(matched, m))
    /\ own \in matched /\ IsOwn(own) /\ IsOffered(own) /\ SameGoods(own, m)
    /\ \A other \in matched :
          IsOwn(other) /\ IsOffered(other) /\ SameGoods(other, m) => own.payable <= other.payable

LEMMA OursAreCheapest ==
    ASSUME NEW matched, NEW offers, AreOffers(matched, offers),
           NEW m \in matched, ~IsOwn(m), IsOffered(m), Baselines(matched, m) # {}
    PROVE  Compared(matched, m, Cheapest(Baselines(matched, m)))
<1> DEFINE base == Baselines(matched, m)
<1>1. \A o : o \in base <=> o \in matched /\ IsOwn(o) /\ IsOffered(o) /\ SameGoods(o, m)
  BY DEF Baselines, OwnWith, OwnRows, IsOffered
<1> HIDE DEF base
<1>2. \A o \in base : o.payable \in Nat /\ o.item \in Nat /\ o.sku \in Nat
  BY <1>1 DEF AreOffers, IsOffered
<1>3. base # {}
  BY DEF base
<1>4. Cheapest(base) \in base /\ \A o \in base : Cheaper(Cheapest(base), o)
  BY <1>2, <1>3, CheapestIn
<1>5. \A o \in base : Cheapest(base).payable <= o.payable
  BY <1>2, <1>4 DEF Cheaper
<1> QED
  BY <1>1, <1>4, <1>5 DEF Compared, base

(* The rows of ours a row of a competitor's was compared with.             *)
LEMMA MatchedIsCompared ==
    ASSUME NEW matched, NEW offers, AreOffers(matched, offers), NEW complete, NEW m \in matched
    PROVE  (~IsOwn(m) /\ IsSigned(m) /\ Decision(matched, complete, m).state = "MATCHED")
              <=> (~IsOwn(m) /\ IsOffered(m) /\ complete /\ Baselines(matched, m) # {})
<1>1. m.combination.kind \in {"SIGNED", "EXCLUDED", "REVIEW"}
  BY DEF AreOffers
<1>2. ASSUME ~IsOwn(m), IsSigned(m)
      PROVE  Decision(matched, complete, m) = CompetitorDecision(matched, complete, m)
  BY <1>2 DEF Decision, IsSigned
<1>3. \A own, reasons : /\ Decided("MATCHED", own, reasons).state = "MATCHED"
                        /\ ToReview(reasons).state = "REVIEW"
                        /\ Missing(reasons).state = "MISSING_OWN"
  BY DEF Decided, ToReview, Missing
<1>4. \A ours : UnmatchedDecision(ours).state # "MATCHED"
  BY <1>3 DEF UnmatchedDecision
<1>5. CompetitorDecision(matched, complete, m).state = "MATCHED"
         <=> CanBeCompared(m) /\ complete /\ Baselines(matched, m) # {}
  BY <1>3, <1>4 DEF CompetitorDecision
<1> QED
  BY <1>2, <1>5 DEF IsOffered

LEMMA LowsAre ==
    ASSUME NEW matched, NEW offers, AreOffers(matched, offers), NEW complete, NEW x
    PROVE  x \in AlertCandidates(matched, complete)
              <=> complete /\ \E m, own \in matched : /\ Compared(matched, m, own)
                                                      /\ m.payable < own.payable
                                                      /\ x = Low(m, own)
<1> DEFINE Own(m) == Cheapest(Baselines(matched, m))
<1>1. x \in AlertCandidates(matched, complete)
         <=> \E m \in matched : /\ ~IsOwn(m) /\ IsSigned(m)
                                /\ Decision(matched, complete, m).state = "MATCHED"
                                /\ m.payable < Own(m).payable /\ x = Low(m, Own(m))
  BY DEF AlertCandidates, Low
<1>2. \A m \in matched :
         /\ ~IsOwn(m) /\ IsSigned(m) /\ Decision(matched, complete, m).state = "MATCHED"
               => complete /\ Compared(matched, m, Own(m))
         /\ \A own : complete /\ Compared(matched, m, own)
               => /\ ~IsOwn(m) /\ IsSigned(m) /\ Decision(matched, complete, m).state = "MATCHED"
                  /\ own = Own(m)
  <2> TAKE m \in matched
  <2>1. (~IsOwn(m) /\ IsSigned(m) /\ Decision(matched, complete, m).state = "MATCHED")
           <=> (~IsOwn(m) /\ IsOffered(m) /\ complete /\ Baselines(matched, m) # {})
    BY MatchedIsCompared
  <2>2. ~IsOwn(m) /\ IsOffered(m) /\ Baselines(matched, m) # {} => Compared(matched, m, Own(m))
    BY OursAreCheapest
  <2>3. ASSUME NEW own, Compared(matched, m, own)
        PROVE  ~IsOwn(m) /\ IsOffered(m) /\ Baselines(matched, m) # {} /\ own = Own(m)
    <3>1. own \in Baselines(matched, m)
      BY <2>3 DEF Compared, Baselines, OwnWith, OwnRows, IsOffered
    <3> QED
      BY <2>3, <3>1 DEF Compared
  <2> HIDE DEF Own
  <2> QED
    BY <2>1, <2>2, <2>3 DEF IsOffered
<1>3. \A m, own : Compared(matched, m, own) => own \in matched
  BY DEF Compared
<1> HIDE DEF Own
<1> QED
  BY <1>1, <1>2, <1>3

IsUnder(offers, p, q) ==
    /\ p \in Theirs(offers) /\ q \in Ours(offers) /\ p.goods = q.goods /\ p.ask < q.ask
    /\ \A other \in Ours(offers) : other.goods = q.goods => q.ask <= other.ask

LEMMA UndercutPairs ==
    ASSUME NEW offers
    PROVE  \A pair : pair \in Undercut(offers)
              <=> \E p, q \in offers : pair = <<p, q>> /\ IsUnder(offers, p, q)
<1>1. \A o : (o \in Theirs(offers) => o \in offers) /\ (o \in Ours(offers) => o \in offers)
  BY DEF Theirs, Ours
<1>2. ASSUME NEW pair \in Undercut(offers)
      PROVE  \E p, q \in offers : pair = <<p, q>> /\ IsUnder(offers, p, q)
  <2>1. PICK p \in Theirs(offers), q \in Ours(offers) : pair = <<p, q>>
    BY <1>2 DEF Undercut
  <2>2. IsUnder(offers, p, q)
    BY <1>2, <2>1 DEF Undercut, IsUnder
  <2> QED
    BY <1>1, <2>1, <2>2
<1>3. ASSUME NEW p \in offers, NEW q \in offers, IsUnder(offers, p, q)
      PROVE  <<p, q>> \in Undercut(offers)
  BY <1>3 DEF Undercut, IsUnder
<1> QED
  BY <1>2, <1>3

(* A lower price is one of the undercut offers.                            *)
LEMMA LowIsUnder ==
    ASSUME NEW matched, NEW offers, AreOffers(matched, offers),
           NEW m, NEW own, Compared(matched, m, own), m.payable < own.payable
    PROVE  \E p, q \in offers : /\ IsUnder(offers, p, q) /\ OfferOf(m, p) /\ OfferOf(own, q)
<1>1. /\ m \in matched /\ own \in matched /\ ~IsOwn(m) /\ IsOwn(own)
      /\ IsOffered(m) /\ IsOffered(own) /\ SameGoods(own, m)
      /\ \A other \in matched :
            IsOwn(other) /\ IsOffered(other) /\ SameGoods(other, m) => own.payable <= other.payable
  BY DEF Compared
<1>2. PICK p \in offers, q \in offers : OfferOf(m, p) /\ OfferOf(own, q)
  BY <1>1 DEF AreOffers
<1>3. p \in Theirs(offers) /\ q \in Ours(offers) /\ p.goods = q.goods /\ p.ask < q.ask
  BY <1>1, <1>2 DEF OfferOf, Theirs, Ours, IsOwn, SameGoods
<1>4. ASSUME NEW other \in Ours(offers), other.goods = q.goods
      PROVE  q.ask <= other.ask
  <2>1. other \in offers /\ other.sku.listing # ""
    BY DEF Ours
  <2>2. PICK k \in matched : IsOffered(k) /\ OfferOf(k, other)
    BY <2>1 DEF AreOffers
  <2>3. IsOwn(k) /\ SameGoods(k, m)
    BY <1>2, <1>3, <1>4, <2>1, <2>2 DEF OfferOf, IsOwn, SameGoods
  <2>4. own.payable <= k.payable
    BY <1>1, <2>2, <2>3
  <2> QED
    BY <1>2, <2>2, <2>4 DEF OfferOf
<1> QED
  BY <1>2, <1>3, <1>4 DEF IsUnder

(* ... and each of these is one.                                           *)
LEMMA UnderIsLow ==
    ASSUME NEW matched, NEW offers, AreOffers(matched, offers),
           NEW p \in offers, NEW q \in offers, IsUnder(offers, p, q)
    PROVE  \E m, own \in matched : /\ Compared(matched, m, own) /\ m.payable < own.payable
                                   /\ OfferOf(m, p)
<1>1. PICK m \in matched, k \in matched :
         IsOffered(m) /\ OfferOf(m, p) /\ IsOffered(k) /\ OfferOf(k, q)
  BY DEF AreOffers
<1>2. /\ ~IsOwn(m) /\ IsOwn(k) /\ SameGoods(k, m) /\ m.payable < k.payable
      /\ \A other \in Ours(offers) : other.goods = q.goods => q.ask <= other.ask
  BY <1>1 DEF IsUnder, Theirs, Ours, OfferOf, IsOwn, SameGoods
<1>3. Baselines(matched, m) # {}
  BY <1>1, <1>2 DEF Baselines, OwnWith, OwnRows, IsOffered
<1>4. PICK own : own = Cheapest(Baselines(matched, m)) /\ Compared(matched, m, own)
  BY <1>1, <1>2, <1>3, OursAreCheapest
<1>5. own \in matched /\ IsOwn(own) /\ IsOffered(own) /\ SameGoods(own, m)
  BY <1>4 DEF Compared
<1>6. PICK o \in offers : OfferOf(own, o)
  BY <1>5 DEF AreOffers
<1>7. o \in Ours(offers) /\ o.goods = q.goods
  BY <1>1, <1>2, <1>5, <1>6 DEF Ours, OfferOf, IsOwn, SameGoods
<1>8. k.payable <= own.payable
  BY <1>1, <1>2, <1>6, <1>7 DEF OfferOf
<1>9. m.payable \in Nat /\ k.payable \in Nat /\ own.payable \in Nat
  BY <1>1, <1>5 DEF AreOffers, IsOffered
<1>10. m.payable < own.payable
  BY <1>2, <1>8, <1>9
<1> QED
  BY <1>1, <1>4, <1>5, <1>10

(* What the evaluation tells is what is undercut.                          *)
TellsPairs(lows, complete, pairs) ==
    /\ {low.row : low \in lows} = IF complete THEN {pair[1].sku.id : pair \in pairs} ELSE {}
    /\ \A low \in lows : \E pair \in pairs :
          /\ <<low.row, low.own>> = <<pair[1].sku.id, pair[2].sku.id>>
          /\ low.difference = pair[2].ask - pair[1].ask

LEMMA LowsTellUndercut ==
    ASSUME NEW matched, NEW offers, AreOffers(matched, offers), NEW complete,
           NEW lows, lows = AlertCandidates(matched, complete)
    PROVE  TellsPairs(lows, complete, Undercut(offers))
<1>1. \A x : x \in lows <=> complete /\ \E m, own \in matched : /\ Compared(matched, m, own)
                                                               /\ m.payable < own.payable
                                                               /\ x = Low(m, own)
  BY LowsAre
<1>2. ASSUME NEW low \in lows
      PROVE  /\ complete
             /\ \E pair \in Undercut(offers) :
                   /\ low.row = pair[1].sku.id /\ low.own = pair[2].sku.id
                   /\ low.difference = pair[2].ask - pair[1].ask
  <2>1. PICK m \in matched, own \in matched :
           Compared(matched, m, own) /\ m.payable < own.payable /\ low = Low(m, own)
    BY <1>1
  <2>2. PICK p \in offers, q \in offers : IsUnder(offers, p, q) /\ OfferOf(m, p) /\ OfferOf(own, q)
    BY <2>1, LowIsUnder
  <2>3. <<p, q>> \in Undercut(offers) /\ <<p, q>>[1] = p /\ <<p, q>>[2] = q
    BY <2>2, UndercutPairs
  <2>4. low.row = p.sku.id /\ low.own = q.sku.id /\ low.difference = q.ask - p.ask
    BY <2>1, <2>2 DEF Low, OfferOf
  <2> QED
    BY <1>1, <2>3, <2>4
<1>3. ASSUME complete, NEW pair \in Undercut(offers)
      PROVE  \E low \in lows : low.row = pair[1].sku.id
  <2>1. PICK p \in offers, q \in offers : pair = <<p, q>> /\ IsUnder(offers, p, q)
    BY UndercutPairs
  <2>2. PICK m \in matched, own \in matched :
           Compared(matched, m, own) /\ m.payable < own.payable /\ OfferOf(m, p)
    BY <2>1, UnderIsLow
  <2>3. Low(m, own) \in lows
    BY <1>1, <1>3, <2>2
  <2>4. Low(m, own).row = p.sku.id /\ pair[1] = p
    BY <2>1, <2>2 DEF Low, OfferOf
  <2> QED
    BY <2>3, <2>4
<1>4. {low.row : low \in lows} =
         IF complete THEN {pair[1].sku.id : pair \in Undercut(offers)} ELSE {}
  <2>1. CASE complete
    <3>1. \A low \in lows : \E pair \in Undercut(offers) : low.row = pair[1].sku.id
      BY <1>2
    <3>2. \A pair \in Undercut(offers) : \E low \in lows : low.row = pair[1].sku.id
      BY <1>3, <2>1
    <3>3. PICK under : under = Undercut(offers)
      OBVIOUS
    <3>4. {low.row : low \in lows} = {pair[1].sku.id : pair \in under}
      BY <3>1, <3>2, <3>3
    <3> QED
      BY <2>1, <3>3, <3>4
  <2>2. CASE ~complete
    BY <1>2, <2>2
  <2> QED
    BY <2>1, <2>2
<1> QED
  BY <1>2, <1>4 DEF TellsPairs

(* The baseline is the cheapest of ours.                                   *)
LEMMA BaselineIsCheapest ==
    ASSUME NEW matched, NEW offers, AreOffers(matched, offers)
    PROVE  IsBaseline(PrimaryOwn(matched), Ours(offers))
<1> DEFINE S == Eligible(matched)
<1>1. \A m : m \in S <=> m \in matched /\ IsOwn(m) /\ IsOffered(m)
  BY DEF Eligible, OwnRows, IsOffered
<1>2. \A o \in Ours(offers) : \E m \in S : OfferOf(m, o)
  BY <1>1 DEF Ours, AreOffers, OfferOf, IsOwn
<1>3. \A m \in S : \E o \in Ours(offers) : OfferOf(m, o)
  <2> TAKE m \in S
  <2>1. PICK o \in offers : OfferOf(m, o)
    BY <1>1 DEF AreOffers
  <2>2. o \in Ours(offers)
    BY <1>1, <2>1 DEF Ours, OfferOf, IsOwn
  <2> QED
    BY <2>1, <2>2
<1>4. \A m \in S : m.payable \in Nat /\ m.item \in Nat /\ m.sku \in Nat
  BY <1>1 DEF AreOffers, IsOffered
<1>5. PrimaryOwn(matched) = IF S = {} THEN NoRow ELSE Cheapest(S).id
  BY DEF PrimaryOwn
<1> HIDE DEF S
<1>6. CASE S = {}
  BY <1>2, <1>5, <1>6 DEF IsBaseline
<1>7. CASE S # {}
  <2>1. PICK c : c = Cheapest(S) /\ c \in S /\ \A m \in S : Cheaper(c, m)
    BY <1>4, <1>7, CheapestIn
  <2>2. PICK o \in Ours(offers) : OfferOf(c, o)
    BY <1>3, <2>1
  <2>3. ASSUME NEW other \in Ours(offers)
        PROVE  o.ask <= other.ask
    <3>1. PICK m \in S : OfferOf(m, other)
      BY <1>2
    <3>2. c.payable <= m.payable
      BY <1>4, <2>1 DEF Cheaper
    <3> QED
      BY <2>2, <3>1, <3>2 DEF OfferOf
  <2>4. o.sku.id = PrimaryOwn(matched)
    BY <1>5, <1>7, <2>1, <2>2 DEF OfferOf
  <2> QED
    BY <2>3, <2>4 DEF IsBaseline
<1> QED
  BY <1>6, <1>7

(* An alert names the SKU, and the row of ours, of a lower price.          *)
Keyed(found) == {<<a.item, a.sku, a.own>> : a \in found}

Told(skus, lows) ==
    {<<pair[1].item, pair[1].sku, pair[2].own>> : pair \in
        {p \in skus \X lows : p[2].row = p[1].id}}

LEMMA ToldPairs ==
    ASSUME NEW skus, NEW lows
    PROVE  \A x : x \in Told(skus, lows)
              <=> \E sku \in skus, low \in lows :
                     low.row = sku.id /\ x = <<sku.item, sku.sku, low.own>>
<1> DEFINE Pairs == {p \in skus \X lows : p[2].row = p[1].id}
<1>1. ASSUME NEW sku \in skus, NEW low \in lows, low.row = sku.id
      PROVE  <<sku.item, sku.sku, low.own>> \in Told(skus, lows)
  <2>1. <<sku, low>> \in Pairs /\ <<sku, low>>[1] = sku /\ <<sku, low>>[2] = low
    BY <1>1
  <2> QED
    BY <2>1 DEF Told
<1>2. ASSUME NEW x \in Told(skus, lows)
      PROVE  \E sku \in skus, low \in lows :
                low.row = sku.id /\ x = <<sku.item, sku.sku, low.own>>
  <2>1. PICK p \in Pairs : x = <<p[1].item, p[1].sku, p[2].own>>
    BY <1>2 DEF Told
  <2>2. p[1] \in skus /\ p[2] \in lows /\ p[2].row = p[1].id
    OBVIOUS
  <2> QED
    BY <2>1, <2>2
<1> QED
  BY <1>1, <1>2

LEMMA ToldBoth ==
    ASSUME NEW skus, NEW lows, NEW more
    PROVE  Told(skus, lows \cup more) = Told(skus, lows) \cup Told(skus, more)
<1>1. PICK a, b, c : a = Told(skus, lows) /\ b = Told(skus, more) /\ c = Told(skus, lows \cup more)
  OBVIOUS
<1>2. /\ \A x : x \in a <=> \E sku \in skus, low \in lows :
                               low.row = sku.id /\ x = <<sku.item, sku.sku, low.own>>
      /\ \A x : x \in b <=> \E sku \in skus, low \in more :
                               low.row = sku.id /\ x = <<sku.item, sku.sku, low.own>>
      /\ \A x : x \in c <=> \E sku \in skus, low \in lows \cup more :
                               low.row = sku.id /\ x = <<sku.item, sku.sku, low.own>>
  BY <1>1, ToldPairs
<1>3. \A x : x \in c <=> x \in a \/ x \in b
  BY <1>2
<1> QED
  BY <1>1, <1>3

(* The alerts an evaluation stores are its lower prices.                   *)
LEMMA KeysAreTold ==
    ASSUME NEW matched, NEW offers, AreOffers(matched, offers), NEW complete,
           NEW lows, lows = AlertCandidates(matched, complete), NEW skus,
           \A m \in matched : \E sku \in skus :
               m.id = sku.id /\ m.item = sku.item /\ m.sku = sku.sku,
           \A sku, other \in skus : sku.id = other.id => sku = other
    PROVE  Keyed(AlertKeys(matched, lows)) = Told(skus, lows)
<1> DEFINE Key(c, own) == [signature |-> c.combination.signature, own |-> own.id,
                           item |-> c.item, sku |-> c.sku, price |-> c.payable]
           Confirmed(c, own) ==
              /\ \E low \in lows : low.row = c.id /\ low.own = own.id
              /\ SameGoods(c, own) /\ CanBeCompared(c) /\ CanBeCompared(own)
              /\ c.payable < own.payable
<1>1. \A a : a \in AlertKeys(matched, lows)
         <=> \E c, own \in matched : Confirmed(c, own) /\ a = Key(c, own)
  <2>1. AlertKeys(matched, lows) =
          {Key(pair[1], pair[2]) : pair \in {p \in matched \X matched : Confirmed(p[1], p[2])}}
    BY DEF AlertKeys
  <2> HIDE DEF Key, Confirmed
  <2>2. ASSUME NEW c \in matched, NEW own \in matched, Confirmed(c, own)
        PROVE  Key(c, own) \in AlertKeys(matched, lows)
    <3>1. <<c, own>> \in matched \X matched /\ <<c, own>>[1] = c /\ <<c, own>>[2] = own
      OBVIOUS
    <3> QED
      BY <2>1, <2>2, <3>1
  <2>3. ASSUME NEW a \in AlertKeys(matched, lows)
        PROVE  \E c, own \in matched : Confirmed(c, own) /\ a = Key(c, own)
    <3>1. PICK p \in matched \X matched : Confirmed(p[1], p[2]) /\ a = Key(p[1], p[2])
      BY <2>1, <2>3
    <3>2. p[1] \in matched /\ p[2] \in matched
      OBVIOUS
    <3> QED
      BY <3>1, <3>2
  <2> QED
    BY <2>2, <2>3
<1>2. \A c, own : Key(c, own).item = c.item /\ Key(c, own).sku = c.sku /\ Key(c, own).own = own.id
  OBVIOUS
<1>3. \A x : x \in lows <=> complete /\ \E m, own \in matched : /\ Compared(matched, m, own)
                                                               /\ m.payable < own.payable
                                                               /\ x = Low(m, own)
  BY LowsAre
<1> HIDE DEF Key
<1>4. ASSUME NEW c \in matched, NEW own \in matched, Confirmed(c, own)
      PROVE  <<c.item, c.sku, own.id>> \in Told(skus, lows)
  <2>1. PICK sku \in skus : c.id = sku.id /\ c.item = sku.item /\ c.sku = sku.sku
    OBVIOUS
  <2>2. PICK low \in lows : low.row = c.id /\ low.own = own.id
    BY <1>4
  <2> HIDE DEF Confirmed
  <2> QED
    BY <2>1, <2>2, ToldPairs
<1>5. ASSUME NEW sku \in skus, NEW low \in lows, low.row = sku.id
      PROVE  \E c, own \in matched :
                Confirmed(c, own) /\ <<sku.item, sku.sku, low.own>> = <<c.item, c.sku, own.id>>
  <2>1. PICK m \in matched, own \in matched :
           Compared(matched, m, own) /\ m.payable < own.payable /\ low = Low(m, own)
    BY <1>3
  <2>2. low.row = m.id /\ low.own = own.id
    BY <2>1 DEF Low
  <2>3. m.item = sku.item /\ m.sku = sku.sku
    BY <1>5, <2>2
  <2>4. SameGoods(m, own) /\ CanBeCompared(m) /\ CanBeCompared(own)
    BY <2>1 DEF Compared, IsOffered, SameGoods
  <2>5. Confirmed(m, own)
    BY <2>1, <2>2, <2>4
  <2> HIDE DEF Confirmed
  <2> QED
    BY <2>2, <2>3, <2>5
<1> HIDE DEF Confirmed
<1>6. PICK told : told = Told(skus, lows)
  OBVIOUS
<1>7. \A x : x \in told <=> \E sku \in skus, low \in lows :
                               low.row = sku.id /\ x = <<sku.item, sku.sku, low.own>>
  BY <1>6, ToldPairs
<1>8. PICK keys : keys = AlertKeys(matched, lows)
  OBVIOUS
<1>9. \A x : x \in Keyed(keys) <=> \E a \in keys : x = <<a.item, a.sku, a.own>>
  BY DEF Keyed
<1>10. \A x : x \in Keyed(keys) <=> \E c, own \in matched :
                                      Confirmed(c, own) /\ x = <<c.item, c.sku, own.id>>
  BY <1>1, <1>2, <1>8, <1>9
<1>11. \A x : x \in Keyed(keys) <=> x \in told
  BY <1>4, <1>5, <1>6, <1>7, <1>10
<1> QED
  BY <1>6, <1>8, <1>11

-----------------------------------------------------------------------------
(* What is told of a report.                                               *)

(* The properties' operators, for a report, its prices and the history.    *)
SignedOf(captured, prices, asked) ==
    {[sku |-> sku, ask |-> prices[sku].payable, goods |-> SoldAs(asked, sku).signature] :
        sku \in {s \in captured.skus : /\ s.stock = "IN_STOCK" /\ prices[s].confidence = "CONFIRMED"
                                       /\ SoldAs(asked, s).kind = "SIGNED"}}

TellsLowerOf(captured, d, pairs) ==
    /\ TellsPairs(d.lows, d.complete, pairs)
    /\ d.complete => \A l \in Listings : \E o \in captured.skus : o.listing = l

LowsOf(evaluations) == UNION {evaluations[i].lows : i \in DOMAIN evaluations}

TellsSigned(captured, prices, evaluations, baseline, found) ==
    /\ \A i \in DOMAIN evaluations : \A offers \in {SignedOf(captured, prices, evaluations[i].rule)} :
           /\ TellsLowerOf(captured, evaluations[i], Undercut(offers))
           /\ i = Len(evaluations) => IsBaseline(baseline, Ours(offers))
    /\ Keyed(found) = Told(captured.skus, LowsOf(evaluations))

LEMMA TellsSignatures ==
    /\ AlertsCompareSignatures <=> TellsSigned(report, price, decided, run.baseline, alerts)
    /\ AlertsCompareSignatures' <=> TellsSigned(report', price', decided', run'.baseline, alerts')
BY DEF AlertsCompareSignatures, TellsAsOffered, TellsSigned, SignedOnOffer, SignedOf, TellsLower,
       TellsLowerOf, TellsPairs, LowsOf, Keyed, Told

(* A row keeps what was captured.                                          *)
Captures(row, sku, prices) ==
    /\ RowOf(row, sku)
    /\ row.stock = sku.stock /\ row.offer = sku.offer
    /\ row.components = deriveSkuComponents(sku.labels)
    /\ row.confidence = prices[sku].confidence /\ row.payable = prices[sku].payable

RowsCapture(all, captured, prices) ==
    \A row \in all : \E sku \in captured.skus : Captures(row, sku, prices)

(* The invariant of what is told.                                          *)
AlertInv ==
    /\ rule \in Rules /\ \A i \in DOMAIN decided : decided[i].rule \in Rules
    /\ RowsCapture(rows, report, price)
    /\ TellsSigned(report, price, decided, run.baseline, alerts)

LEMMA AlertInit == Init => AlertInv
<1> SUFFICES ASSUME Init PROVE AlertInv
  OBVIOUS
<1>1. rule \in Rules /\ decided = <<>> /\ rows = {} /\ alerts = {}
  BY DEF Init
<1>2. PICK captured, prices, baseline : captured = report /\ prices = price /\ baseline = run.baseline
  OBVIOUS
<1>3. LowsOf(<<>>) = {}
  BY DEF LowsOf
<1>4. \A x : x \notin Told(captured.skus, {})
  BY ToldPairs
<1>5. Keyed({}) = {} /\ Told(captured.skus, {}) = {}
  BY <1>4 DEF Keyed
<1>6. TellsSigned(captured, prices, <<>>, baseline, {})
  BY <1>3, <1>5 DEF TellsSigned
<1> QED
  BY <1>1, <1>2, <1>6 DEF AlertInv, RowsCapture

(* An evaluation rewrites none of it.                                      *)
LEMMA StaysCaptured ==
    ASSUME NEW row, IsRow(row), NEW matched, NEW complete,
           NEW sku, NEW prices, Captures(row, sku, prices)
    PROVE  Captures(Evaluated(row, matched, complete), sku, prices)
<1> DEFINE of == Matched(row)
           found == Decision(matched, complete, of)
           e == Evaluated(row, matched, complete)
<1>1. e = [row EXCEPT !.decision = of.decision.decision, !.comparable = of.decision.comparable,
                      !.confidenceBps = of.decision.confidence,
                      !.state = found.state, !.signature = of.combination.signature,
                      !.own = found.own, !.reasons = found.reasons]
  BY DEF Evaluated
<1> HIDE DEF of, found, e
<1>2. e = [id |-> row.id, listing |-> row.listing, item |-> row.item, sku |-> row.sku,
           stock |-> row.stock, confidence |-> row.confidence, payable |-> row.payable,
           offer |-> row.offer, components |-> row.components,
           decision |-> of.decision.decision, comparable |-> of.decision.comparable,
           confidenceBps |-> of.decision.confidence, state |-> found.state,
           signature |-> of.combination.signature, own |-> found.own,
           reasons |-> found.reasons]
  BY <1>1 DEF IsRow
<1>3. /\ e.id = row.id /\ e.listing = row.listing /\ e.item = row.item /\ e.sku = row.sku
      /\ e.stock = row.stock /\ e.confidence = row.confidence /\ e.payable = row.payable
      /\ e.offer = row.offer /\ e.components = row.components
  BY <1>2
<1>4. Captures(e, sku, prices)
  BY <1>3 DEF Captures, RowOf
<1> QED
  BY <1>4 DEF e

(* What an evaluation reads of a captured SKU.                             *)
LEMMA CapturedIsMatched ==
    ASSUME NEW row, NEW sku, NEW prices, Captures(row, sku, prices), NEW m, m = Matched(row)
    PROVE  /\ m.id = sku.id /\ m.listing = sku.listing /\ m.item = sku.item /\ m.sku = sku.sku
           /\ m.payable = prices[sku].payable /\ m.combination = SoldAs(rule, sku)
           /\ CanBeCompared(m) <=> /\ sku.stock = "IN_STOCK" /\ prices[sku].confidence = "CONFIRMED"
                                   /\ prices[sku].payable >= 0
<1>1. PICK offer, decision, combination :
         /\ offer = rawOffer(row) /\ decision = persistenceDecision(rule, offer)
         /\ combination = buildSkuCombination(rule, decision.decision, offer)
  OBVIOUS
<1>2. m = [id |-> row.id, listing |-> row.listing, item |-> row.item, sku |-> row.sku,
           stock |-> row.stock, confidence |-> row.confidence, payable |-> row.payable,
           decision |-> decision, combination |-> combination]
  BY <1>1 DEF Matched
<1>3. /\ m.id = row.id /\ m.listing = row.listing /\ m.item = row.item /\ m.sku = row.sku
      /\ m.stock = row.stock /\ m.confidence = row.confidence /\ m.payable = row.payable
      /\ m.combination = combination
  BY <1>2
<1>4. offer = rawOffer([components |-> deriveSkuComponents(sku.labels), offer |-> sku.offer])
  BY <1>1 DEF Captures, rawOffer
<1>5. combination = SoldAs(rule, sku)
  BY <1>1, <1>4 DEF SoldAs
<1> QED
  BY <1>3, <1>5 DEF Captures, RowOf, CanBeCompared, hasConfirmedPayable

LEMMA SignedOffers ==
    ASSUME NEW captured, NEW prices, NEW asked
    PROVE  \A o : o \in SignedOf(captured, prices, asked)
              <=> \E sku \in captured.skus :
                     /\ sku.stock = "IN_STOCK" /\ prices[sku].confidence = "CONFIRMED"
                     /\ SoldAs(asked, sku).kind = "SIGNED"
                     /\ o = [sku |-> sku, ask |-> prices[sku].payable,
                             goods |-> SoldAs(asked, sku).signature]
BY DEF SignedOf

(* The rows an evaluation can compare are the offers.                      *)
LEMMA MatchedAreOffers ==
    ASSUME NEW captured \in Reports, NEW prices, NEW all,
           RowsOfReport(all, captured.skus), RowsCapture(all, captured, prices),
           \A sku \in captured.skus : prices[sku].confidence = "CONFIRMED"
                                         => prices[sku].payable \in Nat,
           NEW matched, matched = MatchedRows(all), NEW offers, offers = SignedOf(captured, prices, rule)
    PROVE  /\ AreOffers(matched, offers)
           /\ \A m \in matched : \E sku \in captured.skus :
                 m.id = sku.id /\ m.item = sku.item /\ m.sku = sku.sku
<1>1. /\ \A sku \in captured.skus : sku.id \in Nat /\ sku.item \in Nat /\ sku.sku \in Nat
      /\ \A sku, other \in captured.skus : sku.id = other.id => sku = other
  BY ReportsAssumption
<1> DEFINE ReadAsOf(m, sku) ==
              /\ m.id = sku.id /\ m.listing = sku.listing /\ m.item = sku.item /\ m.sku = sku.sku
              /\ m.payable = prices[sku].payable /\ m.combination = SoldAs(rule, sku)
              /\ CanBeCompared(m) <=> /\ sku.stock = "IN_STOCK" /\ prices[sku].confidence = "CONFIRMED"
                                      /\ prices[sku].payable >= 0
<1>2. \A m \in matched : \E sku \in captured.skus : ReadAsOf(m, sku)
  <2> TAKE m \in matched
  <2>1. PICK row \in all : m = Matched(row)
    BY DEF MatchedRows
  <2>2. PICK sku \in captured.skus : Captures(row, sku, prices)
    BY DEF RowsCapture
  <2>3. ReadAsOf(m, sku)
    BY <2>1, <2>2, CapturedIsMatched
  <2> QED
    BY <2>3
<1>3. \A sku \in captured.skus : \E m \in matched : ReadAsOf(m, sku)
  <2> TAKE sku \in captured.skus
  <2>1. PICK row \in all : RowOf(row, sku)
    BY DEF RowsOfReport
  <2>2. PICK other \in captured.skus : Captures(row, other, prices)
    BY DEF RowsCapture
  <2>3. other = sku
    BY <1>1, <2>1, <2>2 DEF Captures, RowOf
  <2>4. ReadAsOf(Matched(row), sku)
    BY <2>2, <2>3, CapturedIsMatched
  <2>5. Matched(row) \in matched
    BY DEF MatchedRows
  <2> QED
    BY <2>4, <2>5
<1>4. \A sku : SoldAs(rule, sku).kind \in {"SIGNED", "EXCLUDED", "REVIEW"}
  BY CombinationKinds DEF SoldAs
<1>5. \A m, sku : ReadAsOf(m, sku) => (IsSigned(m) <=> SoldAs(rule, sku).kind = "SIGNED")
  BY DEF IsSigned
<1>6. \A o : o \in offers <=> \E sku \in captured.skus :
                     /\ sku.stock = "IN_STOCK" /\ prices[sku].confidence = "CONFIRMED"
                     /\ SoldAs(rule, sku).kind = "SIGNED"
                     /\ o = [sku |-> sku, ask |-> prices[sku].payable,
                             goods |-> SoldAs(rule, sku).signature]
  BY SignedOffers
<1>7. ASSUME NEW m \in matched
      PROVE  /\ m.combination.kind \in {"SIGNED", "EXCLUDED", "REVIEW"}
             /\ CanBeCompared(m) => m.payable \in Nat
             /\ m.item \in Nat /\ m.sku \in Nat
             /\ IsOffered(m) => \E o \in offers : OfferOf(m, o)
  <2>1. PICK sku \in captured.skus : ReadAsOf(m, sku)
    BY <1>2
  <2>2. PICK o : o = [sku |-> sku, ask |-> prices[sku].payable, goods |-> SoldAs(rule, sku).signature]
    OBVIOUS
  <2>3. o.sku = sku /\ o.ask = prices[sku].payable /\ o.goods = SoldAs(rule, sku).signature
    BY <2>2
  <2>4. OfferOf(m, o)
    BY <2>1, <2>3 DEF OfferOf
  <2>5. IsOffered(m) => o \in offers
    BY <1>5, <1>6, <2>1, <2>2 DEF IsOffered
  <2>6. m.item \in Nat /\ m.sku \in Nat /\ (CanBeCompared(m) => m.payable \in Nat)
    BY <1>1, <2>1
  <2>7. m.combination.kind \in {"SIGNED", "EXCLUDED", "REVIEW"}
    BY <1>4, <2>1
  <2> QED
    BY <2>4, <2>5, <2>6, <2>7
<1>8. ASSUME NEW o \in offers
      PROVE  \E m \in matched : IsOffered(m) /\ OfferOf(m, o)
  <2>1. PICK sku \in captured.skus :
           /\ sku.stock = "IN_STOCK" /\ prices[sku].confidence = "CONFIRMED"
           /\ SoldAs(rule, sku).kind = "SIGNED"
           /\ o = [sku |-> sku, ask |-> prices[sku].payable, goods |-> SoldAs(rule, sku).signature]
    BY <1>6
  <2>2. PICK m \in matched : ReadAsOf(m, sku)
    BY <1>3
  <2>3. o.sku = sku /\ o.ask = prices[sku].payable /\ o.goods = SoldAs(rule, sku).signature
    BY <2>1
  <2>4. prices[sku].payable >= 0
    BY <2>1
  <2>5. IsOffered(m)
    BY <1>5, <2>1, <2>2, <2>4 DEF IsOffered
  <2>6. OfferOf(m, o)
    BY <2>2, <2>3 DEF OfferOf
  <2> QED
    BY <2>5, <2>6
<1>9. \A m \in matched : \E sku \in captured.skus :
         m.id = sku.id /\ m.item = sku.item /\ m.sku = sku.sku
  BY <1>2
<1> HIDE DEF ReadAsOf
<1> QED
  BY <1>7, <1>8, <1>9 DEF AreOffers

(* A confirmed price is one to pay.                                        *)
LEMMA ConfirmedIsPayable ==
    ASSUME Calculated
    PROVE  \A sku \in report.skus : price[sku].confidence = "CONFIRMED" => price[sku].payable \in Nat
<1> TAKE sku \in report.skus
<1> HAVE price[sku].confidence = "CONFIRMED"
<1>1. price[sku].payable \in Int
  BY ConfirmedIsNumber
<1>2. ConfirmedPricesArePayable
  BY CalculatedIsPayable
<1>3. PICK least : /\ price[sku].confidence = "CONFIRMED" => least >= 0
                   /\ price[sku].confidence = "CONFIRMED" => price[sku].payable = least
  BY <1>2 DEF ConfirmedPricesArePayable
<1> QED
  BY <1>1, <1>3

(* One more evaluation is told as the ones before.                         *)
LEMMA OneMoreTold ==
    ASSUME NEW captured, NEW prices, NEW done, NEW baseline, NEW found,
           TellsSigned(captured, prices, done, baseline, found), IsSequence(done),
           NEW e, NEW later, later = Append(done, e),
           NEW offers, offers = SignedOf(captured, prices, e.rule),
           TellsLowerOf(captured, e, Undercut(offers)),
           NEW new, IsBaseline(new, Ours(offers)),
           NEW keys, Keyed(keys) = Told(captured.skus, e.lows)
    PROVE  TellsSigned(captured, prices, later, new, found \cup keys)
<1>1. /\ Continues(later, done) /\ Len(later) \in DOMAIN later /\ later[Len(later)] = e
      /\ \A i \in DOMAIN later : i \in DOMAIN done \/ later[i] = e
  BY AppendContinues
<1>2. ASSUME NEW i \in DOMAIN later, NEW sold, sold = SignedOf(captured, prices, later[i].rule)
      PROVE  /\ TellsLowerOf(captured, later[i], Undercut(sold))
             /\ i = Len(later) => IsBaseline(new, Ours(sold))
  <2>1. CASE later[i] = e
    BY <1>2, <2>1
  <2>2. CASE later[i] # e
    <3>1. i \in DOMAIN done /\ later[i] = done[i] /\ i # Len(later)
      BY <1>1, <2>2 DEF Continues
    <3> QED
      BY <1>2, <3>1 DEF TellsSigned
  <2> QED
    BY <2>1, <2>2
<1>3. LowsOf(later) = LowsOf(done) \cup e.lows
  <2>1. \A x : x \in LowsOf(later) <=> \E i \in DOMAIN later : x \in later[i].lows
    BY DEF LowsOf
  <2>2. \A x : x \in LowsOf(done) <=> \E i \in DOMAIN done : x \in done[i].lows
    BY DEF LowsOf
  <2>3. \A x : x \in LowsOf(later) <=> x \in LowsOf(done) \cup e.lows
    BY <1>1, <2>1, <2>2 DEF Continues
  <2> QED
    BY <2>3
<1>4. Keyed(found \cup keys) = Keyed(found) \cup Keyed(keys)
  BY DEF Keyed
<1>5. Keyed(found \cup keys) = Told(captured.skus, LowsOf(later))
  <2>1. Keyed(found) = Told(captured.skus, LowsOf(done))
    BY DEF TellsSigned
  <2>2. PICK skus, lows, more : skus = captured.skus /\ lows = LowsOf(done) /\ more = e.lows
    OBVIOUS
  <2>3. Told(skus, lows \cup more) = Told(skus, lows) \cup Told(skus, more)
    BY ToldBoth
  <2> QED
    BY <1>3, <1>4, <2>1, <2>2, <2>3
<1> QED
  BY <1>2, <1>5 DEF TellsSigned

(* A lower price is only told when a SKU of ours was seen.                 *)
LEMMA KeysNeedLows ==
    ASSUME NEW matched, NEW lows, AlertKeys(matched, lows) # {}
    PROVE  lows # {}
BY DEF AlertKeys

(* Evaluating the run.                                                     *)
LEMMA AlertEvaluate ==
    ASSUME IInv, Calculated, AlertInv, Evaluate
    PROVE  AlertInv'
<1>1. /\ report \in Reports /\ IsRun(run) /\ run.status = "REPORTED" /\ Reported /\ IsSequence(decided)
      /\ report' = report /\ price' = price /\ rule' = rule
  BY DEF IInv, Evaluate, catalog
<1>2. PICK data, matched :
         /\ matched = MatchedRows(rows)
         /\ data.complete = deriveOwnCatalogCompleteness(Listings, rows, issues)
         /\ data.seen = (\E row \in rows : row.listing \in Listings)
         /\ EvaluatedFrom(data, matched)
  BY EvaluateReads
<1>3. PICK complete, lows, keys, created, missing :
         /\ complete = data.complete /\ lows = AlertCandidates(matched, complete)
         /\ keys = AlertKeys(matched, lows) /\ created = ensureBaselineIssue(data.seen)
         /\ missing = MissingOwnGroups(matched, complete)
  OBVIOUS
<1>4. PICK e : e = [rule |-> rule, complete |-> complete, lows |-> lows, missing |-> missing]
  OBVIOUS
<1>5. /\ rows' = EvaluatedRows(rows, matched, complete)
      /\ run' = [run EXCEPT !.baseline = PrimaryOwn(matched), !.counts.failed = @ + created]
      /\ alerts' = alerts \cup IF data.seen THEN keys ELSE {}
      /\ decided' = Append(decided, e)
  BY <1>2, <1>3, <1>4 DEF EvaluatedFrom
<1>6. e.rule = rule /\ e.complete = complete /\ e.lows = lows
  BY <1>4
<1>7. run'.baseline = PrimaryOwn(matched)
  <2>1. PICK baseline : baseline = PrimaryOwn(matched)
    OBVIOUS
  <2>2. run' = [run EXCEPT !.baseline = baseline, !.counts.failed = @ + created]
    BY <1>5, <2>1
  <2>3. run'.baseline = baseline
    BY <1>1, <2>2 DEF IsRun
  <2> QED
    BY <2>1, <2>3
<1>8. PICK captured, prices, all, offers :
         /\ captured = report /\ prices = price /\ all = rows
         /\ offers = SignedOf(captured, prices, rule)
  OBVIOUS
<1>9. /\ captured \in Reports /\ RowsOfReport(all, captured.skus) /\ RowsCapture(all, captured, prices)
      /\ matched = MatchedRows(all)
      /\ TellsSigned(captured, prices, decided, run.baseline, alerts)
  BY <1>1, <1>2, <1>8 DEF Reported, AlertInv
<1>10. /\ AreOffers(matched, offers)
       /\ \A m \in matched : \E sku \in captured.skus :
             m.id = sku.id /\ m.item = sku.item /\ m.sku = sku.sku
  <2>1. \A sku \in captured.skus : prices[sku].confidence = "CONFIRMED" => prices[sku].payable \in Nat
    BY <1>8, ConfirmedIsPayable
  <2> QED
    BY <1>8, <1>9, <2>1, MatchedAreOffers
<1>11. TellsLowerOf(captured, e, Undercut(offers))
  <2>1. TellsPairs(lows, complete, Undercut(offers))
    BY <1>3, <1>10, LowsTellUndercut
  <2>2. ASSUME complete, NEW l \in Listings
        PROVE  \E sku \in captured.skus : sku.listing = l
    <3>1. deriveOwnCatalogCompleteness(Listings, all, issues)
      BY <1>2, <1>3, <1>8, <2>2
    <3>2. PICK row \in all : row.listing = l
      BY <3>1 DEF deriveOwnCatalogCompleteness
    <3> QED
      BY <1>9, <3>2 DEF RowsOfReport, RowOf
  <2> QED
    BY <1>6, <2>1, <2>2 DEF TellsLowerOf
<1>12. IsBaseline(PrimaryOwn(matched), Ours(offers))
  BY <1>10, BaselineIsCheapest
<1>13. Keyed(keys) = Told(captured.skus, e.lows)
  <2>1. \A sku, other \in captured.skus : sku.id = other.id => sku = other
    BY <1>9, ReportsAssumption
  <2>2. PICK skus : skus = captured.skus
    OBVIOUS
  <2>3. Keyed(AlertKeys(matched, lows)) = Told(skus, lows)
    BY <1>3, <1>10, <2>1, <2>2, KeysAreTold
  <2> QED
    BY <1>3, <1>6, <2>2, <2>3
<1>14. alerts' = alerts \cup keys
  <2>1. CASE data.seen
    BY <1>5, <2>1
  <2>2. CASE ~data.seen
    <3>1. ~complete
      BY <1>2, <1>3, <2>2 DEF deriveOwnCatalogCompleteness
    <3>2. lows = {}
      BY <1>3, <1>10, <3>1, LowsAre
    <3>3. keys = {}
      BY <1>3, <3>2, KeysNeedLows
    <3> QED
      BY <1>5, <2>2, <3>3
  <2> QED
    BY <2>1, <2>2
<1>15. TellsSigned(captured, prices, decided', run'.baseline, alerts')
  <2>1. PICK done, baseline, found, later, new :
           /\ done = decided /\ baseline = run.baseline /\ found = alerts /\ later = decided'
           /\ new = run'.baseline
    OBVIOUS
  <2>2. /\ TellsSigned(captured, prices, done, baseline, found) /\ IsSequence(done)
        /\ later = Append(done, e) /\ offers = SignedOf(captured, prices, e.rule)
        /\ IsBaseline(new, Ours(offers))
    BY <1>1, <1>5, <1>6, <1>7, <1>8, <1>9, <1>12, <2>1
  <2>3. TellsSigned(captured, prices, later, new, found \cup keys)
    BY <1>11, <1>13, <2>2, OneMoreTold
  <2> QED
    BY <1>14, <2>1, <2>3
<1>16. RowsCapture(rows', captured, prices)
  <2>1. ASSUME NEW row \in rows'
        PROVE  \E sku \in captured.skus : Captures(row, sku, prices)
    <3>1. PICK old \in all : row = Evaluated(old, matched, complete)
      BY <1>5, <1>8 DEF EvaluatedRows
    <3>2. PICK sku \in captured.skus : Captures(old, sku, prices)
      BY <1>9 DEF RowsCapture
    <3>3. IsRow(old)
      BY <1>9 DEF RowsOfReport
    <3> QED
      BY <3>1, <3>2, <3>3, StaysCaptured
  <2> QED
    BY <2>1 DEF RowsCapture
<1>17. rule' \in Rules /\ \A i \in DOMAIN decided' : decided'[i].rule \in Rules
  <2>1. /\ Continues(decided', decided)
        /\ \A i \in DOMAIN decided' : i \in DOMAIN decided \/ decided'[i] = e
    <3>1. PICK done, later : done = decided /\ later = decided'
      OBVIOUS
    <3>2. IsSequence(done) /\ later = Append(done, e)
      BY <1>1, <1>5, <3>1
    <3> QED
      BY <3>1, <3>2, AppendContinues
  <2>2. rule \in Rules /\ \A i \in DOMAIN decided : decided[i].rule \in Rules
    BY DEF AlertInv
  <2> QED
    BY <1>1, <1>6, <2>1, <2>2 DEF Continues
<1> QED
  BY <1>1, <1>8, <1>15, <1>16, <1>17 DEF AlertInv

(* Storing the report.                                                     *)
LEMMA AlertIngest ==
    ASSUME IInv, AlertInv, Ingest
    PROVE  AlertInv'
<1>1. /\ decided = <<>> /\ report' = report /\ price' = price /\ decided' = decided
      /\ alerts' = alerts /\ rule' = rule
      /\ rows' = {snapshotValues(sku) : sku \in report.skus}
  BY DEF IInv, Empty, Ingest, catalog
<1>2. \A sku \in report.skus : Captures(snapshotValues(sku), sku, price)
  BY DEF snapshotValues, Captures, RowOf
<1>3. RowsCapture(rows', report, price)
  BY <1>1, <1>2 DEF RowsCapture
<1>4. TellsSigned(report, price, <<>>, run'.baseline, alerts)
  <2>1. TellsSigned(report, price, <<>>, run.baseline, alerts)
    BY <1>1 DEF AlertInv
  <2> QED
    BY <2>1 DEF TellsSigned
<1> QED
  BY <1>1, <1>3, <1>4 DEF AlertInv

LEMMA AlertKept ==
    ASSUME AlertInv, UNCHANGED <<report, price, run, rows, alerts, decided>>, rule' \in Rules
    PROVE  AlertInv'
BY DEF AlertInv

LEMMA AlertNext == IInv /\ Calculated /\ AlertInv /\ [Next]_vars => AlertInv'
<1> SUFFICES ASSUME IInv, Calculated, AlertInv, [Next]_vars PROVE AlertInv'
  OBVIOUS
<1>1. rule \in Rules
  BY DEF AlertInv
<1>2. CASE Ingest
  BY <1>2, AlertIngest
<1>3. CASE Evaluate
  BY <1>3, AlertEvaluate
<1>4. CASE OpenPage
  BY <1>1, <1>4, AlertKept DEF OpenPage, stored, catalog, history
<1>5. CASE ClosePage
  BY <1>1, <1>5, AlertKept DEF ClosePage, stored, catalog, history
<1>6. ASSUME NEW new \in Rules, EditModel(new)
      PROVE  AlertInv'
  BY <1>6, AlertKept DEF EditModel, stored, history
<1>7. CASE \E item \in DOMAIN candidates : FindCandidate(item)
  BY <1>1, <1>7, AlertKept DEF FindCandidate, stored, history
<1>8. CASE \E decision \in {"BARE", "BUNDLE", "REJECTED"} : ClassifyCandidate(decision)
  BY <1>1, <1>8, AlertKept DEF ClassifyCandidate, catalog
<1>9. CASE UNCHANGED vars
  BY <1>1, <1>9, AlertKept DEF vars, stored, catalog, history
<1> QED
  BY <1>2, <1>3, <1>4, <1>5, <1>6, <1>7, <1>8, <1>9 DEF Next

-----------------------------------------------------------------------------
(* Where signatures tell goods.                                            *)

(* The same offers, their goods told in another way.                       *)
Twin(a, b) == b.sku = a.sku /\ b.ask = a.ask

Twins(A, B) ==
    /\ \A a \in A : \E b \in B : Twin(a, b)
    /\ \A b \in B : \E a \in A : Twin(a, b)
    /\ \A a, other \in A, b, another \in B :
          Twin(a, b) /\ Twin(other, another) => (a.goods = other.goods <=> b.goods = another.goods)

LEMMA OursAreTwins ==
    ASSUME NEW A, NEW B, Twins(A, B)
    PROVE  /\ \A a \in A, b \in B : Twin(a, b) => /\ (a \in Ours(A) <=> b \in Ours(B))
                                                  /\ (a \in Theirs(A) <=> b \in Theirs(B))
           /\ \A b \in Ours(B) : \E a \in Ours(A) : Twin(a, b)
           /\ \A a \in Ours(A) : \E b \in Ours(B) : Twin(a, b)
<1>1. \A a \in A, b \in B : Twin(a, b) => /\ (a \in Ours(A) <=> b \in Ours(B))
                                          /\ (a \in Theirs(A) <=> b \in Theirs(B))
  BY DEF Twin, Ours, Theirs
<1>2. /\ \A a \in Ours(A) : a \in A
      /\ \A b \in Ours(B) : b \in B
  BY DEF Ours
<1> QED
  BY <1>1, <1>2 DEF Twins

LEMMA UndercutTwins ==
    ASSUME NEW A, NEW B, Twins(A, B),
           NEW p \in A, NEW q \in A, NEW r \in B, NEW s \in B, Twin(p, r), Twin(q, s)
    PROVE  IsUnder(A, p, q) <=> IsUnder(B, r, s)
<1>1. /\ p \in Theirs(A) <=> r \in Theirs(B)
      /\ q \in Ours(A) <=> s \in Ours(B)
      /\ p.goods = q.goods <=> r.goods = s.goods
      /\ p.ask < q.ask <=> r.ask < s.ask
  <2>1. /\ p \in Theirs(A) <=> r \in Theirs(B)
        /\ q \in Ours(A) <=> s \in Ours(B)
    BY OursAreTwins
  <2>2. p.goods = q.goods <=> r.goods = s.goods
    BY DEF Twins
  <2> QED
    BY <2>1, <2>2 DEF Twin
<1>2. ASSUME \A other \in Ours(A) : other.goods = q.goods => q.ask <= other.ask,
             NEW another \in Ours(B), another.goods = s.goods
      PROVE  s.ask <= another.ask
  <2>1. PICK other \in Ours(A) : Twin(other, another)
    BY OursAreTwins
  <2>2. other \in A /\ another \in B
    BY DEF Ours
  <2>3. other.goods = q.goods
    BY <1>2, <2>1, <2>2 DEF Twins
  <2> QED
    BY <1>2, <2>1, <2>3 DEF Twin
<1>3. ASSUME \A another \in Ours(B) : another.goods = s.goods => s.ask <= another.ask,
             NEW other \in Ours(A), other.goods = q.goods
      PROVE  q.ask <= other.ask
  <2>1. PICK another \in Ours(B) : Twin(other, another)
    BY OursAreTwins
  <2>2. other \in A /\ another \in B
    BY DEF Ours
  <2>3. another.goods = s.goods
    BY <1>3, <2>1, <2>2 DEF Twins
  <2> QED
    BY <1>3, <2>1, <2>3 DEF Twin
<1> QED
  BY <1>1, <1>2, <1>3 DEF IsUnder

LEMMA TwinsTellTheSame ==
    ASSUME NEW A, NEW B, Twins(A, B), NEW lows, NEW complete,
           TellsPairs(lows, complete, Undercut(A))
    PROVE  TellsPairs(lows, complete, Undercut(B))
<1>1. PICK under, other : under = Undercut(A) /\ other = Undercut(B)
  OBVIOUS
<1>2. \A pair \in under : \E twin \in other :
         /\ twin[1].sku = pair[1].sku /\ twin[2].sku = pair[2].sku
         /\ twin[1].ask = pair[1].ask /\ twin[2].ask = pair[2].ask
  <2> TAKE pair \in under
  <2>1. PICK p \in A, q \in A : pair = <<p, q>> /\ IsUnder(A, p, q)
    BY <1>1, UndercutPairs
  <2>2. PICK r \in B, s \in B : Twin(p, r) /\ Twin(q, s)
    BY DEF Twins
  <2>3. <<r, s>> \in other
    BY <1>1, <2>1, <2>2, UndercutTwins, UndercutPairs
  <2>4. pair[1] = p /\ pair[2] = q /\ <<r, s>>[1] = r /\ <<r, s>>[2] = s
    BY <2>1
  <2> QED
    BY <2>2, <2>3, <2>4 DEF Twin
<1>3. \A twin \in other : \E pair \in under : twin[1].sku = pair[1].sku
  <2> TAKE twin \in other
  <2>1. PICK r \in B, s \in B : twin = <<r, s>> /\ IsUnder(B, r, s)
    BY <1>1, UndercutPairs
  <2>2. PICK p \in A, q \in A : Twin(p, r) /\ Twin(q, s)
    BY DEF Twins
  <2>3. <<p, q>> \in under
    BY <1>1, <2>1, <2>2, UndercutTwins, UndercutPairs
  <2>4. twin[1] = r /\ <<p, q>>[1] = p
    BY <2>1
  <2> QED
    BY <2>2, <2>3, <2>4 DEF Twin
<1>4. {pair[1].sku.id : pair \in under} = {pair[1].sku.id : pair \in other}
  BY <1>2, <1>3
<1>5. {low.row : low \in lows} = IF complete THEN {pair[1].sku.id : pair \in other} ELSE {}
  <2>1. {low.row : low \in lows} = IF complete THEN {pair[1].sku.id : pair \in under} ELSE {}
    BY <1>1 DEF TellsPairs
  <2> QED
    BY <1>4, <2>1
<1>6. ASSUME NEW low \in lows
      PROVE  \E pair \in other : /\ <<low.row, low.own>> = <<pair[1].sku.id, pair[2].sku.id>>
                                 /\ low.difference = pair[2].ask - pair[1].ask
  <2>1. PICK pair \in under : /\ <<low.row, low.own>> = <<pair[1].sku.id, pair[2].sku.id>>
                              /\ low.difference = pair[2].ask - pair[1].ask
    BY <1>1 DEF TellsPairs
  <2>2. PICK twin \in other : /\ twin[1].sku = pair[1].sku /\ twin[2].sku = pair[2].sku
                              /\ twin[1].ask = pair[1].ask /\ twin[2].ask = pair[2].ask
    BY <1>2
  <2> QED
    BY <2>1, <2>2
<1> QED
  BY <1>1, <1>5, <1>6 DEF TellsPairs

LEMMA TwinsHaveOneBaseline ==
    ASSUME NEW A, NEW B, Twins(A, B), NEW own, IsBaseline(own, Ours(A))
    PROVE  IsBaseline(own, Ours(B))
<1>1. CASE Ours(A) = {}
  <2>1. Ours(B) = {}
    BY <1>1, OursAreTwins
  <2> QED
    BY <1>1, <2>1 DEF IsBaseline
<1>2. CASE Ours(A) # {}
  <2>1. PICK o \in Ours(A) : o.sku.id = own /\ \A other \in Ours(A) : o.ask <= other.ask
    BY <1>2 DEF IsBaseline
  <2>2. PICK b \in Ours(B) : Twin(o, b)
    BY OursAreTwins
  <2>3. \A another \in Ours(B) : b.ask <= another.ask
    <3> TAKE another \in Ours(B)
    <3>1. PICK other \in Ours(A) : Twin(other, another)
      BY OursAreTwins
    <3> QED
      BY <2>1, <2>2, <3>1 DEF Twin
  <2> QED
    BY <2>1, <2>2, <2>3 DEF IsBaseline, Twin
<1> QED
  BY <1>1, <1>2

(* What the page makes clear a SKU sells, as the offers tell it.           *)
ClearGoods(asked, sku) ==
    <<Goods(sku.labels), sku.offer.attributes,
      IF asked.colorComparable THEN sku.offer.color ELSE "">>

ClearOf(captured, prices, asked) ==
    {[sku |-> sku, ask |-> prices[sku].payable, goods |-> ClearGoods(asked, sku)] :
        sku \in {s \in captured.skus : /\ s.stock = "IN_STOCK" /\ prices[s].confidence = "CONFIRMED"
                                       /\ Comparable(asked, s)}}

LEMMA SignedAreClear ==
    ASSUME NEW captured, NEW prices, NEW asked \in Rules, SignaturesTellGoods(captured.skus)
    PROVE  Twins(SignedOf(captured, prices, asked), ClearOf(captured, prices, asked))
<1> DEFINE Signed == SignedOf(captured, prices, asked)
           Clearly == ClearOf(captured, prices, asked)
           OnSale(sku) == sku.stock = "IN_STOCK" /\ prices[sku].confidence = "CONFIRMED"
           s(sku) == [sku |-> sku, ask |-> prices[sku].payable, goods |-> SoldAs(asked, sku).signature]
           c(sku) == [sku |-> sku, ask |-> prices[sku].payable, goods |-> ClearGoods(asked, sku)]
           signed == {sku \in captured.skus : SoldAs(asked, sku).kind = "SIGNED"}
<1>1. /\ signed = {sku \in captured.skus : Comparable(asked, sku)}
      /\ \A sku, other \in signed :
            SoldAs(asked, sku).signature = SoldAs(asked, other).signature
                <=> ClearGoods(asked, sku) = ClearGoods(asked, other)
  BY DEF SignaturesTellGoods, ClearGoods
<1>2. \A o : o \in Signed <=> \E sku \in signed : OnSale(sku) /\ o = s(sku)
  BY DEF SignedOf
<1>3. \A o : o \in Clearly <=> \E sku \in signed : OnSale(sku) /\ o = c(sku)
  BY <1>1 DEF ClearOf
<1>4. \A sku : /\ s(sku).sku = sku /\ s(sku).ask = prices[sku].payable
               /\ s(sku).goods = SoldAs(asked, sku).signature
               /\ c(sku).sku = sku /\ c(sku).ask = prices[sku].payable
               /\ c(sku).goods = ClearGoods(asked, sku)
  OBVIOUS
<1> HIDE DEF Signed, Clearly, OnSale, s, c, signed
<1>5. \A sku : Twin(s(sku), c(sku))
  BY <1>4 DEF Twin
<1>6. \A a \in Signed : \E sku \in signed : a = s(sku) /\ a.sku = sku /\ OnSale(sku)
  BY <1>2, <1>4
<1>7. \A b \in Clearly : \E sku \in signed : b = c(sku) /\ b.sku = sku /\ OnSale(sku)
  BY <1>3, <1>4
<1>8. \A a \in Signed : \E b \in Clearly : Twin(a, b)
  BY <1>3, <1>5, <1>6
<1>9. \A b \in Clearly : \E a \in Signed : Twin(a, b)
  BY <1>2, <1>5, <1>7
<1>10. ASSUME NEW a \in Signed, NEW other \in Signed, NEW b \in Clearly, NEW another \in Clearly,
              Twin(a, b), Twin(other, another)
       PROVE  a.goods = other.goods <=> b.goods = another.goods
  <2>1. PICK x \in signed, y \in signed : a = s(x) /\ a.sku = x /\ other = s(y) /\ other.sku = y
    BY <1>6
  <2>2. b = c(x) /\ another = c(y)
    BY <1>7, <1>10, <2>1 DEF Twin
  <2> QED
    BY <1>1, <1>4, <2>1, <2>2
<1> QED
  BY <1>8, <1>9, <1>10 DEF Twins, Signed, Clearly

LEMMA ClearOffers == \A asked : OnOffer(asked) = ClearOf(report, price, asked)
BY DEF OnOffer, ClearOf, ClearGoods

LEMMA InvLikeWithLike ==
    ASSUME AlertInv, SignaturesTellGoods(report.skus)
    PROVE  AlertsCompareLikeWithLike
<1>1. /\ \A i \in DOMAIN decided : decided[i].rule \in Rules
      /\ TellsSigned(report, price, decided, run.baseline, alerts)
  BY DEF AlertInv
<1>2. ASSUME NEW i \in DOMAIN decided, NEW offers, offers = OnOffer(decided[i].rule)
      PROVE  /\ TellsLower(decided[i], Undercut(offers))
             /\ i = Len(decided) => IsBaseline(run.baseline, Ours(offers))
  <2>1. PICK captured, prices, d, asked, signed :
           /\ captured = report /\ prices = price /\ d = decided[i] /\ asked = d.rule
           /\ signed = SignedOf(captured, prices, asked)
    OBVIOUS
  <2>2. offers = ClearOf(captured, prices, asked)
    BY <1>2, <2>1, ClearOffers
  <2>3. Twins(signed, offers)
    <3>1. asked \in Rules /\ SignaturesTellGoods(captured.skus)
      BY <1>1, <2>1
    <3> QED
      BY <2>1, <2>2, <3>1, SignedAreClear
  <2>4. /\ TellsLowerOf(captured, d, Undercut(signed))
        /\ i = Len(decided) => IsBaseline(run.baseline, Ours(signed))
    BY <1>1, <2>1 DEF TellsSigned
  <2>5. TellsPairs(d.lows, d.complete, Undercut(offers))
    BY <2>3, <2>4, TwinsTellTheSame DEF TellsLowerOf
  <2>6. TellsLower(d, Undercut(offers))
    BY <2>1, <2>4, <2>5 DEF TellsLowerOf, TellsLower, TellsPairs
  <2>7. i = Len(decided) => IsBaseline(run.baseline, Ours(offers))
    BY <2>3, <2>4, TwinsHaveOneBaseline
  <2> QED
    BY <2>1, <2>6, <2>7
<1>3. Keyed(alerts) = Told(report.skus, LowsOf(decided))
  BY <1>1 DEF TellsSigned
<1> QED
  BY <1>2, <1>3 DEF AlertsCompareLikeWithLike, TellsAsOffered, Keyed, Told, LowsOf

-----------------------------------------------------------------------------

(* What is stored of a run is its report: each captured SKU has its row,   *)
(* the run's counters are those of what is stored, at most one batch was   *)
(* announced, by the first evaluation, and each evaluation left every      *)
(* candidate with what its best SKU shows.                                 *)
THEOREM StoredIsReported == Spec => []IInv
<1>1. Init => IInv
  BY InvInit
<1>2. IInv /\ [Next]_vars => IInv'
  BY InvNext
<1> QED
  BY <1>1, <1>2, PTL DEF Spec

(* The numbers a run is reported with are those of its rows, however often *)
(* it is evaluated (expectedCounters, ensureBaselineIssue, the summaries   *)
(* and completion).                                                        *)
THEOREM CountsAreOfRows == Spec => []CountsTellRows
BY StoredIsReported, InvCounts, PTL

(* After an evaluation a candidate counts as comparable exactly when one   *)
(* of its SKUs does, until an operator decides otherwise                   *)
(* (candidateDecisions, saveCandidateDecisions).                           *)
THEOREM CandidatesShowTheirBest == Spec => []CandidateShowsItsBestSku
BY StoredIsReported, InvCandidates, PTL

(* A price is confirmed exactly when nothing is left in doubt and it is    *)
(* the least a member of the public can pay, and the server never refuses  *)
(* a report for a price its own collector calculated, now or before a      *)
(* restart (calculatePublicPrice, derivePromotionDiscounts,                *)
(* migrateItemSkus, and the report's schema).                              *)
THEOREM PricesArePayable == Spec => []ConfirmedPricesArePayable
BY PricesStay, CalculatedIsPayable, PTL

(* Each read of a page found nothing stored yet, or the report, not        *)
(* evaluated or as one of the evaluations left it.                         *)
LEMMA PagesSeeReports == Spec => []PageInv
<1>1. Init => PageInv
  BY PageInit
<1>2. IInv /\ Calculated /\ PageInv /\ [Next]_vars => PageInv'
  BY PageNext
<1> QED
  BY <1>1, <1>2, StoredIsReported, PricesStay, PTL DEF Spec

(* However its reads interleave with ingestion and evaluations, a page     *)
(* shows what its head promises or more; it tells the lower prices and     *)
(* missing combinations of one evaluation, and puts every ranked SKU and   *)
(* every lower price into exactly one shop; the SKU list holds the rows    *)
(* that show what was asked for; and the pages of a list show everything   *)
(* once (collection-report-query.service.ts and aggregation.ts).           *)
THEOREM PagesTellOneEvaluation == Spec => []ReportTellsOneEvaluation
BY StoredIsReported, PagesSeeReports, InvReport, PTL

(* What the evaluations of a run told of its report, they told of its      *)
(* signed offers.                                                          *)
LEMMA EvaluationsTell == Spec => []AlertInv
<1>1. Init => AlertInv
  BY AlertInit
<1>2. IInv /\ Calculated /\ AlertInv /\ [Next]_vars => AlertInv'
  BY AlertNext
<1> QED
  BY <1>1, <1>2, StoredIsReported, PricesStay, PTL DEF Spec

(* A lower price is told, and an alert stored, exactly when a competitor   *)
(* asks less than the cheapest SKU of ours with the same signature, both   *)
(* in stock and both surely priced; nothing is told while a SKU of ours    *)
(* may have been missed; and the baseline kept is the cheapest that could  *)
(* be compared, whatever was evaluated before and however the model was    *)
(* edited (run-sku-comparison.ts, run-alert.service.ts and its             *)
(* repository).                                                            *)
THEOREM AlertsTellSignedOffers == Spec => []AlertsCompareSignatures
<1>1. AlertInv => AlertsCompareSignatures
  BY TellsSignatures DEF AlertInv
<1> QED
  BY <1>1, EvaluationsTell, PTL

(* ... and the same of SKUs that sell the same goods, by the declarative   *)
(* reading of the page, for every report whose signatures tell goods: what *)
(* is left to check is a report's labels, whatever its run goes through    *)
(* (sku-evidence.ts, matcher.service.ts, sku-combination.ts).              *)
THEOREM AlertsTellClearOffers ==
    Spec => [](SignaturesTellGoods(report.skus) => AlertsCompareLikeWithLike)
<1>1. AlertInv => (SignaturesTellGoods(report.skus) => AlertsCompareLikeWithLike)
  BY InvLikeWithLike
<1> QED
  BY <1>1, EvaluationsTell, PTL

=============================================================================
