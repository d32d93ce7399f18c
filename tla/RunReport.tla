----------------------------- MODULE RunReport -----------------------------
(***************************************************************************)
(* What becomes of one run's captured prices: the report is stored         *)
(* (prisma-desktop-report.repository.ts), an evaluation matches, compares  *)
(* and announces them (run-alert.service.ts and its repository), operators *)
(* classify candidates by hand (manual-classification.service.ts), the     *)
(* catalogue is edited meanwhile, and the report page is put together from *)
(* several reads of the database (collection-report-query.service.ts).     *)
(*                                                                         *)
(* Storing a report and evaluating a run are one transaction each, under   *)
(* the lock of the run's row.  The page's reads are one step each, in no   *)
(* transaction; so are the operator's read and write of a candidate.       *)
(***************************************************************************)
EXTENDS SkuEvidence, SkuCombination, SkuComparison, ReportAggregation, SequencesExt

PP == INSTANCE PublicPrice

CONSTANTS
    Listings,       \* the own listings the run claimed
    Rules,          \* what the monitored model may ask for: comparisonType, colorComparable
    Reports,        \* what the collector may report (see Captured)
    KnownItems,     \* competitors' items, known from earlier runs
    MaxEvaluations, \* a bound for the model checker
    MaxEdits        \* a bound for the model checker

\* A captured SKU, and the row it becomes, has a number of its own; items and
\* SKUs are numbered too.  A competitor's item is one of the search result
\* (CheckpointRunner), and no report is as long as the last page is far: the
\* server limits what it accepts by its size.
ASSUME ReportsAssumption ==
    \A captured \in Reports :
        /\ IsFiniteSet(captured.skus) /\ IsFiniteSet(captured.issues)
        /\ captured.positions \in Seq(ToSet(captured.positions))
        /\ Cardinality(captured.skus) <= MaxPage /\ Len(captured.positions) <= MaxPage
        /\ \A sku \in captured.skus :
               /\ {sku.id, sku.item, sku.sku} \subseteq Nat
               /\ sku.listing = "" => \E p \in ToSet(captured.positions) : p.item = sku.item
        /\ \A sku, other \in captured.skus : sku.id = other.id => sku = other

\* What the page says of prices, and, of a price an earlier attempt left in its
\* checkpoint, that it was calculated from the same evidence: an old version
\* may have taken a promotion that is not included for anything.
Inclusions == {"INCLUDED", "EXCLUDED", "UNKNOWN"}
MaybeFen   == Nat \cup {PP!NoFen}

EvidenceWith(inclusions) ==
    [activity : Nat, fee : Nat, shown : MaybeFen,
     promotions : Seq([kind : STRING, audience : STRING, inclusion : inclusions,
                       group : STRING, threshold : MaybeFen, amount : MaybeFen])]

ReadAs(evidence, inclusions) ==
    [evidence EXCEPT !.promotions = [i \in DOMAIN @ |-> [@[i] EXCEPT !.inclusion = inclusions[i]]]]

ASSUME PricesAssumption ==
    \A captured \in Reports : \A sku \in captured.skus :
        LET e == sku.evidence
        IN  /\ e \in EvidenceWith(Inclusions \cup IF sku.kept = {} THEN {} ELSE {"TRUE", "FALSE"})
            /\ \A kept \in sku.kept : \E inclusions \in [DOMAIN e.promotions -> Inclusions] :
                   /\ \A i \in DOMAIN e.promotions : e.promotions[i].inclusion # "FALSE" =>
                          inclusions[i] = PP!normalizePromotion(e.promotions[i]).inclusion
                   /\ kept = PP!calculatePublicPrice(ReadAs(e, inclusions))

VARIABLES
    report,     \* what the collector captured
    price,      \* the price it calculated for each SKU
    run,        \* the run's row: its status, whether the search got to its end,
                \* counts, the answer to the report, and a baseline of ours
    rows,       \* the stored SKUs
    positions,  \* the stored search result
    issues,     \* the stored failures
    candidates, \* what is thought of each competitor's item
    alerts,     \* the stored alerts, by their deduplication key
    batch,      \* the summaries to announce, at most one
    rule,       \* the monitored model
    clerk,      \* an operator between reading a candidate and writing it
    page,       \* a report page being put together
    decided,    \* history: the evaluations that took place
    touched,    \* history: the candidates an operator decided on since
    edits       \* history: how often operators edited the model or a candidate

stored  == <<run, rows, positions, issues, candidates, alerts, batch>>
catalog == <<rule, edits>>
history == <<report, price, decided, touched>>
vars    == <<stored, catalog, clerk, page, history>>

\* What the page's reads see of the database, apart from the run's own row.
Db == [rows |-> rows, positions |-> positions, issues |-> issues]

NoClerk == [item |-> 0, type |-> ""]
NoPage  == [type |-> "", head |-> <<>>, seen |-> {}]

NoCounts == [searched |-> 0, skus |-> 0, failed |-> 0]
NoAnswer == [items |-> 0, own |-> {}, competitors |-> {}]

Pending(items) == [item \in items |-> [decision |-> "PENDING", comparable |-> FALSE]]

\* The collector's calculated part of a SKU: its price, as it is captured or
\* as the collector finds it in the checkpoint of an earlier attempt.
Captured(sku) ==
    CASE sku.kept = {} -> PP!calculatePublicPrice(sku.evidence)
      [] OTHER         -> PP!migrateItemSkus(sku.evidence, CHOOSE kept \in sku.kept : TRUE)

CapturedEvidence(sku) ==
    IF sku.kept = {} THEN sku.evidence ELSE PP!migrateLegacyCheckpointReport(sku.evidence)

Init ==
    /\ report \in Reports
    /\ price = [sku \in report.skus |-> Captured(sku)]
    /\ run = [status |-> "RUNNING", covered |-> FALSE, counts |-> NoCounts,
              answer |-> NoAnswer, baseline |-> NoRow]
    /\ rows = {} /\ positions = <<>> /\ issues = {} /\ alerts = {} /\ batch = {}
    /\ candidates = Pending(KnownItems)
    /\ rule \in Rules
    /\ clerk = NoClerk /\ page = NoPage
    /\ decided = <<>> /\ touched = {} /\ edits = 0

\* A page being put together may see what was just written.
Watched == page' = IF page = NoPage THEN page ELSE [page EXCEPT !.seen = @ \cup {Db'}]

---------------------------------------------------------------------------
(* Storing the report *)

SchemaAccepts(skus) == \A sku \in skus : PP!SchemaAccepts(CapturedEvidence(sku), price[sku])

\* The row of a SKU: what was captured, and nothing decided yet.
snapshotValues(sku) ==
    [id |-> sku.id, listing |-> sku.listing, item |-> sku.item, sku |-> sku.sku,
     stock |-> sku.stock, confidence |-> price[sku].confidence,
     payable |-> price[sku].payable, offer |-> sku.offer,
     components |-> deriveSkuComponents(sku.labels),
     decision |-> "", comparable |-> FALSE, confidenceBps |-> 0,
     state |-> "", signature |-> NoSignature, own |-> NoRow, reasons |-> {}]

expectedCounters ==
    [searched |-> Len(report.positions), skus |-> Cardinality(report.skus),
     failed |-> Cardinality(report.issues)]

\* What whoever sent the report is told, now and when it is sent again.
summary ==
    [items       |-> Cardinality({p.item : p \in ToSet(positions')}),
     own         |-> {row.id : row \in {r \in rows' : IsOwn(r)}},
     competitors |-> {row.id : row \in {r \in rows' : ~IsOwn(r)}}]

\* Candidates that were found before keep their row and take what is new.
Over(new, old) ==
    [item \in DOMAIN new \cup DOMAIN old |-> IF item \in DOMAIN new THEN new[item] ELSE old[item]]

\* Every candidate of the report starts over, and so does what an operator
\* thought of it.
Ingest ==
    LET competitors == {sku.item : sku \in {s \in report.skus : s.listing = ""}}
    IN  /\ run.status = "RUNNING"
        /\ SchemaAccepts(report.skus)
        /\ rows' = {snapshotValues(sku) : sku \in report.skus}
        /\ positions' = report.positions
        /\ run' = [run EXCEPT !.status = "REPORTED", !.covered = report.covered,
                              !.counts = expectedCounters, !.answer = summary]
        /\ issues' = report.issues
        /\ candidates' = Over(Pending(competitors), candidates)
        /\ touched' = touched \ competitors
        /\ UNCHANGED <<alerts, batch, catalog, clerk, report, price, decided>>
        /\ Watched

---------------------------------------------------------------------------
(* Evaluating the run *)

\* The parts as they are read back: none when one of them has no quantity.
skuComponentsFromJson(parts) == IF \E part \in parts : part.quantity <= 0 THEN {} ELSE parts

rawOffer(row) == [components |-> skuComponentsFromJson(row.components)] @@ row.offer

\* A row with its product decision and the combination it sells.
Matched(row) ==
    LET offer    == rawOffer(row)
        decision == persistenceDecision(rule, offer)
    IN  [id |-> row.id, listing |-> row.listing, item |-> row.item, sku |-> row.sku,
         stock |-> row.stock, confidence |-> row.confidence, payable |-> row.payable,
         decision |-> decision,
         combination |-> buildSkuCombination(rule, decision.decision, offer)]

\* What the evaluation writes into a row.
Evaluated(row, matched, complete) ==
    LET of    == Matched(row)
        found == Decision(matched, complete, of)
    IN  [row EXCEPT !.decision = of.decision.decision, !.comparable = of.decision.comparable,
                    !.confidenceBps = of.decision.confidence,
                    !.state = found.state, !.signature = of.combination.signature,
                    !.own = found.own, !.reasons = found.reasons]

\* A candidate takes the decision of its best SKU: one that can be compared
\* before one to look at, and that before one rejected.
Priority(decision) == CASE decision \in {"BARE", "BUNDLE"} -> 2
                        [] decision = "MANUAL"             -> 1
                        [] OTHER                           -> 0

\* A mutant: the surest decision wins, whatever it says.
SurerSku(one, other) ==
    \/ one.decision.confidence > other.decision.confidence
    \/ one.decision.confidence = other.decision.confidence /\ one.id <= other.id

BetterSku(one, other) ==
    LET a == one.decision
        b == other.decision
    IN  \/ Priority(a.decision) > Priority(b.decision)
        \/ /\ Priority(a.decision) = Priority(b.decision)
           /\ a.confidence > b.confidence \/ (a.confidence = b.confidence /\ one.id <= other.id)

candidateDecisions(matched) ==
    LET OfItem(item) == {m \in matched : m.item = item /\ ~IsOwn(m)}
        Best(item)   == CHOOSE m \in OfItem(item) : \A o \in OfItem(item) : BetterSku(m, o)
    IN  [item \in {m.item : m \in {c \in matched : ~IsOwn(c)}} |->
            [decision |-> Best(item).decision.decision, comparable |-> Best(item).decision.comparable]]

\* The alert service checks once more what the comparison promised, and an
\* alert has a key that survives a repeated evaluation.
AlertKeys(matched, lows) ==
    LET Confirmed(c, own) ==
            /\ \E low \in lows : low.row = c.id /\ low.own = own.id
            /\ SameGoods(c, own) /\ CanBeCompared(c) /\ CanBeCompared(own)
            /\ c.payable < own.payable
    IN  {[signature |-> pair[1].combination.signature, own |-> pair[2].id,
          item |-> pair[1].item, sku |-> pair[1].sku, price |-> pair[1].payable] :
            pair \in {p \in matched \X matched : Confirmed(p[1], p[2])}}

saveCandidateDecisions(decisions) == candidates' = Over(decisions, candidates)

\* The report is shown against the baseline of the latest evaluation.
saveOwnBaselineSnapshot(baseline, created) ==
    run' = [run EXCEPT !.baseline = baseline, !.counts.failed = @ + created]

BaselineMissing == [code |-> "OWN_BASELINE_MISSING", item |-> 0, sku |-> 0]

\* A mutant: every evaluation counts the missing baseline.
CountedAgain(seen) == IF seen THEN 0 ELSE 1

\* How many issues are new: the missing baseline is stored and counted once.
ensureBaselineIssue(seen) == IF seen \/ BaselineMissing \in issues THEN 0 ELSE 1

\* What an evaluation reads under the lock of the run's row.
withEvaluation ==
    [complete  |-> deriveOwnCatalogCompleteness(Listings, rows, issues),
     snapshots |-> {Matched(row) : row \in rows},
     seen      |-> \E row \in rows : row.listing \in Listings,
     positions |-> Len(positions), skus |-> run.counts.skus, issues |-> Cardinality(issues)]

\* What is announced of a run.
RunAlertSummary(data, alerted, missing, created) ==
    [alerts |-> alerted, missing |-> missing, positions |-> data.positions,
     skus |-> data.skus, issues |-> data.issues + created]

\* One transaction.  The first evaluation's alerts are announced; a later one
\* stores its alerts without a batch.
Evaluate ==
    LET data     == withEvaluation
        complete == data.complete
        matched  == data.snapshots
        lows     == AlertCandidates(matched, complete)
        missing  == MissingOwnGroups(matched, complete)
        keys     == IF data.seen THEN AlertKeys(matched, lows) ELSE {}
        created  == ensureBaselineIssue(data.seen)
    IN  /\ run.status = "REPORTED"
        /\ Len(decided) < MaxEvaluations
        /\ rows' = {Evaluated(row, matched, complete) : row \in rows}
        /\ saveCandidateDecisions(candidateDecisions(matched))
        /\ saveOwnBaselineSnapshot(PrimaryOwn(matched), created)
        /\ issues' = IF data.seen THEN issues ELSE issues \cup {BaselineMissing}
        /\ alerts' = alerts \cup keys
        /\ batch' = IF batch = {} THEN {RunAlertSummary(data, keys \ alerts, missing, created)}
                    ELSE batch
        /\ decided' = Append(decided,
               [rule |-> rule, complete |-> complete, lows |-> lows, missing |-> missing])
        /\ touched' = {}
        /\ UNCHANGED <<positions, catalog, clerk, report, price>>
        /\ Watched

---------------------------------------------------------------------------
(* Operators *)

\* The catalogue is edited while reports come in: the monitored model asks
\* for something else.
EditModel(new) ==
    /\ edits < MaxEdits /\ new # rule
    /\ rule' = new /\ edits' = edits + 1
    /\ UNCHANGED <<stored, clerk, page, history>>

\* Classifying a candidate by hand: the read, which also takes what the model
\* compares, and the write.
FindCandidate(item) ==
    /\ clerk = NoClerk /\ edits < MaxEdits
    /\ edits' = edits + 1
    /\ clerk' = [item |-> item, type |-> rule.comparisonType]
    /\ UNCHANGED <<stored, rule, page, history>>

ClassifyCandidate(decision) ==
    /\ clerk # NoClerk
    /\ candidates' = [candidates EXCEPT ![clerk.item] =
           [decision |-> decision,
            comparable |-> decision # "REJECTED" /\ decision = clerk.type]]
    /\ touched' = touched \cup {clerk.item}
    /\ clerk' = NoClerk
    /\ UNCHANGED <<run, rows, positions, issues, alerts, batch, catalog, page, report, price, decided>>

---------------------------------------------------------------------------
(* The report page *)

\* The run as it is first read, with the rows it has then.
toRawRun ==
    [covered |-> run.covered, failed |-> run.counts.failed,
     positions |-> Len(positions), skus |-> Cardinality(rows)]

\* The head of the page: a run is complete when its search got to the end and
\* nothing failed.
completion(raw) ==
    [positions |-> raw.positions, skus |-> raw.skus,
     complete |-> raw.covered /\ raw.failed = 0]

\* The run and what its model compares are read first; the other reads take
\* place in no order and in no transaction until the page is complete, each
\* seeing one of the states the database has had since.
OpenPage ==
    /\ page = NoPage
    /\ page' = [type |-> rule.comparisonType, head |-> completion(toRawRun), seen |-> {Db}]
    /\ UNCHANGED <<stored, catalog, clerk, history>>

ClosePage ==
    /\ page # NoPage
    /\ page' = NoPage
    /\ UNCHANGED <<stored, catalog, clerk, history>>

\* The facts the page may have been computed from.
loadBusinessFacts ==
    {[positions |-> p, rows |-> r,
      complete  |-> deriveOwnCatalogCompleteness(Listings, r, i)] :
        p \in {db.positions : db \in page.seen}, r \in {db.rows : db \in page.seen},
        i \in {db.issues : db \in page.seen}}

Next ==
    \/ Ingest \/ Evaluate \/ OpenPage \/ ClosePage
    \/ \E new \in Rules : EditModel(new)
    \/ \E item \in DOMAIN candidates : FindCandidate(item)
    \/ \E decision \in {"BARE", "BUNDLE", "REJECTED"} : ClassifyCandidate(decision)

Spec == Init /\ [][Next]_vars

---------------------------------------------------------------------------
(* Properties *)

\* What a price comes to at best for a member of the public: of every group
\* of promotions that exclude each other one may be used.
BestDiscount(evidence) ==
    LET ps      == evidence.promotions
        usable  == {i \in DOMAIN ps : /\ ps[i].audience = "PUBLIC" /\ ps[i].inclusion = "EXCLUDED"
                                      /\ evidence.activity >= ps[i].threshold}
        choices == {c \in SUBSET usable :
                        \A i, j \in c : i # j => ps[i].group # ps[j].group}
    IN  Max({MapThenSumSet(LAMBDA i : ps[i].amount, c) : c \in choices})

\* A promotion that could move the price, and that the page does not explain.
Doubtful(promotion, activity) ==
    /\ promotion.audience \notin PP!KnownPrivateAudiences
    /\ \/ promotion.audience # "PUBLIC"
       \/ promotion.inclusion = "UNKNOWN"
       \/ /\ promotion.inclusion = "EXCLUDED" /\ activity >= promotion.threshold
          /\ \/ promotion.amount = PP!NoFen \/ promotion.threshold = PP!NoFen
             \/ promotion.group = PP!NoGroup

\* A price is confirmed exactly when nothing is left in doubt and it is the
\* least a member of the public can pay, and the server never refuses a
\* report for a price its own collector calculated, now or in an attempt whose
\* checkpoint a later one, or a later version, resumed (calculatePublicPrice,
\* derivePromotionDiscounts and migrateItemSkus against the report's schema).
ConfirmedPricesArePayable ==
    /\ SchemaAccepts(report.skus)
    /\ \A sku \in report.skus :
           LET e     == CapturedEvidence(sku)
               sure  == \A i \in DOMAIN e.promotions : ~Doubtful(e.promotions[i], e.activity)
               least == e.activity + e.fee - BestDiscount(e)
           IN  /\ price[sku].confidence = "CONFIRMED" <=> (sure /\ least >= 0)
               /\ price[sku].confidence = "CONFIRMED" => price[sku].payable = least

\* What a page says a SKU consists of, each thing once: the number of core
\* products stated, and each accessory with the number stated of it; unclear
\* when something cannot be named or counted, or is counted twice.
Tokens(labels)     == UNION {ToSet(label.tokens) : label \in
                              {l \in ToSet(labels) : l.dim = "PACKAGE"}}
Quantities(labels) == {l \in ToSet(labels) : l.dim = "QUANTITY"}
Names(labels)      == UNION {ToSet(token.accessories) : token \in
                              {t \in Tokens(labels) : t.kind = "ACCESSORIES"}}

CountsOfCore(labels) ==
    {t.quantity : t \in {t \in Tokens(labels) : t.kind = "SINGLE_PRODUCT" /\ t.quantity # 0}}
        \cup {q.amount : q \in {q \in Quantities(labels) : q.target \in {Core, "product"}}}

CountsOf(labels, accessory) ==
    {t.quantity : t \in {t \in Tokens(labels) : /\ t.kind = "ACCESSORIES" /\ t.quantity \notin {0, 1}
                                                /\ accessory \in ToSet(t.accessories)}}
        \cup {q.amount : q \in {q \in Quantities(labels) :
                                    q.target \in {accessory.type, accessory.name}}}

Stated(counts) == IF counts = {} THEN 1 ELSE CHOOSE count \in counts : TRUE

Clear(labels) ==
    /\ \A t \in Tokens(labels) : /\ t.kind # "OTHER" /\ t.quantity # NoAmount
                                 /\ Len(t.accessories) > 1 => t.quantity = 0
    /\ \A q \in Quantities(labels) :
           /\ q.amount # NoAmount
           /\ q.target = "product" => \A a \in Names(labels) : a.type # "product"
           /\ q.target \notin {Core, "product"} =>
                  Cardinality({a \in Names(labels) : q.target \in {a.type, a.name}}) = 1
    /\ Cardinality(CountsOfCore(labels)) <= 1
    /\ \A a \in Names(labels) : Cardinality(CountsOf(labels, a)) <= 1

Goods(labels) == [core |-> Stated(CountsOfCore(labels)),
                  extras |-> {<<a.name, Stated(CountsOf(labels, a))>> : a \in Names(labels)}]

\* A SKU of the product the model asks for, whose goods the page makes clear.
Comparable(asked, sku) ==
    /\ ~sku.offer.excluded /\ ~sku.offer.lacking /\ ~sku.offer.secondHand
    /\ sku.offer.model # "NONE" /\ classifyOffer(sku.offer) = asked.comparisonType
    /\ \A a \in sku.offer.attributes : a[2] # ""
    /\ asked.colorComparable => sku.offer.color # ""
    /\ Clear(sku.labels)

\* Those of the report that are in stock and surely priced, each with what it
\* sells.
OnOffer(asked) ==
    {[sku |-> sku, ask |-> price[sku].payable,
      goods |-> <<Goods(sku.labels), sku.offer.attributes,
                  IF asked.colorComparable THEN sku.offer.color ELSE "">>] :
        sku \in {s \in report.skus : /\ s.stock = "IN_STOCK" /\ price[s].confidence = "CONFIRMED"
                                     /\ Comparable(asked, s)}}

Ours(offers)   == {o \in offers : o.sku.listing # ""}
Theirs(offers) == offers \ Ours(offers)

\* Competitors' offers below the cheapest of ours of the same goods, with it.
Undercut(offers) ==
    {pair \in Theirs(offers) \X Ours(offers) :
        /\ pair[1].goods = pair[2].goods /\ pair[1].ask < pair[2].ask
        /\ \A other \in Ours(offers) : other.goods = pair[2].goods => pair[2].ask <= other.ask}

TellsLower(d, pairs) ==
    /\ {low.row : low \in d.lows} =
           IF d.complete THEN {pair[1].sku.id : pair \in pairs} ELSE {}
    /\ \A low \in d.lows : \E pair \in pairs :
           /\ <<low.row, low.own>> = <<pair[1].sku.id, pair[2].sku.id>>
           /\ low.difference = pair[2].ask - pair[1].ask
    /\ d.complete => \A l \in Listings : \E o \in report.skus : o.listing = l

IsBaseline(own, ours) ==
    IF ours = {} THEN own = NoRow
    ELSE \E o \in ours : o.sku.id = own /\ \A other \in ours : o.ask <= other.ask

\* What the evaluations, the baseline and the alerts tell is what is offered.
TellsAsOffered(Offers(_)) ==
    /\ \A i \in DOMAIN decided : \A offers \in {Offers(decided[i].rule)} :
           /\ TellsLower(decided[i], Undercut(offers))
           /\ i = Len(decided) => IsBaseline(run.baseline, Ours(offers))
    /\ {<<a.item, a.sku, a.own>> : a \in alerts} =
           {<<pair[1].item, pair[1].sku, pair[2].own>> : pair \in
               {p \in report.skus \X UNION {decided[i].lows : i \in DOMAIN decided} :
                   p[2].row = p[1].id}}

\* A lower price is told, and an alert stored, exactly when a competitor asks
\* less than the cheapest SKU of ours that sells the same goods, both in stock
\* and both surely priced, and the difference told is the difference asked;
\* nothing is told while a SKU of ours may have been missed; and the baseline
\* kept is the cheapest SKU of ours that could be compared (the way from the
\* page's labels through matcher, signature and comparison to the alert).
AlertsCompareLikeWithLike == TellsAsOffered(OnOffer)

\* The combination a captured SKU sells, as an evaluation builds it.
SoldAs(asked, sku) ==
    LET offer == rawOffer([components |-> deriveSkuComponents(sku.labels), offer |-> sku.offer])
    IN  buildSkuCombination(asked, persistenceDecision(asked, offer).decision, offer)

\* The offers again, their goods told by the signature.
SignedOnOffer(asked) ==
    {[sku |-> sku, ask |-> price[sku].payable, goods |-> SoldAs(asked, sku).signature] :
        sku \in {s \in report.skus : /\ s.stock = "IN_STOCK" /\ price[s].confidence = "CONFIRMED"
                                     /\ SoldAs(asked, s).kind = "SIGNED"}}

\* The same of goods with the same signature, whatever the page's labels are.
AlertsCompareSignatures == TellsAsOffered(SignedOnOffer)

\* SKUs have a signature exactly when the page makes clear what they sell, and
\* one signature exactly when they sell the same.
SignaturesTellGoods(skus) ==
    \A asked \in Rules :
        LET Clearly(sku) == <<Goods(sku.labels), sku.offer.attributes,
                              IF asked.colorComparable THEN sku.offer.color ELSE "">>
            signed == {sku \in skus : SoldAs(asked, sku).kind = "SIGNED"}
        IN  /\ signed = {sku \in skus : Comparable(asked, sku)}
            /\ \A sku, other \in signed :
                   SoldAs(asked, sku).signature = SoldAs(asked, other).signature
                       <=> Clearly(sku) = Clearly(other)

Filter(source, matching, comparison, state) ==
    [source |-> source, match |-> matching, price |-> comparison, state |-> state]

\* The filters of the list and what the rows they select must show.
Filters == {Filter(s, "", "", "") : s \in {"OWN", "COMPETITOR"}}
           \cup {Filter("", m, "", "") : m \in {"EXACT", "REVIEW", "EXCLUDED"}}
           \cup {Filter("", "", p, "") : p \in {"LOWER", "NOT_LOWER"}}
           \cup {Filter("", "", "", s) :
                    s \in {"MATCHED", "MISSING_OWN", "REVIEW", "OWN", "EXCLUDED"}}

Shows(line, filter) ==
    /\ filter.source # "" => filter.source = IF IsOwn(line.row) THEN "OWN" ELSE "COMPETITOR"
    /\ filter.match # ""  => filter.match = line.match
    /\ filter.price # ""  => filter.price = line.comparison
    /\ filter.state # ""  => filter.state = line.state

\* Going from page to page as long as there is a next one shows everything
\* once.
Paged(List(_), size, all) ==
    LET Meta(p) == pageMeta(normalizePageRequest(p, size), Cardinality(all))
        On(p)   == List(normalizePageRequest(p, size))
        pages   == 1..Meta(1).pages
    IN  /\ UNION {On(p) : p \in pages} = all
        /\ MapThenSumSet(LAMBDA p : Cardinality(On(p)), pages) = Cardinality(all)
        /\ \A p \in pages : On(p) # {} /\ (Meta(p).next <=> p + 1 \in pages)

\* The lists are read by requests of their own.
ListsShowAllOnce ==
    LET Skus(request)  == listSnapshots(Filter("", "", "", ""), rule.comparisonType,
                                        positions, rows, request)
        Found(request) == listPositions(positions, request)
    IN  \A size \in {0, 2} : /\ Paged(Skus, size, {row.id : row \in rows})
                             /\ Paged(Found, size, DOMAIN positions)

\* However its reads interleave with ingestion and evaluations, a page shows
\* what its head promises or more; it tells the lower prices and missing
\* combinations of one evaluation, and puts every ranked SKU and every lower
\* price into exactly one shop; the SKU list, as the database filters those
\* rows, holds the ones that show what was asked for; and the pages of a list
\* show everything once.
ReportTellsOneEvaluation ==
    /\ page = NoPage => ListsShowAllOnce
    /\ page # NoPage => \A facts \in loadBusinessFacts :
        LET shown     == aggregateCollectionRunReport(facts, page.type)
            ranked    == {line \in shown.rows : line.ranks # {}}
            evaluated == \E row \in facts.rows : row.state # ""
        IN  /\ page.head.skus \in {0, Cardinality(facts.rows)}
            /\ page.head.positions \in {0, Len(facts.positions)}
            /\ IF ~evaluated \/ facts.positions = <<>>
               THEN shown.lows = {} /\ shown.missing = {}
               ELSE \E i \in DOMAIN decided : /\ shown.lows = decided[i].lows
                                              /\ shown.missing = decided[i].missing
            /\ \A line \in ranked :
                   Cardinality({shop \in shown.board : line.row.id \in shop.skus}) = 1
            /\ MapThenSumSet(LAMBDA shop : shop.lows, shown.board) = Cardinality(shown.lows)
            /\ \A filter \in Filters, line \in shown.rows :
                   snapshotFilter(filter, page.type, facts.rows, line.row) <=> Shows(line, filter)

\* The numbers a run is reported with are those of its rows, however often it
\* is evaluated: its counters, what is announced, and the answer to its
\* report; and it is shown as complete exactly when nothing failed and, once
\* evaluated, a SKU of ours is there to compare with (expectedCounters,
\* ensureBaselineIssue, the summaries and completion).
CountsTellRows ==
    /\ run.status = "REPORTED" =>
           /\ run.counts = [searched |-> Len(positions), skus |-> Cardinality(rows),
                            failed |-> Cardinality(issues)]
           /\ Cardinality(run.answer.own) + Cardinality(run.answer.competitors) = Cardinality(rows)
           /\ run.answer.items <= run.counts.searched
           /\ completion(toRawRun).complete <=>
                  /\ report.covered /\ report.issues = {}
                  /\ decided = <<>> \/ \E sku \in report.skus : sku.listing \in Listings
    /\ \A announced \in batch :
           /\ announced.positions = Len(positions) /\ announced.skus = Cardinality(rows)
           /\ announced.issues = Cardinality(issues)
           /\ announced.missing = decided[1].missing
           /\ {a.item : a \in announced.alerts} \subseteq {row.item : row \in rows}

\* After an evaluation a candidate counts as comparable exactly when one of
\* its SKUs does, until an operator decides otherwise (candidateDecisions,
\* saveCandidateDecisions and the manual classification).
CandidateShowsItsBestSku ==
    decided # <<>> => \A item \in {row.item : row \in {r \in rows : ~IsOwn(r)}} \ touched :
        candidates[item].comparable
            <=> \E row \in rows : row.item = item /\ ~IsOwn(row) /\ row.comparable
=============================================================================
