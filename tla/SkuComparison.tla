--------------------------- MODULE SkuComparison ---------------------------
(***************************************************************************)
(* The comparison of one run's SKUs: run-sku-comparison.ts, and the        *)
(* completeness of the run's own catalogue it depends on                   *)
(* (own-catalog-completeness.ts).                                          *)
(*                                                                         *)
(* A row is a captured SKU: its id, its listing ("" for a competitor's),   *)
(* item, sku and shop, its stock, confidence and payable price, and the    *)
(* combination SkuCombination built of it (kind and signature).  Items,    *)
(* SKUs and ids are numbers, for the code orders rows by them.             *)
(***************************************************************************)
EXTENDS Integers, FiniteSets, FiniteSetsExt

NoRow == 0  \* null, for the id of a row

IsOwn(row)     == row.listing # ""
IsSigned(row)  == row.combination.kind = "SIGNED"

hasConfirmedPayable(row) == row.confidence = "CONFIRMED" /\ row.payable >= 0

CanBeCompared(row) == row.stock = "IN_STOCK" /\ hasConfirmedPayable(row)

SameGoods(row, other) == row.combination.signature = other.combination.signature

\* The order of rows: by price, then by item and SKU.
Cheaper(row, other) ==
    \/ row.payable < other.payable
    \/ row.payable = other.payable /\ row.item < other.item
    \/ row.payable = other.payable /\ row.item = other.item /\ row.sku <= other.sku

Cheapest(rows) == CHOOSE row \in rows : \A other \in rows : Cheaper(row, other)

OwnRows(rows)      == {row \in rows : IsOwn(row) /\ IsSigned(row)}
OwnWith(rows, row) == {own \in OwnRows(rows) : SameGoods(own, row)}
Eligible(rows)     == {row \in OwnRows(rows) : CanBeCompared(row)}
Baselines(rows, row) == {own \in OwnWith(rows, row) : CanBeCompared(own)}

Decided(state, own, reasons) == [state |-> state, own |-> own, reasons |-> reasons]
ToReview(reasons)            == Decided("REVIEW", NoRow, reasons)
Missing(reason)              == Decided("MISSING_OWN", NoRow, {reason})

UnfitReasons(row, priceReason, outReason, unknownReason) ==
    {reason \in {priceReason} : ~hasConfirmedPayable(row)}
        \cup {reason \in {outReason} : row.stock = "OUT_OF_STOCK"}
        \cup {reason \in {unknownReason} : row.stock = "UNKNOWN"}

OwnDecision(row) ==
    IF CanBeCompared(row) THEN Decided("OWN", NoRow, {})
    ELSE ToReview(UnfitReasons(row, "OWN_PRICE_UNCONFIRMED", "OWN_OUT_OF_STOCK",
                               "OWN_STOCK_UNCONFIRMED"))

\* A competitor's SKU nothing of ours can be compared with: because a price
\* of ours is not sure, because we have none in stock, or none at all.
UnmatchedDecision(ours) ==
    IF \E own \in ours : ~hasConfirmedPayable(own) THEN ToReview({"OWN_PRICE_UNCONFIRMED"})
    ELSE IF ours = {} THEN Missing("OWN_COMBINATION_ABSENT")
    ELSE IF \A own \in ours : own.stock = "OUT_OF_STOCK" THEN Missing("OWN_OUT_OF_STOCK_ONLY")
    ELSE ToReview({"OWN_STOCK_UNCONFIRMED"})

CompetitorDecision(rows, complete, row) ==
    IF ~CanBeCompared(row)
    THEN     ToReview(UnfitReasons(row, "COMPETITOR_PRICE_UNCONFIRMED",
                                   "COMPETITOR_OUT_OF_STOCK", "COMPETITOR_STOCK_UNKNOWN"))
    ELSE IF ~complete THEN ToReview({"OWN_CATALOG_INCOMPLETE"})
    ELSE IF Baselines(rows, row) # {}
         THEN Decided("MATCHED", Cheapest(Baselines(rows, row)).id, {"EXACT_SIGNATURE"})
    ELSE UnmatchedDecision(OwnWith(rows, row))

Decision(rows, complete, row) ==
    IF row.combination.kind = "EXCLUDED"    THEN Decided("EXCLUDED", NoRow, {})
    ELSE IF row.combination.kind = "REVIEW" THEN ToReview({})
    ELSE IF IsOwn(row)                      THEN OwnDecision(row)
    ELSE CompetitorDecision(rows, complete, row)

\* The lower prices the comparison found: a competitor's row, the row of ours
\* it undercuts, and by how much.
AlertCandidates(rows, complete) ==
    LET matched == {row \in rows : ~IsOwn(row) /\ IsSigned(row)
                                   /\ Decision(rows, complete, row).state = "MATCHED"}
        Own(row) == Cheapest(Baselines(rows, row))
    IN  {[row |-> row.id, own |-> Own(row).id, difference |-> Own(row).payable - row.payable] :
            row \in {r \in matched : r.payable < Own(r).payable}}

\* The combinations competitors sell and we do not: the offers of each, the
\* reason, and the least price asked.
MissingOwnGroups(rows, complete) ==
    LET missing  == {row \in rows : Decision(rows, complete, row).state = "MISSING_OWN"}
        Like(row) == {other \in missing : SameGoods(other, row)}
    IN  {[signature |-> row.combination.signature,
          offers    |-> {other.id : other \in Like(row)},
          reasons   |-> Decision(rows, complete, row).reasons,
          minimum   |-> Min({other.payable : other \in Like(row)})] : row \in missing}

PrimaryOwn(rows) == IF Eligible(rows) = {} THEN NoRow ELSE Cheapest(Eligible(rows)).id

---------------------------------------------------------------------------
\* Failures that leave an item's SKUs incomplete, and those that could have
\* hit any item.
OwnItemDetailFailures ==
    {"ITEM_UNAVAILABLE", "SKU_ENUMERATION_INCOMPLETE", "SKU_SELECTION_MISMATCH", "PRICE_UNSTABLE"}
UnattributedFailures == {"MISSING_ITEM_ID", "UI_CONTRACT_CHANGED"}

\* Every listing claimed was captured, and no failure can have hidden a SKU of
\* ours.  The items a listing names itself do not count: nothing in the
\* program writes OwnListing.platformItemId, so it is null.
deriveOwnCatalogCompleteness(claimed, rows, issues) ==
    LET ours     == {row \in rows : row.listing \in claimed}
        ourItems == {row.item : row \in ours}
    IN  /\ claimed # {}
        /\ claimed \subseteq {row.listing : row \in ours}
        /\ ~ \E issue \in issues :
               \/ issue.code \in UnattributedFailures
               \/ issue.code \in OwnItemDetailFailures /\ issue.item \in ourItems
               \/ /\ issue.code \in OwnItemDetailFailures /\ issue.item = 0
                  /\ issue.sku \in {row.sku : row \in ours}
=============================================================================
