---------------------------- MODULE PublicPrice ----------------------------
(***************************************************************************)
(* What a captured SKU costs a member of the public: the price the         *)
(* collector derives from the page's evidence (packages/config,            *)
(* public-price.ts and packages/contracts, promotion-discount-components)  *)
(* and the checks the report's schema repeats on the server's side.        *)
(*                                                                         *)
(* A piece of price evidence is a record                                   *)
(*   activity, fee  the activity price and the mandatory fee, in fen       *)
(*   shown          the payable price the page itself estimates, or NoFen  *)
(*   promotions     a sequence of promotions, each with its kind,          *)
(*                  audience, inclusion in the activity price, stack       *)
(*                  group, threshold and amount.                           *)
(* A promotion of an old checkpoint only says whether it is included, and   *)
(* its inclusion is "TRUE" or "FALSE".                                     *)
(* Fen are unbounded here: the safe-integer and 32-bit limits of the code  *)
(* lie far above any price a shop asks.                                    *)
(***************************************************************************)
EXTENDS Integers, Sequences, FiniteSetsExt

NoFen == -1            \* null, for an amount
NoGroup == "no group"  \* null, for a stack group

\* Audiences whose promotions are known not to be for everybody.
KnownPrivateAudiences == {"MEMBER", "88VIP", "ACCOUNT", "PERSONAL_RED_PACKET"}

\* A public promotion the activity price does not contain yet, unless the
\* page states a threshold the activity price stays under.
Counts(promotion, activity) ==
    /\ promotion.audience = "PUBLIC"
    /\ promotion.inclusion = "EXCLUDED"
    /\ promotion.threshold = NoFen \/ activity >= promotion.threshold

Complete(promotion) ==
    /\ NoFen \notin {promotion.amount, promotion.threshold}
    /\ promotion.group # NoGroup

\* A promotion a person has to look at before the price can be trusted.
NeedsReview(promotion, activity) ==
    \/ promotion.audience \notin KnownPrivateAudiences \cup {"PUBLIC"}
    \/ promotion.audience = "PUBLIC" /\ promotion.inclusion = "UNKNOWN"
    \/ Counts(promotion, activity) /\ ~Complete(promotion)

\* A mutant: promotions that exclude each other are added up.
AppliedTogether(promotions, activity) ==
    {i \in DOMAIN promotions : Counts(promotions[i], activity) /\ Complete(promotions[i])}

\* The promotions taken: in every stack group the first of the largest.
Applied(promotions, activity) ==
    LET usable == {i \in DOMAIN promotions :
                       Counts(promotions[i], activity) /\ Complete(promotions[i])}
    IN  {i \in usable : \A j \in usable :
             promotions[j].group = promotions[i].group =>
                 \/ promotions[j].amount < promotions[i].amount
                 \/ promotions[j].amount = promotions[i].amount /\ j >= i}

Discount(promotions, applied, kinds) ==
    MapThenSumSet(LAMBDA i : promotions[i].amount,
                  {i \in applied : promotions[i].kind \in kinds})

derivePromotionDiscounts(activity, promotions) ==
    LET applied == Applied(promotions, activity)
        kinds   == {promotions[i].kind : i \in applied}
    IN  [coupon |-> Discount(promotions, applied, {"COUPON"}),
         full   |-> Discount(promotions, applied, {"FULL_REDUCTION"}),
         direct |-> Discount(promotions, applied, kinds \ {"COUPON", "FULL_REDUCTION"}),
         review |-> \E i \in DOMAIN promotions : NeedsReview(promotions[i], activity)]

PublicDiscount(components) == components.coupon + components.full + components.direct

\* The collector's price: confirmed only when nothing is left to look at and
\* the sum makes sense, else the page's own estimate, else no price.
calculatePublicPrice(evidence) ==
    LET parts == derivePromotionDiscounts(evidence.activity, evidence.promotions)
        sum   == evidence.activity - PublicDiscount(parts) + evidence.fee
        Priced(payable, confidence) ==
            [coupon |-> parts.coupon, full |-> parts.full, direct |-> parts.direct,
             payable |-> payable, confidence |-> confidence]
    IN  IF parts.review /\ evidence.shown # NoFen THEN Priced(evidence.shown, "ESTIMATED")
        ELSE IF parts.review \/ sum < 0           THEN Priced(NoFen, "MANUAL_REVIEW")
        ELSE Priced(sum, "CONFIRMED")

---------------------------------------------------------------------------
(* A checkpoint written by a version that only knew whether a promotion is *)
(* included, and took one that is not to be still to come.                 *)

normalizePromotion(promotion) ==
    [promotion EXCEPT !.inclusion = CASE @ = "TRUE"  -> "INCLUDED"
                                      [] @ = "FALSE" -> "UNKNOWN"
                                      [] OTHER       -> @]

migrateLegacyCheckpointReport(evidence) ==
    [evidence EXCEPT !.promotions = [i \in DOMAIN @ |-> normalizePromotion(@[i])]]

\* The price of a checkpoint, kept unless its promotions leave something open
\* or its parts do not follow from them.  The page's own estimate is in no
\* checkpoint.
migrateItemSkus(evidence, price) ==
    LET migrated == migrateLegacyCheckpointReport(evidence)
        fresh    == calculatePublicPrice([migrated EXCEPT !.shown = NoFen])
        open     == \E i \in DOMAIN migrated.promotions :
                        /\ migrated.promotions[i].audience = "PUBLIC"
                        /\ migrated.promotions[i].inclusion = "UNKNOWN"
        stale    == <<price.coupon, price.full, price.direct>>
                        # <<fresh.coupon, fresh.full, fresh.direct>>
    IN  IF open \/ stale THEN fresh ELSE price

---------------------------------------------------------------------------
\* What the schema of a report asks of a price and its evidence.
SchemaAccepts(evidence, price) ==
    LET expected == derivePromotionDiscounts(evidence.activity, evidence.promotions)
    IN  /\ price.confidence = "ESTIMATED" => price.payable # NoFen
        /\ price.confidence = "CONFIRMED" =>
            /\ \A i \in DOMAIN evidence.promotions :
                   ~ /\ evidence.promotions[i].audience = "PUBLIC"
                     /\ evidence.promotions[i].inclusion = "UNKNOWN"
            /\ <<price.coupon, price.full, price.direct>>
                 = <<expected.coupon, expected.full, expected.direct>>
            /\ price.payable >= 0
            /\ price.payable = evidence.activity - PublicDiscount(price) + evidence.fee
=============================================================================
