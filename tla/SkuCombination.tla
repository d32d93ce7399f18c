--------------------------- MODULE SkuCombination ---------------------------
(***************************************************************************)
(* Which product a captured SKU is (matcher.service.ts) and which          *)
(* combination of goods it sells (sku-combination.ts).                     *)
(*                                                                         *)
(* Text is abstracted to what the rules look for in it.  An offer says     *)
(*   excluded, lacking   an excluded term is in it; a required term or the *)
(*                       version is not                                    *)
(*   model               "EXACT" for the standard model, "ALIAS", "NONE"   *)
(*   skuSignals          which of "BUNDLE", "ACCESSORY", "BARE" the SKU's  *)
(*                       own text shows, titleSignals of "BUNDLE", "BARE"  *)
(*   branded             the brand is named                                *)
(*   secondHand          one of the conditions never compared is named     *)
(*   attributes          the material attributes, as pairs <<key, value>>, *)
(*                       "" for an empty value                             *)
(*   color               "" when the page does not say                     *)
(*   components          the parts, as SkuEvidence derives them.           *)
(* A rule is the monitored model's comparisonType and colorComparable.     *)
(***************************************************************************)
EXTENDS Integers, FiniteSets

NoSignature == <<>>  \* null

Rejected == [category |-> "REJECTED", comparable |-> FALSE, confidence |-> 10000]

\* Bare product or bundle: the SKU's own text first, then the title.
classifyOffer(offer) ==
    IF offer.skuSignals \cap {"BUNDLE", "ACCESSORY"} # {} THEN "BUNDLE"
    ELSE IF offer.skuSignals = {"BARE"}     THEN "BARE"
    ELSE IF "BUNDLE" \in offer.titleSignals THEN "BUNDLE"
    ELSE IF "BARE" \in offer.titleSignals   THEN "BARE"
    ELSE "MANUAL"

match(rule, offer) ==
    LET category == classifyOffer(offer)
        exact    == offer.model = "EXACT"
        Known(comparable, ifExact, ifAlias) ==
            [category |-> category, comparable |-> comparable,
             confidence |-> IF exact THEN ifExact ELSE ifAlias]
    IN  IF offer.excluded \/ offer.lacking \/ offer.model = "NONE" THEN Rejected
        ELSE IF category = "MANUAL"            THEN Known(FALSE, 7500, 6500)
        ELSE IF category # rule.comparisonType THEN Known(FALSE, 9500, 8500)
        ELSE IF offer.branded                  THEN Known(TRUE, 9800, 9000)
        ELSE Known(TRUE, 9300, 8500)

\* The decision stored: a category only when it can be compared.
persistenceDecision(rule, offer) ==
    LET matched == match(rule, offer)
    IN  [decision   |-> IF matched.category = "REJECTED" THEN "REJECTED"
                        ELSE IF matched.comparable THEN matched.category ELSE "MANUAL",
         comparable |-> matched.comparable,
         confidence |-> matched.confidence]

Excluded == [kind |-> "EXCLUDED", signature |-> NoSignature]
Review   == [kind |-> "REVIEW",   signature |-> NoSignature]

\* Attributes that cannot be compared surely: a material one without a value
\* or with two, or no colour where the colour matters.
AttributesUnclear(rule, offer) ==
    \/ \E a \in offer.attributes : a[2] = ""
    \/ \E a, b \in offer.attributes : a[1] = b[1] /\ a[2] # b[2]
    \/ rule.colorComparable /\ offer.color = ""

ComponentsUnclear(offer) ==
    \/ \E part \in offer.components : part.role = "UNKNOWN" \/ part.quantity <= 0
    \/ ~ \E part \in offer.components : part.role = "CORE"

\* The parts of one role as the signature holds them: a bag of names with
\* their quantities, the type and the brand left out.
Canonical(offer, role) ==
    LET parts == {part \in offer.components : part.role = role}
        goods == {<<part.name, part.quantity>> : part \in parts}
    IN  [g \in goods |-> Cardinality({part \in parts : <<part.name, part.quantity>> = g})]

Signature(rule, offer) ==
    <<Canonical(offer, "CORE"), Canonical(offer, "PAID_ACCESSORY"), offer.attributes,
      IF rule.colorComparable THEN offer.color ELSE "">>

buildSkuCombination(rule, decision, offer) ==
    IF decision = "REJECTED"    THEN Excluded
    ELSE IF decision = "MANUAL" THEN Review
    ELSE IF offer.secondHand    THEN Excluded
    ELSE IF AttributesUnclear(rule, offer) \/ ComponentsUnclear(offer) THEN Review
    ELSE [kind |-> "SIGNED", signature |-> Signature(rule, offer)]
=============================================================================
