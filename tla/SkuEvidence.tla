---------------------------- MODULE SkuEvidence ----------------------------
(***************************************************************************)
(* What a SKU consists of, read from the labels its page shows: the        *)
(* collector's sku-component-evidence.ts.                                  *)
(*                                                                         *)
(* A SKU's labels are a sequence of dimensions                             *)
(*   [dim |-> "PACKAGE",  tokens]            a package, split at its plus  *)
(*                                           signs into tokens             *)
(*   [dim |-> "QUANTITY", amount, target]    a number of pieces            *)
(* (a colour and what is material are attributes, no parts).  A token has  *)
(* the kind its text falls under, the accessories it identifies by type    *)
(* and name, and a quantity: 0 when it states none, NoAmount when what it  *)
(* states is not one number; an amount is NoAmount likewise.  A target is  *)
(* Core when the dimension names the monitored model, "product" for a word *)
(* like microphone, else the type or name it holds.                        *)
(***************************************************************************)
EXTENDS Integers, Sequences, FiniteSets, SequencesExt

NoAmount == -1
Core     == "core"

Part(role, type, name, quantity) ==
    [role |-> role, type |-> type, name |-> name, quantity |-> quantity]

CoreProduct   == Part("CORE", Core, Core, 1)
GiftOrService == Part("GIFT_OR_SERVICE", "gift", "gift", 1)
Unknown       == Part("UNKNOWN", "?", "?", 1)

\* What has been read so far: the parts, the core product first, and the
\* quantity the labels stated of it, 0 before any did.
With(s, part) == [s EXCEPT !.parts = Append(s.parts, part)]

\* A mutant: the last quantity stated wins.
LastCoreQuantity(s, quantity) ==
    IF quantity = 0 THEN s ELSE [parts  |-> [s.parts EXCEPT ![1].quantity = quantity],
                                 stated |-> quantity]

\* The labels have to agree on the quantity of the core product.
ApplyCoreQuantity(s, quantity) ==
    IF quantity \in {0, s.stated} THEN s
    ELSE IF s.stated = 0 THEN [parts  |-> [s.parts EXCEPT ![1].quantity = quantity],
                               stated |-> quantity]
    ELSE With(s, Unknown)

\* The accessories a token identifies.  One number for several of them
\* belongs to none of them surely.
Accessories(token) ==
    LET shared == token.quantity # 0 /\ Len(token.accessories) > 1
        each   == IF shared \/ token.quantity = 0 THEN 1 ELSE token.quantity
    IN  [i \in DOMAIN token.accessories |->
            Part("PAID_ACCESSORY", token.accessories[i].type, token.accessories[i].name, each)]
          \o (IF shared THEN <<Unknown>> ELSE <<>>)

\* One token of a package: the core product again, a gift, accessories, or
\* something nobody can name.
ReadToken(s, token) ==
    IF token.quantity = NoAmount \/ token.kind = "OTHER" THEN With(s, Unknown)
    ELSE CASE token.kind = "SINGLE_PRODUCT"  -> ApplyCoreQuantity(s, token.quantity)
           [] token.kind = "GIFT_OR_SERVICE" -> With(s, GiftOrService)
           [] token.kind = "ACCESSORIES"     -> [s EXCEPT !.parts = s.parts \o Accessories(token)]

\* The parts a quantity dimension can mean, by position: the core product
\* (for a word like microphone only when no accessory goes by it), or the
\* accessories the dimension names.
quantityTarget(parts, target) ==
    LET named == {i \in DOMAIN parts : /\ parts[i].role = "PAID_ACCESSORY"
                                       /\ target \in {parts[i].type, parts[i].name}}
    IN  IF target = Core \/ (target = "product" /\ named = {}) THEN {1}
        ELSE IF target = "product" THEN {} ELSE named

ReadQuantity(s, label) ==
    LET targets == quantityTarget(s.parts, label.target)
        at      == CHOOSE i \in targets : TRUE
    IN  IF label.amount = NoAmount \/ Cardinality(targets) # 1 THEN With(s, Unknown)
        ELSE IF at = 1 THEN ApplyCoreQuantity(s, label.amount)
        ELSE IF s.parts[at].quantity \notin {1, label.amount} THEN With(s, Unknown)
        ELSE [s EXCEPT !.parts[at].quantity = label.amount]

\* A part read twice is one part.
deduplicate(parts) == ToSet(parts)

\* The parts of a SKU, each once: the core product, what the packages say,
\* and the quantities last.
deriveSkuComponents(labels) ==
    LET packages  == SelectSeq(labels, LAMBDA label : label.dim = "PACKAGE")
        tokens    == FlattenSeq([i \in DOMAIN packages |-> packages[i].tokens])
        named     == FoldLeft(ReadToken, [parts |-> <<CoreProduct>>, stated |-> 0], tokens)
        counted   == FoldLeft(ReadQuantity, named,
                              SelectSeq(labels, LAMBDA label : label.dim = "QUANTITY"))
    IN  deduplicate(counted.parts)
=============================================================================
