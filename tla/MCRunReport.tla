---------------------------- MODULE MCRunReport ----------------------------
(* A small instance of RunReport: reports around one offer each varied in   *)
(* one respect, what a SKU consists of, what it costs and whether it is in *)
(* stock, what its text says, or how its price comes about.                *)
EXTENDS RunReport

SE == INSTANCE SkuEvidence

Model(type, color) == [comparisonType |-> type, colorComparable |-> color]
MCRules == {Model("BUNDLE", FALSE), Model("BARE", TRUE)}

---------------------------------------------------------------------------
(* Labels *)

Package(tokens)          == [dim |-> "PACKAGE", tokens |-> tokens]
Quantity(amount, target) == [dim |-> "QUANTITY", amount |-> amount, target |-> target]
Token(kind, accessories, quantity) ==
    [kind |-> kind, accessories |-> accessories, quantity |-> quantity]
Cable == [type |-> "cable", name |-> "C1"]
Stand == [type |-> "stand", name |-> "S1"]
Mic   == [type |-> "product", name |-> "M1"]
Pieces(a, quantity) == Token("ACCESSORIES", a, quantity)
Single(quantity)   == Token("SINGLE_PRODUCT", <<>>, quantity)

Plain   == <<>>
OneCable == <<Package(<<Single(0), Pieces(<<Cable>>, 0)>>)>>
Labels ==
    {Plain, OneCable,
     <<Package(<<Pieces(<<Cable>>, 2)>>)>>,
     <<Quantity(2, "cable"), Package(<<Pieces(<<Cable>>, 1)>>)>>,
     <<Package(<<Pieces(<<Cable, Stand>>, 0)>>), Quantity(2, "S1")>>,
     <<Package(<<Pieces(<<Cable>>, 0)>>), Package(<<Pieces(<<Stand>>, 2)>>)>>,
     <<Package(<<Pieces(<<Cable, Stand>>, 2)>>)>>,
     <<Package(<<Single(2), Pieces(<<Stand, Cable>>, 0)>>)>>,
     <<Package(<<Pieces(<<Cable>>, 0)>>), Quantity(2, "product")>>,
     <<Package(<<Pieces(<<Mic>>, 0)>>), Quantity(2, "product")>>,
     <<Package(<<Single(2), Token("GIFT_OR_SERVICE", <<>>, 0), Pieces(<<Cable>>, 0)>>)>>,
     <<Package(<<Single(2), Pieces(<<Cable>>, 0)>>), Quantity(1, SE!Core)>>,
     <<Package(<<Token("OTHER", <<>>, 0)>>)>>,
     <<Package(<<Pieces(<<Cable>>, SE!NoAmount)>>)>>}
Chosen ==
    {OneCable,
     <<Package(<<Pieces(<<Cable>>, 2)>>)>>,
     <<Package(<<Pieces(<<Cable, Stand>>, 0)>>), Quantity(2, "S1")>>,
     <<Package(<<Single(2), Pieces(<<Cable>>, 0)>>)>>}

(* Prices *)

Promotion(kind, audience, inclusion, group, threshold, amount) ==
    [kind |-> kind, audience |-> audience, inclusion |-> inclusion,
     group |-> group, threshold |-> threshold, amount |-> amount]
Promotions ==
  <<Promotion("COUPON",         "PUBLIC", "EXCLUDED", "shop", 0,   20),
     Promotion("FULL_REDUCTION", "PUBLIC", "EXCLUDED", "shop", 0,   30),
     Promotion("DIRECT",         "PUBLIC", "EXCLUDED", "item", 100, 30),
     Promotion("DIRECT",         "PUBLIC", "EXCLUDED", "item", 101, 60),
     Promotion("COUPON",         "PUBLIC", "EXCLUDED", "all",  0,   80),
     Promotion("COUPON",         "PUBLIC", "EXCLUDED", PP!NoGroup, 101, 10),
     Promotion("COUPON",         "PUBLIC", "EXCLUDED", "all",  0,   PP!NoFen),
     Promotion("COUPON",         "PUBLIC", "INCLUDED", "all",  PP!NoFen, 50),
     Promotion("COUPON",         "PUBLIC", "UNKNOWN",  "all",  0,   50),
     Promotion("COUPON",         "MEMBER", "EXCLUDED", "all",  0,   50),
     Promotion("COUPON",         "OTHER",  "INCLUDED", "all",  0,   50)>>

Evidence(activity, fee, shown, promotions) ==
    [activity |-> activity, fee |-> fee, shown |-> shown, promotions |-> promotions]
Fen(fen)         == Evidence(fen, 0, PP!NoFen, <<>>)
Estimated(fen)   == Evidence(fen, 0, fen, <<Promotion("COUPON", "OTHER", "UNKNOWN", "all", 0, 5)>>)

(* SKUs *)

Offer == [excluded |-> FALSE, lacking |-> FALSE, model |-> "EXACT",
          skuSignals |-> {"BUNDLE"}, titleSignals |-> {}, branded |-> TRUE,
          secondHand |-> FALSE, attributes |-> {<<"region", "cn">>}, color |-> "black"]

Sku(id, listing, item) ==
    [id |-> id, listing |-> listing, item |-> item, sku |-> id, stock |-> "IN_STOCK",
     offer |-> Offer, evidence |-> Fen(100), kept |-> {}, labels |-> OneCable]

Own1   == Sku(1, "l", 1)
Own2   == [Sku(2, "l", 1) EXCEPT !.labels = Plain, !.evidence = Fen(95)]
Other3 == [Sku(3, "", 11) EXCEPT !.evidence = Fen(90)]
Other4 == [Sku(4, "", 12) EXCEPT !.evidence = Fen(96)]
Other5 == [Sku(5, "", 12) EXCEPT !.labels = Plain, !.evidence = Fen(94)]

At(item, shop) == [item |-> item, shop |-> shop]
Search == <<At(11, "x"), At(1, "ours"), At(12, "y"), At(11, "y")>>

Report(skus) == [skus |-> skus, positions |-> Search, covered |-> TRUE, issues |-> {}]
Issue(code, item, sku) == [code |-> code, item |-> item, sku |-> sku]

(* Reports *)

Varied == {Report({[Own1 EXCEPT !.labels = ours], Own2, [Other3 EXCEPT !.labels = theirs], Other4}) :
              ours \in Chosen, theirs \in Labels}

Stocks == {<<"IN_STOCK", Fen(100)>>, <<"IN_STOCK", Fen(90)>>, <<"OUT_OF_STOCK", Fen(90)>>,
           <<"UNKNOWN", Fen(90)>>, <<"IN_STOCK", Estimated(90)>>}
Of(sku, stock) == [sku EXCEPT !.stock = stock[1], !.evidence = stock[2]]
Stocked == {Report({Of(Own1, ours), [Of(Own2, more) EXCEPT !.labels = OneCable],
                    Of(Other3, theirs), Other4, Other5}) :
               ours \in Stocks, more \in {<<"IN_STOCK", Fen(100)>>, <<"OUT_OF_STOCK", Fen(90)>>},
               theirs \in Stocks}

Offers ==
    {Offer, [Offer EXCEPT !.excluded = TRUE], [Offer EXCEPT !.lacking = TRUE],
     [Offer EXCEPT !.model = "NONE"], [Offer EXCEPT !.model = "ALIAS", !.branded = FALSE],
     [Offer EXCEPT !.skuSignals = {"BARE", "ACCESSORY"}],
     [Offer EXCEPT !.skuSignals = {}, !.titleSignals = {"BUNDLE", "BARE"}],
     [Offer EXCEPT !.skuSignals = {}], [Offer EXCEPT !.secondHand = TRUE],
     [Offer EXCEPT !.attributes = {}], [Offer EXCEPT !.attributes = {<<"region", "">>}]}
Bare == [Offer EXCEPT !.skuSignals = {"BARE"}]
BareOffers ==
    {Bare, [Bare EXCEPT !.skuSignals = {}, !.titleSignals = {"BARE"}],
     [Bare EXCEPT !.color = "white"], [Bare EXCEPT !.color = ""]}
Offered(ours, offers) ==
    {Report({[Own1 EXCEPT !.offer = ours], [Other3 EXCEPT !.offer = theirs],
             [Other3 EXCEPT !.id = 6, !.sku = 6, !.offer = [ours EXCEPT !.model = "ALIAS"]]}) :
        theirs \in offers}

Failed == {[Report(skus) EXCEPT !.issues = {issue}] :
              skus \in {{Own1, Own2, Other3, Other4}, {Other3, Other5}},
              issue \in {Issue("PRICE_UNSTABLE", 1, 1), Issue("PRICE_UNSTABLE", 2, 9),
                         Issue("PRICE_UNSTABLE", 11, 1), Issue("PRICE_UNSTABLE", 0, 2),
                         Issue("PRICE_UNSTABLE", 0, 3), Issue("MISSING_ITEM_ID", 0, 0)}}

\* A SKU for every second promotion, beside one that ties with another.
Priced(first, fee, shown) ==
    LET Tied == Promotion("COUPON", "PUBLIC", "EXCLUDED", "shop", 0, 30)
    IN  Report({Own1} \cup {[Other3 EXCEPT !.id = 10 + i, !.sku = 10 + i, !.offer.model = "NONE",
                               !.evidence = Evidence(100, fee, shown, <<first, Promotions[i], Tied>>)] :
                              i \in DOMAIN Promotions})

\* The same captured by an earlier attempt, of this version or of one that
\* counted every promotion that is not included.
Written(evidence, old) ==
    IF ~old THEN evidence
    ELSE [evidence EXCEPT !.promotions = [i \in DOMAIN @ |->
             [@[i] EXCEPT !.inclusion = IF @ = "INCLUDED" THEN "TRUE" ELSE "FALSE"]]]
ByOld(evidence) ==
    PP!calculatePublicPrice([evidence EXCEPT !.promotions = [i \in DOMAIN @ |->
        [@[i] EXCEPT !.inclusion = IF @ = "TRUE" THEN "INCLUDED" ELSE "EXCLUDED"]]])
Resumed(skus, old) ==
    {LET e == Written(sku.evidence, old)
     IN  [sku EXCEPT !.evidence = e,
                     !.kept = {IF old THEN ByOld(e) ELSE PP!calculatePublicPrice(e)}] : sku \in skus}

Reloaded == {Report(Resumed(Priced(Promotions[i], 10, shown).skus, old)) :
                i \in {2, 8, 9}, shown \in {PP!NoFen, 70}, old \in BOOLEAN}
            \cup {Report(Resumed({Own1, [Other3 EXCEPT !.evidence =
                       Evidence(100, 0, PP!NoFen, <<Promotions[i]>>)]}, old)) :
                i \in {1, 4, 8}, old \in BOOLEAN}

Unfinished == {[Report({Own1, Other3, Other4}) EXCEPT !.covered = FALSE], Report({Other3, Other5})}

MCReports == Varied \cup Unfinished \cup Reloaded \cup Stocked \cup Offered(Offer, Offers) \cup Offered(Bare, BareOffers)
                \cup Failed \cup {Priced(Promotions[i], 0, PP!NoFen) : i \in DOMAIN Promotions}
                \cup {Priced(Promotions[i], 10, 70) : i \in 4..6}

\* What AlertsTellClearOffers asks of a report holds of these, whatever of them
\* is chosen, out of stock, described in another way, or incomplete.
ASSUME SignaturesAssumption ==
    \A captured \in Stocked \cup Offered(Offer, Offers) \cup Offered(Bare, BareOffers) \cup Failed
                     \cup {Report({[Own1 EXCEPT !.labels = ours], [Other3 EXCEPT !.labels = theirs]}) :
                              ours \in Chosen, theirs \in Chosen} :
        SignaturesTellGoods(captured.skus)
=============================================================================
