------------------------- MODULE ReportAggregation -------------------------
(***************************************************************************)
(* The report page of a run as the server computes it from stored rows:    *)
(* collection-report-aggregation.ts, and the filters of the SKU list,      *)
(* which the database evaluates on the same rows                           *)
(* (collection-report-query.service.ts).                                   *)
(*                                                                         *)
(* A stored row is a SKU as SkuComparison has it, with what the evaluation *)
(* wrote: decision and comparable of the product match, state ("" before   *)
(* any evaluation), signature, own (the row of ours it was compared with,  *)
(* NoRow for none) and reasons.  Positions are a sequence: the item and    *)
(* the shop at each rank.  The facts of a page are its positions, its rows *)
(* and whether the own catalogue is complete.                              *)
(***************************************************************************)
EXTENDS SkuCombination, SkuComparison, Sequences

Ranks(positions, item) == {rank \in DOMAIN positions : positions[rank].item = item}

confirmedInStockPrice(row) ==
    row.confidence = "CONFIRMED" /\ row.stock = "IN_STOCK" /\ row.payable >= 0

matchCategory(comparisonType, row) ==
    IF row.decision = "REJECTED" THEN "EXCLUDED"
    ELSE IF row.comparable /\ row.decision = comparisonType THEN "EXACT"
    ELSE "REVIEW"

\* The row of ours a row was compared with, if that still makes sense.
SelectedOwn(rows, row) ==
    {own \in rows : /\ IsOwn(own) /\ own.id = row.own
                    /\ row.signature # NoSignature /\ own.signature = row.signature}

ShownState(facts, row) ==
    IF \/ row.state = ""
       \/ row.state = "MATCHED" /\ SelectedOwn(facts.rows, row) = {}
       \/ ~IsOwn(row) /\ row.state = "MISSING_OWN" /\ ~facts.complete
    THEN "REVIEW" ELSE row.state

\* One row of the page.
Projected(facts, comparisonType, row) ==
    LET state    == ShownState(facts, row)
        selected == SelectedOwn(facts.rows, row)
        priced   == {own \in selected : own.payable >= 0 /\ row.payable >= 0}
        eligible == /\ ~IsOwn(row) /\ state = "MATCHED" /\ confirmedInStockPrice(row)
                    /\ \E own \in selected : confirmedInStockPrice(own)
    IN  [row        |-> row,
         ranks      |-> Ranks(facts.positions, row.item),
         match      |-> matchCategory(comparisonType, row),
         state      |-> state,
         selected   |-> selected,
         others     |-> {own \in facts.rows \ selected :
                            /\ IsOwn(own) /\ own.signature = row.signature
                            /\ row.signature # NoSignature},
         difference |-> {own.payable - row.payable : own \in priced},
         comparison |-> IF IsOwn(row) THEN "OWN"
                        ELSE IF ~eligible THEN "UNDECIDED"
                        ELSE IF \E own \in selected : own.payable > row.payable THEN "LOWER"
                        ELSE "NOT_LOWER"]

\* The list of lower prices.
confirmedLows(shown) ==
    UNION {{[row |-> line.row.id, own |-> own.id, difference |-> own.payable - line.row.payable] :
                own \in {o \in line.selected :
                            confirmedInStockPrice(o) /\ o.payable > line.row.payable}} :
           line \in {l \in shown : /\ ~IsOwn(l.row) /\ l.state = "MATCHED"
                                  /\ confirmedInStockPrice(l.row)}}

\* The list of combinations we do not sell.
missingGroups(shown) ==
    LET missing    == {line \in shown : /\ line.state = "MISSING_OWN"
                                        /\ line.row.signature # NoSignature}
        Like(line) == {other \in missing : other.row.signature = line.row.signature}
        Sure(line) == {other \in Like(line) : confirmedInStockPrice(other.row)}
    IN  {[signature |-> line.row.signature,
          offers    |-> {other.row.id : other \in Like(line)},
          reasons   |-> IF \E other \in Like(line) : "OWN_OUT_OF_STOCK_ONLY" \in other.row.reasons
                        THEN {"OWN_OUT_OF_STOCK_ONLY"} ELSE {"OWN_COMBINATION_ABSENT"},
          minimum   |-> IF Sure(line) = {} THEN -1
                        ELSE Min({other.row.payable : other \in Sure(line)})] :
            line \in missing}

\* A mutant: an item goes under every shop it was found at.
ItemsFoundAt(positions, shop) ==
    {positions[r].item : r \in {r \in DOMAIN positions : positions[r].shop = shop}}

\* The shops of the search result: each item under the shop of its first
\* position, with the item's SKUs.
ItemsOf(positions, shop) ==
    {positions[r].item : r \in {r \in DOMAIN positions :
         positions[r].shop = shop /\ r = Min(Ranks(positions, positions[r].item))}}

ShopRow(positions, shop, items, skus) ==
    LET sure == {line \in skus : line.row.confidence = "CONFIRMED" /\ line.row.payable >= 0}
    IN  [shop    |-> shop,
         items   |-> items,
         skus    |-> {line.row.id : line \in skus},
         ranks   |-> UNION {Ranks(positions, item) : item \in items},
         minimum |-> IF sure = {} THEN -1 ELSE Min({line.row.payable : line \in sure}),
         lows    |-> Cardinality(confirmedLows(skus)),
         missing |-> Cardinality({line.row.signature : line \in
                                     {l \in skus : l.state = "MISSING_OWN"}})]

priceBoard(positions, shown) ==
    {ShopRow(positions, pair[1], pair[2], {line \in shown : line.row.item \in pair[2]}) :
        pair \in {<<shop, ItemsOf(positions, shop)>> :
                      shop \in {positions[r].shop : r \in DOMAIN positions}}
                 \ {<<shop, {}>> : shop \in {positions[r].shop : r \in DOMAIN positions}}}

\* The page: competitors' SKUs at some rank in the lists, every ranked SKU on
\* the board, and the counts.
aggregateCollectionRunReport(facts, comparisonType) ==
    LET all      == {Projected(facts, comparisonType, row) : row \in facts.rows}
        ranked   == {line \in all : line.ranks # {}}
        business == {line \in ranked : ~IsOwn(line.row)}
        In(state) == {line \in business : line.state = state}
    IN  [lows     |-> confirmedLows(business),
         missing  |-> missingGroups(business),
         board    |-> priceBoard(facts.positions, ranked),
         review   |-> {line.row.id : line \in In("REVIEW")},
         matched  |-> Cardinality(In("MATCHED")),
         excluded |-> Cardinality(In("EXCLUDED")),
         skus     |-> Cardinality(business),
         rows     |-> all]

---------------------------------------------------------------------------
\* The filters of the SKU list, as the database evaluates them.  "" is a
\* filter not given.
MatchSelects(wanted, comparisonType, row) ==
    CASE wanted = "EXACT"    -> row.comparable /\ row.decision = comparisonType
      [] wanted = "EXCLUDED" -> row.decision = "REJECTED"
      [] wanted = "REVIEW"   -> /\ row.decision # "REJECTED"
                                /\ ~(row.comparable /\ row.decision = comparisonType)

PriceSelects(wanted, rows, row) ==
    \E own \in rows :
        /\ ~IsOwn(row) /\ row.state = "MATCHED" /\ own.id = row.own
        /\ row.signature # NoSignature /\ own.signature = row.signature
        /\ IsOwn(own) /\ confirmedInStockPrice(own) /\ confirmedInStockPrice(row)
        /\ IF wanted = "LOWER" THEN row.payable < own.payable ELSE row.payable >= own.payable

snapshotFilter(filter, comparisonType, rows, row) ==
    /\ filter.source # "" => IsOwn(row) = (filter.source = "OWN")
    /\ filter.state # ""  => row.state = filter.state \/ (filter.state = "REVIEW" /\ row.state = "")
    /\ filter.match # ""  => MatchSelects(filter.match, comparisonType, row)
    /\ filter.price # ""  => PriceSelects(filter.price, rows, row)

---------------------------------------------------------------------------
\* Pages.  Whoever asks names a page and a size, or leaves them out (0).
DetailPageSize == 50
MaxPageSize == 100
MaxPage == 100000

boundedPositiveInteger(value, fallback, maximum) ==
    IF value < 1 THEN fallback ELSE Min({value, maximum})

normalizePageRequest(page, size) ==
    [page |-> boundedPositiveInteger(page, 1, MaxPage),
     size |-> boundedPositiveInteger(size, DetailPageSize, MaxPageSize)]

pageOffset(request) == (request.page - 1) * request.size

pageMeta(request, total) ==
    LET pages == (total + request.size - 1) \div request.size
    IN  [pages |-> pages, next |-> request.page < pages,
         previous |-> request.page > 1 /\ pages > 0]

OnPage(place, request) == place - pageOffset(request) \in 0..(request.size - 1)

\* One page of the list: the rows selected, by their best rank (those without
\* one last), ours first, then by item and SKU.
SortKey(positions, row) ==
    LET ranks == Ranks(positions, row.item)
    IN  <<IF ranks = {} THEN Len(positions) + 1 ELSE Min(ranks),
          IF IsOwn(row) THEN 0 ELSE 1, row.item, row.sku, row.id>>

Before(key, other) ==
    \E i \in DOMAIN key : key[i] < other[i] /\ \A j \in 1..(i - 1) : key[j] = other[j]

listSnapshots(filter, comparisonType, positions, rows, request) ==
    LET keys      == {SortKey(positions, row) : row \in
                          {r \in rows : snapshotFilter(filter, comparisonType, rows, r)}}
        Place(key) == Cardinality({other \in keys : Before(other, key)})
    IN  {key[5] : key \in {k \in keys : OnPage(Place(k), request)}}

\* The search result, by rank.
listPositions(positions, request) == {rank \in DOMAIN positions : OnPage(rank - 1, request)}
=============================================================================
