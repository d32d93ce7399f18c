----------------------- MODULE CheckpointRunnerProofs ------------------------
(***************************************************************************)
(* Proofs about CheckpointRunner, for every job, every set of SKUs, any    *)
(* search result and any number of faults.                                 *)
(***************************************************************************)
EXTENDS CheckpointRunner, WellFoundedInduction, TLAPS

-----------------------------------------------------------------------------
(* The inductive invariant.                                                *)

(* What the result of a SKU may be but a price.                            *)
ResultCodes == {"SKU_ENUMERATION_INCOMPLETE", "PRICE_UNSTABLE"}

Unpricable == {"SKU_ENUMERATION_INCOMPLETE"}

(* An item with nothing to show for it that lasts: the issue of a pause is *)
(* forgotten on resume.                                                    *)
Bare(c) == {i \in ItemsOf(c) : PricesOf(c, i) = {} /\ ~IssueOn(c, Unpricable, i)}

(* The items whose page is opened next.                                    *)
NextItems(c) ==
    CASE c.phase = "OWN_LISTINGS" -> NextOwn(c)
      [] c.phase = "ITEMS"        -> {c.pos[r] : r \in NextRank(c)}
      [] OTHER                    -> {}

ItemsSound(c) ==
    /\ c.own \cap c.comp = {}
    /\ c.done \subseteq ItemsOf(c) /\ c.done \cap Bare(c) = {}
    /\ c.ownDone \subseteq c.own \cap c.done
    /\ Bare(c) \subseteq NextItems(c)

ResultsSound(c) ==
    /\ \A k \in c.keys : k[1] \in ItemsOf(c)
    /\ \A k \in c.keys \ c.prices :
          \E e \in c.issues : e.item = k[1] /\ e.sku = k[2] /\ e.code \in ResultCodes
    /\ c.prices \subseteq c.keys /\ c.manifest = c.prices
    /\ \A e \in c.issues : e.sku # NoSku =>
          <<e.item, e.sku>> \in c.keys /\ e.code \in ResultCodes

PositionsSound(c) ==
    /\ \A i \in Items : c.ranks[i] \subseteq RanksOf(c, i)
    /\ \A i \in c.comp : c.ranks[i] # {}
    /\ \A r \in Positions(c) : c.pos[r] \in Ranks => c.pos[r] = r
    /\ \A r \in Ranks : c.alias[r] # NoItem => r \in Positions(c) /\ c.pos[r] = c.alias[r]

PhaseSound(c) ==
    /\ c.phase \in {"OWN_LISTINGS", "SEARCH"} =>
          /\ c.comp = {}
          /\ \A i \in Items : c.ranks[i] = {}
          /\ \A r \in Ranks : c.alias[r] = NoItem
    /\ c.phase = "OWN_LISTINGS" => c.pos = <<>>
    /\ c.phase # "OWN_LISTINGS" => c.ownDone = Own
    /\ c.phase = "COMPLETE" =>
          c.status = FinalStatus(c) /\ \A r \in Positions(c) : c.pos[r] \in c.done
    /\ c.phase # "COMPLETE" => c.status # "SUCCEEDED"

Sound(c) ==
    /\ c \in Checkpoint
    /\ ItemsSound(c) /\ ResultsSound(c) /\ PositionsSound(c) /\ PhaseSound(c)

(* A checkpoint is saved with an issue for what is bare.                   *)
Saved(c) == Sound(c) /\ \A i \in Bare(c) : IssueOn(c, Incomplete, i)

(* The open page is of an item of the report that is next or was complete  *)
(* before, and none of its SKUs left to select has a result.               *)
PageSound ==
    /\ pc = "working"
    /\ mem.phase \in {"OWN_LISTINGS", "ITEMS"}
    /\ page.item \in ItemsOf(mem)
    /\ mem.phase = "OWN_LISTINGS" => page.item \in Own
    /\ Canonical(mem, page.via) = page.item
    /\ Bare(mem) \subseteq {page.item}
    /\ \A s \in page.todo : <<page.item, s>> \notin mem.keys

Running == pc \in {"diagnose", "working", "returned"}

OnDisk == IF disk = NoCheckpoint THEN NewCheckpoint ELSE disk

IInv ==
    /\ TypeOK
    /\ disk # NoCheckpoint => Saved(disk)
    /\ Running => /\ Sound(mem)
                  /\ mem.keys = OnDisk.keys /\ mem.prices = OnDisk.prices
    /\ pc = "diagnose" => mem = NewCheckpoint
    /\ pc = "working" => mem.phase # "COMPLETE"
    /\ pc = "returned" => Saved(mem)
    /\ pc = "done" => Saved(delivered) /\ delivered.status \notin Paused
    /\ pc # "done" => delivered = NoCheckpoint
    /\ page # NoPage => PageSound

-----------------------------------------------------------------------------
(* Types of checkpoints and of their parts.                                *)

LEMMA Parts ==
    ASSUME NEW c \in Checkpoint
    PROVE  /\ c.phase \in Phases /\ c.ownDone \subseteq Own /\ c.done \subseteq Identities
           /\ c.keys \subseteq Keys /\ c.status \in Statuses /\ c.pos \in Placements
           /\ c.own \subseteq Own /\ c.moved \subseteq Own /\ c.comp \subseteq Items /\ c.prices \subseteq Keys
           /\ c.ranks \in [Items -> SUBSET Ranks] /\ c.issues \subseteq Issue
           /\ c.manifest \subseteq Keys /\ c.alias \in [Ranks -> Items \cup {NoItem}]
BY DEF Checkpoint

LEMMA OwnItems == Own \subseteq Items
BY OwnAssumption DEF Own

LEMMA Separate == Items \cap Ranks = {} /\ NoItem \notin Items /\ NoItem \notin Ranks
BY LimitAssumption, NullAssumption DEF Ranks, Identities

LEMMA PlacementParts ==
    ASSUME NEW f \in Placements
    PROVE  \E n \in 0..Limit : f \in [1..n -> Identities] /\ DOMAIN f = 1..n /\ DOMAIN f \subseteq Ranks
<1>1. PICK n \in 0..Limit : f \in [1..n -> Identities]
  BY DEF Placements
<1>2. 1..n \subseteq Ranks
  BY LimitAssumption DEF Ranks
<1> QED
  BY <1>1, <1>2

LEMMA PosParts ==
    ASSUME NEW c \in Checkpoint
    PROVE  /\ Positions(c) \subseteq Ranks
           /\ \A r \in Positions(c) : c.pos[r] \in Identities
BY Parts, PlacementParts DEF Positions

(* Any change of positions that keeps their number.                        *)
LEMMA PlacementMap ==
    ASSUME NEW f \in Placements, NEW g, DOMAIN g = DOMAIN f,
           \A r \in DOMAIN f : g[r] \in Identities, g = [r \in DOMAIN f |-> g[r]]
    PROVE  g \in Placements
<1>1. PICK n \in 0..Limit : DOMAIN f = 1..n
  BY PlacementParts
<1>2. g \in [1..n -> Identities]
  BY <1>1
<1> QED
  BY <1>2 DEF Placements

LEMMA Empty == <<>> \in Placements /\ DOMAIN <<>> = {}
<1>1. 0 \in 0..Limit /\ 1..0 = {}
  BY LimitAssumption
<1>2. <<>> \in [1..0 -> Identities]
  BY <1>1
<1> QED
  BY <1>1, <1>2 DEF Placements

LEMMA ItemParts ==
    ASSUME NEW c \in Checkpoint
    PROVE  ItemsOf(c) \subseteq Items
BY Parts, OwnItems DEF ItemsOf

LEMMA NewSound == Sound(NewCheckpoint) /\ Bare(NewCheckpoint) = {} /\ Saved(NewCheckpoint)
<1> DEFINE c == NewCheckpoint
<1>1. c \in Checkpoint
  BY Empty DEF NewCheckpoint, Checkpoint, Phases, Statuses
<1>2. ItemsOf(c) = {} /\ Bare(c) = {}
  BY DEF NewCheckpoint, ItemsOf, Bare
<1>3. ItemsSound(c)
  BY <1>2 DEF ItemsSound, NewCheckpoint
<1>4. ResultsSound(c)
  BY <1>2 DEF ResultsSound, NewCheckpoint
<1>5. PositionsSound(c)
  BY <1>2, Empty DEF PositionsSound, NewCheckpoint, Positions
<1>6. PhaseSound(c)
  BY DEF PhaseSound, NewCheckpoint
<1> QED
  BY <1>1, <1>2, <1>3, <1>4, <1>5, <1>6 DEF Sound, Saved

-----------------------------------------------------------------------------
(* Two checkpoints that differ in issues and status.                       *)

SamePositions(c, d) == d.pos = c.pos /\ d.alias = c.alias /\ d.ranks = c.ranks

SameItems(c, d) == d.own = c.own /\ d.comp = c.comp /\ d.ownDone = c.ownDone /\ d.done = c.done

SameResults(c, d) == d.keys = c.keys /\ d.prices = c.prices /\ d.manifest = c.manifest

(* The issues of results stay, and only issues of an item or the run come. *)
IssuesGrow(c, d) ==
    /\ \A e \in c.issues : e.code \in ResultCodes => e \in d.issues
    /\ \A e \in d.issues : e \in c.issues \/ e.sku = NoSku

LEMMA NextSame ==
    ASSUME NEW c, NEW d, SamePositions(c, d), SameItems(c, d), d.phase = c.phase
    PROVE  NextItems(d) = NextItems(c)
<1>1. NextOwn(d) = NextOwn(c)
  BY DEF NextOwn, SameItems
<1>2. PendingRanks(d) = PendingRanks(c)
  BY DEF PendingRanks, Positions, Canonical, SamePositions, SameItems
<1>3. NextRank(d) = NextRank(c)
  BY <1>2 DEF NextRank
<1> QED
  BY <1>1, <1>3 DEF NextItems, SamePositions

LEMMA BareShrinks ==
    ASSUME NEW c, NEW d, SameItems(c, d), d.prices = c.prices, IssuesGrow(c, d)
    PROVE  Bare(d) \subseteq Bare(c)
BY DEF Bare, ItemsOf, SameItems, PricesOf, IssuesGrow, IssueOn, Unpricable, ResultCodes

LEMMA IssuesSound ==
    ASSUME NEW c, Sound(c), c.phase # "COMPLETE", NEW d \in Checkpoint,
           SamePositions(c, d), SameItems(c, d), SameResults(c, d), d.phase = c.phase,
           IssuesGrow(c, d), d.status # "SUCCEEDED"
    PROVE  Sound(d) /\ Bare(d) \subseteq Bare(c)
<1>1. Bare(d) \subseteq Bare(c) /\ NextItems(d) = NextItems(c) /\ ItemsOf(d) = ItemsOf(c)
  BY BareShrinks, NextSame DEF SameResults, SameItems, ItemsOf
<1>2. ItemsSound(d)
  BY <1>1 DEF Sound, ItemsSound, SameItems
<1>3. ResultsSound(d)
  BY <1>1 DEF Sound, ResultsSound, SameResults, IssuesGrow
<1>4. PositionsSound(d)
  BY <1>1 DEF Sound, PositionsSound, SamePositions, SameItems, Positions, RanksOf
<1>5. PhaseSound(d)
  BY DEF Sound, PhaseSound, SamePositions, SameItems
<1> QED
  BY <1>1, <1>2, <1>3, <1>4, <1>5 DEF Sound

LEMMA FilteredSound ==
    ASSUME NEW c, Sound(c), c.phase # "COMPLETE"
    PROVE  /\ Sound(Filtered(c)) /\ Filtered(c).phase = c.phase
           /\ Filtered(c).keys = c.keys /\ Filtered(c).prices = c.prices
<1> DEFINE d == Filtered(c)
<1>1. c \in Checkpoint
  BY DEF Sound
<1>2. /\ d \in Checkpoint /\ SamePositions(c, d) /\ SameItems(c, d) /\ SameResults(c, d)
      /\ d.phase = c.phase /\ d.status = c.status
      /\ d.issues = {e \in c.issues : e.code \notin {"LOGIN_REQUIRED", "PLATFORM_CHALLENGE",
                                                     "MISSING_ITEM_ID", "PAUSE_INCOMPLETE"}}
  BY <1>1 DEF Filtered, Checkpoint, SamePositions, SameItems, SameResults
<1>3. IssuesGrow(c, d)
  BY <1>2 DEF IssuesGrow, ResultCodes
<1>4. d.status # "SUCCEEDED"
  BY <1>2 DEF Sound, PhaseSound
<1> HIDE DEF d
<1>5. Sound(d)
  BY <1>2, <1>3, <1>4, IssuesSound
<1> QED
  BY <1>2, <1>5 DEF d, SameResults

-----------------------------------------------------------------------------
(* A SKU gets its result, and a page is completed.                         *)

(* c with the result of k: a price, or an issue that takes its place.      *)
LEMMA ResultSound ==
    ASSUME NEW c, Sound(c), c.phase # "COMPLETE",
           NEW k \in Keys \ c.keys, k[1] \in ItemsOf(c), Bare(c) \subseteq {k[1]},
           NEW d \in {Priced(c, k), Unavailable(c, k), Unpriced(c, k)}
    PROVE  /\ Sound(d) /\ Bare(d) = {}
           /\ SamePositions(c, d) /\ SameItems(c, d) /\ d.phase = c.phase
           /\ d.keys = c.keys \cup {k} /\ d.prices \in {c.prices, c.prices \cup {k}}
<1>1. c \in Checkpoint /\ k[1] \in Items /\ k[2] \in Skus /\ k = <<k[1], k[2]>>
  BY DEF Sound, Keys
<1>2. /\ ItemIssue("SKU_ENUMERATION_INCOMPLETE", k[1]) \in Issue
      /\ SkuIssue("SKU_ENUMERATION_INCOMPLETE", k) \in Issue
      /\ SkuIssue("PRICE_UNSTABLE", k) \in Issue
  BY <1>1 DEF ItemIssue, SkuIssue, Issue, Codes
<1>3. c.manifest = c.prices /\ c.prices \subseteq c.keys
  BY DEF Sound, ResultsSound
<1> DEFINE Same == /\ d \in Checkpoint
                   /\ SamePositions(c, d) /\ SameItems(c, d)
                   /\ d.phase = c.phase /\ d.status = c.status
                   /\ d.keys = c.keys \cup {k} /\ d.manifest = d.prices
                   /\ d.prices \in {c.prices, c.prices \cup {k}}
           Issues == /\ c.issues \subseteq d.issues
                     /\ \A e \in d.issues : e \in c.issues \/
                           (e.item = k[1] /\ (e.sku = NoSku \/ (e.sku = k[2] /\ e.code \in ResultCodes)))
                     /\ k \in d.prices \/ \E e \in d.issues : e.item = k[1] /\ e.sku = k[2]
                                                              /\ e.code \in ResultCodes
           Ends == PricesOf(d, k[1]) # {} \/ IssueOn(d, Unpricable, k[1])
<1>4. ASSUME d = Priced(c, k) PROVE Same /\ Issues /\ Ends
  <2>1. d \in Checkpoint
    BY <1>1, <1>4 DEF Priced, Checkpoint
  <2>2. d.issues = c.issues /\ d.prices = c.prices \cup {k}
    BY <1>1, <1>4 DEF Priced, Checkpoint
  <2>3. Same
    BY <1>1, <1>3, <1>4, <2>1 DEF Priced, Checkpoint, SamePositions, SameItems
  <2> QED
    BY <2>2, <2>3 DEF PricesOf
<1>5. ASSUME d = Unavailable(c, k) PROVE Same /\ Issues /\ Ends
  <2> DEFINE x == SkuIssue("SKU_ENUMERATION_INCOMPLETE", k)
  <2>1. d \in Checkpoint
    BY <1>1, <1>2, <1>5 DEF Unavailable, Checkpoint
  <2>2. d.issues = c.issues \cup {x} /\ d.prices = c.prices
    BY <1>1, <1>5 DEF Unavailable, Checkpoint
  <2>3. Same
    BY <1>1, <1>3, <1>5, <2>1 DEF Unavailable, Checkpoint, SamePositions, SameItems
  <2>4. x.item = k[1] /\ x.sku = k[2] /\ x.code \in ResultCodes /\ x.code \in Unpricable
    BY DEF SkuIssue, ResultCodes, Unpricable
  <2> HIDE DEF x
  <2>5. Issues /\ Ends
    BY <2>2, <2>4 DEF IssueOn
  <2> QED
    BY <2>3, <2>5
<1>6. ASSUME d = Unpriced(c, k) PROVE Same /\ Issues /\ Ends
  <2> DEFINE x == SkuIssue("PRICE_UNSTABLE", k)
             y == ItemIssue("SKU_ENUMERATION_INCOMPLETE", k[1])
  <2>1. d \in Checkpoint
    BY <1>1, <1>2, <1>6 DEF Unpriced, Checkpoint
  <2>2. d.issues = c.issues \cup {x} \cup (IF PricesOf(c, k[1]) = {} THEN {y} ELSE {})
        /\ d.prices = c.prices
    BY <1>1, <1>6 DEF Unpriced, Checkpoint
  <2>3. Same
    BY <1>1, <1>3, <1>6, <2>1 DEF Unpriced, Checkpoint, SamePositions, SameItems
  <2>4. /\ x.item = k[1] /\ x.sku = k[2] /\ x.code \in ResultCodes
        /\ y.item = k[1] /\ y.sku = NoSku /\ y.code \in Unpricable
    BY DEF SkuIssue, ItemIssue, ResultCodes, Unpricable
  <2> HIDE DEF x, y
  <2>5. Issues /\ Ends
    BY <2>2, <2>4 DEF IssueOn, PricesOf
  <2> QED
    BY <2>3, <2>5
<1>7. Same /\ Issues /\ Ends
  BY <1>4, <1>5, <1>6
<1> HIDE DEF Same, Issues, Ends
<1>8. NextItems(d) = NextItems(c) /\ ItemsOf(d) = ItemsOf(c)
  BY <1>7, NextSame DEF Same, ItemsOf, SameItems
<1>9. Bare(d) = {}
  <2>1. ASSUME NEW i \in ItemsOf(c), i # k[1] PROVE i \notin Bare(d)
    <3>1. i \notin Bare(c)
      BY <2>1
    <3>2. PricesOf(c, i) # {} => PricesOf(d, i) # {}
      BY <1>7 DEF Same, PricesOf
    <3>3. IssueOn(c, Unpricable, i) => IssueOn(d, Unpricable, i)
      BY <1>7 DEF Issues, IssueOn
    <3> QED
      BY <3>1, <3>2, <3>3 DEF Bare
  <2>2. k[1] \notin Bare(d)
    BY <1>7 DEF Ends, Bare
  <2> QED
    BY <1>8, <2>1, <2>2 DEF Bare
<1>10. ItemsSound(d)
  BY <1>7, <1>8, <1>9 DEF Sound, ItemsSound, Same, SameItems
<1>11. ResultsSound(d)
  <2>1. \A j \in d.keys : j[1] \in ItemsOf(d)
    BY <1>7, <1>8 DEF Sound, ResultsSound, Same
  <2>2. \A j \in d.keys \ d.prices :
            \E e \in d.issues : e.item = j[1] /\ e.sku = j[2] /\ e.code \in ResultCodes
    BY <1>7 DEF Sound, ResultsSound, Same, Issues
  <2>3. d.prices \subseteq d.keys /\ d.manifest = d.prices
    BY <1>3, <1>7 DEF Same
  <2>4. \A e \in d.issues : e.sku # NoSku => <<e.item, e.sku>> \in d.keys /\ e.code \in ResultCodes
    BY <1>1, <1>7 DEF Sound, ResultsSound, Same, Issues
  <2> QED
    BY <2>1, <2>2, <2>3, <2>4 DEF ResultsSound
<1>12. PositionsSound(d)
  BY <1>7, <1>8 DEF Sound, PositionsSound, Same, SamePositions, SameItems, Positions, RanksOf
<1>13. PhaseSound(d)
  BY <1>7 DEF Sound, PhaseSound, Same, SamePositions, SameItems
<1> QED
  BY <1>7, <1>9, <1>10, <1>11, <1>12, <1>13 DEF Sound, Same

(* c with its open page completed.                                         *)
LEMMA CompletedSound ==
    ASSUME NEW c, Sound(c), c.phase # "COMPLETE", page \in Page,
           page.item \in ItemsOf(c), Bare(c) \subseteq {page.item},
           Canonical(c, page.via) = page.item
    PROVE  /\ Sound(Completed(c)) /\ Bare(Completed(c)) = {}
           /\ Completed(c).phase = c.phase /\ SameResults(c, Completed(c))
           /\ Completed(c).own = c.own /\ Completed(c).pos = c.pos
<1> DEFINE i == page.item
           d == Completed(c)
           x == ItemIssue("SKU_ENUMERATION_INCOMPLETE", i)
<1>1. c \in Checkpoint /\ i \in Items /\ i \in Identities /\ x \in Issue
  BY DEF Sound, Page, ItemIssue, Issue, Codes, Identities
<1>2. c.phase = "OWN_LISTINGS" => i \in c.own
  BY DEF Sound, PhaseSound, ItemsOf
<1>3. c.own \subseteq Own /\ c.ownDone \subseteq Own
  BY <1>1, Parts
<1>4. d = [c EXCEPT !.issues = @ \cup IF PricesOf(c, i) = {} THEN {x} ELSE {},
                    !.ownDone = IF c.phase = "OWN_LISTINGS" THEN @ \cup {i} ELSE @,
                    !.done = @ \cup {i}]
  BY DEF Completed
<1>5. d \in Checkpoint
  <2>1. c.issues \cup (IF PricesOf(c, i) = {} THEN {x} ELSE {}) \in SUBSET Issue
    BY <1>1, Parts
  <2>2. (IF c.phase = "OWN_LISTINGS" THEN c.ownDone \cup {i} ELSE c.ownDone) \in SUBSET Own
    BY <1>2, <1>3
  <2>3. c.done \cup {i} \in SUBSET Identities
    BY <1>1, Parts
  <2> HIDE DEF i, x, d
  <2> QED
    BY <1>1, <1>4, <2>1, <2>2, <2>3 DEF Checkpoint
<1>6. /\ d.issues = c.issues \cup IF PricesOf(c, i) = {} THEN {x} ELSE {}
      /\ d.ownDone = IF c.phase = "OWN_LISTINGS" THEN c.ownDone \cup {i} ELSE c.ownDone
      /\ d.done = c.done \cup {i}
      /\ SamePositions(c, d) /\ SameResults(c, d) /\ d.own = c.own /\ d.comp = c.comp
      /\ d.phase = c.phase /\ d.status = c.status
  BY <1>1, <1>4 DEF Checkpoint, SamePositions, SameResults
<1>7. x.item = i /\ x.sku = NoSku /\ x.code \in Unpricable
  BY DEF ItemIssue, Unpricable
<1> HIDE DEF i, d, x
<1>8. ItemsOf(d) = ItemsOf(c)
  BY <1>6 DEF ItemsOf
<1>9. Bare(d) = {}
  <2>1. \A j \in ItemsOf(c) \ {i} : j \notin Bare(d)
    BY <1>6 DEF Bare, i, SameResults, PricesOf, IssueOn
  <2>2. i \notin Bare(d)
    BY <1>6, <1>7 DEF Bare, SameResults, PricesOf, IssueOn
  <2> QED
    BY <1>8, <2>1, <2>2 DEF Bare
<1>10. ItemsSound(d)
  <2>1. i \in ItemsOf(c)
    BY DEF i
  <2> QED
    BY <1>2, <1>6, <1>8, <1>9, <2>1 DEF Sound, ItemsSound
<1>11. ResultsSound(d)
  BY <1>6, <1>7, <1>8 DEF Sound, ResultsSound, SameResults
<1>12. PositionsSound(d)
  BY <1>6, <1>8 DEF Sound, PositionsSound, SamePositions, Positions, RanksOf
<1>13. PhaseSound(d)
  <2>1. c.phase # "OWN_LISTINGS" => d.ownDone = Own
    BY <1>6 DEF Sound, PhaseSound
  <2> QED
    BY <1>6, <2>1 DEF Sound, PhaseSound, SamePositions
<1> QED
  BY <1>5, <1>6, <1>9, <1>10, <1>11, <1>12, <1>13 DEF Sound, SamePositions, d
-----------------------------------------------------------------------------
(* Errors of the driver.                                                   *)

(* The issues of a pause boundary and the run's own: what is saved after   *)
(* an error resumes.                                                       *)
LEMMA BoundarySound ==
    ASSUME NEW c, Sound(c), c.phase # "COMPLETE", NEW d,
           NEW code \in DriverCodes, NEW status \in Statuses \ {"SUCCEEDED"},
           d = Boundary([c EXCEPT !.issues = @ \cup {RunIssue(code)}, !.status = status])
    PROVE  Saved(d) /\ SameResults(c, d)
<1> DEFINE New == {ItemIssue("PAUSE_INCOMPLETE", i) :
                     i \in {i \in ItemsOf(c) : PricesOf(c, i) = {}}}
           x == RunIssue(code)
<1>1. c \in Checkpoint /\ ItemsOf(c) \subseteq Items
  BY ItemParts DEF Sound
<1>2. x \in Issue /\ New \subseteq Issue
  BY <1>1 DEF RunIssue, ItemIssue, Issue, Codes, DriverCodes
<1>3. x.sku = NoSku /\ \A e \in New : e.sku = NoSku
  BY DEF RunIssue, ItemIssue
<1>4. /\ d.issues = c.issues \cup {x} \cup New /\ d.status = status /\ d.phase = c.phase
      /\ SamePositions(c, d) /\ SameItems(c, d) /\ SameResults(c, d)
  BY <1>1 DEF Boundary, Checkpoint, SamePositions, SameItems, SameResults, ItemsOf, PricesOf
<1>5. d \in Checkpoint
  <2>1. d = [c EXCEPT !.issues = c.issues \cup {x} \cup New, !.status = status]
    BY <1>1 DEF Boundary, Checkpoint, ItemsOf, PricesOf
  <2>2. c.issues \cup {x} \cup New \in SUBSET Issue
    BY <1>1, <1>2, Parts
  <2> HIDE DEF New, x
  <2> QED
    BY <1>1, <2>1, <2>2 DEF Checkpoint
<1>6. \A i \in Bare(d) : IssueOn(d, Incomplete, i)
  <2> SUFFICES ASSUME NEW i \in Bare(d) PROVE IssueOn(d, Incomplete, i)
    OBVIOUS
  <2>1. i \in ItemsOf(c) /\ PricesOf(c, i) = {}
    BY <1>4 DEF Bare, SameItems, SameResults, ItemsOf, PricesOf
  <2>2. ItemIssue("PAUSE_INCOMPLETE", i) \in d.issues
    BY <1>4, <2>1
  <2> QED
    BY <2>2 DEF IssueOn, ItemIssue, Incomplete
<1> HIDE DEF New, x
<1>7. IssuesGrow(c, d)
  BY <1>3, <1>4 DEF IssuesGrow
<1> QED
  BY <1>4, <1>5, <1>6, <1>7, IssuesSound DEF Saved

LEMMA PauseSound ==
    ASSUME NEW c, Sound(c), c.phase # "COMPLETE",
           NEW code \in DriverCodes, NEW status \in Paused
    PROVE  Saved(PauseOf(c, status, code)) /\ SameResults(c, PauseOf(c, status, code))
<1>1. PauseOf(c, status, code)
        = Boundary([c EXCEPT !.issues = @ \cup {RunIssue(code)}, !.status = status])
  <2>1. [c EXCEPT !.status = status, !.issues = @ \cup {RunIssue(code)}]
          = [c EXCEPT !.issues = @ \cup {RunIssue(code)}, !.status = status]
    BY DEF Sound, Checkpoint
  <2> QED
    BY <2>1 DEF PauseOf
<1>2. status \in Statuses \ {"SUCCEEDED"}
  BY DEF Statuses, Paused
<1> QED
  BY <1>1, <1>2, BoundarySound

LEMMA FailedSound ==
    ASSUME NEW c, Sound(c), c.phase # "COMPLETE", NEW code \in DriverCodes
    PROVE  Saved(Failed(c, code)) /\ SameResults(c, Failed(c, code))
<1> DEFINE status == IF c.pos = <<>> /\ c.own = {} THEN "FAILED" ELSE "PARTIAL_FAILED"
<1>1. status \in Statuses \ {"SUCCEEDED"}
  BY DEF Statuses
<1>2. Failed(c, code)
        = Boundary([c EXCEPT !.issues = @ \cup {RunIssue(code)}, !.status = status])
  BY DEF Failed
<1> HIDE DEF status
<1> QED
  BY <1>1, <1>2, BoundarySound

LEMMA ItemsAreCanonical ==
    ASSUME NEW c, NEW i \in Items
    PROVE  Canonical(c, i) = i
BY Separate DEF Canonical

(* The search is forgotten, and with it what only it had found.            *)
LEMMA ResetSound ==
    ASSUME NEW c, Sound(c), c.phase # "COMPLETE"
    PROVE  /\ Sound(Reset(c)) /\ Reset(c).phase # "COMPLETE"
           /\ Reset(c).keys = {k \in c.keys : k[1] \in c.own}
           /\ Reset(c).prices = {k \in c.prices : k[1] \in c.own}
<1> DEFINE d == Reset(c)
<1>1. c \in Checkpoint /\ ItemsOf(c) \subseteq Items
  BY ItemParts DEF Sound
<1>2. \A id \in c.done : Canonical(c, id) = id
  BY <1>1, ItemsAreCanonical DEF Sound, ItemsSound
<1>3. /\ d.phase = (IF c.phase = "ITEMS" THEN "SEARCH" ELSE c.phase)
      /\ d.ownDone = c.ownDone /\ d.own = c.own /\ d.comp = {} /\ d.status = c.status
      /\ d.done = {id \in c.done : Canonical(c, id) \in c.own}
      /\ d.keys = {k \in c.keys : k[1] \in c.own}
      /\ d.prices = {k \in c.prices : k[1] \in c.own}
      /\ d.manifest = {k \in c.manifest : k[1] \in c.own}
      /\ d.issues = {e \in c.issues : e.item \in c.own \cup {NoItem}}
      /\ d.pos = <<>> /\ d.ranks = [i \in Items |-> {}]
      /\ d.alias = [r \in Ranks |-> NoItem]
  BY <1>1 DEF Reset, ResetKeepsManifest, Checkpoint
<1>4. d \in Checkpoint
  <2> DEFINE e == ResetKeepsManifest(c)
  <2>1. /\ (IF c.phase = "ITEMS" THEN "SEARCH" ELSE c.phase) \in Phases
        /\ {id \in c.done : Canonical(c, id) \in c.own} \in SUBSET Identities
        /\ {k \in c.keys : k[1] \in c.own} \in SUBSET Keys
        /\ {k \in c.prices : k[1] \in c.own} \in SUBSET Keys
        /\ {k \in c.manifest : k[1] \in c.own} \in SUBSET Keys
        /\ {x \in c.issues : x.item \in c.own \cup {NoItem}} \in SUBSET Issue
        /\ <<>> \in Placements /\ {} \in SUBSET Items
        /\ [i \in Items |-> {}] \in [Items -> SUBSET Ranks]
        /\ [r \in Ranks |-> NoItem] \in [Ranks -> Items \cup {NoItem}]
    BY <1>1, Parts, Empty DEF Phases
  <2>2. e \in Checkpoint /\ e.manifest = c.manifest
    BY <1>1, <2>1 DEF ResetKeepsManifest, Checkpoint
  <2>3. d = [e EXCEPT !.manifest = {k \in c.manifest : k[1] \in c.own}]
    BY <2>2 DEF Reset
  <2> HIDE DEF e, d
  <2> QED
    BY <2>1, <2>2, <2>3 DEF Checkpoint
<1> HIDE DEF d
<1>5. ItemsOf(d) = c.own /\ d.done = c.done \cap c.own /\ Positions(d) = {}
  BY <1>2, <1>3, Empty DEF ItemsOf, Positions
<1>6. Bare(d) = Bare(c) \cap c.own
  <2> SUFFICES ASSUME NEW i \in c.own PROVE i \in Bare(d) <=> i \in Bare(c)
    BY <1>5 DEF Bare
  <2>1. PricesOf(d, i) = PricesOf(c, i)
    BY <1>3 DEF PricesOf
  <2>2. IssueOn(d, Unpricable, i) <=> IssueOn(c, Unpricable, i)
    BY <1>3 DEF IssueOn
  <2> QED
    BY <1>5, <2>1, <2>2 DEF Bare, ItemsOf
<1>7. ItemsSound(d)
  <2>1. Bare(d) \subseteq NextItems(d)
    <3>1. CASE c.phase = "OWN_LISTINGS"
      <4>1. NextOwn(d) = NextOwn(c)
        BY <1>3 DEF NextOwn
      <4> QED
        BY <1>3, <1>6, <3>1, <4>1 DEF Sound, ItemsSound, NextItems
    <3>2. CASE c.phase # "OWN_LISTINGS"
      <4>1. c.own \subseteq c.done
        BY <1>1, <3>2, Parts DEF Sound, PhaseSound, ItemsSound
      <4> QED
        BY <1>6, <4>1 DEF Sound, ItemsSound
    <3> QED
      BY <3>1, <3>2
  <2>2. d.ownDone \subseteq d.own \cap d.done
    BY <1>3, <1>5 DEF Sound, ItemsSound
  <2>3. d.done \cap Bare(d) = {}
    BY <1>5, <1>6 DEF Sound, ItemsSound
  <2> QED
    BY <1>3, <1>5, <2>1, <2>2, <2>3 DEF ItemsSound
<1>8. ResultsSound(d)
  <2>1. \A k \in d.keys \ d.prices :
            \E e \in d.issues : e.item = k[1] /\ e.sku = k[2] /\ e.code \in ResultCodes
    BY <1>3 DEF Sound, ResultsSound
  <2>2. ASSUME NEW e \in d.issues, e.sku # NoSku
        PROVE  <<e.item, e.sku>> \in d.keys /\ e.code \in ResultCodes
    <3>1. <<e.item, e.sku>> \in c.keys /\ e.code \in ResultCodes
      BY <1>3, <2>2 DEF Sound, ResultsSound
    <3>2. e.item # NoItem
      BY <1>1, <3>1, Parts, Separate DEF Keys
    <3> QED
      BY <1>3, <3>1, <3>2
  <2> QED
    BY <1>3, <1>5, <2>1, <2>2 DEF Sound, ResultsSound
<1>9. PositionsSound(d)
  <2>1. c.own \subseteq Items
    BY <1>1 DEF ItemsOf
  <2> QED
    BY <1>3, <1>5, <2>1 DEF PositionsSound
<1>10. PhaseSound(d) /\ d.phase # "COMPLETE"
  BY <1>3 DEF Sound, PhaseSound
<1> QED
  BY <1>3, <1>4, <1>7, <1>8, <1>9, <1>10 DEF Sound, d

(* What is left of results after the search is forgotten.                  *)
LEMMA OwnResults ==
    ASSUME NEW c, Sound(c)
    PROVE  /\ {k \in c.keys : k[1] \in c.own} = c.keys \cap (Own \X Skus)
           /\ {k \in c.prices : k[1] \in c.own} = c.prices \cap (Own \X Skus)
<1>1. /\ c.keys \subseteq Items \X Skus /\ c.prices \subseteq c.keys
      /\ c.own \subseteq Own /\ \A k \in c.keys : k[1] \in ItemsOf(c)
  BY Parts DEF Sound, ResultsSound, Keys
<1>2. \A i \in ItemsOf(c) : i \in Own => i \in c.own
  BY DEF Sound, PhaseSound, ItemsSound, ItemsOf
<1>3. \A k \in c.keys : k[1] \in c.own <=> k \in Own \X Skus
  BY <1>1, <1>2
<1> QED
  BY <1>1, <1>3

LEMMA HandledSound ==
    ASSUME NEW c, Sound(c), c.phase # "COMPLETE", NEW code \in DriverCodes
    PROVE  /\ Saved(Handled(c, code))
           /\ code # "MISSING_ITEM_ID" => SameResults(c, Handled(c, code))
           /\ code = "MISSING_ITEM_ID" =>
                 /\ Handled(c, code).keys = c.keys \cap (Own \X Skus)
                 /\ Handled(c, code).prices = c.prices \cap (Own \X Skus)
<1>1. CASE code = "LOGIN_REQUIRED"
  <2>1. Handled(c, code) = PauseOf(c, "PAUSED_LOGIN", code)
    BY <1>1 DEF Handled
  <2> QED
    BY <1>1, <2>1, PauseSound DEF Paused
<1>2. CASE code = "PLATFORM_CHALLENGE"
  <2>1. Handled(c, code) = PauseOf(c, "PAUSED_CHALLENGE", code)
    BY <1>2 DEF Handled
  <2> QED
    BY <1>2, <2>1, PauseSound DEF Paused
<1>3. CASE code = "MISSING_ITEM_ID"
  <2>1. Handled(c, code) = Failed(Reset(c), code)
    BY <1>3 DEF Handled
  <2>2. /\ Sound(Reset(c)) /\ Reset(c).phase # "COMPLETE"
        /\ Reset(c).keys = c.keys \cap (Own \X Skus)
        /\ Reset(c).prices = c.prices \cap (Own \X Skus)
    BY ResetSound, OwnResults
  <2>3. Saved(Failed(Reset(c), code)) /\ SameResults(Reset(c), Failed(Reset(c), code))
    BY <2>2, FailedSound
  <2> QED
    BY <1>3, <2>1, <2>2, <2>3 DEF SameResults
<1>4. CASE code \notin {"LOGIN_REQUIRED", "PLATFORM_CHALLENGE", "MISSING_ITEM_ID"}
  <2>1. Handled(c, code) = Failed(c, code)
    BY <1>4 DEF Handled
  <2> QED
    BY <1>4, <2>1, FailedSound
<1> QED
  BY <1>1, <1>2, <1>3, <1>4

-----------------------------------------------------------------------------
(* From the own listings to the search, and what it finds.                 *)

LEMMA LeastNat ==
    ASSUME NEW T \in SUBSET Nat, T # {}
    PROVE  \E n \in T : \A m \in T : ~(m < n)
<1>1. \E n \in T : \A m \in T : ~(<<m, n>> \in OpToRel(<, Nat))
  BY NatLessThanWellFounded, WFMin
<1> QED
  BY <1>1 DEF OpToRel

(* The own listings are opened in order, one at a time, until none is left. *)
LEMMA OwnInOrder ==
    ASSUME NEW c
    PROVE  /\ NextOwn(c) \subseteq Own \ c.ownDone
           /\ \A i, j \in NextOwn(c) : i = j
           /\ NextOwn(c) = {} => Own \subseteq c.ownDone
<1>1. DOMAIN OwnListings \subseteq Nat /\ \A n \in DOMAIN OwnListings : 1..(n - 1) \subseteq DOMAIN OwnListings
  BY OwnAssumption
<1>2. NextOwn(c) \subseteq Own \ c.ownDone
  BY DEF NextOwn, Own
<1>3. ASSUME NEW i \in NextOwn(c), NEW j \in NextOwn(c)
      PROVE  i = j
  <2>1. PICK n \in DOMAIN OwnListings :
            /\ OwnListings[n] \notin c.ownDone /\ i = OwnListings[n]
            /\ \A k \in 1..(n - 1) : OwnListings[k] \in c.ownDone
    BY DEF NextOwn
  <2>2. PICK m \in DOMAIN OwnListings :
            /\ OwnListings[m] \notin c.ownDone /\ j = OwnListings[m]
            /\ \A k \in 1..(m - 1) : OwnListings[k] \in c.ownDone
    BY DEF NextOwn
  <2>3. n \in Nat /\ m \in Nat /\ n >= 1 /\ m >= 1
    BY OwnAssumption
  <2>4. ~(n < m) /\ ~(m < n)
    BY <2>1, <2>2, <2>3
  <2> QED
    BY <2>1, <2>2, <2>3, <2>4
<1>4. ASSUME NextOwn(c) = {}, NEW i \in Own, i \notin c.ownDone
      PROVE  FALSE
  <2> DEFINE T == {n \in DOMAIN OwnListings : OwnListings[n] \notin c.ownDone}
  <2>1. T \subseteq Nat /\ T # {}
    BY <1>1, <1>4 DEF Own
  <2>2. PICK n \in T : \A m \in T : ~(m < n)
    BY <2>1, LeastNat
  <2>3. \A m \in 1..(n - 1) : m < n /\ m \in DOMAIN OwnListings
    BY <1>1
  <2>4. OwnListings[n] \in NextOwn(c)
    BY <2>2, <2>3 DEF NextOwn
  <2> QED
    BY <1>4, <2>4
<1> QED
  BY <1>2, <1>3, <1>4

LEMMA RanksInOrder ==
    ASSUME NEW c \in Checkpoint
    PROVE  /\ NextRank(c) \subseteq PendingRanks(c) /\ PendingRanks(c) \subseteq Ranks
           /\ \A q, r \in NextRank(c) : q = r
<1>1. PendingRanks(c) \subseteq Ranks
  BY PosParts DEF PendingRanks
<1>2. Ranks \subseteq Nat
  BY LimitAssumption DEF Ranks
<1>3. ASSUME NEW q \in NextRank(c), NEW r \in NextRank(c)
      PROVE  q = r
  <2>1. q \in PendingRanks(c) /\ r \in PendingRanks(c) /\ q <= r /\ r <= q
    BY DEF NextRank
  <2>2. q \in Nat /\ r \in Nat
    BY <1>1, <1>2, <2>1
  <2> QED
    BY <2>1, <2>2
<1> QED
  BY <1>1, <1>3 DEF NextRank

LEMMA EnterSearchSound ==
    ASSUME NEW c, Sound(c), c.phase = "OWN_LISTINGS", NextOwn(c) = {},
           NEW d, d = [c EXCEPT !.phase = "SEARCH"]
    PROVE  Saved(d) /\ SameResults(c, d)
<1>1. c \in Checkpoint
  BY DEF Sound
<1>2. d \in Checkpoint /\ d.phase = "SEARCH" /\ d.status = c.status
      /\ SamePositions(c, d) /\ SameItems(c, d) /\ SameResults(c, d) /\ d.issues = c.issues
  BY <1>1 DEF Checkpoint, Phases, SamePositions, SameItems, SameResults
<1>3. Bare(c) = {} /\ c.ownDone = Own
  <2>1. NextItems(c) = {}
    BY DEF NextItems
  <2>2. c.ownDone \subseteq Own /\ Own \subseteq c.ownDone
    BY <1>1, OwnInOrder, Parts
  <2> QED
    BY <2>1, <2>2 DEF Sound, ItemsSound
<1>4. Bare(d) = {} /\ ItemsOf(d) = ItemsOf(c)
  BY <1>2, <1>3, BareShrinks DEF IssuesGrow, SameResults, ItemsOf, SameItems
<1>5. ItemsSound(d)
  BY <1>2, <1>4 DEF Sound, ItemsSound, SameItems
<1>6. ResultsSound(d)
  BY <1>2, <1>4 DEF Sound, ResultsSound, SameResults
<1>7. PositionsSound(d)
  BY <1>2, <1>4 DEF Sound, PositionsSound, SamePositions, SameItems, Positions, RanksOf
<1>8. PhaseSound(d)
  BY <1>2, <1>3 DEF Sound, PhaseSound, SamePositions, SameItems
<1> QED
  BY <1>2, <1>4, <1>5, <1>6, <1>7, <1>8 DEF Sound, Saved

(* Until its items are opened, the search has only positions.              *)
LEMMA FoundSound ==
    ASSUME NEW c, Sound(c), c.phase = "SEARCH", NEW result \in Results
    PROVE  /\ Sound(Found(c, result)) /\ Found(c, result).phase = "SEARCH"
           /\ SameResults(c, Found(c, result))
<1> DEFINE d == Found(c, result)
           p == [r \in DOMAIN result |-> IF result[r] = NoItem THEN r ELSE result[r]]
<1>1. c \in Checkpoint
  BY DEF Sound
<1>2. PICK n \in 0..Limit : result \in [1..n -> Items \cup {NoItem}]
  BY LimitAssumption
<1>3. p \in [1..n -> Identities] /\ p \in Placements /\ \A r \in DOMAIN p : p[r] \in Ranks => p[r] = r
  <2>1. 1..n \subseteq Ranks
    BY LimitAssumption DEF Ranks
  <2> QED
    BY <1>2, <2>1, Separate DEF Identities, Placements
<1>4. /\ d \in Checkpoint /\ d.pos = p /\ d.alias = c.alias /\ d.ranks = c.ranks
      /\ SameItems(c, d) /\ SameResults(c, d) /\ d.issues = c.issues
      /\ d.phase = c.phase /\ d.status = c.status
  BY <1>1, <1>3 DEF Found, Checkpoint, SameItems, SameResults
<1> HIDE DEF p, d
<1>5. Bare(c) = {}
  BY DEF Sound, ItemsSound, NextItems
<1>6. Bare(d) = {} /\ ItemsOf(d) = ItemsOf(c)
  BY <1>4, <1>5, BareShrinks DEF IssuesGrow, SameResults, ItemsOf, SameItems
<1>7. ItemsSound(d)
  BY <1>4, <1>6 DEF Sound, ItemsSound, SameItems
<1>8. ResultsSound(d)
  BY <1>4, <1>6 DEF Sound, ResultsSound, SameResults
<1>9. PositionsSound(d)
  <2>1. /\ \A i \in Items : d.ranks[i] = {}
        /\ d.comp = {} /\ \A r \in Ranks : d.alias[r] = NoItem
    BY <1>1, <1>4, <1>6, ItemParts DEF Sound, PhaseSound, SameItems
  <2> QED
    BY <1>3, <1>4, <2>1 DEF PositionsSound, Positions
<1>10. PhaseSound(d)
  BY <1>4 DEF Sound, PhaseSound, SameItems
<1> QED
  BY <1>4, <1>7, <1>8, <1>9, <1>10 DEF Sound, d

LEMMA SearchSound ==
    ASSUME NEW c, Sound(c), c.phase = "SEARCH", NEW d, d = [RankedOwn(c) EXCEPT !.phase = "ITEMS"]
    PROVE  Saved(d) /\ SameResults(c, d)
<1>1. c \in Checkpoint
  BY DEF Sound
<1>2. [i \in Items |-> IF i \in c.own THEN RanksOf(c, i) ELSE c.ranks[i]] \in [Items -> SUBSET Ranks]
  BY <1>1, Parts, PosParts DEF RanksOf
<1>3. /\ d \in Checkpoint /\ d.phase = "ITEMS" /\ d.status = c.status
      /\ d.ranks = [i \in Items |-> IF i \in c.own THEN RanksOf(c, i) ELSE c.ranks[i]]
      /\ d.pos = c.pos /\ d.alias = c.alias
      /\ SameItems(c, d) /\ SameResults(c, d) /\ d.issues = c.issues
  BY <1>1, <1>2 DEF RankedOwn, Checkpoint, Phases, SameItems, SameResults
<1>4. Bare(c) = {}
  BY DEF Sound, ItemsSound, NextItems
<1>5. Bare(d) = {} /\ ItemsOf(d) = ItemsOf(c)
  BY <1>3, <1>4, BareShrinks DEF IssuesGrow, SameResults, ItemsOf, SameItems
<1>6. ItemsSound(d)
  BY <1>3, <1>5 DEF Sound, ItemsSound, SameItems
<1>7. ResultsSound(d)
  BY <1>3, <1>5 DEF Sound, ResultsSound, SameResults
<1>8. PositionsSound(d)
  BY <1>1, <1>3, <1>5, ItemParts
     DEF Sound, PositionsSound, PhaseSound, SameItems, Positions, RanksOf, ItemsOf
<1>9. PhaseSound(d)
  BY <1>3 DEF Sound, PhaseSound, SameItems
<1> QED
  BY <1>3, <1>5, <1>6, <1>7, <1>8, <1>9 DEF Sound, Saved

-----------------------------------------------------------------------------
(* The item whose page opens is one of the report.                         *)

(* c as it is when the page of i opens: i is of the report, and nothing    *)
(* else is bare.                                                           *)
Ready(c, i, via) ==
    /\ Sound(c) /\ c.phase \in {"OWN_LISTINGS", "ITEMS"}
    /\ i \in ItemsOf(c) /\ (c.phase = "OWN_LISTINGS" => i \in Own)
    /\ Canonical(c, via) = i
    /\ Bare(c) \subseteq {i}

LEMMA OwnReady ==
    ASSUME NEW c, Sound(c), c.phase = "OWN_LISTINGS", NEW i \in NextOwn(c),
           NEW elsewhere \in BOOLEAN,
           NEW d, d = WithOwn(c, i, elsewhere)
    PROVE  Ready(d, i, i) /\ SameResults(c, d)
<1>1. c \in Checkpoint /\ i \in Own /\ i \in Items
  BY OwnInOrder, OwnItems DEF Sound
<1>2. /\ d \in Checkpoint /\ d.own = c.own \cup {i} /\ d.comp = c.comp /\ d.comp = {}
      /\ d.done = c.done /\ d.ownDone = c.ownDone /\ SamePositions(c, d) /\ SameResults(c, d)
      /\ d.issues = c.issues /\ d.phase = c.phase /\ d.status = c.status
  BY <1>1 DEF Sound, PhaseSound, Checkpoint, WithOwn, SamePositions, SameResults
<1>3. ItemsOf(d) = ItemsOf(c) \cup {i} /\ ItemsOf(d) = d.own
  BY <1>2 DEF ItemsOf
<1>4. Bare(c) \subseteq {i} /\ NextItems(d) = NextOwn(c)
  BY <1>2, OwnInOrder DEF Sound, ItemsSound, NextItems, NextOwn
<1>5. Bare(d) \subseteq {i} /\ (i \in ItemsOf(c) => Bare(d) = Bare(c))
  BY <1>2, <1>3, <1>4 DEF Bare, SameResults, PricesOf, IssueOn
<1>6. ItemsSound(d)
  BY <1>2, <1>3, <1>4, <1>5 DEF Sound, ItemsSound
<1>7. ResultsSound(d)
  BY <1>2, <1>3 DEF Sound, ResultsSound, SameResults
<1>8. PositionsSound(d)
  BY <1>1, <1>2, <1>3, ItemParts
     DEF Sound, PositionsSound, PhaseSound, SamePositions, Positions, RanksOf
<1>9. PhaseSound(d)
  BY <1>2 DEF Sound, PhaseSound, SamePositions
<1> QED
  BY <1>1, <1>2, <1>3, <1>5, <1>6, <1>7, <1>8, <1>9, ItemsAreCanonical DEF Sound, Ready

(* The next position gets the identity of the page it opens.               *)
LEMMA AliasedPositions ==
    ASSUME NEW c, Sound(c), c.phase = "ITEMS", NEW r \in NextRank(c), NEW i \in Items,
           c.pos[r] \in {i} \cup Ranks
    PROVE  LET d == Aliased(c, c.pos[r], i)
           IN  /\ d \in Checkpoint /\ SameItems(c, d) /\ SameResults(c, d)
               /\ d.issues = c.issues /\ d.phase = c.phase /\ d.status = c.status
               /\ d.ranks = c.ranks
               /\ Positions(d) = Positions(c) /\ r \in Positions(c)
               /\ d.pos[r] = i /\ \A q \in Positions(c) \ {r} : d.pos[q] = c.pos[q]
               /\ Canonical(d, c.pos[r]) = i
               /\ \A q \in Ranks \ {r} : d.alias[q] = c.alias[q]
               /\ d.alias[r] \in {NoItem, i}
               /\ Bare(c) \subseteq {i}
<1> DEFINE id == c.pos[r]
           d == Aliased(c, id, i)
<1>1. /\ c \in Checkpoint /\ r \in Positions(c) /\ r \in Ranks
      /\ Canonical(c, id) \notin c.done /\ ItemsOf(c) \subseteq Items
  BY RanksInOrder, ItemParts DEF Sound, PendingRanks
<1>2. Bare(c) \subseteq {id} /\ Bare(c) \subseteq Items
  BY <1>1, RanksInOrder DEF Sound, ItemsSound, NextItems, Bare
<1>3. c.alias[r] \in {NoItem, id} /\ c.alias[r] \in Items \cup {NoItem}
  BY <1>1, Parts DEF Sound, PositionsSound
<1>4. CASE id \in Ranks
  <2> DEFINE p == [q \in DOMAIN c.pos |-> IF c.pos[q] = id THEN i ELSE c.pos[q]]
             a == [c.alias EXCEPT ![id] = i]
  <2>1. id = r /\ \A q \in Positions(c) : c.pos[q] = id => q = r
    BY <1>1, <1>4 DEF Sound, PositionsSound
  <2>2. p \in Placements
    <3>1. \A q \in DOMAIN c.pos : p[q] \in Identities
      BY <1>1, PosParts DEF Positions, Identities
    <3>2. DOMAIN p = DOMAIN c.pos /\ p = [q \in DOMAIN c.pos |-> p[q]] /\ c.pos \in Placements
      BY <1>1, Parts
    <3> HIDE DEF p
    <3> QED
      BY <3>1, <3>2, PlacementMap
  <2>3. a \in [Ranks -> Items \cup {NoItem}] /\ a[r] = i /\ \A q \in Ranks \ {r} : a[q] = c.alias[q]
    BY <1>1, <2>1, Parts
  <2>4. d = [c EXCEPT !.alias = a, !.pos = p]
    BY <1>4, <1>1 DEF Aliased, Checkpoint
  <2>5. p[r] = i /\ \A q \in Positions(c) \ {r} : p[q] = c.pos[q]
    BY <1>1, <2>1 DEF Positions
  <2>6. DOMAIN p = Positions(c)
    BY DEF Positions
  <2> HIDE DEF p, a, d
  <2>7. /\ d \in Checkpoint /\ SameItems(c, d) /\ SameResults(c, d)
        /\ d.issues = c.issues /\ d.phase = c.phase /\ d.status = c.status
        /\ d.ranks = c.ranks /\ d.pos = p /\ d.alias = a
    BY <1>1, <2>2, <2>3, <2>4 DEF Checkpoint, SameItems, SameResults
  <2>8. Canonical(d, id) = i
    BY <1>4, <2>1, <2>3, <2>7, Separate DEF Canonical
  <2>9. Bare(c) \subseteq {i}
    BY <1>2, <1>4, Separate
  <2> QED
    BY <1>1, <2>3, <2>5, <2>6, <2>7, <2>8, <2>9 DEF d, Positions
<1>5. CASE id \notin Ranks
  <2>1. id = i /\ d = c
    BY <1>5 DEF Aliased
  <2>2. Canonical(c, i) = i
    BY ItemsAreCanonical
  <2> QED
    BY <1>1, <1>2, <1>3, <2>1, <2>2 DEF SameItems, SameResults
<1> QED
  BY <1>4, <1>5

LEMMA PositionReady ==
    ASSUME NEW c, Sound(c), c.phase = "ITEMS", NEW r \in NextRank(c), NEW i \in Items,
           c.pos[r] \in {i} \cup Ranks
    PROVE  LET d == AtPosition(Aliased(c, c.pos[r], i), i)
           IN  Ready(d, i, c.pos[r]) /\ SameResults(c, d)
<1> DEFINE b == Aliased(c, c.pos[r], i)
           d == AtPosition(b, i)
<1>1. /\ b \in Checkpoint /\ SameItems(c, b) /\ SameResults(c, b)
      /\ b.issues = c.issues /\ b.phase = c.phase /\ b.status = c.status
      /\ b.ranks = c.ranks
      /\ Positions(b) = Positions(c) /\ r \in Positions(c)
      /\ b.pos[r] = i /\ \A q \in Positions(c) \ {r} : b.pos[q] = c.pos[q]
      /\ Canonical(b, c.pos[r]) = i
      /\ \A q \in Ranks \ {r} : b.alias[q] = c.alias[q]
      /\ b.alias[r] \in {NoItem, i}
      /\ Bare(c) \subseteq {i}
  BY AliasedPositions
<1> HIDE DEF b
<1>2. c \in Checkpoint /\ ItemsOf(c) \subseteq Items /\ Positions(c) \subseteq Ranks
  BY ItemParts, PosParts DEF Sound
<1>3. ItemsOf(b) = ItemsOf(c) /\ b.comp = c.comp /\ b.own = c.own
  BY <1>1 DEF SameItems, ItemsOf
<1> DEFINE f == [b.ranks EXCEPT ![i] = @ \cup RanksOf(b, i)]
<1>4. /\ f \in [Items -> SUBSET Ranks] /\ f[i] = c.ranks[i] \cup RanksOf(b, i)
      /\ \A j \in Items \ {i} : f[j] = c.ranks[j]
  BY <1>1, Parts, PosParts DEF RanksOf
<1>5. (IF i \in ItemsOf(b) THEN b.comp ELSE b.comp \cup {i}) \in SUBSET Items
  BY <1>1, Parts
<1>6. /\ d \in Checkpoint /\ d.ranks = f /\ d.pos = b.pos /\ d.alias = b.alias
      /\ d.comp = (IF i \in ItemsOf(c) THEN c.comp ELSE c.comp \cup {i}) /\ d.own = c.own
      /\ d.done = c.done /\ d.ownDone = c.ownDone /\ SameResults(c, d)
      /\ d.issues = c.issues /\ d.phase = c.phase /\ d.status = c.status
  <2>1. d = [b EXCEPT !.comp = IF i \in ItemsOf(b) THEN b.comp ELSE b.comp \cup {i}, !.ranks = f]
    BY <1>1 DEF AtPosition, Checkpoint
  <2> HIDE DEF f, d
  <2> QED
    BY <1>1, <1>3, <1>4, <1>5, <2>1 DEF Checkpoint, SameItems, SameResults
<1> HIDE DEF f, d
<1>7. ItemsOf(d) = ItemsOf(c) \cup {i} /\ Positions(d) = Positions(c)
  BY <1>1, <1>6 DEF ItemsOf, Positions
<1>8. Bare(d) \subseteq {i} /\ (i \in ItemsOf(c) => Bare(d) = Bare(c))
  BY <1>1, <1>6, <1>7 DEF Bare, SameResults, PricesOf, IssueOn
<1>9. /\ d.pos[r] = i /\ \A q \in Positions(c) \ {r} : d.pos[q] = c.pos[q]
      /\ \A q \in Ranks \ {r} : d.alias[q] = c.alias[q]
  BY <1>1, <1>6
<1>10. i \notin c.done => i \in NextItems(d)
  <2> SUFFICES ASSUME i \notin c.done PROVE i \in NextItems(d)
    OBVIOUS
  <2>1. r \in PendingRanks(c) /\ \A q \in PendingRanks(c) : r <= q
    BY DEF NextRank
  <2>2. Canonical(d, d.pos[r]) = i
    BY <1>9, ItemsAreCanonical
  <2>3. ASSUME NEW q \in Positions(c), q # r
        PROVE  Canonical(d, d.pos[q]) = Canonical(c, c.pos[q])
    <3>1. c.pos[q] \in Ranks => c.pos[q] = q
      BY DEF Sound, PositionsSound
    <3>2. d.pos[q] = c.pos[q] /\ (c.pos[q] \in Ranks => d.alias[c.pos[q]] = c.alias[c.pos[q]])
      BY <1>2, <1>9, <2>3, <3>1
    <3> QED
      BY <3>2 DEF Canonical
  <2>4. PendingRanks(d) = PendingRanks(c)
    BY <1>6, <1>7, <2>1, <2>2, <2>3 DEF PendingRanks
  <2>5. r \in NextRank(d)
    BY <2>1, <2>4 DEF NextRank
  <2> QED
    BY <1>6, <1>9, <2>5 DEF NextItems
<1>11. ItemsSound(d)
  <2>1. d.own \cap d.comp = {}
    BY <1>6 DEF Sound, ItemsSound, ItemsOf
  <2>2. d.done \subseteq ItemsOf(d) /\ d.ownDone \subseteq d.own \cap d.done
    BY <1>6, <1>7 DEF Sound, ItemsSound
  <2>3. d.done \cap Bare(d) = {}
    BY <1>6, <1>8 DEF Sound, ItemsSound
  <2>4. Bare(d) \subseteq NextItems(d)
    BY <1>6, <1>8, <1>10, <2>3
  <2> QED
    BY <2>1, <2>2, <2>3, <2>4 DEF ItemsSound
<1>12. ResultsSound(d)
  BY <1>6, <1>7 DEF Sound, ResultsSound, SameResults
<1>13. PositionsSound(d)
  <2>1. ASSUME NEW j \in Items
        PROVE  d.ranks[j] \subseteq RanksOf(d, j)
    <3>1. c.ranks[j] \subseteq RanksOf(c, j)
      BY DEF Sound, PositionsSound
    <3>2. RanksOf(c, j) \subseteq RanksOf(d, j)
      <4>1. j \notin Ranks
        BY Separate
      <4>2. c.pos[r] = j => i = j
        BY <4>1
      <4> QED
        BY <1>7, <1>9, <4>2 DEF RanksOf
    <3>3. RanksOf(d, i) = RanksOf(b, i)
      BY <1>6 DEF RanksOf, Positions
    <3> QED
      BY <1>4, <1>6, <3>1, <3>2, <3>3
  <2>2. ASSUME NEW j \in d.comp
        PROVE  d.ranks[j] # {}
    <3>1. r \in RanksOf(b, i)
      BY <1>1 DEF RanksOf
    <3>2. CASE j = i
      BY <1>4, <1>6, <3>1, <3>2
    <3>3. CASE j # i
      BY <1>2, <1>4, <1>6, <3>3 DEF Sound, PositionsSound, ItemsOf
    <3> QED
      BY <3>2, <3>3
  <2>3. \A q \in Positions(d) : d.pos[q] \in Ranks => d.pos[q] = q
    BY <1>1, <1>7, <1>9, Separate DEF Sound, PositionsSound
  <2>4. \A q \in Ranks : d.alias[q] # NoItem => q \in Positions(d) /\ d.pos[q] = d.alias[q]
    BY <1>1, <1>6, <1>7, <1>9 DEF Sound, PositionsSound
  <2> QED
    BY <2>1, <2>2, <2>3, <2>4 DEF PositionsSound
<1>14. PhaseSound(d)
  BY <1>6 DEF Sound, PhaseSound
<1>15. Canonical(d, c.pos[r]) = i
  BY <1>1, <1>6 DEF Canonical
<1>16. Ready(d, i, c.pos[r]) /\ SameResults(c, d)
  BY <1>6, <1>7, <1>8, <1>11, <1>12, <1>13, <1>14, <1>15 DEF Sound, Ready
<1> QED
  BY <1>16 DEF b, d

(* With no position left to open, every position's item is complete.       *)
LEMMA FinishSound ==
    ASSUME NEW c, Sound(c), c.phase = "ITEMS", PendingRanks(c) = {},
           NEW d, d = [c EXCEPT !.phase = "COMPLETE", !.status = FinalStatus(c)]
    PROVE  Saved(d) /\ SameResults(c, d)
<1>1. c \in Checkpoint /\ ItemsOf(c) \subseteq Items
  BY ItemParts DEF Sound
<1>2. FinalStatus(c) \in Statuses
  BY DEF FinalStatus, Statuses
<1>3. /\ d \in Checkpoint /\ d.phase = "COMPLETE" /\ d.status = FinalStatus(c)
      /\ SamePositions(c, d) /\ SameItems(c, d) /\ SameResults(c, d) /\ d.issues = c.issues
  BY <1>1, <1>2 DEF Checkpoint, Phases, SamePositions, SameItems, SameResults
<1>4. Bare(c) = {}
  BY <1>1, RanksInOrder DEF Sound, ItemsSound, NextItems
<1>5. Bare(d) = {} /\ ItemsOf(d) = ItemsOf(c)
  BY <1>3, <1>4, BareShrinks DEF IssuesGrow, SameResults, ItemsOf, SameItems
<1>6. ASSUME NEW r \in Positions(c)
      PROVE  c.pos[r] \in c.done
  <2>1. Canonical(c, c.pos[r]) \in c.done /\ c.done \subseteq Items
    BY <1>1 DEF PendingRanks, Sound, ItemsSound
  <2>2. c.pos[r] \in Ranks => c.pos[r] = r
    BY DEF Sound, PositionsSound
  <2>3. c.pos[r] \notin Ranks
    <3>1. SUFFICES ASSUME c.pos[r] = r, r \in Ranks PROVE FALSE
      BY <2>2
    <3>2. c.alias[r] = NoItem
      BY <1>1, <3>1, Parts, Separate DEF Sound, PositionsSound
    <3> QED
      BY <2>1, <3>1, <3>2, Separate DEF Canonical
  <2> QED
    BY <2>1, <2>3 DEF Canonical
<1>7. ItemsSound(d)
  BY <1>3, <1>5 DEF Sound, ItemsSound, SameItems
<1>8. ResultsSound(d)
  BY <1>3, <1>5 DEF Sound, ResultsSound, SameResults
<1>9. PositionsSound(d)
  BY <1>3, <1>5 DEF Sound, PositionsSound, SamePositions, SameItems, Positions, RanksOf
<1>10. PhaseSound(d)
  <2>1. d.status = FinalStatus(d)
    BY <1>3 DEF FinalStatus, HasIssue
  <2>2. \A r \in Positions(d) : d.pos[r] \in d.done
    BY <1>3, <1>6 DEF SamePositions, SameItems, Positions
  <2> QED
    BY <1>3, <2>1, <2>2 DEF Sound, PhaseSound, SamePositions, SameItems
<1> QED
  BY <1>3, <1>5, <1>7, <1>8, <1>9, <1>10 DEF Sound, Saved

-----------------------------------------------------------------------------
(* What a saved checkpoint is worth.                                       *)

LEMMA SavedCoherent ==
    ASSUME NEW c, Saved(c)
    PROVE  AliasesCoherent(c) /\ ProgressCoherent(c) /\ PhaseCoherent(c)
<1>1. c \in Checkpoint /\ ItemsOf(c) \subseteq Items /\ Sound(c)
  BY ItemParts DEF Sound, Saved
<1>2. \A i \in c.comp : RanksOf(c, i) # {} /\ c.ranks[i] # {}
  BY <1>1 DEF Sound, PositionsSound, ItemsOf
<1>3. AliasesCoherent(c)
  BY <1>1, <1>2, ItemsAreCanonical DEF Sound, PositionsSound, ItemsSound, AliasesCoherent
<1>4. ProgressCoherent(c)
  <2>1. \A id \in c.done : id \in Items /\ HasTerminalState(c, id)
    BY <1>1 DEF Sound, ItemsSound, Bare, HasTerminalState, IssueOn, Unpricable, Incomplete
  <2> QED
    BY <1>1, <2>1 DEF Sound, ItemsSound, ResultsSound, ProgressCoherent
<1>5. PhaseCoherent(c)
  <2>1. c.phase = "COMPLETE" => c.comp \subseteq c.done
    BY <1>1, <1>2 DEF Sound, PhaseSound, RanksOf
  <2>2. c.phase \in {"OWN_LISTINGS", "SEARCH"} =>
            c.comp = {} /\ c.done \subseteq c.own /\ \A k \in c.keys : k[1] \in c.own
    BY <1>1 DEF Sound, PhaseSound, ItemsSound, ResultsSound, ItemsOf
  <2> QED
    BY <1>1, <2>1, <2>2 DEF Sound, PhaseSound, PhaseCoherent
<1> QED
  BY <1>3, <1>4, <1>5

LEMMA SavedReportValid ==
    ASSUME NEW c, Saved(c)
    PROVE  ReportValid(c)
<1>1. c \in Checkpoint /\ ItemsOf(c) \subseteq Items /\ Sound(c)
  BY ItemParts DEF Sound, Saved
<1>2. c.status = "SUCCEEDED" => c.own # {}
  <2>1. Own # {}
    BY OwnAssumption DEF Own
  <2>2. c.status = "SUCCEEDED" => Own \subseteq c.own
    BY <1>1 DEF Sound, PhaseSound, ItemsSound
  <2> QED
    BY <2>1, <2>2
<1>3. \A i \in ItemsOf(c) : PricesOf(c, i) = {} => IssueOn(c, Incomplete, i)
  BY <1>1 DEF Saved, Bare, IssueOn, Unpricable, Incomplete
<1>4. \A k \in c.prices : k[1] \in ItemsOf(c)
  BY <1>1 DEF Sound, ResultsSound
<1> QED
  BY <1>1, <1>2, <1>3, <1>4 DEF Sound, ItemsSound, PositionsSound, ReportValid

LEMMA SucceededIsComplete ==
    ASSUME NEW c, Saved(c), c.status = "SUCCEEDED"
    PROVE  /\ c.own = Own
           /\ \A r \in Positions(c) : c.pos[r] \in ItemsOf(c)
           /\ c.keys = c.prices
           /\ \A i \in ItemsOf(c) : PricesOf(c, i) # {}
<1>1. Sound(c) /\ c.phase = "COMPLETE" /\ FinalStatus(c) = "SUCCEEDED" /\ c.own \subseteq Own
  BY Parts DEF Saved, Sound, PhaseSound
<1>2. \A e \in c.issues : e.code \notin PartialCodes
  BY <1>1 DEF FinalStatus, HasIssue
<1>3. c.own = Own /\ \A r \in Positions(c) : c.pos[r] \in ItemsOf(c)
  BY <1>1 DEF Sound, PhaseSound, ItemsSound
<1>4. c.keys = c.prices
  BY <1>1, <1>2 DEF Sound, ResultsSound, PartialCodes, ResultCodes, Incomplete
<1>5. \A i \in ItemsOf(c) : PricesOf(c, i) # {}
  BY <1>2, SavedReportValid DEF ReportValid, IssueOn, PartialCodes
<1> QED
  BY <1>3, <1>4, <1>5

-----------------------------------------------------------------------------
(* The steps.                                                              *)

LEMMA NullCheckpoint == \A c : Sound(c) => c # NoCheckpoint
BY NullAssumption DEF Sound

(* A call of the driver ends, and what it led to is saved.                 *)
LEMMA SavingStep ==
    ASSUME IInv, Running, Saved(mem'), disk' = mem', page' = NoPage,
           delivered' = delivered, faults' \in 0..MaxFaults,
           pc' \in {"working", "returned"}, pc' = "working" => mem'.phase # "COMPLETE"
    PROVE  IInv'
<1>1. mem' \in Checkpoint /\ Sound(mem') /\ disk' # NoCheckpoint
  BY NullCheckpoint DEF Saved, Sound
<1>2. delivered = NoCheckpoint
  BY DEF IInv, Running
<1>3. TypeOK'
  BY <1>1 DEF IInv, TypeOK
<1>4. OnDisk' = mem'
  BY <1>1 DEF OnDisk
<1> QED
  BY <1>1, <1>2, <1>3, <1>4 DEF IInv

(* A page opens.                                                           *)
LEMMA OpenedStep ==
    ASSUME IInv, pc = "working", NEW c, NEW i, NEW via \in Identities, Ready(c, i, via),
           c.keys = mem.keys, c.prices = mem.prices,
           NEW S \in Shown, NEW short \in BOOLEAN, Opened(c, i, via, S, short)
    PROVE  IInv'
<1> DEFINE x == ItemIssue("SKU_ENUMERATION_INCOMPLETE", i)
           d == [c EXCEPT !.issues = @ \cup {x}]
<1>1. c \in Checkpoint /\ i \in Items /\ Sound(c) /\ c.phase # "COMPLETE"
  BY ItemParts DEF Ready, Sound
<1>2. x \in Issue /\ x.sku = NoSku
  BY <1>1 DEF ItemIssue, Issue, Codes
<1> HIDE DEF x
<1>3. /\ d \in Checkpoint /\ d.issues = c.issues \cup {x}
      /\ SamePositions(c, d) /\ SameItems(c, d) /\ SameResults(c, d)
      /\ d.phase = c.phase /\ d.status = c.status
  BY <1>1, <1>2 DEF Checkpoint, SamePositions, SameItems, SameResults
<1>4. mem' \in {c, d}
  BY DEF Opened, x
<1> HIDE DEF d
<1>5. IssuesGrow(c, d) /\ d.status # "SUCCEEDED"
  BY <1>1, <1>2, <1>3 DEF IssuesGrow, Sound, PhaseSound
<1>6. Sound(d) /\ Bare(d) \subseteq Bare(c)
  BY <1>1, <1>3, <1>5, IssuesSound
<1>7. Canonical(d, via) = Canonical(c, via) /\ ItemsOf(d) = ItemsOf(c)
  BY <1>3 DEF Canonical, ItemsOf, SamePositions, SameItems
<1>8. /\ Sound(mem') /\ mem' \in Checkpoint /\ Bare(mem') \subseteq {i} /\ Canonical(mem', via) = i
      /\ mem'.phase = c.phase /\ mem'.keys = c.keys /\ mem'.prices = c.prices
      /\ i \in ItemsOf(mem')
  BY <1>3, <1>4, <1>6, <1>7 DEF Ready, SameResults, Sound
<1>9. page' \in Page /\ page' = [item |-> i, via |-> via, todo |-> {s \in S : <<i, s>> \notin c.keys}]
  BY <1>1, ShownAssumption DEF Opened, Page
<1>10. UNCHANGED <<disk, pc, delivered, faults>>
  BY DEF Opened
<1>11. TypeOK'
  BY <1>8, <1>9, <1>10 DEF IInv, TypeOK
<1>12. PageSound'
  BY <1>8, <1>9, <1>10 DEF PageSound, Ready
<1>13. mem'.keys = OnDisk'.keys /\ mem'.prices = OnDisk'.prices
  BY <1>8, <1>10 DEF IInv, Running, OnDisk
<1>14. mem'.phase # "COMPLETE"
  BY <1>1, <1>8
<1> QED
  BY <1>8, <1>10, <1>11, <1>12, <1>13, <1>14 DEF IInv, Running

(* What the disk records is as it was.                                     *)
Kept == OnDisk'.keys = OnDisk.keys /\ OnDisk'.prices = OnDisk.prices

LEMMA BeginStep ==
    ASSUME IInv, BeginNew \/ BeginRefused \/ BeginResumed \/ Diagnose
    PROVE  IInv' /\ Kept
<1>1. page = NoPage
  BY DEF IInv, PageSound, BeginNew, BeginRefused, BeginResumed, Diagnose
<1>2. CASE BeginNew
  <2>1. Sound(mem') /\ mem' \in Checkpoint /\ mem' = NewCheckpoint
    BY <1>2, NewSound DEF BeginNew, Sound
  <2> QED
    BY <1>1, <1>2, <2>1 DEF BeginNew, IInv, TypeOK, OnDisk, Kept, Running
<1>3. CASE BeginRefused
  BY <1>1, <1>3 DEF BeginRefused, IInv, TypeOK, OnDisk, Kept, Running
<1>4. CASE BeginResumed
  <2>1. Saved(disk) /\ Sound(disk) /\ disk \in Checkpoint /\ OnDisk = disk
    BY <1>4 DEF BeginResumed, IInv, OnDisk, Saved, Sound
  <2>2. UNCHANGED <<disk, page, delivered, faults>> /\ Kept /\ OnDisk' = OnDisk
    BY <1>4 DEF BeginResumed, Kept, OnDisk
  <2>3. CASE disk.phase = "COMPLETE"
    <3>1. mem' = disk /\ pc' = "returned"
      BY <1>4, <2>3 DEF BeginResumed
    <3> QED
      BY <1>1, <1>4, <2>1, <2>2, <3>1 DEF BeginResumed, IInv, TypeOK, Running
  <2>4. CASE disk.phase # "COMPLETE"
    <3>1. mem' = Filtered(disk) /\ pc' = "working"
      BY <1>4, <2>4 DEF BeginResumed
    <3>2. /\ Sound(mem') /\ mem' \in Checkpoint /\ mem'.phase # "COMPLETE"
          /\ mem'.keys = disk.keys /\ mem'.prices = disk.prices
      BY <2>1, <2>4, <3>1, FilteredSound DEF Sound
    <3> QED
      BY <1>1, <1>4, <2>1, <2>2, <3>1, <3>2 DEF BeginResumed, IInv, TypeOK, Running
  <2> QED
    BY <2>3, <2>4
<1>5. CASE Diagnose
  <2>1. mem = NewCheckpoint /\ Sound(mem) /\ Saved(mem) /\ mem \in Checkpoint /\ mem # NoCheckpoint
    BY <1>5, NewSound, NullCheckpoint DEF Diagnose, IInv, Sound
  <2>2. mem.phase # "COMPLETE"
    BY <2>1 DEF NewCheckpoint
  <2>3. OnDisk' = mem
    BY <1>5, <2>1 DEF Diagnose, OnDisk
  <2> QED
    BY <1>1, <1>5, <2>1, <2>2, <2>3 DEF Diagnose, IInv, TypeOK, Kept, Running
<1> QED
  BY <1>2, <1>3, <1>4, <1>5

LEMMA OpenStep ==
    ASSUME IInv, NEW S \in Shown, NEW short \in BOOLEAN,
           OpenOwnListing(S, short) \/ \E i \in Items : OpenSearchPosition(i, S, short)
    PROVE  IInv' /\ Kept
<1>1. pc = "working" /\ Sound(mem) /\ mem \in Checkpoint
  BY DEF OpenOwnListing, OpenSearchPosition, IInv, Running, Sound
<1>2. CASE OpenOwnListing(S, short)
  <2>1. PICK i \in NextOwn(mem), elsewhere \in BOOLEAN :
            Opened(WithOwn(mem, i, elsewhere), i, i, S, short)
    BY <1>2 DEF OpenOwnListing
  <2> DEFINE d == WithOwn(mem, i, elsewhere)
  <2>2. Ready(d, i, i) /\ SameResults(mem, d)
    BY <1>1, <1>2, OwnReady DEF OpenOwnListing
  <2>3. i \in Identities
    BY <2>2, ItemParts DEF Ready, Sound, Identities
  <2>4. Opened(d, i, i, S, short)
    BY <2>1
  <2> HIDE DEF d
  <2>5. IInv'
    BY <1>1, <2>2, <2>3, <2>4, OpenedStep DEF SameResults
  <2> QED
    BY <2>4, <2>5 DEF Opened, Kept, OnDisk
<1>3. ASSUME NEW i \in Items, OpenSearchPosition(i, S, short)
      PROVE  IInv' /\ Kept
  <2>1. PICK r \in NextRank(mem) :
            /\ mem.pos[r] \in {i} \cup Ranks
            /\ Opened(AtPosition(Aliased(mem, mem.pos[r], i), i), i, mem.pos[r], S, short)
    BY <1>3 DEF OpenSearchPosition
  <2> DEFINE d == AtPosition(Aliased(mem, mem.pos[r], i), i)
  <2>2. Ready(d, i, mem.pos[r]) /\ SameResults(mem, d)
    BY <1>1, <1>3, <2>1, PositionReady DEF OpenSearchPosition
  <2>3. mem.pos[r] \in Identities
    BY <2>1 DEF Identities
  <2>4. Opened(d, i, mem.pos[r], S, short)
    BY <2>1
  <2> HIDE DEF d
  <2>5. IInv'
    BY <1>1, <2>2, <2>3, <2>4, OpenedStep DEF SameResults
  <2> QED
    BY <2>4, <2>5 DEF Opened, Kept, OnDisk
<1> QED
  BY <1>2, <1>3

LEMMA SelectStep ==
    ASSUME IInv, NEW s \in Skus, SelectSku(s)
    PROVE  /\ IInv' /\ pc = "working" /\ pc' = "working"
           /\ \E k \in Keys \ OnDisk.keys :
                 /\ OnDisk'.keys = OnDisk.keys \cup {k}
                 /\ OnDisk'.prices \in {OnDisk.prices, OnDisk.prices \cup {k}}
<1> DEFINE k == <<page.item, s>>
<1>1. /\ pc = "working" /\ page # NoPage /\ s \in page.todo /\ PageSound /\ page \in Page
      /\ Sound(mem) /\ mem.phase # "COMPLETE"
      /\ mem.keys = OnDisk.keys /\ mem.prices = OnDisk.prices
  BY DEF SelectSku, IInv, TypeOK, Running
<1>2. k \in Keys \ mem.keys /\ k[1] = page.item /\ k[1] \in ItemsOf(mem) /\ Bare(mem) \subseteq {k[1]}
  BY <1>1 DEF PageSound, Page, Keys
<1>3. mem' \in {Priced(mem, k), Unavailable(mem, k), Unpriced(mem, k)} /\ disk' = mem'
  BY DEF SelectSku
<1> HIDE DEF k
<1>4. /\ Sound(mem') /\ Bare(mem') = {}
      /\ SamePositions(mem, mem') /\ SameItems(mem, mem') /\ mem'.phase = mem.phase
      /\ mem'.keys = mem.keys \cup {k} /\ mem'.prices \in {mem.prices, mem.prices \cup {k}}
  BY <1>1, <1>2, <1>3, ResultSound
<1>5. Saved(mem') /\ mem' \in Checkpoint /\ disk' # NoCheckpoint /\ OnDisk' = mem'
  BY <1>3, <1>4, NullCheckpoint DEF Saved, Sound, OnDisk
<1>6. page' = [page EXCEPT !.todo = @ \ {s}] /\ UNCHANGED <<pc, delivered, faults>>
  BY DEF SelectSku
<1>7. /\ page' \in Page /\ page'.item = page.item /\ page'.via = page.via
      /\ page'.todo = page.todo \ {s}
  BY <1>1, <1>6 DEF Page
<1>8. \A x \in page'.todo : <<page'.item, x>> \notin mem'.keys
  BY <1>1, <1>4, <1>7 DEF PageSound, k
<1>9. ItemsOf(mem') = ItemsOf(mem) /\ Canonical(mem', page.via) = Canonical(mem, page.via)
  BY <1>4 DEF ItemsOf, Canonical, SameItems, SamePositions
<1>10. PageSound'
  BY <1>1, <1>4, <1>6, <1>7, <1>8, <1>9 DEF PageSound
<1>11. TypeOK'
  BY <1>3, <1>5, <1>6, <1>7 DEF IInv, TypeOK
<1>12. IInv'
  BY <1>1, <1>3, <1>4, <1>5, <1>6, <1>10, <1>11 DEF IInv, Running
<1> QED
  BY <1>1, <1>2, <1>4, <1>5, <1>6, <1>12

(* A page that ends is complete in memory before anything is saved.        *)
LEMMA EndedSound ==
    ASSUME IInv, PageEnded
    PROVE  /\ Sound(Completed(mem)) /\ Bare(Completed(mem)) = {}
           /\ Completed(mem).phase = mem.phase /\ SameResults(mem, Completed(mem))
<1>1. /\ PageSound /\ page \in Page /\ Sound(mem) /\ mem.phase # "COMPLETE"
  BY DEF PageEnded, IInv, TypeOK, Running
<1> QED
  BY <1>1, CompletedSound DEF PageSound

LEMMA WorkStep ==
    ASSUME IInv, ReturnToSearch \/ EnterSearch \/ (\E result \in Results : Search(result)) \/ Finish
    PROVE  IInv' /\ Kept
<1>1. /\ pc = "working" /\ Running /\ Sound(mem) /\ mem.phase # "COMPLETE"
      /\ mem.keys = OnDisk.keys /\ mem.prices = OnDisk.prices /\ faults \in 0..MaxFaults
  BY DEF ReturnToSearch, PageEnded, EnterSearch, Search, Finish, IInv, Running, TypeOK
<1>2. ASSUME Saved(mem'), disk' = mem', SameResults(mem, mem')
      PROVE  Kept
  <2>1. OnDisk' = mem'
    BY <1>2, NullCheckpoint DEF OnDisk, Saved
  <2> QED
    BY <1>1, <1>2, <2>1 DEF Kept, SameResults
<1>3. CASE ReturnToSearch
  <2>1. mem' = Completed(mem) /\ disk' = mem' /\ page' = NoPage /\ UNCHANGED <<pc, delivered, faults>>
    BY <1>3 DEF ReturnToSearch
  <2>2. Saved(mem') /\ SameResults(mem, mem') /\ mem'.phase # "COMPLETE"
    BY <1>1, <1>3, <2>1, EndedSound DEF ReturnToSearch, Saved
  <2> QED
    BY <1>1, <1>2, <2>1, <2>2, SavingStep
<1>4. CASE EnterSearch
  <2>1. /\ mem' = [mem EXCEPT !.phase = "SEARCH"] /\ disk' = mem'
        /\ page' = NoPage /\ UNCHANGED <<pc, delivered, faults>>
    BY <1>4 DEF EnterSearch
  <2>2. Saved(mem') /\ SameResults(mem, mem') /\ mem'.phase = "SEARCH"
    BY <1>1, <1>4, <2>1, EnterSearchSound DEF EnterSearch, Sound, Checkpoint
  <2> QED
    BY <1>1, <1>2, <2>1, <2>2, SavingStep
<1>5. ASSUME NEW result \in Results, Search(result)
      PROVE  IInv' /\ Kept
  <2> DEFINE c == Found(mem, result)
  <2>1. /\ mem' = [RankedOwn(c) EXCEPT !.phase = "ITEMS"] /\ disk' = mem'
        /\ mem.phase = "SEARCH" /\ UNCHANGED <<page, pc, delivered, faults>>
    BY <1>5 DEF Search
  <2>2. Sound(c) /\ c.phase = "SEARCH" /\ SameResults(mem, c)
    BY <1>1, <2>1, FoundSound
  <2> HIDE DEF c
  <2>3. Saved(mem') /\ SameResults(c, mem')
    BY <2>1, <2>2, SearchSound
  <2>4. mem'.phase = "ITEMS"
    <3>1. RankedOwn(c) \in [DOMAIN RankedOwn(c) -> {RankedOwn(c)[x] : x \in DOMAIN RankedOwn(c)}]
          /\ "phase" \in DOMAIN RankedOwn(c)
      BY <2>2 DEF RankedOwn, Sound, Checkpoint
    <3> QED
      BY <2>1, <3>1
  <2>5. page' = NoPage
    BY <2>1 DEF IInv, PageSound
  <2>6. SameResults(mem, mem')
    BY <2>2, <2>3 DEF SameResults
  <2> QED
    BY <1>1, <1>2, <2>1, <2>3, <2>4, <2>5, <2>6, SavingStep
<1>6. CASE Finish
  <2>1. /\ mem' = [mem EXCEPT !.phase = "COMPLETE", !.status = FinalStatus(mem)] /\ disk' = mem'
        /\ page' = NoPage /\ pc' = "returned" /\ UNCHANGED <<delivered, faults>>
    BY <1>6 DEF Finish
  <2>2. Saved(mem') /\ SameResults(mem, mem')
    BY <1>1, <1>6, <2>1, FinishSound DEF Finish
  <2> QED
    BY <1>1, <1>2, <2>1, <2>2, SavingStep
<1> QED
  BY <1>3, <1>4, <1>5, <1>6

LEMMA ThrowStep ==
    ASSUME IInv, NEW code \in DriverCodes, Throw(code)
    PROVE  /\ IInv' /\ pc # "done" /\ pc' # "done"
           /\ Kept \/ (/\ OnDisk'.keys = OnDisk.keys \cap (Own \X Skus)
                       /\ OnDisk'.prices = OnDisk.prices \cap (Own \X Skus))
<1>1. /\ pc \in {"diagnose", "working"} /\ Running /\ Sound(mem) /\ mem.phase # "COMPLETE"
      /\ mem.keys = OnDisk.keys /\ mem.prices = OnDisk.prices
  BY DEF Throw, CallPending, IInv, Running, NewCheckpoint
<1>2. /\ page' = NoPage /\ pc' = "returned" /\ UNCHANGED delivered /\ faults' \in 0..MaxFaults
  BY FaultsAssumption DEF Throw, IInv, TypeOK
<1>3. PICK c \in AtFailure(code) : mem' = Handled(c, code)
  BY DEF Throw
<1>4. Sound(c) /\ c.phase # "COMPLETE" /\ SameResults(mem, c)
  <2>1. CASE PageEnded
    BY <1>1, <1>3, <2>1, EndedSound DEF AtFailure
  <2>2. CASE ~PageEnded /\ c = mem
    BY <1>1, <2>2 DEF SameResults
  <2>3. CASE ~PageEnded /\ c # mem
    <3>1. mem.phase = "SEARCH" /\ \E result \in Results : c = Found(mem, result)
      BY <1>3, <2>3 DEF AtFailure
    <3> QED
      BY <1>1, <3>1, FoundSound
  <2> QED
    BY <2>1, <2>2, <2>3
<1>5. /\ Saved(mem')
      /\ code # "MISSING_ITEM_ID" => mem'.keys = OnDisk.keys /\ mem'.prices = OnDisk.prices
      /\ code = "MISSING_ITEM_ID" =>
            /\ mem'.keys = OnDisk.keys \cap (Own \X Skus)
            /\ mem'.prices = OnDisk.prices \cap (Own \X Skus)
  BY <1>1, <1>3, <1>4, HandledSound DEF SameResults
<1>6. CASE code # "APP_VERSION_UNSUPPORTED"
  <2>1. disk' = mem'
    BY <1>6 DEF Throw
  <2>2. OnDisk' = mem'
    BY <1>5, <2>1, NullCheckpoint DEF OnDisk, Saved
  <2>3. IInv'
    BY <1>1, <1>2, <1>5, <2>1, SavingStep
  <2> QED
    BY <1>1, <1>2, <1>5, <2>2, <2>3 DEF Kept
<1>7. CASE code = "APP_VERSION_UNSUPPORTED"
  <2>1. disk' = disk
    BY <1>7 DEF Throw
  <2>2. OnDisk' = OnDisk
    BY <2>1 DEF OnDisk
  <2>3. Sound(mem') /\ mem' \in Checkpoint
    BY <1>5 DEF Saved, Sound
  <2>4. TypeOK'
    BY <1>2, <2>1, <2>3 DEF IInv, TypeOK
  <2>5. IInv'
    BY <1>1, <1>2, <1>5, <1>7, <2>1, <2>2, <2>3, <2>4 DEF IInv, Running
  <2> QED
    BY <1>1, <1>2, <2>2, <2>5 DEF Kept
<1> QED
  BY <1>6, <1>7

LEMMA StopStep ==
    ASSUME IInv, Stop \/ ReportPause
    PROVE  IInv' /\ Kept /\ pc # "done" /\ pc' # "done"
<1>1. /\ mem' = NoCheckpoint /\ pc' = "idle" /\ page' = NoPage
      /\ UNCHANGED <<disk, delivered>> /\ faults' \in 0..MaxFaults /\ pc # "done"
  BY FaultsAssumption DEF Stop, ReportPause, IInv, TypeOK, PageSound
<1>2. TypeOK'
  BY <1>1 DEF IInv, TypeOK
<1> QED
  BY <1>1, <1>2 DEF IInv, Running, Kept, OnDisk

LEMMA DeliverStep ==
    ASSUME IInv, Deliver
    PROVE  /\ IInv' /\ pc # "done" /\ pc' = "done"
           /\ delivered'.keys = OnDisk.keys /\ delivered'.prices = OnDisk.prices
<1>1. /\ pc = "returned" /\ Saved(mem) /\ mem.status \notin Paused
      /\ mem.keys = OnDisk.keys /\ mem.prices = OnDisk.prices /\ page = NoPage
  BY DEF Deliver, IInv, Running, PageSound
<1>2. /\ delivered' = mem /\ pc' = "done" /\ disk' \in {disk, NoCheckpoint}
      /\ UNCHANGED <<mem, page, faults>>
  BY DEF Deliver
<1>3. TypeOK'
  BY <1>1, <1>2 DEF IInv, TypeOK, Saved, Sound
<1> QED
  BY <1>1, <1>2, <1>3 DEF IInv, Running

-----------------------------------------------------------------------------
(* Issues of a pause: while the runner works there is none, and what it    *)
(* saves or returns has that of its own status at most.                    *)

Quiet(c) == \A e \in c.issues : e.code \notin {"LOGIN_REQUIRED", "PLATFORM_CHALLENGE"}

PauseKnown(c) ==
    \A e \in c.issues :
        /\ e.code = "LOGIN_REQUIRED" => c.status = "PAUSED_LOGIN"
        /\ e.code = "PLATFORM_CHALLENGE" => c.status = "PAUSED_CHALLENGE"

PauseInv ==
    /\ disk # NoCheckpoint => PauseKnown(disk)
    /\ pc \in {"diagnose", "working"} => Quiet(mem)
    /\ pc = "returned" => PauseKnown(mem)

LEMMA KnownExplained == \A c : PauseKnown(c) => PauseExplained(c) \/ StalePause(c)
BY DEF PauseKnown, PauseExplained, StalePause, HasIssue, Paused

LEMMA QuietKnown == \A c : Quiet(c) => PauseKnown(c)
BY DEF Quiet, PauseKnown

LEMMA OpenedQuiet ==
    ASSUME NEW c \in Checkpoint, Quiet(c), NEW i, NEW via, NEW S, NEW short,
           Opened(c, i, via, S, short)
    PROVE  Quiet(mem')
BY DEF Opened, ItemIssue, Quiet, Checkpoint

LEMMA ResultQuiet ==
    ASSUME NEW c \in Checkpoint, Quiet(c), NEW k,
           NEW d \in {Priced(c, k), Unavailable(c, k), Unpriced(c, k)}
    PROVE  Quiet(d)
<1>1. ASSUME d = Priced(c, k) PROVE Quiet(d)
  BY <1>1 DEF Priced, Quiet, Checkpoint
<1>2. ASSUME d = Unavailable(c, k) PROVE Quiet(d)
  BY <1>2 DEF Unavailable, SkuIssue, Quiet, Checkpoint
<1>3. ASSUME d = Unpriced(c, k) PROVE Quiet(d)
  BY <1>3 DEF Unpriced, SkuIssue, ItemIssue, Quiet, Checkpoint
<1> QED
  BY <1>1, <1>2, <1>3

LEMMA CompletedQuiet ==
    ASSUME NEW c \in Checkpoint, Quiet(c)
    PROVE  Quiet(Completed(c))
BY DEF Completed, ItemIssue, Quiet, Checkpoint

LEMMA PauseOfKnown ==
    ASSUME NEW c \in Checkpoint, Quiet(c),
           NEW status, NEW code,
           <<status, code>> \in {<<"PAUSED_LOGIN", "LOGIN_REQUIRED">>,
                                <<"PAUSED_CHALLENGE", "PLATFORM_CHALLENGE">>}
    PROVE  PauseKnown(PauseOf(c, status, code))
BY DEF PauseOf, Boundary, RunIssue, ItemIssue, Quiet, PauseKnown, Checkpoint

LEMMA FailedQuiet ==
    ASSUME NEW c \in Checkpoint, Quiet(c),
           NEW code, code \notin {"LOGIN_REQUIRED", "PLATFORM_CHALLENGE"}
    PROVE  Quiet(Failed(c, code))
<1> DEFINE b == [c EXCEPT !.issues = @ \cup {RunIssue(code)},
                       !.status = IF c.pos = <<>> /\ c.own = {}
                                  THEN "FAILED" ELSE "PARTIAL_FAILED"]
<1>1. \A e \in b.issues : e.code \notin {"LOGIN_REQUIRED", "PLATFORM_CHALLENGE"}
  BY DEF RunIssue, Quiet, Checkpoint
<1>2. Failed(c, code) = Boundary(b) /\ "issues" \in DOMAIN b
  BY DEF Failed, Checkpoint
<1> HIDE DEF b
<1>3. \A e \in Boundary(b).issues : e \in b.issues \/ e.code = "PAUSE_INCOMPLETE"
  BY <1>2 DEF Boundary, ItemIssue
<1> QED
  BY <1>1, <1>2, <1>3 DEF Quiet

LEMMA HandledKnown ==
    ASSUME NEW c, Sound(c), c.phase # "COMPLETE", Quiet(c), NEW code \in DriverCodes
    PROVE  PauseKnown(Handled(c, code))
<1>1. c \in Checkpoint /\ Reset(c) \in Checkpoint
  BY ResetSound DEF Sound
<1>2. Quiet(Reset(c))
  BY <1>1 DEF Reset, ResetKeepsManifest, Quiet, Checkpoint
<1>3. CASE code = "LOGIN_REQUIRED"
  BY <1>1, <1>3, PauseOfKnown DEF Handled
<1>4. CASE code = "PLATFORM_CHALLENGE"
  BY <1>1, <1>4, PauseOfKnown DEF Handled
<1>5. CASE code = "MISSING_ITEM_ID"
  BY <1>1, <1>2, <1>5, FailedQuiet, QuietKnown DEF Handled
<1>6. CASE code \notin {"LOGIN_REQUIRED", "PLATFORM_CHALLENGE", "MISSING_ITEM_ID"}
  BY <1>1, <1>6, FailedQuiet, QuietKnown DEF Handled
<1> QED
  BY <1>3, <1>4, <1>5, <1>6

(* The page of an item opens, and its checkpoint has the issues of mem.    *)
LEMMA OpenQuiet ==
    ASSUME IInv, PauseInv, NEW S \in Shown, NEW short \in BOOLEAN,
           OpenOwnListing(S, short) \/ \E i \in Items : OpenSearchPosition(i, S, short)
    PROVE  PauseInv'
<1>1. pc = "working" /\ Sound(mem) /\ mem \in Checkpoint /\ Quiet(mem)
  BY DEF OpenOwnListing, OpenSearchPosition, IInv, PauseInv, Running, Sound
<1>2. Quiet(mem') /\ disk' = disk /\ pc' = pc
  <2>1. CASE OpenOwnListing(S, short)
    <3>1. PICK i \in NextOwn(mem), elsewhere \in BOOLEAN :
              Opened(WithOwn(mem, i, elsewhere), i, i, S, short)
      BY <2>1 DEF OpenOwnListing
    <3>2. Ready(WithOwn(mem, i, elsewhere), i, i)
      BY <1>1, <2>1, OwnReady DEF OpenOwnListing
    <3>3. WithOwn(mem, i, elsewhere) \in Checkpoint /\ Quiet(WithOwn(mem, i, elsewhere))
      BY <1>1, <3>2 DEF Ready, Sound, WithOwn, Quiet, Checkpoint
    <3> QED
      BY <3>1, <3>3, OpenedQuiet DEF Opened
  <2>2. ASSUME NEW i \in Items, OpenSearchPosition(i, S, short)
        PROVE  Quiet(mem') /\ disk' = disk /\ pc' = pc
    <3>1. PICK r \in NextRank(mem) :
              /\ mem.pos[r] \in {i} \cup Ranks
              /\ Opened(AtPosition(Aliased(mem, mem.pos[r], i), i), i, mem.pos[r], S, short)
      BY <2>2 DEF OpenSearchPosition
    <3> DEFINE b == Aliased(mem, mem.pos[r], i)
               d == AtPosition(b, i)
    <3>2. b \in Checkpoint /\ b.issues = mem.issues
      BY <1>1, <2>2, <3>1, AliasedPositions DEF OpenSearchPosition
    <3>3. Ready(d, i, mem.pos[r])
      BY <1>1, <2>2, <3>1, PositionReady DEF OpenSearchPosition
    <3> HIDE DEF b
    <3>4. d \in Checkpoint /\ Quiet(d)
      BY <1>1, <3>2, <3>3 DEF Ready, Sound, AtPosition, Quiet, Checkpoint
    <3>5. Opened(d, i, mem.pos[r], S, short)
      BY <3>1 DEF b
    <3> HIDE DEF d
    <3> QED
      BY <3>4, <3>5, OpenedQuiet DEF Opened
  <2> QED
    BY <2>1, <2>2
<1> QED
  BY <1>1, <1>2 DEF PauseInv

(* What is saved while the runner works has no such issue.                 *)
LEMMA WorkQuiet ==
    ASSUME IInv, PauseInv,
           \/ \E s \in Skus : SelectSku(s)
           \/ ReturnToSearch \/ EnterSearch \/ (\E result \in Results : Search(result)) \/ Finish
    PROVE  PauseInv'
<1>1. pc = "working" /\ Sound(mem) /\ mem \in Checkpoint /\ Quiet(mem)
  BY DEF SelectSku, ReturnToSearch, PageEnded, EnterSearch, Search, Finish,
         IInv, PauseInv, Running, Sound
<1>2. ASSUME NEW s \in Skus, SelectSku(s) PROVE Quiet(mem')
  BY <1>1, <1>2, ResultQuiet DEF SelectSku
<1>3. ASSUME ReturnToSearch PROVE Quiet(mem')
  BY <1>1, <1>3, CompletedQuiet DEF ReturnToSearch
<1>4. ASSUME EnterSearch PROVE Quiet(mem')
  BY <1>1, <1>4 DEF EnterSearch, Quiet, Checkpoint
<1>5. ASSUME NEW result \in Results, Search(result) PROVE Quiet(mem')
  BY <1>1, <1>5 DEF Search, Found, RankedOwn, Quiet, Checkpoint
<1>6. ASSUME Finish PROVE Quiet(mem')
  BY <1>1, <1>6 DEF Finish, Quiet, Checkpoint
<1>7. disk' = mem' /\ pc' \in {"working", "returned"}
  BY <1>1 DEF SelectSku, ReturnToSearch, EnterSearch, Search, Finish
<1>8. Quiet(mem')
  BY <1>2, <1>3, <1>4, <1>5, <1>6
<1> QED
  BY <1>7, <1>8, QuietKnown DEF PauseInv

LEMMA ThrowKnown ==
    ASSUME IInv, PauseInv, NEW code \in DriverCodes, Throw(code)
    PROVE  PauseInv'
<1>1. Sound(mem) /\ mem \in Checkpoint /\ mem.phase # "COMPLETE" /\ Quiet(mem)
  BY DEF Throw, CallPending, IInv, PauseInv, Running, NewCheckpoint, Sound
<1>2. PICK c \in AtFailure(code) : mem' = Handled(c, code)
  BY DEF Throw
<1>3. Sound(c) /\ c.phase # "COMPLETE" /\ Quiet(c)
  <2>1. CASE PageEnded
    BY <1>1, <1>2, <2>1, EndedSound, CompletedQuiet DEF AtFailure
  <2>2. CASE ~PageEnded /\ c = mem
    BY <1>1, <2>2
  <2>3. CASE ~PageEnded /\ c # mem
    <3>1. mem.phase = "SEARCH" /\ \E result \in Results : c = Found(mem, result)
      BY <1>2, <2>3 DEF AtFailure
    <3>2. Quiet(c)
      BY <1>1, <3>1 DEF Found, Quiet, Checkpoint
    <3> QED
      BY <1>1, <3>1, <3>2, FoundSound
  <2> QED
    BY <2>1, <2>2, <2>3
<1>4. PauseKnown(mem')
  BY <1>2, <1>3, HandledKnown
<1>5. disk' \in {disk, mem'} /\ pc' = "returned"
  BY DEF Throw
<1> QED
  BY <1>4, <1>5 DEF PauseInv

LEMMA PauseNext == IInv /\ PauseInv /\ [Next]_vars => PauseInv'
<1> SUFFICES ASSUME IInv, PauseInv, [Next]_vars PROVE PauseInv'
  OBVIOUS
<1>1. CASE UNCHANGED vars
  BY <1>1 DEF vars, PauseInv
<1>2. CASE BeginNew \/ BeginRefused \/ Diagnose \/ ReportPause \/ Deliver \/ Stop
  BY <1>2, QuietKnown DEF BeginNew, BeginRefused, Diagnose, ReportPause, Deliver, Stop,
                         NewCheckpoint, PauseInv, Quiet
<1>3. CASE BeginResumed
  <2>1. disk \in Checkpoint /\ PauseKnown(disk) /\ Quiet(Filtered(disk)) /\ disk' = disk
    BY <1>3 DEF BeginResumed, IInv, PauseInv, TypeOK, Filtered, Quiet, Checkpoint
  <2> QED
    BY <1>3, <2>1 DEF BeginResumed, PauseInv
<1>4. ASSUME NEW S \in Shown, NEW short \in BOOLEAN,
             OpenOwnListing(S, short) \/ \E i \in Items : OpenSearchPosition(i, S, short)
      PROVE  PauseInv'
  BY <1>4, OpenQuiet
<1>5. CASE \/ \E s \in Skus : SelectSku(s)
           \/ ReturnToSearch \/ EnterSearch \/ (\E result \in Results : Search(result)) \/ Finish
  BY <1>5, WorkQuiet
<1>6. ASSUME NEW code \in DriverCodes, Throw(code) PROVE PauseInv'
  BY <1>6, ThrowKnown
<1> QED
  BY <1>1, <1>2, <1>3, <1>4, <1>5, <1>6 DEF Next, Work

-----------------------------------------------------------------------------
(* The invariant is inductive, and what follows from it.                   *)

LEMMA InitSound == Init => IInv
<1> SUFFICES ASSUME Init PROVE IInv
  OBVIOUS
<1>1. TypeOK
  BY FaultsAssumption DEF Init, TypeOK
<1> QED
  BY <1>1 DEF Init, IInv, Running

LEMMA NextSound == IInv /\ [Next]_vars => IInv'
<1> SUFFICES ASSUME IInv, [Next]_vars PROVE IInv'
  OBVIOUS
<1>1. CASE UNCHANGED vars
  BY <1>1 DEF vars, IInv, TypeOK, Running, OnDisk, PageSound
<1>2. CASE Work
  <2>1. CASE BeginNew \/ BeginRefused \/ BeginResumed \/ Diagnose
    BY <2>1, BeginStep
  <2>2. ASSUME NEW S \in Shown, NEW short \in BOOLEAN,
               OpenOwnListing(S, short) \/ \E i \in Items : OpenSearchPosition(i, S, short)
        PROVE  IInv'
    BY <2>2, OpenStep
  <2>3. ASSUME NEW s \in Skus, SelectSku(s) PROVE IInv'
    BY <2>3, SelectStep
  <2>4. CASE ReturnToSearch \/ EnterSearch \/ (\E result \in Results : Search(result)) \/ Finish
    BY <2>4, WorkStep
  <2>5. CASE ReportPause
    BY <2>5, StopStep
  <2>6. CASE Deliver
    BY <2>6, DeliverStep
  <2> QED
    BY <1>2, <2>1, <2>2, <2>3, <2>4, <2>5, <2>6 DEF Work
<1>3. ASSUME NEW code \in DriverCodes, Throw(code) PROVE IInv'
  BY <1>3, ThrowStep
<1>4. CASE Stop
  BY <1>4, StopStep
<1> QED
  BY <1>1, <1>2, <1>3, <1>4 DEF Next

LEMMA Soundness == Spec => []IInv
BY InitSound, NextSound, PTL DEF Spec

(* Checkpoints, the open page and the runner's place are of their types.   *)
THEOREM CheckpointsStayTyped == Spec => []TypeOK
<1>1. IInv => TypeOK
  BY DEF IInv
<1> QED
  BY <1>1, Soundness, PTL

(* Wherever the process stops, what it saved holds together: progress,     *)
(* aliases, phase, evidence and report, and issue and status of a pause    *)
(* unless a pause was resumed.                                             *)
THEOREM SavedCheckpointsAreCoherent == Spec => []SavedCheckpointsHoldTogether
<1>1. IInv /\ PauseInv => SavedCheckpointsHoldTogether
  BY SavedCoherent, SavedReportValid, KnownExplained
     DEF IInv, PauseInv, SavedCheckpointsHoldTogether
<1>2. Init => PauseInv
  BY DEF Init, PauseInv
<1> QED
  BY <1>1, <1>2, PauseNext, Soundness, PTL DEF Spec

(* What the runner refuses to resume from is a pause that was resumed, or  *)
(* an own item whose page had another address than the job's.              *)
THEOREM RefusalsAreKnown ==
    Spec => [](disk # NoCheckpoint /\ ~Coherent(disk)
                 => StalePause(disk) \/ ~ListingsCoherent(disk))
<1>1. SavedCheckpointsHoldTogether =>
          (disk # NoCheckpoint /\ ~Coherent(disk)
             => StalePause(disk) \/ ~ListingsCoherent(disk))
  BY DEF SavedCheckpointsHoldTogether, Coherent
<1> QED
  BY <1>1, SavedCheckpointsAreCoherent, PTL

(* The report the worker gets is valid, and the file has the evidence of   *)
(* every price in it.                                                      *)
THEOREM ReturnedReportsAreBacked == Spec => []ReturnedReportIsBacked
<1>1. IInv => ReturnedReportIsBacked
  <2> SUFFICES ASSUME IInv, pc = "returned"
               PROVE  /\ ReportValid(mem)
                      /\ mem.prices \subseteq (IF disk = NoCheckpoint THEN {} ELSE disk.manifest)
    BY DEF ReturnedReportIsBacked
  <2>1. ReportValid(mem) /\ mem.prices = OnDisk.prices
    BY SavedReportValid DEF IInv, Running
  <2>2. CASE disk = NoCheckpoint
    BY <2>1, <2>2 DEF OnDisk, NewCheckpoint
  <2>3. CASE disk # NoCheckpoint
    BY <2>1, <2>3 DEF IInv, OnDisk, Saved, Sound, ResultsSound
  <2> QED
    BY <2>1, <2>2, <2>3
<1> QED
  BY <1>1, Soundness, PTL

(* SUCCEEDED is said of complete work only, over any number of attempts.   *)
THEOREM SuccessIsComplete == Spec => []SucceededMeansEverything
<1>1. IInv => SucceededMeansEverything
  BY SucceededIsComplete DEF IInv, SucceededMeansEverything
<1> QED
  BY <1>1, Soundness, PTL

-----------------------------------------------------------------------------
(* The runner implements the capture log.                                  *)

LEMMA LogStep ==
    ASSUME IInv, IInv', [Next]_vars
    PROVE  [CL!Next]_CL!vars
<1> DEFINE Stutter == /\ Durable'.keys = Durable.keys /\ Durable'.prices = Durable.prices
                      /\ (pc = "done")' = (pc = "done")
<1> SUFFICES CL!Next \/ Stutter
  BY DEF CL!vars
<1>1. ASSUME pc # "done", pc' # "done", Kept
      PROVE  Stutter
  BY <1>1 DEF Kept, Durable, OnDisk
<1>2. CASE UNCHANGED vars
  BY <1>2 DEF vars, Durable
<1>3. CASE BeginNew \/ BeginRefused \/ BeginResumed \/ Diagnose
  <2>1. pc # "done" /\ pc' # "done"
    BY <1>3 DEF BeginNew, BeginRefused, BeginResumed, Diagnose
  <2> QED
    BY <1>1, <1>3, <2>1, BeginStep
<1>4. ASSUME NEW S \in Shown, NEW short \in BOOLEAN,
             OpenOwnListing(S, short) \/ \E i \in Items : OpenSearchPosition(i, S, short)
      PROVE  Stutter
  <2>1. pc # "done" /\ pc' # "done"
    BY <1>4 DEF OpenOwnListing, OpenSearchPosition, Opened
  <2> QED
    BY <1>1, <1>4, <2>1, OpenStep
<1>5. ASSUME NEW s \in Skus, SelectSku(s)
      PROVE  CL!Next
  <2>1. pc = "working" /\ pc' = "working"
    BY <1>5, SelectStep
  <2>2. PICK k \in Keys \ OnDisk.keys :
            /\ OnDisk'.keys = OnDisk.keys \cup {k}
            /\ OnDisk'.prices \in {OnDisk.prices, OnDisk.prices \cup {k}}
    BY <1>5, SelectStep
  <2>3. Durable = OnDisk /\ Durable' = OnDisk'
    BY <2>1 DEF Durable, OnDisk
  <2>4. CL!Capture(k)
    BY <2>1, <2>2, <2>3 DEF CL!Capture, Keys
  <2> QED
    BY <2>4 DEF CL!Next, Keys
<1>6. CASE ReturnToSearch \/ EnterSearch \/ (\E result \in Results : Search(result)) \/ Finish
  <2>1. pc # "done" /\ pc' # "done"
    BY <1>6 DEF ReturnToSearch, PageEnded, EnterSearch, Search, Finish
  <2> QED
    BY <1>1, <1>6, <2>1, WorkStep
<1>7. CASE ReportPause \/ Stop
  BY <1>1, <1>7, StopStep
<1>8. CASE Deliver
  <2>1. Durable = OnDisk /\ Durable' = delivered' /\ pc # "done" /\ pc' = "done"
    BY <1>8, DeliverStep DEF Durable, OnDisk
  <2>2. CL!Close
    BY <1>8, <2>1, DeliverStep DEF CL!Close
  <2> QED
    BY <2>2 DEF CL!Next
<1>9. ASSUME NEW code \in DriverCodes, Throw(code)
      PROVE  CL!Next \/ Stutter
  <2>1. pc # "done" /\ pc' # "done" /\ Durable = OnDisk /\ Durable' = OnDisk'
    BY <1>9, ThrowStep DEF Durable, OnDisk
  <2>2. CASE Kept
    BY <1>1, <2>1, <2>2
  <2>3. CASE ~Kept
    <3>1. /\ Durable'.keys = Durable.keys \cap (Own \X Skus)
          /\ Durable'.prices = Durable.prices \cap (Own \X Skus)
      BY <1>9, <2>1, <2>3, ThrowStep
    <3>2. CL!ForgetSearch
      BY <2>1, <3>1 DEF CL!ForgetSearch
    <3> QED
      BY <3>2 DEF CL!Next
  <2> QED
    BY <2>2, <2>3
<1> QED
  BY <1>2, <1>3, <1>4, <1>5, <1>6, <1>7, <1>8, <1>9 DEF Next, Work

(* Stopped and resumed anywhere, any number of times, the runner captures  *)
(* each SKU once and loses none but with its search.                       *)
THEOREM CaptureLogRefinement == Spec => ImplementsCaptureLog
<1>1. Init => CL!Init
  BY DEF Init, CL!Init, Durable, NewCheckpoint
<1>2. IInv /\ IInv' /\ [Next]_vars => [CL!Next]_CL!vars
  BY LogStep
<1> QED
  BY <1>1, <1>2, Soundness, PTL DEF Spec, ImplementsCaptureLog, CL!Spec

=============================================================================
