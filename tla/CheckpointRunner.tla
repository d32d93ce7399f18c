-------------------------- MODULE CheckpointRunner --------------------------
(***************************************************************************)
(* The collector's work on one claimed run: it opens the own listings,     *)
(* searches, opens what the search found, captures a price for every SKU   *)
(* of each page and keeps its progress in a checkpoint file.  The process  *)
(* may stop anywhere; the next one that works the run resumes from the     *)
(* file.                                                                   *)
(*                                                                         *)
(* `disk` is checkpoint.json, written whole by rename; `mem` is the        *)
(* checkpoint the running process changes.  An action is one call to the   *)
(* driver with everything up to the next call, the save included, since    *)
(* memory alone does not survive.                                          *)
(***************************************************************************)
EXTENDS Integers, Sequences, FiniteSets

CONSTANTS Items,        \* platform items
          OwnListings,  \* the items of the job's own listings, in its order
          Skus,         \* SKUs a page may show
          Shown,        \* the sets of SKUs a page may enumerate
          Limit,        \* searchLimit
          Results,      \* what a search may show: an id, or NoItem, per rank
          MaxFaults,    \* bound: errors, stops and failed deliveries
          NoItem, NoSku, NoCheckpoint, NoPage

ASSUME OwnAssumption ==
    /\ OwnListings \in Seq(Items) /\ OwnListings # <<>>
    /\ \A i, j \in DOMAIN OwnListings : OwnListings[i] = OwnListings[j] => i = j

ASSUME LimitAssumption ==
    /\ Limit \in Nat
    /\ Items \cap (1..Limit) = {}
    /\ Results \subseteq UNION {[1..n -> Items \cup {NoItem}] : n \in 0..Limit}

ASSUME ShownAssumption == Shown \subseteq SUBSET Skus

ASSUME FaultsAssumption == MaxFaults \in Nat

Own == {OwnListings[i] : i \in DOMAIN OwnListings}

Ranks == 1..Limit

(* What a search position is known by: its stable item id, or its rank     *)
(* (with its address) when the search exposes no id.                       *)
Identities == Items \cup Ranks

Keys == Items \X Skus

Paused == {"PAUSED_LOGIN", "PAUSED_CHALLENGE"}

Statuses == Paused \cup {"FAILED", "PARTIAL_FAILED", "SUCCEEDED"}

Phases == {"OWN_LISTINGS", "SEARCH", "ITEMS", "COMPLETE"}

(* SKU_ENUMERATION_INCOMPLETE with the message of a pause is told apart,   *)
(* since it is filtered on resume; SKU_SELECTION_MISMATCH is treated as    *)
(* PRICE_UNSTABLE is, and so are the start-up issues as NOT_FRONTMOST.     *)
Codes == {"LOGIN_REQUIRED", "PLATFORM_CHALLENGE", "MISSING_ITEM_ID",
          "APP_VERSION_UNSUPPORTED", "TAOBAO_NOT_FRONTMOST", "UI_CONTRACT_CHANGED",
          "PAUSE_INCOMPLETE", "SKU_ENUMERATION_INCOMPLETE", "PRICE_UNSTABLE"}

Issue == [code : Codes, item : Items \cup {NoItem}, sku : Skus \cup {NoSku}]

RunIssue(code) == [code |-> code, item |-> NoItem, sku |-> NoSku]

ItemIssue(code, i) == [code |-> code, item |-> i, sku |-> NoSku]

SkuIssue(code, k) == [code |-> code, item |-> k[1], sku |-> k[2]]

Incomplete == {"PAUSE_INCOMPLETE", "SKU_ENUMERATION_INCOMPLETE"}

(* The search result as far as it is kept: an identity per rank.           *)
Placements == UNION {[1..n -> Identities] : n \in 0..Limit}

Checkpoint ==
    [phase    : Phases,
     ownDone  : SUBSET Own,         \* completedOwnListingIds
     done     : SUBSET Identities,  \* completedPlatformItemIds
     keys     : SUBSET Keys,        \* completedSkuKeys
     status   : Statuses,
     pos      : Placements,
     own      : SUBSET Own,         \* report.ownItems
     moved    : SUBSET Own,         \* those whose url is not the job listing's
     comp     : SUBSET Items,       \* report.competitorItems
     prices   : SUBSET Keys,        \* the SKUs of the report's items
     ranks    : [Items -> SUBSET Ranks],
     issues   : SUBSET Issue,
     manifest : SUBSET Keys,        \* evidence files, by the SKU they show
     alias    : [Ranks -> Items \cup {NoItem}]]

Page == [item : Items, via : Identities, todo : SUBSET Skus]

ASSUME NullAssumption ==
    /\ NoItem \notin Identities /\ NoSku \notin Skus
    /\ NoCheckpoint \notin Checkpoint /\ NoPage \notin Page

VARIABLES disk, mem, page, pc,
          delivered,  \* the checkpoint behind the report the API took
          faults

vars == <<disk, mem, page, pc, delivered, faults>>

TypeOK ==
    /\ disk \in Checkpoint \cup {NoCheckpoint}
    /\ mem \in Checkpoint \cup {NoCheckpoint}
    /\ page \in Page \cup {NoPage}
    /\ pc \in {"idle", "diagnose", "working", "returned", "done", "quarantined"}
    /\ delivered \in Checkpoint \cup {NoCheckpoint}
    /\ faults \in 0..MaxFaults

NewCheckpoint ==
    [phase |-> "OWN_LISTINGS", ownDone |-> {}, done |-> {}, keys |-> {}, status |-> "FAILED",
     pos |-> <<>>, own |-> {}, moved |-> {}, comp |-> {}, prices |-> {},
     ranks |-> [i \in Items |-> {}], issues |-> {}, manifest |-> {},
     alias |-> [r \in Ranks |-> NoItem]]

Init ==
    /\ disk = NoCheckpoint
    /\ mem = NoCheckpoint
    /\ page = NoPage
    /\ pc = "idle"
    /\ delivered = NoCheckpoint
    /\ faults = 0

-----------------------------------------------------------------------------
(* Reading a checkpoint.                                                   *)

ItemsOf(c) == c.own \cup c.comp

PricesOf(c, i) == {k \in c.prices : k[1] = i}

Positions(c) == DOMAIN c.pos

RanksOf(c, id) == {r \in Positions(c) : c.pos[r] = id}

Canonical(c, id) == IF id \in Ranks /\ c.alias[id] # NoItem THEN c.alias[id] ELSE id

HasIssue(c, codes) == \E e \in c.issues : e.code \in codes

IssueOn(c, codes, i) == \E e \in c.issues : e.code \in codes /\ e.item = i

HasTerminalState(c, i) == PricesOf(c, i) # {} \/ IssueOn(c, Incomplete, i)

PartialCodes == Incomplete \cup {"PRICE_UNSTABLE", "UI_CONTRACT_CHANGED"}

FinalStatus(c) == IF HasIssue(c, PartialCodes) THEN "PARTIAL_FAILED" ELSE "SUCCEEDED"

(* The part of the report contract the runner has to earn.                 *)
ReportValid(c) ==
    /\ c.status = "SUCCEEDED" => c.own # {}
    /\ c.own \cap c.comp = {}
    /\ \A i \in ItemsOf(c) : c.ranks[i] \subseteq RanksOf(c, i)
    /\ \A i \in ItemsOf(c) : PricesOf(c, i) = {} => IssueOn(c, Incomplete, i)
    /\ \A k \in c.prices : k[1] \in ItemsOf(c)

(* A paused report has the issue of its pause, and no other report has one. *)
PauseExplained(c) ==
    /\ HasIssue(c, {"LOGIN_REQUIRED"}) <=> c.status = "PAUSED_LOGIN"
    /\ HasIssue(c, {"PLATFORM_CHALLENGE"}) <=> c.status = "PAUSED_CHALLENGE"

(* A pause that was resumed: its issue is filtered, its status stays.      *)
StalePause(c) == c.status \in Paused /\ ~HasIssue(c, {"LOGIN_REQUIRED", "PLATFORM_CHALLENGE"})

(* An own item has the address of its job listing; the shop is compared    *)
(* when its page opens.                                                    *)
ListingsCoherent(c) == c.own \cap c.moved = {}

AliasesCoherent(c) ==
    /\ \A r \in Ranks : c.alias[r] # NoItem =>
          r \in Positions(c) /\ c.pos[r] = c.alias[r]
    /\ \A i \in c.comp : RanksOf(c, i) # {} /\ c.ranks[i] # {}
    /\ \A id \in c.done : Canonical(c, id) = id

ProgressCoherent(c) ==
    /\ \A i \in c.ownDone : i \in c.own /\ i \in c.done
    /\ \A id \in c.done : id \in Items /\ HasTerminalState(c, id)
    /\ \A k \in c.keys : k \in c.prices \/ \E e \in c.issues : e.item = k[1] /\ e.sku = k[2]
    /\ c.prices \subseteq c.keys
    /\ \A e \in c.issues : e.sku # NoSku => <<e.item, e.sku>> \in c.keys
    /\ c.manifest = c.prices

PhaseCoherent(c) ==
    LET NothingFound == /\ c.comp = {}
                        /\ c.done \subseteq c.own
                        /\ \A k \in c.keys : k[1] \in c.own
    IN  /\ c.phase = "OWN_LISTINGS" =>
              c.pos = <<>> /\ NothingFound /\ \A r \in Ranks : c.alias[r] = NoItem
        /\ c.phase # "OWN_LISTINGS" => c.ownDone = Own
        /\ c.phase = "SEARCH" => NothingFound
        /\ c.phase = "COMPLETE" =>
              /\ c.status = FinalStatus(c)
              /\ \A r \in Positions(c) : c.pos[r] \in c.done
              /\ c.comp \subseteq c.done
        /\ c.phase # "COMPLETE" => c.status # "SUCCEEDED"

(* assertCheckpointSemanticCoherence.                                      *)
Coherent(c) ==
    /\ PauseExplained(c) /\ ListingsCoherent(c)
    /\ AliasesCoherent(c) /\ ProgressCoherent(c) /\ PhaseCoherent(c)

-----------------------------------------------------------------------------
(* Starting and resuming.                                                  *)

(* Issues of the last attempt that this one may not have.                  *)
Filtered(c) ==
    [c EXCEPT !.issues = {e \in @ : e.code \notin {"LOGIN_REQUIRED", "PLATFORM_CHALLENGE",
                                                   "MISSING_ITEM_ID", "PAUSE_INCOMPLETE"}}]

BeginNew ==
    /\ pc = "idle" /\ disk = NoCheckpoint
    /\ mem' = NewCheckpoint /\ pc' = "diagnose"
    /\ UNCHANGED <<disk, page, delivered, faults>>

(* INVALID_CHECKPOINT: the worker releases the run for quarantine.         *)
BeginRefused ==
    /\ pc = "idle" /\ disk # NoCheckpoint
    /\ ~Coherent(disk)
    /\ pc' = "quarantined"
    /\ UNCHANGED <<disk, mem, page, delivered, faults>>

BeginResumed ==
    /\ pc = "idle" /\ disk # NoCheckpoint
    /\ Coherent(disk)
    /\ IF disk.phase = "COMPLETE"
       THEN mem' = disk /\ pc' = "returned"
       ELSE mem' = Filtered(disk) /\ pc' = "working"
    /\ UNCHANGED <<disk, page, delivered, faults>>

Diagnose ==
    /\ pc = "diagnose"
    /\ disk' = mem /\ pc' = "working"
    /\ UNCHANGED <<mem, page, delivered, faults>>

-----------------------------------------------------------------------------
(* One page: collectItemSkus.                                              *)

OpenedAgain(c, i, via, S, short) ==
    /\ page' = [item |-> i, via |-> via, todo |-> S]
    /\ mem' = IF S = {} \/ short
              THEN [c EXCEPT !.issues = @ \cup {ItemIssue("SKU_ENUMERATION_INCOMPLETE", i)}]
              ELSE c
    /\ UNCHANGED <<disk, pc, delivered, faults>>

(* What opening the page of i shows: the SKUs to select that have no       *)
(* result yet.  An enumeration that fails, is empty or disagrees with the  *)
(* page's own count is an issue of the item.                               *)
Opened(c, i, via, S, short) ==
    /\ page' = [item |-> i, via |-> via, todo |-> {s \in S : <<i, s>> \notin c.keys}]
    /\ mem' = IF S = {} \/ short
              THEN [c EXCEPT !.issues = @ \cup {ItemIssue("SKU_ENUMERATION_INCOMPLETE", i)}]
              ELSE c
    /\ UNCHANGED <<disk, pc, delivered, faults>>

NextOwn(c) ==
    {OwnListings[n] : n \in {n \in DOMAIN OwnListings :
        /\ OwnListings[n] \notin c.ownDone
        /\ \A m \in 1..(n - 1) : OwnListings[m] \in c.ownDone}}

(* A page is admitted by the id and the shop it shows; its item keeps the  *)
(* address of the page it was first seen on.                               *)
WithOwn(c, i, elsewhere) ==
    [c EXCEPT !.own = @ \cup {i},
              !.moved = IF elsewhere /\ i \notin c.own THEN @ \cup {i} ELSE @]

OpenOwnListing(S, short) ==
    /\ pc = "working" /\ page = NoPage
    /\ mem.phase = "OWN_LISTINGS"
    /\ \E i \in NextOwn(mem), elsewhere \in BOOLEAN :
          Opened(WithOwn(mem, i, elsewhere), i, i, S, short)

(* A price with its evidence, or no result the run can use.  An item with  *)
(* no price yet also gets an issue of its own.                             *)
Priced(c, k) ==
    [c EXCEPT !.prices = @ \cup {k}, !.manifest = @ \cup {k}, !.keys = @ \cup {k}]

Unavailable(c, k) ==
    [c EXCEPT !.issues = @ \cup {SkuIssue("SKU_ENUMERATION_INCOMPLETE", k)},
              !.keys = @ \cup {k}]

Unpriced(c, k) ==
    [c EXCEPT !.issues = @ \cup {SkuIssue("PRICE_UNSTABLE", k)}
                           \cup IF PricesOf(c, k[1]) = {}
                                THEN {ItemIssue("SKU_ENUMERATION_INCOMPLETE", k[1])} ELSE {},
              !.keys = @ \cup {k}]

SelectSkuUnsaved(s) ==
    LET k == <<page.item, s>>
    IN  /\ pc = "working" /\ page # NoPage
        /\ s \in page.todo
        /\ mem' \in {Priced(mem, k), Unavailable(mem, k), Unpriced(mem, k)}
        /\ page' = [page EXCEPT !.todo = @ \ {s}]
        /\ UNCHANGED <<disk, pc, delivered, faults>>

SelectSku(s) ==
    LET k == <<page.item, s>>
    IN  /\ pc = "working" /\ page # NoPage
        /\ s \in page.todo
        /\ mem' \in {Priced(mem, k), Unavailable(mem, k), Unpriced(mem, k)}
        /\ disk' = mem'
        /\ page' = [page EXCEPT !.todo = @ \ {s}]
        /\ UNCHANGED <<pc, delivered, faults>>

PageEnded == pc = "working" /\ page # NoPage /\ page.todo = {}

CompletedWithoutListing(c) ==
    LET i == page.item
    IN  [c EXCEPT !.issues = @ \cup IF PricesOf(c, i) = {}
                                    THEN {ItemIssue("SKU_ENUMERATION_INCOMPLETE", i)} ELSE {},
                  !.done = @ \cup {i, Canonical(c, page.via)}]

(* The page is finished: its item is complete, with a price or an issue.   *)
Completed(c) ==
    LET i == page.item
    IN  [c EXCEPT !.issues = @ \cup IF PricesOf(c, i) = {}
                                    THEN {ItemIssue("SKU_ENUMERATION_INCOMPLETE", i)} ELSE {},
                  !.ownDone = IF c.phase = "OWN_LISTINGS" THEN @ \cup {i} ELSE @,
                  !.done = @ \cup {i, Canonical(c, page.via)}]

ReturnToSearch ==
    /\ PageEnded
    /\ mem' = Completed(mem) /\ disk' = mem' /\ page' = NoPage
    /\ UNCHANGED <<pc, delivered, faults>>

-----------------------------------------------------------------------------
(* The search and its items.                                               *)

EnterSearch ==
    /\ pc = "working" /\ page = NoPage
    /\ mem.phase = "OWN_LISTINGS" /\ NextOwn(mem) = {}
    /\ mem' = [mem EXCEPT !.phase = "SEARCH"] /\ disk' = mem'
    /\ UNCHANGED <<page, pc, delivered, faults>>

Found(c, result) ==
    [c EXCEPT !.pos = [r \in DOMAIN result |-> IF result[r] = NoItem THEN r ELSE result[r]]]

RankedOwn(c) ==
    [c EXCEPT !.ranks = [i \in Items |-> IF i \in c.own THEN RanksOf(c, i) ELSE @[i]]]

Search(result) ==
    /\ pc = "working" /\ mem.phase = "SEARCH"
    /\ mem' = [RankedOwn(Found(mem, result)) EXCEPT !.phase = "ITEMS"] /\ disk' = mem'
    /\ UNCHANGED <<page, pc, delivered, faults>>

PendingRanks(c) == {r \in Positions(c) : Canonical(c, c.pos[r]) \notin c.done}

(* The first position, by rank, whose item is not complete.                *)
NextRank(c) == {r \in PendingRanks(c) : \A q \in PendingRanks(c) : r <= q}

Aliased(c, id, i) ==
    IF id \in Ranks
    THEN [c EXCEPT !.alias[id] = i,
                   !.pos = [r \in DOMAIN @ |-> IF @[r] = id THEN i ELSE @[r]]]
    ELSE c

AtPositionAsOwn(c, i) ==
    [c EXCEPT !.own = @ \cup {i},
              !.ranks[i] = @ \cup RanksOf(c, i)]

AtPosition(c, i) ==
    [c EXCEPT !.comp = IF i \in ItemsOf(c) THEN @ ELSE @ \cup {i},
              !.ranks[i] = @ \cup RanksOf(c, i)]

(* A position without an id is known by the id of the page it opens; the   *)
(* page of any other must have the id the search showed.                   *)
OpenSearchPosition(i, S, short) ==
    /\ pc = "working" /\ page = NoPage /\ mem.phase = "ITEMS"
    /\ \E r \in NextRank(mem) :
          LET id == mem.pos[r]
          IN  /\ id \in {i} \cup Ranks
              /\ Opened(AtPosition(Aliased(mem, id, i), i), i, id, S, short)

FinishWithoutStatus ==
    /\ pc = "working" /\ page = NoPage
    /\ mem.phase = "ITEMS" /\ PendingRanks(mem) = {}
    /\ mem' = [mem EXCEPT !.phase = "COMPLETE",
                          !.status = IF HasIssue(mem, {"SKU_ENUMERATION_INCOMPLETE"})
                                     THEN "PARTIAL_FAILED" ELSE "SUCCEEDED"]
    /\ disk' = mem' /\ pc' = "returned"
    /\ UNCHANGED <<page, delivered, faults>>

Finish ==
    /\ pc = "working" /\ page = NoPage
    /\ mem.phase = "ITEMS" /\ PendingRanks(mem) = {}
    /\ mem' = [mem EXCEPT !.phase = "COMPLETE", !.status = FinalStatus(mem)]
    /\ disk' = mem' /\ pc' = "returned"
    /\ UNCHANGED <<page, delivered, faults>>

-----------------------------------------------------------------------------
(* Errors of the driver: the catch of run().                               *)

Boundary(c) ==
    [c EXCEPT !.issues = @ \cup {ItemIssue("PAUSE_INCOMPLETE", i) :
                                   i \in {i \in ItemsOf(c) : PricesOf(c, i) = {}}}]

PauseOf(c, status, code) ==
    Boundary([c EXCEPT !.status = status, !.issues = @ \cup {RunIssue(code)}])

ResetKeepsManifest(c) ==
    LET ofOwn(id) == Canonical(c, id) \in c.own
    IN  [c EXCEPT !.done = {id \in @ : ofOwn(id)},
                  !.keys = {k \in @ : k[1] \in c.own},
                  !.issues = {e \in @ : e.item \in c.own \cup {NoItem}},
                  !.prices = {k \in @ : k[1] \in c.own},
                  !.ranks = [i \in Items |-> {}],
                  !.pos = <<>>, !.comp = {}, !.alias = [r \in Ranks |-> NoItem],
                  !.phase = IF @ = "ITEMS" THEN "SEARCH" ELSE @]

(* resetSearchProgress, and back to the search.                            *)
Reset(c) ==
    [ResetKeepsManifest(c) EXCEPT !.manifest = {k \in @ : k[1] \in c.own}]

Failed(c, code) ==
    Boundary([c EXCEPT !.issues = @ \cup {RunIssue(code)},
                       !.status = IF c.pos = <<>> /\ c.own = {}
                                  THEN "FAILED" ELSE "PARTIAL_FAILED"])

Handled(c, code) ==
    CASE code = "LOGIN_REQUIRED"     -> PauseOf(c, "PAUSED_LOGIN", code)
      [] code = "PLATFORM_CHALLENGE" -> PauseOf(c, "PAUSED_CHALLENGE", code)
      [] code = "MISSING_ITEM_ID"    -> Failed(Reset(c), code)
      [] OTHER                       -> Failed(c, code)

DriverCodes == {"LOGIN_REQUIRED", "PLATFORM_CHALLENGE", "MISSING_ITEM_ID",
                "APP_VERSION_UNSUPPORTED", "TAOBAO_NOT_FRONTMOST", "UI_CONTRACT_CHANGED"}

(* The checkpoint as a call that fails leaves it: completing a page        *)
(* precedes the return to the search, and the positions of a search are    *)
(* kept before its ids are compared.                                       *)
AtFailure(code) ==
    IF PageEnded THEN {Completed(mem)}
    ELSE IF code = "UI_CONTRACT_CHANGED" /\ mem.phase = "SEARCH"
         THEN {mem} \cup {Found(mem, result) : result \in Results}
         ELSE {mem}

CallPending ==
    \/ pc = "diagnose"
    \/ pc = "working" /\ ~(mem.phase = "OWN_LISTINGS" /\ page = NoPage /\ NextOwn(mem) = {})
                      /\ ~(mem.phase = "ITEMS" /\ page = NoPage /\ PendingRanks(mem) = {})

Throw(code) ==
    /\ faults < MaxFaults
    /\ CallPending
    /\ \E c \in AtFailure(code) : mem' = Handled(c, code)
    /\ disk' = IF code = "APP_VERSION_UNSUPPORTED" THEN disk ELSE mem'
    /\ page' = NoPage /\ pc' = "returned"
    /\ faults' = faults + 1
    /\ UNCHANGED delivered

(* Any other error, an interruption or a crash: what is in memory is gone, *)
(* and the run is claimed again.  A returned report may fail to be sent.   *)
Stop ==
    /\ faults < MaxFaults
    /\ pc \in {"diagnose", "working", "returned"}
    /\ mem' = NoCheckpoint /\ page' = NoPage /\ pc' = "idle"
    /\ faults' = faults + 1
    /\ UNCHANGED <<disk, delivered>>

-----------------------------------------------------------------------------
(* The report is handed over: collector-worker.ts.                         *)

ReportPause ==
    /\ pc = "returned" /\ mem.status \in Paused
    /\ mem' = NoCheckpoint /\ pc' = "idle"
    /\ UNCHANGED <<disk, page, delivered, faults>>

(* The process may stop before it removes the file.                        *)
Deliver ==
    /\ pc = "returned" /\ mem.status \notin Paused
    /\ delivered' = mem /\ pc' = "done"
    /\ disk' \in {disk, NoCheckpoint}
    /\ UNCHANGED <<mem, page, faults>>

Work ==
    \/ BeginNew \/ BeginRefused \/ BeginResumed \/ Diagnose
    \/ \E S \in Shown, short \in BOOLEAN :
          \/ OpenOwnListing(S, short)
          \/ \E i \in Items : OpenSearchPosition(i, S, short)
    \/ \E s \in Skus : SelectSku(s)
    \/ ReturnToSearch
    \/ EnterSearch
    \/ \E result \in Results : Search(result)
    \/ Finish
    \/ ReportPause
    \/ Deliver

Next == Work \/ (\E code \in DriverCodes : Throw(code)) \/ Stop

(* The process goes on while it runs, and the run is claimed again after   *)
(* it stopped.                                                             *)
Spec == Init /\ [][Next]_vars /\ WF_vars(Work)

-----------------------------------------------------------------------------
(* Properties.                                                             *)

(* A checkpoint saved at any point of a run that was paused, before or     *)
(* after it was resumed, is one the runner accepts when it resumes: with   *)
(* own pages at the job's addresses.                                       *)
PausedWorkResumes == disk # NoCheckpoint /\ ListingsCoherent(disk) => Coherent(disk)

(* A checkpoint saved with no resumed pause behind it is one the runner    *)
(* accepts, whatever address the own pages it admitted have.               *)
AdmittedListingsResume == disk # NoCheckpoint /\ ~StalePause(disk) => Coherent(disk)

(* Every checkpoint the runner saves, wherever it is interrupted, holds    *)
(* together: progress, aliases, phase, evidence and report fit, and an     *)
(* issue and a status of a pause too but for a resumed pause.  So what     *)
(* refuses a saved checkpoint is a resumed pause or an own item's address. *)
SavedCheckpointsHoldTogether ==
    disk # NoCheckpoint =>
        /\ AliasesCoherent(disk) /\ ProgressCoherent(disk) /\ PhaseCoherent(disk)
        /\ ReportValid(disk)
        /\ PauseExplained(disk) \/ StalePause(disk)

(* Whatever attempt it comes from, the report handed to the worker is      *)
(* valid, and every price in it has its evidence in the checkpoint file    *)
(* the worker reads the manifest from.                                     *)
ReturnedReportIsBacked ==
    pc = "returned" =>
        /\ ReportValid(mem)
        /\ mem.prices \subseteq (IF disk = NoCheckpoint THEN {} ELSE disk.manifest)

(* A report says SUCCEEDED only if, over all attempts, every own listing   *)
(* and every search position was opened, every SKU any attempt tried has a *)
(* price, and no item is without one.                                      *)
SucceededMeansEverything ==
    delivered # NoCheckpoint /\ delivered.status = "SUCCEEDED" =>
        /\ delivered.own = Own
        /\ \A r \in Positions(delivered) : delivered.pos[r] \in ItemsOf(delivered)
        /\ delivered.keys = delivered.prices
        /\ \A i \in ItemsOf(delivered) : PricesOf(delivered, i) # {}

Durable == IF pc = "done" THEN delivered ELSE IF disk = NoCheckpoint THEN NewCheckpoint ELSE disk

CL == INSTANCE CaptureLog WITH captured <- Durable.keys, prices <- Durable.prices,
                               closed <- (pc = "done")

(* Stopped and resumed anywhere, the runner captures as one that never     *)
(* stops: no SKU twice, none lost but with its search, and the report      *)
(* carries exactly what the checkpoints recorded.                          *)
ImplementsCaptureLog == CL!Spec

(* When the errors end, the run ends: its report is handed over, or its    *)
(* checkpoint is refused.                                                  *)
RunEnds == <>(pc \in {"done", "quarantined"})
=============================================================================
