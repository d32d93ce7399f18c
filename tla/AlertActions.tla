---------------------------- MODULE AlertActions ----------------------------
(***************************************************************************)
(* Operators decide about price alerts.  A decision reads the alert and    *)
(* checks the transition; one transaction then inserts the action and      *)
(* updates the status, which it does not look at again; the audit log is   *)
(* written last.  Operators may be deciding about one alert at the same    *)
(* time, and a decision may die between its steps.                         *)
(*                                                                         *)
(* The transaction is two steps here.  Its isolation is the database's     *)
(* default, so two of them may insert their actions in one order and       *)
(* update the alert in the other: only the update waits for the row.       *)
(***************************************************************************)
EXTENDS Naturals, Sequences

CONSTANTS AlertIds, Operators,
          MaxActions,  \* bound: actions inserted per alert, rolled back ones included
          NoAlert

ASSUME MaxActionsAssumption == MaxActions \in Nat

ASSUME NoAlertAssumption == NoAlert \notin AlertIds

VARIABLES
    past,      \* history: the statuses each alert has had; the last is PriceAlert.status
    inserted,  \* the AlertAction rows inserted for each alert so far, createdAt
    actions,   \* the committed AlertAction rows
    audit,     \* the audit log's entries about alerts
    calls      \* the decision each operator's request is carrying out

vars == <<past, inserted, actions, audit, calls>>

AlertStatus == {"PENDING", "PRICE_CHANGED", "NO_FOLLOW", "FALSE_POSITIVE", "WATCHING"}

AllowedTransitions ==
    [PENDING        |-> {"PRICE_CHANGED", "NO_FOLLOW", "FALSE_POSITIVE", "WATCHING"},
     WATCHING       |-> {"PENDING", "PRICE_CHANGED", "NO_FOLLOW", "FALSE_POSITIVE"},
     PRICE_CHANGED  |-> {},
     NO_FOLLOW      |-> {},
     FALSE_POSITIVE |-> {}]

AlertAction == [alert : AlertIds, actor : Operators, status : AlertStatus,
                createdAt : 1..MaxActions]

AuditEntry == [alert : AlertIds, actor : Operators, before : AlertStatus, after : AlertStatus]

Call == [step : {"idle", "checked", "inserted", "applied"}, alert : AlertIds \cup {NoAlert},
         before : AlertStatus, after : AlertStatus, createdAt : 0..MaxActions]

Idle == [step |-> "idle", alert |-> NoAlert, before |-> "PENDING", after |-> "PENDING",
         createdAt |-> 0]

(* Every alert has a status, and every stored action its time.             *)
TypeOK ==
    /\ past \in [AlertIds -> Seq(AlertStatus) \ {<<>>}]
    /\ inserted \in [AlertIds -> 0..MaxActions]
    /\ actions \subseteq AlertAction
    /\ audit \subseteq AuditEntry
    /\ calls \in [Operators -> Call]

Init ==
    /\ past = [a \in AlertIds |-> <<"PENDING">>]
    /\ inserted = [a \in AlertIds |-> 0]
    /\ actions = {}
    /\ audit = {}
    /\ calls = [o \in Operators |-> Idle]

status == [a \in AlertIds |-> past[a][Len(past[a])]]

-----------------------------------------------------------------------------

MayMoveAnywhere(from, to) == from # to

MayMove(from, to) == to \in AllowedTransitions[from]

(* requireAlert and the check of the transition.                           *)
Check(o, a, to) ==
    /\ calls[o].step = "idle"
    /\ MayMove(status[a], to)
    /\ calls' = [calls EXCEPT ![o] = [step |-> "checked", alert |-> a, before |-> status[a],
                                      after |-> to, createdAt |-> 0]]
    /\ UNCHANGED <<past, inserted, actions, audit>>

Insert(o) ==
    LET a == calls[o].alert
    IN  /\ calls[o].step = "checked"
        /\ inserted[a] < MaxActions
        /\ inserted' = [inserted EXCEPT ![a] = @ + 1]
        /\ calls' = [calls EXCEPT ![o].step = "inserted", ![o].createdAt = inserted[a] + 1]
        /\ UNCHANGED <<past, actions, audit>>

Row(o) == [alert |-> calls[o].alert, actor |-> o, status |-> calls[o].after,
           createdAt |-> calls[o].createdAt]

UpdateWithoutAction(o) ==
    LET a == calls[o].alert
    IN  /\ calls[o].step = "inserted"
        /\ past' = [past EXCEPT ![a] = Append(@, calls[o].after)]
        /\ calls' = [calls EXCEPT ![o].step = "applied"]
        /\ UNCHANGED <<inserted, actions, audit>>

(* The transaction updates the alert, whatever its status is by now, and   *)
(* commits.                                                                *)
Update(o) ==
    LET a == calls[o].alert
    IN  /\ calls[o].step = "inserted"
        /\ past' = [past EXCEPT ![a] = Append(@, calls[o].after)]
        /\ actions' = actions \cup {Row(o)}
        /\ calls' = [calls EXCEPT ![o].step = "applied"]
        /\ UNCHANGED <<inserted, audit>>

EntryOfLatest(o) == [alert |-> calls[o].alert, actor |-> o, before |-> calls[o].before,
                     after |-> status[calls[o].alert]]

(* What the call saw and wrote, not what the alert has become since.       *)
Entry(o) == [alert |-> calls[o].alert, actor |-> o, before |-> calls[o].before,
             after |-> calls[o].after]

Record(o) ==
    /\ calls[o].step = "applied"
    /\ audit' = audit \cup {Entry(o)}
    /\ calls' = [calls EXCEPT ![o] = Idle]
    /\ UNCHANGED <<past, inserted, actions>>

(* The transaction fails, or the audit entry cannot be written, or the API *)
(* stops: what was committed stays, nothing else does.                     *)
Abort(o) ==
    /\ calls[o].step # "idle"
    /\ calls' = [calls EXCEPT ![o] = Idle]
    /\ UNCHANGED <<past, inserted, actions, audit>>

Next ==
    \E o \in Operators :
        \/ \E a \in AlertIds, to \in AlertStatus : Check(o, a, to)
        \/ Insert(o)
        \/ Update(o)
        \/ Record(o)
        \/ Abort(o)

Spec == Init /\ [][Next]_vars

-----------------------------------------------------------------------------
(* Properties.                                                             *)

ActionsOf(a) == {x \in actions : x.alert = a}

(* Every change of an alert has its action and every action changed its    *)
(* alert, so the history is complete, though its order by createdAt need   *)
(* not be the order of the changes.                                        *)
HistoryIsComplete ==
    \A a \in AlertIds :
        \E order \in [2..Len(past[a]) -> ActionsOf(a)] :
            /\ \A i, j \in DOMAIN order : order[i] = order[j] => i = j
            /\ \A x \in ActionsOf(a) : \E i \in DOMAIN order : order[i] = x
            /\ \A i \in DOMAIN order : order[i].status = past[a][i]

(* Each change was legal from a status the alert had some time before: all *)
(* that the check promises when decisions race.                            *)
ChangesWereLegalOnce ==
    \A a \in AlertIds : \A i \in 2..Len(past[a]) :
        \E j \in 1..(i - 1) : past[a][i] \in AllowedTransitions[past[a][j]]

(* The audit log reports nothing that did not happen: the entry's operator *)
(* took the action, and the alert had the entry's earlier status first.    *)
AuditTellsActions ==
    \A e \in audit :
        /\ \E x \in ActionsOf(e.alert) : x.actor = e.actor /\ x.status = e.after
        /\ \E i, j \in 1..Len(past[e.alert]) :
              i < j /\ past[e.alert][i] = e.before /\ past[e.alert][j] = e.after

(* A decision is final: an alert never leaves PRICE_CHANGED, NO_FOLLOW or  *)
(* FALSE_POSITIVE.                                                         *)
DecisionsAreFinal ==
    [][\A a \in AlertIds : AllowedTransitions[status[a]] = {} => status'[a] = status[a]]_vars

=============================================================================
