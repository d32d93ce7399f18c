------------------------- MODULE AlertActionsProofs --------------------------
(***************************************************************************)
(* Proofs about AlertActions, for every set of alerts and operators and    *)
(* any number of actions.                                                  *)
(***************************************************************************)
EXTENDS AlertActions, TLAPS

Bound(o) == calls[o].alert \in AlertIds

LEMMA IdleType == Idle \in Call
BY MaxActionsAssumption DEF Idle, Call, AlertStatus

LEMMA StatusType ==
    ASSUME TypeOK, NEW a \in AlertIds
    PROVE  /\ past[a] \in Seq(AlertStatus) /\ Len(past[a]) \in Nat \ {0}
           /\ status[a] = past[a][Len(past[a])] /\ status[a] \in AlertStatus
BY DEF TypeOK, status

LEMMA TransitionTypes == AllowedTransitions \in [AlertStatus -> SUBSET AlertStatus]
BY DEF AllowedTransitions, AlertStatus

-----------------------------------------------------------------------------
(* What a call knows while it lasts.  Its transition was legal from a      *)
(* status its alert has had; the action it inserted has a time of its own, *)
(* which no other action of the alert has; once applied, the action is     *)
(* there and its status came after the one it was checked against.         *)

Had(a, s) == \E i \in 1..Len(past[a]) : past[a][i] = s

Then(a, s, t) == \E i, j \in 1..Len(past[a]) : i < j /\ past[a][i] = s /\ past[a][j] = t

WasLegal(o) ==
    /\ Bound(o)
    /\ calls[o].after \in AllowedTransitions[calls[o].before]
    /\ Had(calls[o].alert, calls[o].before)

Timed(o) ==
    /\ calls[o].createdAt \in 1..inserted[calls[o].alert]
    /\ \A x \in ActionsOf(calls[o].alert) : x.createdAt # calls[o].createdAt
    /\ \A p \in Operators \ {o} :
          /\ calls[p].step = "inserted" /\ calls[p].alert = calls[o].alert
          => calls[p].createdAt # calls[o].createdAt

Took(o) ==
    /\ \E x \in ActionsOf(calls[o].alert) : x.actor = o /\ x.status = calls[o].after
    /\ Then(calls[o].alert, calls[o].before, calls[o].after)

CallsKnow ==
    \A o \in Operators :
        /\ calls[o].step # "idle" => WasLegal(o)
        /\ calls[o].step = "inserted" => Timed(o)
        /\ calls[o].step = "applied" => Took(o)

TimesKnown == \A x \in actions : x.createdAt <= inserted[x.alert]

IInv == TypeOK /\ CallsKnow /\ TimesKnown

Properties == HistoryIsComplete /\ ChangesWereLegalOnce /\ AuditTellsActions

-----------------------------------------------------------------------------
(* Type correctness and what calls know.                                   *)

LEMMA InitIInv == Init => IInv
<1> SUFFICES ASSUME Init PROVE IInv
  OBVIOUS
<1>1. TypeOK
  BY IdleType, MaxActionsAssumption DEF Init, TypeOK, AlertStatus
<1>2. CallsKnow /\ TimesKnown
  BY DEF Init, CallsKnow, TimesKnown, Idle
<1> QED
  BY <1>1, <1>2 DEF IInv

LEMMA CallType ==
    ASSUME TypeOK, NEW o \in Operators
    PROVE  /\ calls[o] \in Call
           /\ calls[o].alert \in AlertIds \cup {NoAlert}
           /\ calls[o].before \in AlertStatus /\ calls[o].after \in AlertStatus
           /\ calls[o].createdAt \in 0..MaxActions
BY DEF TypeOK, Call

LEMMA StepTypes ==
    ASSUME TypeOK, CallsKnow, [Next]_vars
    PROVE  TypeOK'
<1>1. ASSUME NEW o \in Operators, NEW a \in AlertIds, NEW to \in AlertStatus, Check(o, a, to)
      PROVE  TypeOK'
  <2>1. [step |-> "checked", alert |-> a, before |-> status[a], after |-> to, createdAt |-> 0] \in Call
    BY StatusType, MaxActionsAssumption DEF Call
  <2> QED
    BY <1>1, <2>1 DEF Check, TypeOK
<1>2. ASSUME NEW o \in Operators, Insert(o) PROVE TypeOK'
  <2>1. calls[o].alert \in AlertIds
    BY <1>2 DEF Insert, CallsKnow, WasLegal, Bound
  <2>2. inserted[calls[o].alert] + 1 \in 0..MaxActions
    BY <1>2, <2>1, MaxActionsAssumption DEF Insert, TypeOK
  <2>3. inserted' \in [AlertIds -> 0..MaxActions]
    BY <1>2, <2>1, <2>2, MaxActionsAssumption DEF Insert, TypeOK
  <2>4. [calls[o] EXCEPT !.step = "inserted", !.createdAt = inserted[calls[o].alert] + 1] \in Call
    BY <2>2, CallType DEF Call
  <2>5. calls' \in [Operators -> Call]
    BY <1>2, <2>4 DEF Insert, TypeOK
  <2> QED
    BY <1>2, <2>3, <2>5 DEF Insert, TypeOK
<1>3. ASSUME NEW o \in Operators, Update(o) PROVE TypeOK'
  <2>1. calls[o].alert \in AlertIds
    BY <1>3 DEF Update, CallsKnow, WasLegal, Bound
  <2>2. Append(past[calls[o].alert], calls[o].after) \in Seq(AlertStatus) \ {<<>>}
    BY <2>1, CallType, StatusType
  <2>3. past' \in [AlertIds -> Seq(AlertStatus) \ {<<>>}]
    BY <1>3, <2>1, <2>2 DEF Update, TypeOK
  <2>4. Row(o) \in AlertAction
    <3>1. Timed(o)
      BY <1>3 DEF Update, CallsKnow
    <3>2. calls[o].createdAt \in 1..MaxActions
      BY <2>1, <3>1, CallType DEF Timed, TypeOK
    <3> QED
      BY <2>1, <3>2, CallType DEF Row, AlertAction
  <2>5. [calls[o] EXCEPT !.step = "applied"] \in Call
    BY CallType DEF Call
  <2>6. calls' \in [Operators -> Call]
    BY <1>3, <2>5 DEF Update, TypeOK
  <2> QED
    BY <1>3, <2>3, <2>4, <2>6 DEF Update, TypeOK
<1>4. ASSUME NEW o \in Operators, Record(o) PROVE TypeOK'
  <2>1. Entry(o) \in AuditEntry
    BY <1>4, CallType DEF Record, CallsKnow, WasLegal, Bound, Entry, AuditEntry
  <2> QED
    BY <1>4, <2>1, IdleType DEF Record, TypeOK
<1>5. ASSUME NEW o \in Operators, Abort(o) PROVE TypeOK'
  BY <1>5, IdleType DEF Abort, TypeOK
<1>6. CASE UNCHANGED vars
  BY <1>6 DEF vars, TypeOK
<1> QED
  BY <1>1, <1>2, <1>3, <1>4, <1>5, <1>6 DEF Next

(* What an alert has been it stays to have been.                           *)
LEMMA PastGrows ==
    ASSUME TypeOK, CallsKnow, [Next]_vars, NEW a \in AlertIds
    PROVE  /\ Len(past[a]) <= Len(past'[a])
           /\ \A i \in 1..Len(past[a]) : past'[a][i] = past[a][i]
<1>1. ASSUME NEW o \in Operators, Update(o)
      PROVE  past'[a] \in {past[a], Append(past[a], calls[o].after)}
  BY <1>1 DEF Update, TypeOK
<1>2. (\A o \in Operators : ~Update(o)) => past'[a] = past[a]
  BY DEF Next, vars, Check, Insert, Record, Abort
<1>3. past[a] \in Seq(AlertStatus)
  BY StatusType
<1> QED
  BY <1>1, <1>2, <1>3, CallType

LEMMA Keeps ==
    ASSUME TypeOK, CallsKnow, [Next]_vars, NEW a \in AlertIds, NEW s, NEW t
    PROVE  /\ Had(a, s) => Had(a, s)'
           /\ Then(a, s, t) => Then(a, s, t)'
           /\ Had(a, status[a])
<1>1. Len(past[a]) \in Nat \ {0} /\ Len(past'[a]) \in Nat
  BY StatusType, StepTypes DEF TypeOK
<1> QED
  BY <1>1, PastGrows, StatusType DEF Had, Then

(* A call goes on knowing what it knew while it does not move itself.      *)
LEMMA CallStands ==
    ASSUME IInv, [Next]_vars, NEW o \in Operators, calls'[o] = calls[o]
    PROVE  /\ calls[o].step # "idle" => WasLegal(o)'
           /\ calls[o].step = "applied" => Took(o)'
<1>1. calls[o].step # "idle" => Bound(o) /\ WasLegal(o)
  BY DEF IInv, CallsKnow, WasLegal
<1>2. actions \subseteq actions'
  BY DEF Next, vars, Check, Insert, Update, Record, Abort
<1>3. calls[o].step # "idle" => WasLegal(o)'
  BY <1>1, Keeps DEF IInv, WasLegal, Bound
<1>4. calls[o].step = "applied" => Took(o)'
  BY <1>1, <1>2, Keeps DEF IInv, CallsKnow, Took, Bound, ActionsOf
<1> QED
  BY <1>3, <1>4

LEMMA StepCallsKnow ==
    ASSUME IInv, [Next]_vars
    PROVE  CallsKnow' /\ TimesKnown'
<1> USE DEF IInv
<1>0. TypeOK /\ CallsKnow /\ TimesKnown /\ TypeOK'
  BY StepTypes
<1>1. ASSUME NEW o \in Operators, NEW a \in AlertIds, NEW to \in AlertStatus, Check(o, a, to)
      PROVE  CallsKnow' /\ TimesKnown'
  <2>1. /\ calls'[o] = [step |-> "checked", alert |-> a, before |-> status[a],
                        after |-> to, createdAt |-> 0]
        /\ \A p \in Operators \ {o} : calls'[p] = calls[p]
        /\ UNCHANGED <<past, inserted, actions, audit>>
        /\ to \in AllowedTransitions[status[a]]
    BY <1>0, <1>1 DEF Check, TypeOK, MayMove
  <2>2. WasLegal(o)'
    BY <1>0, <2>1, Keeps DEF WasLegal, Bound
  <2>3. ASSUME NEW p \in Operators, calls'[p].step = "inserted" PROVE Timed(p)'
    BY <1>0, <2>1, <2>3 DEF CallsKnow, Timed, ActionsOf
  <2>4. TimesKnown'
    BY <1>0, <2>1 DEF TimesKnown
  <2> QED
    BY <1>0, <2>1, <2>2, <2>3, <2>4, CallStands DEF CallsKnow
<1>2. ASSUME NEW o \in Operators, Insert(o) PROVE CallsKnow' /\ TimesKnown'
  <2> DEFINE a == calls[o].alert
             n == inserted[a]
  <2>0. WasLegal(o) /\ a \in AlertIds
    BY <1>0, <1>2 DEF Insert, CallsKnow, WasLegal, Bound
  <2>1. a \in AlertIds /\ n \in Nat /\ WasLegal(o) /\ inserted \in [AlertIds -> Nat]
    BY <1>0, <2>0, MaxActionsAssumption DEF TypeOK
  <2>2. /\ calls'[o] = [calls[o] EXCEPT !.step = "inserted", !.createdAt = n + 1]
        /\ \A p \in Operators \ {o} : calls'[p] = calls[p]
        /\ inserted'[a] = n + 1 /\ \A b \in AlertIds \ {a} : inserted'[b] = inserted[b]
        /\ UNCHANGED <<past, actions, audit>>
    BY <1>0, <1>2, <2>1 DEF Insert, TypeOK
  <2>3. /\ calls'[o].step = "inserted" /\ calls'[o].createdAt = n + 1
        /\ calls'[o].alert = a /\ calls'[o].before = calls[o].before
        /\ calls'[o].after = calls[o].after
    BY <1>0, <2>2, CallType DEF Call
  <2>4. WasLegal(o)'
    BY <1>0, <2>1, <2>2, <2>3, Keeps DEF WasLegal, Bound
  <2>5. actions \subseteq AlertAction /\ \A x \in actions : x.alert \in AlertIds /\ x.createdAt \in Nat
    BY <1>0 DEF TypeOK, AlertAction
  <2>6. ASSUME NEW p \in Operators, calls'[p].step = "inserted" PROVE Timed(p)'
    <3>1. CASE p = o
      <4>1. calls'[p].createdAt \in 1..inserted'[a]
        <5>1. n + 1 \in 1..(n + 1)
          BY <2>1
        <5> QED
          BY <2>2, <2>3, <3>1, <5>1
      <4>2. \A x \in ActionsOf(a)' : x.createdAt # n + 1
        BY <1>0, <2>1, <2>2, <2>5 DEF ActionsOf, TimesKnown
      <4>3. \A q \in Operators \ {o} : calls'[q].step = "inserted" /\ calls'[q].alert = a
                => calls'[q].createdAt # n + 1
        BY <1>0, <2>1, <2>2 DEF CallsKnow, Timed
      <4> QED
        BY <2>3, <3>1, <4>1, <4>2, <4>3 DEF Timed
    <3>2. CASE p # o
      <4>1. calls'[p] = calls[p] /\ Timed(p) /\ calls[p].alert \in AlertIds
        BY <1>0, <2>2, <2>6, <3>2 DEF CallsKnow, WasLegal, Bound
      <4>2. inserted[calls[p].alert] <= inserted'[calls[p].alert]
            /\ inserted'[calls[p].alert] \in Nat
        BY <2>1, <2>2, <4>1
      <4>3. calls'[p].createdAt \in 1..inserted'[calls'[p].alert]
        BY <2>1, <4>1, <4>2 DEF Timed
      <4>4. \A q \in Operators \ {p} : calls'[q].step = "inserted" /\ calls'[q].alert = calls'[p].alert
                => calls'[q].createdAt # calls'[p].createdAt
        <5> SUFFICES ASSUME NEW q \in Operators \ {p}, calls'[q].step = "inserted",
                            calls'[q].alert = calls'[p].alert
                     PROVE  calls'[q].createdAt # calls'[p].createdAt
          OBVIOUS
        <5>1. CASE q = o
          BY <2>1, <2>3, <4>1, <5>1 DEF Timed
        <5>2. CASE q # o
          BY <2>2, <4>1, <5>2 DEF Timed
        <5> QED
          BY <5>1, <5>2
      <4> QED
        BY <2>2, <4>1, <4>3, <4>4 DEF Timed, ActionsOf
    <3> QED
      BY <3>1, <3>2
  <2>7. TimesKnown'
    BY <1>0, <2>1, <2>2, <2>5 DEF TimesKnown
  <2> QED
    BY <1>0, <2>2, <2>3, <2>4, <2>6, <2>7, CallStands DEF CallsKnow
<1>3. ASSUME NEW o \in Operators, Update(o) PROVE CallsKnow' /\ TimesKnown'
  <2> DEFINE a == calls[o].alert
  <2>1. a \in AlertIds /\ WasLegal(o) /\ Timed(o)
    BY <1>0, <1>3 DEF Update, CallsKnow, WasLegal, Bound
  <2>2. /\ calls'[o] = [calls[o] EXCEPT !.step = "applied"]
        /\ \A p \in Operators \ {o} : calls'[p] = calls[p]
        /\ past'[a] = Append(past[a], calls[o].after)
        /\ actions' = actions \cup {Row(o)}
        /\ UNCHANGED <<inserted, audit>>
    BY <1>0, <1>3, <2>1 DEF Update, TypeOK
  <2>3. /\ calls'[o].step = "applied" /\ calls'[o].alert = a
        /\ calls'[o].before = calls[o].before /\ calls'[o].after = calls[o].after
    BY <1>0, <2>2, CallType DEF Call
  <2>4. WasLegal(o)'
    BY <1>0, <2>1, <2>3, Keeps DEF WasLegal, Bound
  <2>5. Took(o)'
    <3>1. \E x \in actions' : x.alert = a /\ x.actor = o /\ x.status = calls[o].after
      <4>1. Row(o) \in actions'
        BY <2>2
      <4>2. Row(o).alert = a /\ Row(o).actor = o /\ Row(o).status = calls[o].after
        BY DEF Row
      <4> QED
        BY <4>1, <4>2
    <3>2. PICK i \in 1..Len(past[a]) : past[a][i] = calls[o].before
      BY <2>1 DEF WasLegal, Had
    <3>3. past[a] \in Seq(AlertStatus) /\ calls[o].after \in AlertStatus
      BY <1>0, <2>1, StatusType, CallType
    <3>4. i \in 1..Len(past'[a]) /\ past'[a][i] = calls[o].before
          /\ Len(past[a]) + 1 \in 1..Len(past'[a]) /\ i < Len(past[a]) + 1
          /\ past'[a][Len(past[a]) + 1] = calls[o].after
      BY <2>2, <3>2, <3>3
    <3> QED
      BY <2>3, <3>1, <3>4 DEF Took, Then, ActionsOf
  <2>6. ASSUME NEW p \in Operators, calls'[p].step = "inserted" PROVE Timed(p)'
    <3>1. p # o /\ calls'[p] = calls[p] /\ Timed(p)
      BY <1>0, <2>2, <2>3, <2>6 DEF CallsKnow
    <3>2. Row(o).alert = calls[p].alert => Row(o).createdAt # calls[p].createdAt
      BY <1>3, <3>1 DEF Row, Timed, Update
    <3> QED
      BY <2>2, <2>3, <3>1, <3>2 DEF Timed, ActionsOf
  <2>7. TimesKnown'
    <3>1. Row(o).createdAt <= inserted[Row(o).alert]
      BY <1>0, <2>1 DEF Timed, Row, TypeOK
    <3> QED
      BY <1>0, <2>2, <3>1 DEF TimesKnown
  <2> QED
    BY <1>0, <2>2, <2>3, <2>4, <2>5, <2>6, <2>7, CallStands DEF CallsKnow
<1>4. ASSUME NEW o \in Operators, Record(o) \/ Abort(o) PROVE CallsKnow' /\ TimesKnown'
  <2>1. /\ calls'[o].step = "idle"
        /\ \A p \in Operators \ {o} : calls'[p] = calls[p]
        /\ UNCHANGED <<past, inserted, actions>>
    BY <1>0, <1>4 DEF Record, Abort, TypeOK, Idle
  <2>2. ASSUME NEW p \in Operators, calls'[p].step = "inserted" PROVE Timed(p)'
    BY <1>0, <2>1, <2>2 DEF CallsKnow, Timed, ActionsOf
  <2> QED
    BY <1>0, <2>1, <2>2, CallStands DEF CallsKnow, TimesKnown
<1>5. CASE UNCHANGED vars
  BY <1>0, <1>5, CallStands DEF vars, CallsKnow, Timed, ActionsOf, TimesKnown
<1> QED
  BY <1>1, <1>2, <1>3, <1>4, <1>5 DEF Next

(* Calls know what they need: the inductive invariant.                     *)
THEOREM CallsStayInformed == Spec => []IInv
<1>1. IInv /\ [Next]_vars => IInv'
  BY StepTypes, StepCallsKnow DEF IInv
<1> QED
  BY <1>1, InitIInv, PTL DEF Spec

-----------------------------------------------------------------------------
(* The properties.                                                         *)

(* Every change of an alert has its action, and every action its change:   *)
(* an update adds one of each, a row of a time that no other action has.   *)
LEMMA InitProperties == Init => Properties
<1> SUFFICES ASSUME Init PROVE Properties
  OBVIOUS
<1>1. ASSUME NEW a \in AlertIds
      PROVE  \E order \in [2..Len(past[a]) -> ActionsOf(a)] :
                /\ \A i, j \in DOMAIN order : order[i] = order[j] => i = j
                /\ \A x \in ActionsOf(a) : \E i \in DOMAIN order : order[i] = x
                /\ \A i \in DOMAIN order : order[i].status = past[a][i]
  <2>1. Len(past[a]) = 1 /\ ActionsOf(a) = {}
    BY DEF Init, ActionsOf
  <2>2. 2..Len(past[a]) = {}
    BY <2>1
  <2>3. [i \in {} |-> i] \in [2..Len(past[a]) -> ActionsOf(a)]
    BY <2>2
  <2> QED
    BY <2>1, <2>2, <2>3
<1>2. HistoryIsComplete
  BY <1>1 DEF HistoryIsComplete
<1>3. ChangesWereLegalOnce /\ AuditTellsActions
  BY DEF Init, ChangesWereLegalOnce, AuditTellsActions
<1> QED
  BY <1>2, <1>3 DEF Properties

(* What an update does to its alert.                                       *)
LEMMA UpdateAppends ==
    ASSUME IInv, NEW o \in Operators, Update(o), NEW a, a = calls[o].alert
    PROVE  /\ a \in AlertIds
           /\ past'[a] = Append(past[a], calls[o].after)
           /\ \A b \in AlertIds \ {a} : past'[b] = past[b]
           /\ ActionsOf(a)' = ActionsOf(a) \cup {Row(o)}
           /\ \A b \in AlertIds \ {a} : ActionsOf(b)' = ActionsOf(b)
           /\ Row(o) \notin ActionsOf(a)
           /\ Row(o).status = calls[o].after
           /\ calls[o].after \in AllowedTransitions[calls[o].before]
           /\ \E i \in 1..Len(past[a]) : past[a][i] = calls[o].before
           /\ past[a] \in Seq(AlertStatus) /\ Len(past[a]) \in Nat \ {0}
           /\ Len(past'[a]) = Len(past[a]) + 1
           /\ past'[a][Len(past[a]) + 1] = calls[o].after
           /\ \A i \in 1..Len(past[a]) : past'[a][i] = past[a][i]
<1>1. WasLegal(o) /\ Timed(o) /\ a \in AlertIds
  BY DEF IInv, CallsKnow, Update, WasLegal, Bound
<1>2. calls[o].after \in AlertStatus
  BY CallType DEF IInv
<1>3. past[a] \in Seq(AlertStatus) /\ Len(past[a]) \in Nat \ {0}
  BY <1>1, StatusType DEF IInv
<1>4. Row(o).alert = a /\ Row(o).createdAt = calls[o].createdAt
      /\ Row(o).status = calls[o].after
  BY DEF Row
<1>5. Row(o) \notin ActionsOf(a)
  BY <1>1, <1>4 DEF Timed
<1>6. /\ past' = [past EXCEPT ![a] = Append(@, calls[o].after)]
      /\ actions' = actions \cup {Row(o)}
  BY DEF Update
<1>7. /\ past'[a] = Append(past[a], calls[o].after)
      /\ \A b \in AlertIds \ {a} : past'[b] = past[b]
  BY <1>1, <1>6 DEF IInv, TypeOK
<1>8. /\ ActionsOf(a)' = ActionsOf(a) \cup {Row(o)}
      /\ \A b \in AlertIds \ {a} : ActionsOf(b)' = ActionsOf(b)
  BY <1>4, <1>6 DEF ActionsOf
<1>9. /\ Len(past'[a]) = Len(past[a]) + 1
      /\ past'[a][Len(past[a]) + 1] = calls[o].after
      /\ \A i \in 1..Len(past[a]) : past'[a][i] = past[a][i]
  BY <1>2, <1>3, <1>7
<1> QED
  BY <1>1, <1>3, <1>4, <1>5, <1>7, <1>8, <1>9 DEF WasLegal, Had

LEMMA StepHistory ==
    ASSUME IInv, [Next]_vars, HistoryIsComplete
    PROVE  HistoryIsComplete'
<1>1. ASSUME NEW o \in Operators, Update(o) PROVE HistoryIsComplete'
  <2> SUFFICES ASSUME NEW b \in AlertIds
               PROVE  \E order \in [2..Len(past'[b]) -> ActionsOf(b)'] :
                         /\ \A i, j \in DOMAIN order : order[i] = order[j] => i = j
                         /\ \A x \in ActionsOf(b)' : \E i \in DOMAIN order : order[i] = x
                         /\ \A i \in DOMAIN order : order[i].status = past'[b][i]
    BY DEF HistoryIsComplete
  <2>1. PICK order \in [2..Len(past[b]) -> ActionsOf(b)] :
            /\ \A i, j \in DOMAIN order : order[i] = order[j] => i = j
            /\ \A x \in ActionsOf(b) : \E i \in DOMAIN order : order[i] = x
            /\ \A i \in DOMAIN order : order[i].status = past[b][i]
    BY DEF HistoryIsComplete
  <2>2. CASE b # calls[o].alert
    <3>1. past'[b] = past[b] /\ ActionsOf(b)' = ActionsOf(b)
      BY <1>1, <2>2, UpdateAppends
    <3> QED
      BY <2>1, <3>1
  <2>3. CASE b = calls[o].alert
    <3> DEFINE n == Len(past[b])
               longer == [i \in 2..(n + 1) |-> IF i = n + 1 THEN Row(o) ELSE order[i]]
    <3>1. n \in Nat \ {0} /\ Len(past'[b]) = n + 1 /\ past'[b][n + 1] = calls[o].after
          /\ \A i \in 1..n : past'[b][i] = past[b][i]
      BY <1>1, <2>3, UpdateAppends
    <3>2. ActionsOf(b)' = ActionsOf(b) \cup {Row(o)} /\ Row(o) \notin ActionsOf(b)
          /\ Row(o).status = calls[o].after
      BY <1>1, <2>3, UpdateAppends
    <3>3. DOMAIN order = 2..n /\ DOMAIN longer = 2..(n + 1)
      BY <2>1
    <3>4. longer[n + 1] = Row(o) /\ \A i \in 2..n : longer[i] = order[i] /\ order[i] \in ActionsOf(b)
      BY <2>1, <3>1
    <3>5. \A i \in 2..(n + 1) : i = n + 1 \/ i \in 2..n
      BY <3>1
    <3>6. n + 1 \in 2..(n + 1) /\ \A i \in 2..n : i \in 2..(n + 1) /\ i \in 1..n
      BY <3>1
    <3>7. longer \in [2..(n + 1) -> ActionsOf(b)']
      BY <3>2, <3>4, <3>5
    <3>8. \A i, j \in DOMAIN longer : longer[i] = longer[j] => i = j
      BY <2>1, <3>2, <3>3, <3>4, <3>5
    <3>9. \A x \in ActionsOf(b)' : \E i \in DOMAIN longer : longer[i] = x
      BY <2>1, <3>2, <3>3, <3>4, <3>6
    <3>10. \A i \in DOMAIN longer : longer[i].status = past'[b][i]
      BY <2>1, <3>1, <3>2, <3>3, <3>4, <3>5, <3>6
    <3> HIDE DEF longer
    <3> QED
      BY <3>1, <3>7, <3>8, <3>9, <3>10
  <2> QED
    BY <2>2, <2>3
<1>2. CASE \A o \in Operators : ~Update(o)
  <2>1. UNCHANGED <<past, actions>>
    BY <1>2 DEF Next, vars, Check, Insert, Record, Abort
  <2>2. \A a \in AlertIds : past'[a] = past[a] /\ ActionsOf(a)' = ActionsOf(a)
    BY <2>1 DEF ActionsOf
  <2> SUFFICES ASSUME NEW b \in AlertIds
               PROVE  \E order \in [2..Len(past'[b]) -> ActionsOf(b)'] :
                         /\ \A i, j \in DOMAIN order : order[i] = order[j] => i = j
                         /\ \A x \in ActionsOf(b)' : \E i \in DOMAIN order : order[i] = x
                         /\ \A i \in DOMAIN order : order[i].status = past'[b][i]
    BY DEF HistoryIsComplete
  <2>3. past'[b] = past[b] /\ ActionsOf(b)' = ActionsOf(b)
    BY <2>2
  <2>4. PICK order \in [2..Len(past[b]) -> ActionsOf(b)] :
            /\ \A i, j \in DOMAIN order : order[i] = order[j] => i = j
            /\ \A x \in ActionsOf(b) : \E i \in DOMAIN order : order[i] = x
            /\ \A i \in DOMAIN order : order[i].status = past[b][i]
    BY DEF HistoryIsComplete
  <2> QED
    BY <2>3, <2>4
<1> QED
  BY <1>1, <1>2

LEMMA StepLegal ==
    ASSUME IInv, [Next]_vars, ChangesWereLegalOnce
    PROVE  ChangesWereLegalOnce'
<1>1. ASSUME NEW o \in Operators, Update(o) PROVE ChangesWereLegalOnce'
  <2> SUFFICES ASSUME NEW b \in AlertIds, NEW i \in 2..Len(past'[b])
               PROVE  \E j \in 1..(i - 1) : past'[b][i] \in AllowedTransitions[past'[b][j]]
    BY DEF ChangesWereLegalOnce
  <2>1. CASE b # calls[o].alert
    <3>1. past'[b] = past[b]
      BY <1>1, <2>1, UpdateAppends
    <3> QED
      BY <3>1 DEF ChangesWereLegalOnce
  <2>2. CASE b = calls[o].alert
    <3> DEFINE n == Len(past[b])
    <3>1. n \in Nat \ {0} /\ Len(past'[b]) = n + 1 /\ past'[b][n + 1] = calls[o].after
          /\ \A j \in 1..n : past'[b][j] = past[b][j]
      BY <1>1, <2>2, UpdateAppends
    <3>2. CASE i = n + 1
      <4>1. PICK j \in 1..n : past[b][j] = calls[o].before
        BY <1>1, <2>2, UpdateAppends
      <4>2. calls[o].after \in AllowedTransitions[calls[o].before]
        BY <1>1, UpdateAppends
      <4> QED
        BY <3>1, <3>2, <4>1, <4>2
    <3>3. CASE i \in 2..n
      <4>1. PICK j \in 1..(i - 1) : past[b][i] \in AllowedTransitions[past[b][j]]
        BY <3>3 DEF ChangesWereLegalOnce
      <4>2. i \in 1..n /\ j \in 1..n
        BY <3>1, <3>3
      <4>3. past'[b][i] = past[b][i] /\ past'[b][j] = past[b][j]
        BY <3>1, <4>2
      <4> QED
        BY <4>1, <4>3
    <3>4. i = n + 1 \/ i \in 2..n
      BY <3>1
    <3> QED
      BY <3>2, <3>3, <3>4
  <2> QED
    BY <2>1, <2>2
<1>2. CASE \A o \in Operators : ~Update(o)
  <2>1. UNCHANGED past
    BY <1>2 DEF Next, vars, Check, Insert, Record, Abort
  <2> QED
    BY <2>1 DEF ChangesWereLegalOnce
<1> QED
  BY <1>1, <1>2

LEMMA StepAudit ==
    ASSUME IInv, [Next]_vars, AuditTellsActions
    PROVE  AuditTellsActions'
<1>1. actions \subseteq actions'
  BY DEF Next, vars, Check, Insert, Update, Record, Abort
<1>2. ASSUME NEW e \in audit
      PROVE  /\ \E x \in ActionsOf(e.alert)' : x.actor = e.actor /\ x.status = e.after
             /\ Then(e.alert, e.before, e.after)'
  <2>1. e.alert \in AlertIds
    BY DEF IInv, TypeOK, AuditEntry
  <2>2. Then(e.alert, e.before, e.after)
    BY DEF AuditTellsActions, Then
  <2> QED
    BY <1>1, <2>1, <2>2, Keeps DEF IInv, AuditTellsActions, ActionsOf
<1>3. ASSUME NEW o \in Operators, Record(o), NEW e, e = Entry(o)
      PROVE  /\ \E x \in ActionsOf(e.alert)' : x.actor = e.actor /\ x.status = e.after
             /\ Then(e.alert, e.before, e.after)'
             /\ audit' = audit \cup {e}
  <2>1. Took(o) /\ UNCHANGED <<past, actions>> /\ audit' = audit \cup {Entry(o)}
    BY <1>3 DEF IInv, CallsKnow, Record
  <2>2. e.alert = calls[o].alert /\ e.before = calls[o].before
        /\ e.after = calls[o].after /\ e.actor = o
    BY <1>3 DEF Entry
  <2> QED
    BY <1>3, <2>1, <2>2 DEF Took, ActionsOf, Then
<1>4. (\A o \in Operators : ~Record(o)) => audit' = audit
  BY DEF Next, vars, Check, Insert, Update, Abort
<1>5. \A e \in audit' :
          /\ \E x \in ActionsOf(e.alert)' : x.actor = e.actor /\ x.status = e.after
          /\ Then(e.alert, e.before, e.after)'
  <2> SUFFICES ASSUME NEW e \in audit'
               PROVE  /\ \E x \in ActionsOf(e.alert)' : x.actor = e.actor /\ x.status = e.after
                      /\ Then(e.alert, e.before, e.after)'
    OBVIOUS
  <2>1. CASE e \in audit
    BY <1>2, <2>1
  <2>2. CASE e \notin audit
    <3>1. PICK o \in Operators : Record(o)
      BY <1>4, <2>2
    <3>2. e = Entry(o)
      BY <2>2, <3>1 DEF Record
    <3> QED
      BY <1>3, <3>1, <3>2
  <2> QED
    BY <2>1, <2>2
<1> QED
  BY <1>5 DEF AuditTellsActions, Then

LEMMA SpecProperties == Spec => []Properties
<1>1. IInv /\ Properties /\ [Next]_vars => Properties'
  BY StepHistory, StepLegal, StepAudit DEF Properties
<1> QED
  BY <1>1, InitProperties, CallsStayInformed, PTL DEF Spec

(* Every change of an alert has its own action and every committed action  *)
(* changed its alert, however decisions about it race or die.              *)
THEOREM HistoriesAreComplete == Spec => []HistoryIsComplete
<1>1. Properties => HistoryIsComplete
  BY DEF Properties
<1> QED
  BY <1>1, SpecProperties, PTL

(* Each change was legal from an earlier status of its alert.              *)
THEOREM ChangesAreLegalOnce == Spec => []ChangesWereLegalOnce
<1>1. Properties => ChangesWereLegalOnce
  BY DEF Properties
<1> QED
  BY <1>1, SpecProperties, PTL

(* The audit log tells of no decision that was not taken.                  *)
THEOREM AuditIsTrue == Spec => []AuditTellsActions
<1>1. Properties => AuditTellsActions
  BY DEF Properties
<1> QED
  BY <1>1, SpecProperties, PTL

=============================================================================
