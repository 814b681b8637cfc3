----------------------------- MODULE AlertProofs -----------------------------
(***************************************************************************)
(* Theorems about RateAlerts, for any alerts, terms, rates and calls.      *)
(***************************************************************************)
EXTENDS RateAlerts, TLAPS

-----------------------------------------------------------------------------
(* The inductive invariant. *)

\* The call c holds an object of a, to save it.
Holds(c, a) == pc[c] \in Holding /\ entity[c].id = a
\* The call c is about to tell the user of a.
Tells(c, a) == pc[c] = "mailing" /\ entity[c].id = a

\* Types; a row has a status, and so has the object that is going to be saved.
Typed ==
  /\ TypeOK
  /\ \A a \in Alerts : table[a].status = None => table[a] = NoRow
  /\ \A c \in Calls : pc[c] \in Holding => entity[c].row.status # None

Alone(a) == \A c, d \in Calls : Holds(c, a) /\ Holds(d, a) => c = d

CancelledRow(a) == [status |-> "cancelled", triggeredRate |-> table[a].triggeredRate]
TriggeredRow(a, rate) ==
  [status |-> IF terms[a].repeat THEN "active" ELSE "triggered", triggeredRate |-> rate]

\* The object of an alert's only holder is the row as it stands, with the holder's own
\* assignments, and so is the row that its save loads.
InStep(a) ==
  \A c \in Calls : Holds(c, a) =>
    /\ pc[c] = "checking" => entity[c].row = table[a] /\ table[a].status = "active"
    /\ pc[c] \in {"saving", "writing"} =>
         \/ entity[c].row = CancelledRow(a)
         \/ /\ table[a].status = "active"
            /\ \E rate \in Rates : /\ ConditionMet(rate, terms[a])
                                   /\ entity[c].row = TriggeredRow(a, rate)
    /\ pc[c] = "writing" => loaded[c] = table[a]

\* The rate in the row meets the condition, and is there when the user is told of one.
Recorded(a) ==
  /\ table[a].triggeredRate # NoRate => ConditionMet(table[a].triggeredRate, terms[a])
  /\ told[a] # 0 => table[a].triggeredRate # NoRate
  /\ \A c \in Calls : Tells(c, a) => table[a].triggeredRate # NoRate

\* An alert that does not repeat is not active once a call tells of it, or told.
Once(a) ==
  ~terms[a].repeat =>
    /\ told[a] <= 1
    /\ \A c \in Calls : Tells(c, a) => told[a] = 0 /\ \A d \in Calls : Tells(d, a) => d = c
    /\ table[a].status = "active" => told[a] = 0 /\ \A c \in Calls : ~Tells(c, a)

Serial(a) == Alone(a) /\ InStep(a) /\ Recorded(a) /\ Once(a)

IInv == Typed /\ \A a \in Alerts \ shared : Serial(a)

-----------------------------------------------------------------------------
(* What the steps have in common. *)

\* Every column of what a save writes is the object's or the row's, and a save whose
\* SELECT found the row as it still is writes the object.
LEMMA UpdatedColumns ==
  ASSUME NEW r \in Columns, NEW object \in Columns, NEW old \in Columns
  PROVE  /\ Updated(r, object, old) \in Columns
         /\ Updated(r, object, old).status \in {r.status, object.status}
         /\ Updated(r, object, r) = object
BY DEF Updated, Columns

\* What the calls assign to their objects.
LEMMA CancelledObject ==
  ASSUME Typed, NEW a \in Alerts
  PROVE  /\ Object(a) \in Objects /\ Object(a).id = a /\ Object(a).row = table[a]
         /\ [Object(a) EXCEPT !.row.status = "cancelled"] = [id |-> a, row |-> CancelledRow(a)]
         /\ [id |-> a, row |-> CancelledRow(a)] \in Objects
BY DEF Typed, TypeOK, Object, Objects, Columns, CancelledRow, Statuses

LEMMA TriggeredObject ==
  ASSUME NEW object \in Objects, NEW t, NEW rate \in Rates
  PROVE  /\ Triggered(object, t, rate) \in Objects
         /\ Triggered(object, t, rate).id = object.id
         /\ Triggered(object, t, rate).row =
              [status |-> IF t.repeat THEN "active" ELSE "triggered", triggeredRate |-> rate]
         /\ Triggered(object, t, rate).row.status # None
BY DEF Triggered, Objects, Columns, Statuses, None

LEMMA CheckedObject ==
  ASSUME Typed, NEW c \in Calls, NEW rate \in Rates
  PROVE  LET checked == Triggered(entity[c], terms[entity[c].id], rate)
         IN  checked \in Objects /\ checked.id = entity[c].id /\ checked.row.status # None
<1>1. entity[c] \in Objects
  BY DEF Typed, TypeOK
<1>. QED
  BY <1>1, TriggeredObject, ZenonT(30)

\* A save takes effect, and the call ends, or goes on to the mail.
TakesEffect(c) ==
  /\ pc[c] = "writing"
  /\ table' = TableWritten(c)
  /\ \/ pc' = [pc EXCEPT ![c] = "idle"] /\ entity' = [entity EXCEPT ![c] = NoObject]
     \/ /\ entity[c].row.status # "cancelled"
        /\ pc' = [pc EXCEPT ![c] = "mailing"] /\ entity' = entity
  /\ loaded' = [loaded EXCEPT ![c] = NoRow]
  /\ UNCHANGED <<terms, due, told, shared>>

LEMMA Saved ==
  ASSUME NEW c \in Calls, WriteRow(c) \/ SaveFails(c)
  PROVE  \/ TakesEffect(c)
         \/ /\ pc' = [pc EXCEPT ![c] = "idle"] /\ entity' = [entity EXCEPT ![c] = NoObject]
            /\ loaded' = [loaded EXCEPT ![c] = NoRow]
            /\ UNCHANGED <<terms, table, due, told, shared>>
BY Zenon DEF WriteRow, SaveFails, Leave, Goto, TakesEffect

LEMMA NoObjectType == NoObject \in Objects /\ NoRow \in Columns /\ NewRow \in Columns
BY DEF NoObject, Objects, NoRow, NewRow, NoRate, Columns, Statuses, None

LEMMA InitInv == Init => IInv
BY ConstantsAssumption DEF Init, IInv, Typed, TypeOK, Serial, Alone, InStep, Recorded, Once, Holds, Tells,
   Holding, Steps, Columns, NoRow, NoRate, NoTerms, NoObject, Objects, Statuses, None

\* A step that leaves the alert a alone, after which no call holds or mails it that did not
\* before, in the same way.
LEMMA Undisturbed ==
  ASSUME NEW a \in Alerts, Serial(a),
         UNCHANGED <<table[a], terms[a], told[a]>>,
         \A c \in Calls : \/ UNCHANGED <<pc[c], entity[c], loaded[c]>>
                          \/ ~(pc'[c] \in Holding \cup {"mailing"} /\ entity'[c].id = a)
  PROVE  Serial(a)'
<1> USE DEF Serial, Holds, Tells, Holding
<1>1. Alone(a)'
  BY DEF Alone
<1>2. InStep(a)'
  <2>1. \A c \in Calls : Holds(c, a)' => Holds(c, a) /\ UNCHANGED <<pc[c], entity[c], loaded[c]>>
    OBVIOUS
  <2>2. CancelledRow(a)' = CancelledRow(a) /\ \A rate \in Rates : TriggeredRow(a, rate)' = TriggeredRow(a, rate)
    BY DEF CancelledRow, TriggeredRow
  <2> SUFFICES ASSUME NEW d \in Calls, Holds(d, a)'
               PROVE  (/\ pc[d] = "checking" => entity[d].row = table[a] /\ table[a].status = "active"
                       /\ pc[d] \in {"saving", "writing"} =>
                            \/ entity[d].row = CancelledRow(a)
                            \/ /\ table[a].status = "active"
                               /\ \E rate \in Rates : /\ ConditionMet(rate, terms[a])
                                                      /\ entity[d].row = TriggeredRow(a, rate)
                       /\ pc[d] = "writing" => loaded[d] = table[a])'
    BY DEF InStep
  <2>. QED
    BY <2>1, <2>2 DEF InStep
<1>3. Recorded(a)'
  BY DEF Recorded
<1>4. Once(a)'
  BY DEF Once
<1>. QED
  BY <1>1, <1>2, <1>3, <1>4

LEMMA TypedInv ==
  ASSUME Typed, Next
  PROVE  Typed'
<1> USE NoObjectType DEF Typed, TypeOK, Holding, Goto
<1>1. ASSUME NEW a \in Alerts, NEW t \in Terms, CreateAlert(a, t)
      PROVE  Typed'
  BY <1>1 DEF CreateAlert, NewRow, NoRow, None
<1>2. ASSUME NEW c \in Calls, NEW a \in Alerts, CancelAlert(c, a)
      PROVE  Typed'
  <2>1. entity'[c] = [id |-> a, row |-> CancelledRow(a)] /\ entity' \in [Calls -> Objects]
    BY <1>2, CancelledObject DEF CancelAlert
  <2>. QED
    BY <1>2, <2>1 DEF CancelAlert, CancelledRow, Steps, None
<1>3. ASSUME NEW c \in Calls, NEW a \in Alerts, FindActiveAlert(c, a)
      PROVE  Typed'
  <2>1. entity'[c].id = a /\ entity'[c].row = table[a] /\ entity' \in [Calls -> Objects]
    BY <1>3, CancelledObject DEF FindActiveAlert
  <2>2. table[a] # NoRow /\ table[a].status # None
    BY <1>3 DEF FindActiveAlert, Checkable, NoRow, None
  <2>. QED
    BY <1>3, <2>1, <2>2 DEF FindActiveAlert, Steps
<1>4. ASSUME NEW c \in Calls, CheckAlert(c)
      PROVE  Typed'
  <2>1. PICK rate \in Rates :
          \/ /\ ConditionMet(rate, terms[entity[c].id])
             /\ entity' = [entity EXCEPT ![c] = Triggered(entity[c], terms[entity[c].id], rate)]
             /\ Goto(c, "saving")
          \/ /\ ~ConditionMet(rate, terms[entity[c].id])
             /\ entity' = [entity EXCEPT ![c] = NoObject]
             /\ Goto(c, "idle")
    BY <1>4 DEF CheckAlert, Leave
  <2>2. entity[c] \in Objects
    OBVIOUS
  <2>3. /\ entity' \in [Calls -> Objects]
        /\ pc'[c] = "saving" => entity'[c].id = entity[c].id /\ entity'[c].row.status # None
    BY <2>1, CheckedObject
  <2>. QED
    BY <1>4, <2>1, <2>3 DEF CheckAlert, Steps
<1>5. ASSUME NEW c \in Calls, LoadRow(c)
      PROVE  Typed'
  BY <1>5 DEF LoadRow, Steps
<1>6. ASSUME NEW c \in Calls, WriteRow(c) \/ SaveFails(c)
      PROVE  Typed'
  <2>1. CASE TakesEffect(c)
    <3>1. entity[c].id \in Alerts /\ entity[c].row \in Columns
      BY <2>1 DEF TakesEffect, Objects
    <3>. QED
      BY <2>1, <3>1, UpdatedColumns, SMTT(30) DEF TakesEffect, TableWritten, Steps, NoRow, None
  <2>. QED
    BY <1>6, <2>1, Saved DEF Steps
<1>7. ASSUME NEW c \in Calls, SendAlertNotification(c)
      PROVE  Typed'
  BY <1>7 DEF SendAlertNotification, Leave, Steps
<1>8. ASSUME NEW a \in Alerts, BecomeDue(a)
      PROVE  Typed'
  BY <1>8 DEF BecomeDue
<1>9. CASE ExpireOldAlerts
  <2>1. \A a \in Alerts : /\ table'[a] \in Columns
                          /\ table'[a].status = None => table'[a] = table[a]
                          /\ table[a] # NoRow => table'[a] # NoRow
    BY <1>9 DEF ExpireOldAlerts, Expirable, Columns, NoRow, Statuses, None
  <2>2. table' \in [Alerts -> Columns]
    BY <1>9, <2>1 DEF ExpireOldAlerts
  <2>3. shared' \subseteq Alerts /\ UNCHANGED <<terms, due, pc, entity, loaded, told>>
    BY <1>9, ConstantsAssumption DEF ExpireOldAlerts, Expirable
  <2>. QED
    BY <2>1, <2>2, <2>3, ConstantsAssumption
<1>. QED
  BY <1>1, <1>2, <1>3, <1>4, <1>5, <1>6, <1>7, <1>8, <1>9 DEF Next, Continue

-----------------------------------------------------------------------------
(* The steps, seen from an alert that is still not shared after them. *)

\* A call that begins is the only holder, if the alert does not count as shared.
LEMMA BeginInv ==
  ASSUME Typed, NEW a \in Alerts \ shared', Serial(a), NEW c \in Calls, NEW b \in Alerts,
         CancelAlert(c, b) \/ FindActiveAlert(c, b)
  PROVE  Serial(a)'
<1> USE DEF Typed, TypeOK, Goto
<1>0. \/ pc'[c] = "saving" /\ entity'[c].id = b /\ entity'[c].row = CancelledRow(b)
      \/ /\ pc'[c] = "checking" /\ entity'[c].id = b
         /\ entity'[c].row = table[b] /\ table[b].status = "active"
  <2>1. CASE CancelAlert(c, b)
    <3>1. entity'[c] = [id |-> b, row |-> CancelledRow(b)]
      BY <2>1, CancelledObject DEF CancelAlert
    <3>. QED
      BY <2>1, <3>1 DEF CancelAlert
  <2>2. CASE FindActiveAlert(c, b)
    BY <2>2, CancelledObject DEF FindActiveAlert, Checkable
  <2>. QED
    BY <2>1, <2>2
<1>1. CASE a # b
  <2>1. entity'[c].id = b
    BY <1>0
  <2>. QED
    BY <1>1, <2>1, Undisturbed DEF CancelAlert, FindActiveAlert
<1>2. CASE a = b
  <2>1. \A d \in Calls : ~Holds(d, a)
    BY <1>2 DEF CancelAlert, FindActiveAlert, Held, Holds
  <2>2. /\ entity'[c].id = a
        /\ \/ pc'[c] = "saving" /\ entity'[c].row = CancelledRow(a)
           \/ pc'[c] = "checking" /\ entity'[c].row = table[a] /\ table[a].status = "active"
    BY <1>0, <1>2
  <2>3. /\ UNCHANGED <<table, terms, told, loaded>>
        /\ \A d \in Calls \ {c} : UNCHANGED <<pc[d], entity[d]>>
    BY DEF CancelAlert, FindActiveAlert
  <2>4. \A d \in Calls : Tells(d, a)' => Tells(d, a)
    BY <2>2, <2>3 DEF Tells
  <2>5. \A d \in Calls : Holds(d, a)' => d = c
    BY <2>1, <2>3 DEF Holds
  <2>6. Alone(a)'
    BY <2>5 DEF Alone
  <2>7. InStep(a)'
    BY <2>2, <2>3, <2>5 DEF InStep, CancelledRow
  <2>8. Recorded(a)' /\ Once(a)'
    BY <2>3, <2>4 DEF Serial, Recorded, Once
  <2>. QED
    BY <2>6, <2>7, <2>8 DEF Serial
<1>. QED
  BY <1>1, <1>2

LEMMA CheckInv ==
  ASSUME Typed, NEW a \in Alerts, Serial(a), NEW c \in Calls, CheckAlert(c)
  PROVE  Serial(a)'
<1> USE DEF Typed, TypeOK, Goto
<1>1. PICK rate \in Rates :
        \/ /\ ConditionMet(rate, terms[entity[c].id])
           /\ entity' = [entity EXCEPT ![c] = Triggered(entity[c], terms[entity[c].id], rate)]
           /\ Goto(c, "saving")
        \/ /\ ~ConditionMet(rate, terms[entity[c].id])
           /\ entity' = [entity EXCEPT ![c] = NoObject]
           /\ Goto(c, "idle")
  BY DEF CheckAlert, Leave
<1>2. /\ pc[c] = "checking" /\ UNCHANGED <<table, terms, told, loaded>>
      /\ \A d \in Calls \ {c} : UNCHANGED <<pc[d], entity[d]>>
  BY <1>1 DEF CheckAlert
<1>3. CASE entity[c].id = a /\ ConditionMet(rate, terms[a])
  <2>1. entity[c] \in Objects
    OBVIOUS
  <2>2. pc'[c] = "saving" /\ entity'[c].id = a /\ entity'[c].row = TriggeredRow(a, rate)
    BY <1>1, <1>3, <2>1, TriggeredObject DEF TriggeredRow
  <2>3. Holds(c, a) /\ table[a].status = "active"
    BY <1>2, <1>3 DEF Holds, Holding, Serial, InStep
  <2>4. \A d \in Calls : (Holds(d, a)' => d = c) /\ (Tells(d, a)' => Tells(d, a))
    BY <1>2, <2>2, <2>3 DEF Serial, Alone, Holds, Tells
  <2>5. Alone(a)'
    BY <2>4 DEF Alone
  <2>6. InStep(a)'
    BY <1>2, <1>3, <2>2, <2>3, <2>4 DEF InStep, TriggeredRow
  <2>7. Recorded(a)' /\ Once(a)'
    BY <1>2, <2>4 DEF Serial, Recorded, Once
  <2>. QED
    BY <2>5, <2>6, <2>7 DEF Serial
<1>4. CASE entity[c].id # a \/ ~ConditionMet(rate, terms[a])
  <2>1. entity[c] \in Objects
    OBVIOUS
  <2>2. pc'[c] = "idle" \/ (entity'[c].id = entity[c].id /\ ConditionMet(rate, terms[entity[c].id]))
    BY <1>1, CheckedObject
  <2>3. ~(pc'[c] \in Holding \cup {"mailing"} /\ entity'[c].id = a)
    BY <1>4, <2>2 DEF Holding
  <2>. QED
    BY <1>2, <2>3, Undisturbed
<1>. QED
  BY <1>3, <1>4

LEMMA LoadInv ==
  ASSUME Typed, NEW a \in Alerts, Serial(a), NEW c \in Calls, LoadRow(c)
  PROVE  Serial(a)'
<1> USE DEF Typed, TypeOK, Goto, LoadRow
<1>1. CASE entity[c].id # a
  BY <1>1, Undisturbed
<1>2. CASE entity[c].id = a
  <2>1. Holds(c, a) /\ pc[c] = "saving" /\ pc'[c] = "writing" /\ loaded'[c] = table[a]
    BY <1>2 DEF Holds, Holding
  <2>2. \A d \in Calls : (Holds(d, a)' => d = c) /\ (Tells(d, a)' => Tells(d, a))
    BY <2>1 DEF Serial, Alone, Holds, Tells
  <2>3. Alone(a)'
    BY <2>2 DEF Alone
  <2>4. InStep(a)'
    BY <2>1, <2>2 DEF Serial, InStep, CancelledRow, TriggeredRow
  <2>5. Recorded(a)' /\ Once(a)'
    BY <2>2 DEF Serial, Recorded, Once
  <2>. QED
    BY <2>3, <2>4, <2>5 DEF Serial
<1>. QED
  BY <1>1, <1>2

\* What the save of an alert's only holder writes.
LEMMA WrittenRow ==
  ASSUME Typed, NEW a \in Alerts, Serial(a), NEW c \in Calls, TakesEffect(c), entity[c].id = a
  PROVE  \/ table'[a] = CancelledRow(a) /\ pc'[c] = "idle"
         \/ /\ table[a].status = "active"
            /\ \E rate \in Rates : /\ ConditionMet(rate, terms[a])
                                   /\ table'[a] = TriggeredRow(a, rate)
            /\ pc'[c] \in {"mailing", "idle"}
<1> USE DEF Typed, TypeOK, Goto
<1>1. Holds(c, a) /\ pc[c] = "writing"
  BY DEF TakesEffect, Holds, Holding
<1>2. loaded[c] = table[a] /\ entity[c].row \in Columns
  BY <1>1 DEF Serial, InStep, Objects
<1>3. table'[a] = entity[c].row
  BY <1>2, UpdatedColumns DEF TakesEffect, TableWritten
<1>4. pc'[c] \in {"mailing", "idle"} /\ (entity[c].row.status = "cancelled" => pc'[c] = "idle")
  BY DEF TakesEffect
<1>5. \/ entity[c].row = CancelledRow(a)
      \/ /\ table[a].status = "active"
         /\ \E rate \in Rates : /\ ConditionMet(rate, terms[a])
                                /\ entity[c].row = TriggeredRow(a, rate)
  BY <1>1 DEF Serial, InStep
<1>6. CancelledRow(a).status = "cancelled"
  BY DEF CancelledRow
<1>. QED
  BY <1>3, <1>4, <1>5, <1>6

LEMMA EffectInv ==
  ASSUME Typed, NEW a \in Alerts, Serial(a), NEW c \in Calls, TakesEffect(c)
  PROVE  Serial(a)'
<1> USE DEF Typed, TypeOK, Goto
<1>1. CASE entity[c].id # a
  <2>1. UNCHANGED <<table[a], terms[a], told[a]>>
    BY <1>1 DEF TakesEffect, TableWritten
  <2>2. pc'[c] = "idle" \/ entity'[c].id = entity[c].id
    BY DEF TakesEffect
  <2>3. ~(pc'[c] \in Holding \cup {"mailing"} /\ entity'[c].id = a)
    BY <1>1, <2>2 DEF Holding
  <2>4. \A d \in Calls \ {c} : UNCHANGED <<pc[d], entity[d], loaded[d]>>
    BY DEF TakesEffect
  <2>. QED
    BY <2>1, <2>3, <2>4, Undisturbed
<1>2. CASE entity[c].id = a
  <2>1. \A d \in Calls : ~Holds(d, a)'
    BY <1>2, WrittenRow DEF TakesEffect, Serial, Alone, Holds, Holding
  <2>2. \A d \in Calls : Tells(d, a)' => Tells(d, a) \/ (d = c /\ pc'[c] = "mailing")
    BY DEF TakesEffect, Tells
  <2>3. UNCHANGED <<terms, told>>
    BY DEF TakesEffect
  <2>4. Alone(a)' /\ InStep(a)'
    BY <2>1 DEF Alone, InStep
  <2>5. CASE table'[a] = CancelledRow(a) /\ pc'[c] = "idle"
    <3>1. table'[a].triggeredRate = table[a].triggeredRate /\ table'[a].status # "active"
      BY <2>5 DEF CancelledRow
    <3>2. Recorded(a)' /\ Once(a)'
      BY <2>2, <2>3, <2>5, <3>1 DEF Serial, Recorded, Once
    <3>. QED
      BY <2>4, <3>2 DEF Serial
  <2>6. CASE /\ table[a].status = "active"
             /\ \E rate \in Rates : /\ ConditionMet(rate, terms[a])
                                    /\ table'[a] = TriggeredRow(a, rate)
    <3>1. PICK rate \in Rates : ConditionMet(rate, terms[a]) /\ table'[a] = TriggeredRow(a, rate)
      BY <2>6
    <3>2. /\ table'[a].triggeredRate = rate
          /\ ~terms[a].repeat => table'[a].status # "active"
      BY <3>1 DEF TriggeredRow
    <3>3. rate # NoRate
      BY ConstantsAssumption DEF NoRate
    <3>4. Recorded(a)'
      BY <2>3, <3>1, <3>2, <3>3 DEF Recorded
    <3>5. Once(a)'
      BY <2>2, <2>3, <2>6, <3>2 DEF Serial, Once
    <3>. QED
      BY <2>4, <3>4, <3>5 DEF Serial
  <2>. QED
    BY <1>2, <2>5, <2>6, WrittenRow
<1>. QED
  BY <1>1, <1>2

LEMMA SaveInv ==
  ASSUME Typed, NEW a \in Alerts, Serial(a), NEW c \in Calls, WriteRow(c) \/ SaveFails(c)
  PROVE  Serial(a)'
<1>1. CASE TakesEffect(c)
  BY <1>1, EffectInv
<1>2. CASE /\ pc' = [pc EXCEPT ![c] = "idle"] /\ entity' = [entity EXCEPT ![c] = NoObject]
           /\ loaded' = [loaded EXCEPT ![c] = NoRow]
           /\ UNCHANGED <<terms, table, due, told, shared>>
  BY <1>2, Undisturbed DEF Typed, TypeOK, Holding
<1>. QED
  BY <1>1, <1>2, Saved

LEMMA SendInv ==
  ASSUME Typed, NEW a \in Alerts, Serial(a), NEW c \in Calls, SendAlertNotification(c)
  PROVE  Serial(a)'
<1> USE DEF Typed, TypeOK, Goto, Leave, SendAlertNotification
<1>1. CASE entity[c].id # a
  BY <1>1, Undisturbed DEF Holding
<1>2. CASE entity[c].id = a
  <2>1. Tells(c, a)
    BY <1>2 DEF Tells
  <2>2. \A d \in Calls : /\ Holds(d, a)' => Holds(d, a) /\ UNCHANGED <<pc[d], entity[d], loaded[d]>>
                         /\ Tells(d, a)' => Tells(d, a) /\ d # c
    BY DEF Holds, Tells, Holding
  <2>3. Alone(a)'
    BY <2>2 DEF Serial, Alone
  <2>4. InStep(a)'
    BY <2>2 DEF Serial, InStep, CancelledRow, TriggeredRow
  <2>5. UNCHANGED <<table, terms>> /\ told'[a] \in {told[a], IF told[a] = 0 THEN 1 ELSE 2}
    BY <1>2
  <2>6. Recorded(a)'
    BY <2>1, <2>2, <2>5 DEF Serial, Recorded
  <2>7. Once(a)'
    <3>1. CASE terms[a].repeat
      BY <2>5, <3>1 DEF Once
    <3>2. CASE ~terms[a].repeat
      <4>1. told[a] = 0 /\ table[a].status # "active" /\ \A d \in Calls : Tells(d, a) => d = c
        BY <2>1, <3>2 DEF Serial, Once
      <4>2. told'[a] \in {0, 1} /\ \A d \in Calls : ~Tells(d, a)'
        BY <2>2, <2>5, <4>1
      <4>. QED
        BY <2>5, <4>1, <4>2 DEF Once
    <3>. QED
      BY <3>1, <3>2
  <2>. QED
    BY <2>3, <2>4, <2>6, <2>7 DEF Serial
<1>. QED
  BY <1>1, <1>2

LEMMA CreateInv ==
  ASSUME Typed, NEW a \in Alerts, Serial(a), NEW b \in Alerts, NEW t \in Terms, CreateAlert(b, t)
  PROVE  Serial(a)'
<1> USE DEF Typed, TypeOK, CreateAlert
<1>1. CASE a # b
  BY <1>1, Undisturbed
<1>2. CASE a = b
  <2>1. table[a].triggeredRate = NoRate /\ table'[a].triggeredRate = NoRate
    BY <1>2 DEF NoRow, NewRow
  <2>2. \A c \in Calls : ~Holds(c, a)' /\ ~Tells(c, a)'
    BY <1>2, <2>1 DEF Serial, Recorded, Holds, Tells
  <2>. QED
    BY <2>1, <2>2 DEF Serial, Alone, InStep, Recorded, Once
<1>. QED
  BY <1>1, <1>2

LEMMA ExpireInv ==
  ASSUME Typed, NEW a \in Alerts \ shared', Serial(a), ExpireOldAlerts
  PROVE  Serial(a)'
<1> USE DEF Typed, TypeOK, ExpireOldAlerts
<1>1. CASE a \notin Expirable
  BY <1>1, Undisturbed
<1>2. CASE a \in Expirable
  <2>1. \A c \in Calls : ~Holds(c, a)' /\ (Tells(c, a)' => Tells(c, a))
    BY <1>2 DEF Held, Holds, Tells
  <2>2. table'[a].status = "expired" /\ table'[a].triggeredRate = table[a].triggeredRate
    BY <1>2 DEF Columns
  <2>. QED
    BY <2>1, <2>2 DEF Serial, Alone, InStep, Recorded, Once
<1>. QED
  BY <1>1, <1>2

LEMMA SerialInv ==
  ASSUME Typed, NEW a \in Alerts \ shared', Serial(a), Next
  PROVE  Serial(a)'
<1>1. ASSUME NEW b \in Alerts, BecomeDue(b)
      PROVE  Serial(a)'
  BY <1>1, Undisturbed DEF BecomeDue
<1>. QED
  BY <1>1, BeginInv, CheckInv, LoadInv, SaveInv, SendInv, CreateInv, ExpireInv
     DEF Next, Continue

\* An alert that was shared stays so.
LEMMA SharedGrows ==
  ASSUME Next
  PROVE  shared \subseteq shared'
BY DEF Next, Continue, CreateAlert, CancelAlert, FindActiveAlert, CheckAlert, LoadRow, WriteRow,
       SaveFails, SendAlertNotification, BecomeDue, ExpireOldAlerts

LEMMA InductiveInvariant == Spec => []IInv
<1>1. IInv /\ Next => IInv'
  BY TypedInv, SerialInv, SharedGrows DEF IInv
<1>2. IInv /\ UNCHANGED vars => IInv'
  <2> SUFFICES ASSUME IInv, UNCHANGED vars PROVE IInv'
    OBVIOUS
  <2> USE DEF IInv, vars
  <2>1. Typed'
    BY DEF Typed, TypeOK
  <2>2. \A a \in Alerts \ shared' : Serial(a)'
    BY Undisturbed
  <2>. QED
    BY <2>1, <2>2
<1>. QED
  BY InitInv, <1>1, <1>2, PTL DEF Spec

-----------------------------------------------------------------------------
(* The theorems. *)

\* Types: what a call holds is always an alert that exists.
THEOREM TypeCorrect == Spec => []TypeOK
<1>1. IInv => TypeOK
  BY DEF IInv, Typed
<1>. QED
  BY InductiveInvariant, <1>1, PTL

\* However long the sequence of checks and cancellations, an alert that does not repeat
\* tells its user once, unless two calls, or a call and the cron job, held it at once.
THEOREM OneShotAlertsTellOnce == Spec => []OneShotTellsOnce
<1>1. IInv => OneShotTellsOnce
  BY DEF IInv, Serial, Once, OneShotTellsOnce
<1>. QED
  BY InductiveInvariant, <1>1, PTL

\* What a user was told is in the row, at a rate that meets the alert's condition, for any
\* rates and tolerance.
THEOREM ToldRatesAreRecorded == Spec => []ToldIsRecorded
<1>1. IInv => ToldIsRecorded
  BY DEF IInv, Serial, Recorded, ToldIsRecorded
<1>. QED
  BY InductiveInvariant, <1>1, PTL

\* Only overlapping calls revive an alert that is triggered, cancelled or expired.
THEOREM SerialAlertsGoTheirWay == Spec => SerialLifecycle
<1>1. ASSUME IInv, Next, NEW a \in Alerts \ shared', table'[a].status # table[a].status
      PROVE  <<table[a].status, table'[a].status>> \in Moves
  <2> USE DEF Moves
  <2>1. Typed /\ Serial(a)
    BY <1>1, SharedGrows DEF IInv
  <2>2. ASSUME NEW b \in Alerts, NEW t \in Terms, CreateAlert(b, t)
        PROVE  <<table[a].status, table'[a].status>> \in Moves
    BY <1>1, <2>1, <2>2 DEF Typed, TypeOK, CreateAlert, NoRow, NewRow, None
  <2>3. ASSUME NEW c \in Calls, TakesEffect(c)
        PROVE  <<table[a].status, table'[a].status>> \in Moves
    <3>1. entity[c].id = a
      BY <1>1, <2>1, <2>3 DEF TakesEffect, TableWritten, Typed, TypeOK
    <3>2. table[a].status \in Statuses
      <4>1. table[a] # NoRow
        BY <2>1, <2>3, <3>1 DEF Typed, TypeOK, TakesEffect, Holding
      <4>2. table[a].status # None
        BY <2>1, <4>1 DEF Typed
      <4>. QED
        BY <2>1, <4>2 DEF Typed, TypeOK, Columns
    <3>3. CASE table'[a] = CancelledRow(a)
      <4>1. table'[a].status = "cancelled"
        BY <3>3 DEF CancelledRow
      <4>. QED
        BY <1>1, <3>2, <4>1 DEF Statuses
    <3>4. CASE table[a].status = "active" /\ \E rate \in Rates : table'[a] = TriggeredRow(a, rate)
      <4>1. table'[a].status \in {"active", "triggered"}
        BY <3>4 DEF TriggeredRow
      <4>. QED
        BY <1>1, <3>4, <4>1
    <3>. QED
      BY <2>1, <2>3, <3>1, <3>3, <3>4, WrittenRow
  <2>4. CASE ExpireOldAlerts
    BY <1>1, <2>1, <2>4 DEF Typed, TypeOK, ExpireOldAlerts, Expirable, Columns
  <2>5. CASE UNCHANGED table
    BY <1>1, <2>5
  <2>6. \A c \in Calls : WriteRow(c) \/ SaveFails(c) => TakesEffect(c) \/ UNCHANGED table
    BY Saved
  <2>. QED
    BY <1>1, <2>2, <2>3, <2>4, <2>5, <2>6
       DEF Next, Continue, CancelAlert, FindActiveAlert, CheckAlert, LoadRow,
           SendAlertNotification, BecomeDue
<1>2. IInv /\ [Next]_vars =>
        [\A a \in Alerts \ shared' :
           table'[a].status # table[a].status
             => <<table[a].status, table'[a].status>> \in Moves]_vars
  BY <1>1
<1>. QED
  BY InductiveInvariant, <1>2, PTL DEF Spec, SerialLifecycle
=============================================================================
