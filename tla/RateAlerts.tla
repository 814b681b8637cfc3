----------------------------- MODULE RateAlerts -----------------------------
(***************************************************************************)
(* RateAlertService of the transaction micro-service: a user's alerts on   *)
(* the rate of a currency pair, the check that triggers them, and the cron *)
(* job that expires them.                                                  *)
(*                                                                         *)
(* A call c runs cancelAlert, or checkAlert with a rate that meets the     *)
(* alert's condition or does not, and then the next, without end.  The     *)
(* save of either is that of LimitOrders: a SELECT, then an UPDATE of the  *)
(* columns in which the object differs from the row the SELECT found; and  *)
(* one that fails may have been committed all the same.                    *)
(*                                                                         *)
(* Rates are integers, in a unit in which the tolerance of EQUALS is       *)
(* Tolerance.  The pass over the active alerts, checkAllActiveAlerts, only *)
(* counts them, since the code that would fetch rates is disabled; what it *)
(* is to do is modelled by a caller of checkAlert that read an active      *)
(* alert.                                                                  *)
(***************************************************************************)
EXTENDS Integers

CONSTANTS
  Alerts,      \* the alerts, not created yet
  Terms,       \* what may be asked of createAlert: target, condition, repeat, notify
  Expiring,    \* the alerts created with an expiresAt
  Rates,       \* the rates checkAlert is called with
  Tolerance,   \* 0.0001
  Calls        \* bound: the calls of cancelAlert and checkAlert under way at once

Conditions == {"above", "below", "equals"}

ASSUME ConstantsAssumption ==
  /\ Rates \subseteq Nat \ {0}
  /\ Terms \subseteq [target : Nat, condition : Conditions,
                      repeat : BOOLEAN, notify : BOOLEAN]
  /\ Tolerance \in Nat \ {0}
  /\ Expiring \subseteq Alerts

VARIABLES
  terms,     \* the columns of each alert that nothing changes
  table,     \* the other columns of its row
  due,       \* the alerts whose expiresAt has passed
  pc,        \* where each call stands
  entity,    \* the RateAlert object each call works on
  loaded,    \* the row the SELECT of its save found
  told,      \* history: how often the user was mailed, 2 standing for more, too
  shared     \* history: alerts read, or expired, while a call held them

vars == <<terms, table, due, pc, entity, loaded, told, shared>>

-----------------------------------------------------------------------------

Statuses == {"active", "triggered", "cancelled", "expired"}
None == "none"
NoRate == 0
NoTerms == [target |-> 0, condition |-> None, repeat |-> FALSE, notify |-> FALSE]

\* triggeredRate stands for triggeredAt too: they are set together.
Columns == [status : Statuses \cup {None}, triggeredRate : Rates \cup {NoRate}]
NoRow == [status |-> None, triggeredRate |-> NoRate]
NewRow == [status |-> "active", triggeredRate |-> NoRate]

\* A RateAlert object: the columns as last read or assigned.
Object(a) == [id |-> a, row |-> table[a]]
NoObject == [id |-> None, row |-> NoRow]
Objects == [id : Alerts \cup {None}, row : Columns]

\* The steps at which a call holds an object that it may save, and all.
Holding == {"checking", "saving", "writing"}
Steps == Holding \cup {"idle", "mailing"}

Init ==
  /\ terms = [a \in Alerts |-> NoTerms]
  /\ table = [a \in Alerts |-> NoRow]
  /\ due = {}
  /\ pc = [c \in Calls |-> "idle"]
  /\ entity = [c \in Calls |-> NoObject]
  /\ loaded = [c \in Calls |-> NoRow]
  /\ told = [a \in Alerts |-> 0]
  /\ shared = {}

Goto(c, step) == pc' = [pc EXCEPT ![c] = step]

\* The call returns or throws, and drops its object.
Leave(c) ==
  /\ Goto(c, "idle")
  /\ entity' = [entity EXCEPT ![c] = NoObject]

\* The alerts that some call has an object of, to save it.
Held == {entity[c].id : c \in {d \in Calls : pc[d] \in Holding}}

-----------------------------------------------------------------------------
(* createAlert, cancelAlert. *)

CreateAlert(a, t) ==
  /\ table[a] = NoRow
  /\ terms' = [terms EXCEPT ![a] = t]
  /\ table' = [table EXCEPT ![a] = NewRow]
  /\ UNCHANGED <<due, pc, entity, loaded, told, shared>>

\* A mutant of CancelAlert: an alert that is not found is cancelled all the same.
CancelAlertMutant(c, a) ==
  /\ pc[c] = "idle"
  /\ entity' = [entity EXCEPT ![c] = [Object(a) EXCEPT !.row.status = "cancelled"]]
  /\ shared' = shared \cup (Held \cap {a})
  /\ Goto(c, "saving")
  /\ UNCHANGED <<terms, table, due, loaded, told>>
\* The alert is found whatever its status.
CancelAlert(c, a) ==
  /\ pc[c] = "idle"
  /\ table[a] # NoRow
  /\ entity' = [entity EXCEPT ![c] = [Object(a) EXCEPT !.row.status = "cancelled"]]
  /\ shared' = shared \cup (Held \cap {a})
  /\ Goto(c, "saving")
  /\ UNCHANGED <<terms, table, due, loaded, told>>

-----------------------------------------------------------------------------
(* checkAlert, triggerAlert. *)

\* checkAlertCondition; |rate - target| < Tolerance.
ConditionMet(rate, t) ==
  CASE t.condition = "above" -> rate > t.target
    [] t.condition = "below" -> rate < t.target
    [] t.condition = "equals" -> rate - t.target \in (1 - Tolerance) .. (Tolerance - 1)
    [] OTHER -> FALSE

\* A mutant of Checkable: alerts are checked again whatever became of them.
CheckableMutant(a) == table[a] # NoRow
\* The condition status: ACTIVE of the query that finds the alerts to check.
Checkable(a) == table[a].status = "active"

\* A mutant of Triggered: the alert stays active, as if it repeated.
TriggeredMutant(object, t, rate) == [object EXCEPT !.row.triggeredRate = rate]
\* The object of an alert with terms t after triggerAlert's assignments.
Triggered(object, t, rate) ==
  [object EXCEPT !.row = [status |-> IF t.repeat THEN "active" ELSE "triggered",
                          triggeredRate |-> rate]]

\* A caller reads an active alert and goes for the pair's rate.
FindActiveAlert(c, a) ==
  /\ pc[c] = "idle"
  /\ Checkable(a)
  /\ entity' = [entity EXCEPT ![c] = Object(a)]
  /\ shared' = shared \cup (Held \cap {a})
  /\ Goto(c, "checking")
  /\ UNCHANGED <<terms, table, due, loaded, told>>

\* It hands both to checkAlert.
CheckAlert(c) ==
  /\ pc[c] = "checking"
  /\ \E rate \in Rates :
       LET t == terms[entity[c].id]
       IN  IF ConditionMet(rate, t)
           THEN /\ entity' = [entity EXCEPT ![c] = Triggered(@, t, rate)]
                /\ Goto(c, "saving")
           ELSE Leave(c)
  /\ UNCHANGED <<terms, table, due, loaded, told, shared>>

-----------------------------------------------------------------------------
(* save, and what follows it. *)

LoadRow(c) ==
  /\ pc[c] = "saving"
  /\ loaded' = [loaded EXCEPT ![c] = table[entity[c].id]]
  /\ Goto(c, "writing")
  /\ UNCHANGED <<terms, table, due, entity, told, shared>>

\* The row r after the columns that differ between the object and the loaded row have
\* been written.
Updated(r, object, old) ==
  [f \in DOMAIN r |-> IF object[f] # old[f] THEN object[f] ELSE r[f]]

\* The table after the UPDATE of c.
TableWritten(c) ==
  [table EXCEPT ![entity[c].id] = Updated(@, entity[c].row, loaded[c])]

\* A cancellation ends; a trigger goes on to the mail, if one is wanted.
WriteRow(c) ==
  /\ pc[c] = "writing"
  /\ table' = TableWritten(c)
  /\ IF entity[c].row.status # "cancelled" /\ terms[entity[c].id].notify
     THEN Goto(c, "mailing") /\ UNCHANGED entity
     ELSE Leave(c)
  /\ loaded' = [loaded EXCEPT ![c] = NoRow]
  /\ UNCHANGED <<terms, due, told, shared>>

\* A mutant of SaveFails: the error is swallowed and the mail is sent all the same.
SaveFailsMutant(c) ==
  /\ pc[c] \in {"saving", "writing"}
  /\ loaded' = [loaded EXCEPT ![c] = NoRow]
  /\ Goto(c, "mailing")
  /\ UNCHANGED <<terms, table, due, entity, told, shared>>
\* Either statement fails, the UPDATE perhaps committed: nothing catches the error, and
\* there is no mail.
SaveFails(c) ==
  /\ pc[c] \in {"saving", "writing"}
  /\ \/ UNCHANGED table
     \/ pc[c] = "writing" /\ table' = TableWritten(c)
  /\ loaded' = [loaded EXCEPT ![c] = NoRow]
  /\ Leave(c)
  /\ UNCHANGED <<terms, due, told, shared>>

\* sendAlertNotification: an error is logged and forgotten.
SendAlertNotification(c) ==
  /\ pc[c] = "mailing"
  /\ \/ told' = [told EXCEPT ![entity[c].id] = IF @ = 0 THEN 1 ELSE 2]
     \/ UNCHANGED told
  /\ Leave(c)
  /\ UNCHANGED <<terms, table, due, loaded, shared>>

-----------------------------------------------------------------------------
(* expireOldAlerts. *)

\* expiresAt of an alert passes.
BecomeDue(a) ==
  /\ a \in Expiring \ due
  /\ table[a] # NoRow
  /\ due' = due \cup {a}
  /\ UNCHANGED <<terms, table, pc, entity, loaded, told, shared>>

\* A mutant of Expirable: alerts that were triggered once are left out.
ExpirableMutant == {a \in due : table[a] = NewRow}
Expirable == {a \in due : table[a].status = "active"}

\* One UPDATE with its condition, hourly.
ExpireOldAlerts ==
  /\ Expirable # {}
  /\ table' = [a \in Alerts |->
                IF a \in Expirable THEN [table[a] EXCEPT !.status = "expired"] ELSE table[a]]
  /\ shared' = shared \cup (Held \cap Expirable)
  /\ UNCHANGED <<terms, due, pc, entity, loaded, told>>

-----------------------------------------------------------------------------

Continue(c) ==
  \/ CheckAlert(c)
  \/ LoadRow(c)
  \/ WriteRow(c)
  \/ SaveFails(c)
  \/ SendAlertNotification(c)

Next ==
  \/ \E a \in Alerts, t \in Terms : CreateAlert(a, t)
  \/ \E c \in Calls, a \in Alerts : CancelAlert(c, a) \/ FindActiveAlert(c, a)
  \/ \E c \in Calls : Continue(c)
  \/ \E a \in Alerts : BecomeDue(a)
  \/ ExpireOldAlerts

\* Calls are resumed, and the hourly cron job runs again and again.
Fairness ==
  /\ \A c \in Calls : WF_vars(Continue(c))
  /\ WF_vars(ExpireOldAlerts)

Spec == Init /\ [][Next]_vars
FairSpec == Spec /\ Fairness

-----------------------------------------------------------------------------
(* Properties. *)

\* Types, and: what a call holds exists.
TypeOK ==
  /\ terms \in [Alerts -> Terms \cup {NoTerms}]
  /\ table \in [Alerts -> Columns]
  /\ due \subseteq {a \in Expiring : table[a] # NoRow}
  /\ pc \in [Calls -> Steps]
  /\ entity \in [Calls -> Objects]
  /\ loaded \in [Calls -> Columns]
  /\ told \in [Alerts -> 0 .. 2]
  /\ shared \subseteq Alerts
  /\ \A c \in Calls :
       pc[c] \in Holding \cup {"mailing"} =>
         entity[c].id \in {a \in Alerts : table[a] # NoRow}

\* An alert that does not repeat tells its user once, over any sequence of checks and
\* cancellations, as long as no two calls held it at once.
OneShotTellsOnce ==
  \A a \in Alerts \ shared : ~terms[a].repeat => told[a] <= 1

\* A user is only told what the table shows: of an alert that no two calls held at once
\* and that mailed, the row says at which rate, and that rate meets its condition.
\* (An overlapping cancellation writes its older triggeredRate, none, over it.)
ToldIsRecorded ==
  \A a \in Alerts \ shared :
    told[a] # 0 => /\ table[a].triggeredRate # NoRate
                   /\ ConditionMet(table[a].triggeredRate, terms[a])

\* The way of an alert: it stops being active once, and can then only be cancelled.
Moves == {<<None, "active">>} \cup ({"active"} \X {"triggered", "cancelled", "expired"})
           \cup {<<"triggered", "cancelled">>, <<"expired", "cancelled">>}

\* An alert no two calls ever held at once, nor the cron job expired while one held it,
\* goes its way: stale objects are the only thing that revives a cancelled one.
SerialLifecycle ==
  [][\A a \in Alerts \ shared' :
       table'[a].status # table[a].status
         => <<table[a].status, table'[a].status>> \in Moves]_vars

\* The hourly job expires a, at a time when no call has an object of it.
ExpireAlone(a) == a \in Expirable \ Held /\ ExpireOldAlerts

\* An alert past its time is active no more in the end, repeating alerts included, though
\* each trigger that read it before the expiry writes the old status back, provided that
\* there are times again and again when no call has an object of it, and that the hourly
\* job comes at one of them.  (Nothing in the code sees to that: the check and the expiry
\* both start at the full hour.)
DueAlertsLeaveActive ==
  \A a \in Alerts :
    []<>(a \notin Held) /\ SF_vars(ExpireAlone(a))
      => (a \in due ~> [](table[a].status # "active"))
=============================================================================
