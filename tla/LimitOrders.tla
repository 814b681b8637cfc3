---------------------------- MODULE LimitOrders ----------------------------
(***************************************************************************)
(* LimitOrderService of the transaction micro-service: limit orders, the   *)
(* two cron jobs that check and expire them, and their execution.          *)
(*                                                                         *)
(* A task runs a method: a call c cancels or executes an order, once; a    *)
(* pass p runs checkPendingLimitOrders, again and again.  Passes overlap:  *)
(* the scheduler starts one every two minutes whatever the last one does.  *)
(*                                                                         *)
(* repository.save(entity) is two statements: a SELECT of the row, then an *)
(* UPDATE of the columns in which the entity differs from what the SELECT  *)
(* found.  So a task that read its entity long ago writes back every       *)
(* column others changed since.  A save that fails may have been committed *)
(* all the same.  Rates and amounts are left out, as the code that would   *)
(* compare rates is disabled; so are the check statistics, the only other  *)
(* columns a pass assigns.                                                 *)
(***************************************************************************)
EXTENDS Integers, FiniteSetsExt

CONSTANTS
  Orders,     \* the limit orders, numbered in the order of their creation
  PairOf,     \* the currency pair of each
  Expiring,   \* those created with an expiresAt; the others are good till cancelled
  Calls,      \* calls of cancelLimitOrder and executeLimitOrder
  Passes      \* bound: the runs of checkPendingLimitOrders under way at once

\* A null column; no call is named so.
None == "none"

ASSUME ConstantsAssumption ==
  /\ Orders \subseteq Nat \ {0}
  /\ DOMAIN PairOf = Orders
  /\ Expiring \subseteq Orders
  /\ Calls \cap Passes = {}
  /\ None \notin Calls

Tasks == Calls \cup Passes

VARIABLES
  table,    \* the limit_order row of each order
  audit,    \* the calls that saved a ForexOrder row
  due,      \* the orders whose expiresAt has passed
  pc,       \* where each task stands
  entity,   \* the LimitOrder object each task works on
  loaded,   \* the row the SELECT of its save found
  todo,     \* the objects a pass still has to check
  traded,   \* history: the calls for which the wallet service traded
  shared,   \* history: orders read, or expired, while a task held them
  unsure    \* history: orders of which a save took effect, and yet failed

vars == <<table, audit, due, pc, entity, loaded, todo, traded, shared, unsure>>

-----------------------------------------------------------------------------

Statuses == {"PENDING", "EXECUTING", "COMPLETED", "CANCELLED", "EXPIRED", "FAILED"}

\* A row; forexOrder stands for forexOrderId and the executed columns set with it.
\* It names the ForexOrder by the call that saved it.
Columns == [status : Statuses \cup {None}, forexOrder : Calls \cup {None}]
NoRow == [status |-> None, forexOrder |-> None]
\* createLimitOrder
NewRow == [status |-> "PENDING", forexOrder |-> None]

\* A LimitOrder object: the columns as last read or assigned.
Object(o) == [id |-> o, row |-> table[o]]
NoObject == [id |-> 0, row |-> NoRow]
Objects == [id : Orders \cup {0}, row : Columns]

\* The steps at which a task holds an object that it will save.
Holding == {"saving", "writing", "trading", "auditing"}
Steps == Holding \cup {"idle", "checking", "done", "threw"}

Init ==
  /\ table = [o \in Orders |-> NoRow]
  /\ audit = {}
  /\ due = {}
  /\ pc = [t \in Tasks |-> "idle"]
  /\ entity = [t \in Tasks |-> NoObject]
  /\ loaded = [t \in Tasks |-> NoRow]
  /\ todo = [p \in Passes |-> {}]
  /\ traded = {}
  /\ shared = {}
  /\ unsure = {}

Goto(t, step) == pc' = [pc EXCEPT ![t] = step]

\* The method returns or throws, and drops its object.
Leave(t, step) ==
  /\ Goto(t, step)
  /\ entity' = [entity EXCEPT ![t] = NoObject]

\* The task goes on to save its object with this status.
SaveAs(t, e, s) ==
  /\ entity' = [entity EXCEPT ![t] = [e EXCEPT !.row.status = s]]
  /\ Goto(t, "saving")

\* A mutant of Open: any order will do.
OpenMutant(o) == table[o].status # None
\* The condition status: PENDING of the queries.
Open(o) == table[o].status = "PENDING"

\* The orders that some task has an object of, to save it later.
Held == {entity[t].id : t \in {u \in Tasks : pc[u] \in Holding}}
          \cup {e.id : e \in UNION {todo[p] : p \in Passes}}

-----------------------------------------------------------------------------
(* Users: create, cancel.  (The queries for users change nothing.) *)

\* The numbers of the orders are the order of their creation.
CreateLimitOrder(o) ==
  /\ table[o] = NoRow
  /\ \A q \in Orders : q < o => table[q] # NoRow
  /\ table' = [table EXCEPT ![o] = NewRow]
  /\ UNCHANGED <<audit, due, pc, entity, loaded, todo, traded, shared, unsure>>

CancelLimitOrder(c, o) ==
  /\ pc[c] = "idle"
  /\ Open(o)
  /\ SaveAs(c, Object(o), "CANCELLED")
  /\ shared' = shared \cup (Held \cap {o})
  /\ UNCHANGED <<table, audit, due, loaded, todo, traded, unsure>>

-----------------------------------------------------------------------------
(* save *)

LoadRow(t) ==
  /\ pc[t] = "saving"
  /\ loaded' = [loaded EXCEPT ![t] = table[entity[t].id]]
  /\ Goto(t, "writing")
  /\ UNCHANGED <<table, audit, due, entity, todo, traded, shared, unsure>>

\* The row r after the columns that differ between the object and the loaded row
\* have been written.
Updated(r, object, old) ==
  [f \in DOMAIN r |-> IF object[f] # old[f] THEN object[f] ELSE r[f]]

\* The table after the UPDATE of t.
TableWritten(t) ==
  [table EXCEPT ![entity[t].id] = Updated(@, entity[t].row, loaded[t])]

\* The status of the object tells which save it was, and what follows it: the next
\* order of a pass, the trade of an execution, or the end.  (The notification that an
\* execution ends with swallows its errors.)
WriteRow(t) ==
  /\ pc[t] = "writing"
  /\ table' = TableWritten(t)
  /\ CASE entity[t].row.status = "PENDING" -> Goto(t, "checking") /\ UNCHANGED entity
       [] entity[t].row.status = "EXECUTING" -> Goto(t, "trading") /\ UNCHANGED entity
       [] OTHER -> Leave(t, "done")
  /\ loaded' = [loaded EXCEPT ![t] = NoRow]
  /\ UNCHANGED <<audit, due, todo, traded, shared, unsure>>

\* The orders of a pass that an error leaves to be checked: those of other pairs.
OtherPairs(p) == {e \in todo[p] : PairOf[e.id] # PairOf[entity[p].id]}

\* Either statement fails; the UPDATE may be committed, and only its answer lost.  Only
\* the save as COMPLETED is inside executeLimitOrder's try: its failure has the order
\* saved as FAILED, over COMPLETED if that was committed.  A pass catches the error
\* outside the loop over the orders of the pair.
SaveFails(t) ==
  /\ pc[t] \in {"saving", "writing"}
  /\ \/ UNCHANGED <<table, unsure>>
     \/ /\ pc[t] = "writing"
        /\ table' = TableWritten(t)
        /\ unsure' = unsure \cup {entity[t].id}
  /\ CASE entity[t].row.status = "PENDING" ->
            /\ todo' = [todo EXCEPT ![t] = OtherPairs(t)]
            /\ Goto(t, "checking")
            /\ UNCHANGED entity
       [] entity[t].row.status = "COMPLETED" ->
            /\ SaveAs(t, entity[t], "FAILED")
            /\ UNCHANGED todo
       [] OTHER ->
            /\ Leave(t, "threw")
            /\ UNCHANGED todo
  /\ loaded' = [loaded EXCEPT ![t] = NoRow]
  /\ UNCHANGED <<audit, due, traded, shared>>

-----------------------------------------------------------------------------
(* executeLimitOrder: public, though only disabled code in the pass calls it. *)

\* The caller hands over an order it read as PENDING; no status is checked here.
ExecuteLimitOrder(c, o) ==
  /\ pc[c] = "idle"
  /\ Open(o)
  /\ SaveAs(c, Object(o), "EXECUTING")
  /\ shared' = shared \cup (Held \cap {o})
  /\ UNCHANGED <<table, audit, due, loaded, todo, traded, unsure>>

\* walletService.buyForex trades, with or without an answer that arrives, or fails.
Trade(c) ==
  /\ pc[c] = "trading"
  /\ \/ /\ traded' = traded \cup {c}
        /\ Goto(c, "auditing")
        /\ UNCHANGED entity
     \/ /\ traded' \in {traded, traded \cup {c}}
        /\ SaveAs(c, entity[c], "FAILED")
  /\ UNCHANGED <<table, audit, due, loaded, todo, shared, unsure>>

\* A mutant of Audited: the ForexOrder is created but not saved.
AuditedMutant(c) == audit
\* The saved ForexOrder rows with that of c.
Audited(c) == audit \cup {c}

\* The ForexOrder is saved; or that fails, if only because the answer is lost.  Then the
\* limit order is, as COMPLETED or as FAILED.
SaveForexOrder(c) ==
  /\ pc[c] = "auditing"
  /\ \/ /\ audit' = Audited(c)
        /\ SaveAs(c, [entity[c] EXCEPT !.row.forexOrder = c], "COMPLETED")
     \/ /\ audit' \in {audit, Audited(c)}
        /\ SaveAs(c, entity[c], "FAILED")
  /\ UNCHANGED <<table, due, loaded, todo, traded, shared, unsure>>

-----------------------------------------------------------------------------
(* The cron jobs. *)

\* (With no order PENDING it returns at once.)
CheckPendingLimitOrders(p) ==
  /\ pc[p] = "idle"
  /\ LET pending == {o \in Orders : Open(o)}
     IN  /\ pending # {}
         /\ todo' = [todo EXCEPT ![p] = {Object(o) : o \in pending}]
         /\ shared' = shared \cup (Held \cap pending)
  /\ Goto(p, "checking")
  /\ UNCHANGED <<table, audit, due, entity, loaded, traded, unsure>>

\* The next object of a pass: the pair at hand is finished first, and pairs and
\* orders are taken as their orders were created.
NextObject(p) ==
  LET samePair == {e \in todo[p] : entity[p] # NoObject
                                    /\ PairOf[e.id] = PairOf[entity[p].id]}
      candidates == IF samePair # {} THEN samePair ELSE todo[p]
  IN  CHOOSE e \in candidates : e.id = Min({f.id : f \in candidates})

CheckOrder(p) ==
  /\ pc[p] = "checking"
  /\ todo[p] # {}
  /\ entity' = [entity EXCEPT ![p] = NextObject(p)]
  /\ todo' = [todo EXCEPT ![p] = @ \ {NextObject(p)}]
  /\ Goto(p, "saving")
  /\ UNCHANGED <<table, audit, due, loaded, traded, shared, unsure>>

FinishPass(p) ==
  /\ pc[p] = "checking"
  /\ todo[p] = {}
  /\ Leave(p, "idle")
  /\ UNCHANGED <<table, audit, due, loaded, todo, traded, shared, unsure>>

\* expiresAt of an order passes.
BecomeDue(o) ==
  /\ o \in Expiring \ due
  /\ table[o] # NoRow
  /\ due' = due \cup {o}
  /\ UNCHANGED <<table, audit, pc, entity, loaded, todo, traded, shared, unsure>>

\* A mutant of Expirable: MoreThan(now) for LessThan(now).
ExpirableMutant == {o \in Expiring \ due : Open(o)}
Expirable == {o \in due : Open(o)}

\* One UPDATE with its condition.
ExpireOldLimitOrders ==
  /\ Expirable # {}
  /\ table' = [o \in Orders |->
                IF o \in Expirable THEN [table[o] EXCEPT !.status = "EXPIRED"] ELSE table[o]]
  /\ shared' = shared \cup (Held \cap Expirable)
  /\ UNCHANGED <<audit, due, pc, entity, loaded, todo, traded, unsure>>

-----------------------------------------------------------------------------

Save(t) == LoadRow(t) \/ WriteRow(t) \/ SaveFails(t)
Continue(t) ==
  \/ Save(t)
  \/ t \in Calls /\ (Trade(t) \/ SaveForexOrder(t))
  \/ t \in Passes /\ (CheckOrder(t) \/ FinishPass(t))

Next ==
  \/ \E o \in Orders : CreateLimitOrder(o) \/ BecomeDue(o)
  \/ \E c \in Calls, o \in Orders : CancelLimitOrder(c, o) \/ ExecuteLimitOrder(c, o)
  \/ \E p \in Passes : CheckPendingLimitOrders(p)
  \/ \E t \in Tasks : Continue(t)
  \/ ExpireOldLimitOrders

\* Tasks are resumed, and the hourly cron job runs again and again.
Fairness ==
  /\ \A t \in Tasks : WF_vars(Continue(t))
  /\ WF_vars(ExpireOldLimitOrders)

Spec == Init /\ [][Next]_vars
FairSpec == Spec /\ Fairness

-----------------------------------------------------------------------------
(* Properties. *)

\* Types, and: what a pass has still to check it read as PENDING, and a running task
\* holds an object whose row exists.
TypeOK ==
  /\ table \in [Orders -> Columns]
  /\ audit \subseteq Calls
  /\ due \subseteq {o \in Expiring : table[o] # NoRow}
  /\ pc \in [Tasks -> Steps]
  /\ entity \in [Tasks -> Objects]
  /\ loaded \in [Tasks -> Columns]
  /\ \A p \in Passes : todo[p] \subseteq {e \in Objects : e.row.status = "PENDING"}
  /\ traded \subseteq Calls
  /\ shared \subseteq Orders
  /\ unsure \subseteq Orders
  /\ \A o \in Held : table[o] # NoRow

\* Whatever tasks overlap and whatever fails, the ForexOrder that an order names was
\* saved, by a call that traded; and a COMPLETED order names one, unless it was shared:
\* then the stale object of a pass may take the ForexOrder away, and leave COMPLETED.
CompletedIsAudited ==
  \A o \in Orders :
    /\ table[o].forexOrder # None => table[o].forexOrder \in audit \cap traded
    /\ o \notin shared /\ table[o].status = "COMPLETED" => table[o].forexOrder # None

\* The way of an order: it is settled once and stays settled.
Moves == {<<None, "PENDING">>, <<"PENDING", "EXECUTING">>, <<"PENDING", "CANCELLED">>,
          <<"PENDING", "EXPIRED">>, <<"EXECUTING", "COMPLETED">>,
          <<"EXECUTING", "FAILED">>}

\* An order no two tasks ever held at once, nor the cron job expired while one held
\* it, goes its way, with one exception: COMPLETED becomes FAILED when the save as
\* COMPLETED took effect and yet failed.  Only stale objects do anything else.
SerialLifecycle ==
  [][\A o \in Orders \ shared' :
       LET move == <<table[o].status, table'[o].status>>
       IN  table'[o].status # table[o].status
             => move \in Moves \/ (o \in unsure' /\ move = <<"COMPLETED", "FAILED">>)]_vars

\* The hourly job expires o, at a time when no task has an object of it.
ExpireAlone(o) == o \in Expirable \ Held /\ ExpireOldLimitOrders

\* An order past its time leaves PENDING for good, though each pass that read it before
\* the expiry writes PENDING back, provided that there are times again and again when no
\* task has an object of it, and that the hourly job comes at one of them.  (Nothing in
\* the code sees to that: both jobs start at the full hour.)
DueOrdersLeavePending ==
  \A o \in Orders :
    []<>(o \notin Held) /\ SF_vars(ExpireAlone(o))
      => (o \in due ~> [](table[o].status # "PENDING"))
=============================================================================
