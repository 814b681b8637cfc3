---------------------------- MODULE LimitProofs ----------------------------
(***************************************************************************)
(* Theorems about LimitOrders, for any orders, calls and passes.           *)
(***************************************************************************)
EXTENDS LimitOrders, NumberLemmas, TLAPS

-----------------------------------------------------------------------------
(* The inductive invariant. *)

\* The task t holds an object of o, to save it.
Holds(t, o) == pc[t] \in Holding /\ entity[t].id = o

Types ==
  /\ table \in [Orders -> Columns]
  /\ audit \subseteq Calls
  /\ due \subseteq Expiring
  /\ pc \in [Tasks -> Steps]
  /\ entity \in [Tasks -> Objects]
  /\ loaded \in [Tasks -> Columns]
  /\ todo \in [Passes -> SUBSET Objects]
  /\ traded \subseteq Calls
  /\ shared \subseteq Orders
  /\ unsure \subseteq Orders

\* Only an order not yet created has no status, and such an order is neither due, nor is
\* there an object of it.  A pass has PENDING objects, a call others, and one that is
\* EXECUTING while it trades.
Rows ==
  /\ \A o \in Orders : table[o].status = None => table[o] = NoRow
  /\ \A o \in due : table[o].status # None
  /\ \A p \in Passes : \A e \in todo[p] :
       e.id \in Orders /\ table[e.id].status # None /\ e.row.status = "PENDING"
  /\ \A t \in Tasks : pc[t] \in Holding =>
       /\ entity[t].id \in Orders
       /\ table[entity[t].id].status # None
       /\ entity[t].row.status \notin {None, "EXPIRED"}
       /\ entity[t].row.status = "PENDING" <=> t \in Passes
  /\ \A t \in Tasks : pc[t] \in {"trading", "auditing"} => entity[t].row.status = "EXECUTING"
  /\ \A c \in Calls : pc[c] # "checking"

Typed == Types /\ Rows

\* A ForexOrder that a row or an object may name.
Backed(x) == x = None \/ x \in audit \cap traded

\* Whatever overlaps: rows and objects name ForexOrders that were saved, after a trade.
AllBacked ==
  /\ \A o \in Orders : Backed(table[o].forexOrder)
  /\ \A t \in Tasks : pc[t] \in Holding => Backed(entity[t].row.forexOrder)
  /\ \A p \in Passes : \A e \in todo[p] : Backed(e.row.forexOrder)
  /\ \A c \in Calls : pc[c] = "auditing" => c \in traded

\* There is one object of o at most, that a task holds or a pass has to check.
Alone(o) ==
  /\ \A t, u \in Tasks : Holds(t, o) /\ Holds(u, o) => t = u
  /\ \A p \in Passes : \A e \in todo[p] :
       e.id = o =>
         /\ \A t \in Tasks : ~Holds(t, o)
         /\ \A q \in Passes : \A f \in todo[q] : f.id = o => q = p /\ f = e

\* The status an order has while its only holder, at this step, is to save that one.
StatusUnder(status, step) ==
  CASE status \in {"PENDING", "CANCELLED"} -> "PENDING"
    [] status = "EXECUTING" /\ step \in {"saving", "writing"} -> "PENDING"
    [] OTHER -> "EXECUTING"

\* A save as COMPLETED took effect and yet failed, and the order is to be saved as FAILED.
Belied(t, o) ==
  o \in unsure /\ table[o].status = "COMPLETED" /\ entity[t].row.status = "FAILED"

\* The object of an order's only holder is at most one step ahead of the row.
InStep(o) ==
  /\ \A p \in Passes : \A e \in todo[p] : e.id = o => e.row = table[o]
  /\ \A t \in Tasks : Holds(t, o) =>
       /\ table[o].status = StatusUnder(entity[t].row.status, pc[t]) \/ Belied(t, o)
       /\ entity[t].row.status = "COMPLETED" => entity[t].row.forexOrder # None
       /\ pc[t] = "writing" => loaded[t] = table[o]

Settled(o) == table[o].status = "COMPLETED" => table[o].forexOrder # None

Serial(o) == Alone(o) /\ InStep(o) /\ Settled(o)

IInv == Typed /\ AllBacked /\ \A o \in Orders \ shared : Serial(o)

-----------------------------------------------------------------------------
(* What the steps have in common. *)

LEMMA UpdatedColumns ==
  ASSUME NEW r \in Columns, NEW object \in Columns, NEW old \in Columns
  PROVE  /\ Updated(r, object, old) \in Columns
         /\ Updated(r, object, old).status \in {r.status, object.status}
         /\ Updated(r, object, old).forexOrder \in {r.forexOrder, object.forexOrder}
         /\ Updated(r, object, r) = object
BY DEF Updated, Columns

\* The objects that a call makes of the one it has, or of a row.
WithStatus(e, s) == [e EXCEPT !.row.status = s]
WithForexOrder(e, x) == [e EXCEPT !.row.forexOrder = x]

LEMMA WithStatusIs ==
  ASSUME NEW e \in Objects, NEW s \in Statuses
  PROVE  /\ WithStatus(e, s) \in Objects
         /\ WithStatus(e, s).id = e.id
         /\ WithStatus(e, s).row.status = s
         /\ WithStatus(e, s).row.forexOrder = e.row.forexOrder
BY DEF WithStatus, Objects, Columns

LEMMA WithForexOrderIs ==
  ASSUME NEW e \in Objects, NEW c \in Calls
  PROVE  /\ WithForexOrder(e, c) \in Objects
         /\ WithForexOrder(e, c).id = e.id
         /\ WithForexOrder(e, c).row.forexOrder = c
BY DEF WithForexOrder, Objects, Columns

LEMMA ReadObject ==
  ASSUME Typed, NEW o \in Orders
  PROVE  Object(o) \in Objects /\ Object(o).id = o /\ Object(o).row = table[o]
BY DEF Typed, Types, Object, Objects

LEMMA NoObjectType == NoObject \in Objects /\ NoRow \in Columns /\ NewRow \in Columns
BY DEF NoObject, Objects, NoRow, NewRow, Columns, Statuses, None

\* A pass that has objects to check takes one of them.
LEMMA NextObjectIsOne ==
  ASSUME Typed, NEW p \in Passes, todo[p] # {}
  PROVE  NextObject(p) \in todo[p]
<1> DEFINE samePair == {e \in todo[p] : entity[p] # NoObject
                                          /\ PairOf[e.id] = PairOf[entity[p].id]}
           candidates == IF samePair # {} THEN samePair ELSE todo[p]
<1>1. candidates \subseteq todo[p] /\ candidates # {}
  OBVIOUS
<1> HIDE DEF candidates
<1>2. {f.id : f \in candidates} \subseteq Nat /\ {f.id : f \in candidates} # {}
  <2>1. \A f \in candidates : f.id \in Orders
    BY <1>1 DEF Typed, Types, Rows
  <2>. QED
    BY <1>1, <2>1, ConstantsAssumption
<1>3. PICK e \in candidates : e.id = Min({f.id : f \in candidates})
  <2>1. PICK n \in {f.id : f \in candidates} : \A m \in {f.id : f \in candidates} : n <= m
    BY <1>2, SmallestNumber
  <2>. QED
    BY <2>1 DEF Min
<1>4. (CHOOSE f \in candidates : f.id = Min({g.id : g \in candidates})) \in candidates
  BY <1>3
<1>. QED
  BY <1>1, <1>4 DEF NextObject, candidates

LEMMA InitInv == Init => IInv
BY ConstantsAssumption DEF Init, IInv, Typed, Types, Rows, AllBacked, Backed, Serial, Alone, InStep, Settled, Holds,
   Held, Tasks, Holding, Steps, Columns, NoRow, NoObject, Objects, Statuses, None

LEMMA HeldIs ==
  ASSUME NEW o
  PROVE  o \in Held <=> \/ \E t \in Tasks : Holds(t, o)
                        \/ \E p \in Passes : \E e \in todo[p] : e.id = o
BY DEF Held, Holds

-----------------------------------------------------------------------------
(* What each step that moves an object does to it. *)

\* A call that begins has an object of the order, with another status.
LEMMA Begun ==
  ASSUME Typed, NEW c \in Calls, NEW o \in Orders, CancelLimitOrder(c, o) \/ ExecuteLimitOrder(c, o)
  PROVE  /\ table[o].status = "PENDING"
         /\ pc[c] = "idle" /\ pc' = [pc EXCEPT ![c] = "saving"]
         /\ \E e \in Objects : /\ entity' = [entity EXCEPT ![c] = e]
                             /\ e.id = o
                             /\ e.row.status \in {"CANCELLED", "EXECUTING"}
                             /\ e.row.forexOrder = table[o].forexOrder
         /\ shared' = shared \cup (Held \cap {o})
         /\ UNCHANGED <<table, audit, due, loaded, todo, traded, unsure>>
<1>1. Object(o) \in Objects /\ Object(o).id = o /\ Object(o).row = table[o]
  BY ReadObject
<1>2. CASE CancelLimitOrder(c, o)
  <2>1. /\ entity' = [entity EXCEPT ![c] = WithStatus(Object(o), "CANCELLED")]
        /\ pc' = [pc EXCEPT ![c] = "saving"]
    BY <1>2, Zenon DEF CancelLimitOrder, SaveAs, Goto, WithStatus
  <2>2. PICK e \in Objects : /\ e = WithStatus(Object(o), "CANCELLED")
                            /\ e.id = o /\ e.row.status = "CANCELLED"
                            /\ e.row.forexOrder = table[o].forexOrder
    BY <1>1, WithStatusIs DEF Statuses
  <2>3. /\ table[o].status = "PENDING" /\ pc[c] = "idle" /\ shared' = shared \cup (Held \cap {o})
        /\ UNCHANGED <<table, audit, due, loaded, todo, traded, unsure>>
    BY <1>2 DEF CancelLimitOrder, Open
  <2>. QED
    BY <2>1, <2>2, <2>3
<1>3. CASE ExecuteLimitOrder(c, o)
  <2>1. /\ entity' = [entity EXCEPT ![c] = WithStatus(Object(o), "EXECUTING")]
        /\ pc' = [pc EXCEPT ![c] = "saving"]
    BY <1>3, Zenon DEF ExecuteLimitOrder, SaveAs, Goto, WithStatus
  <2>2. PICK e \in Objects : /\ e = WithStatus(Object(o), "EXECUTING")
                            /\ e.id = o /\ e.row.status = "EXECUTING"
                            /\ e.row.forexOrder = table[o].forexOrder
    BY <1>1, WithStatusIs DEF Statuses
  <2>3. /\ table[o].status = "PENDING" /\ pc[c] = "idle" /\ shared' = shared \cup (Held \cap {o})
        /\ UNCHANGED <<table, audit, due, loaded, todo, traded, unsure>>
    BY <1>3 DEF ExecuteLimitOrder, Open
  <2>. QED
    BY <2>1, <2>2, <2>3
<1>. QED
  BY <1>2, <1>3

\* A pass goes on to save one of its objects.
LEMMA Checked ==
  ASSUME Typed, NEW p \in Passes, CheckOrder(p)
  PROVE  /\ pc[p] = "checking" /\ pc' = [pc EXCEPT ![p] = "saving"]
         /\ \E e \in todo[p] : /\ todo' = [todo EXCEPT ![p] = todo[p] \ {e}]
                             /\ entity' = [entity EXCEPT ![p] = e]
         /\ UNCHANGED <<table, audit, due, loaded, traded, shared, unsure>>
<1>1. NextObject(p) \in todo[p]
  BY NextObjectIsOne DEF CheckOrder
<1>. QED
  BY <1>1 DEF CheckOrder, Goto

\* The row takes over the columns of t's object that are not as loaded.
TakesEffect(t) ==
  table' = [table EXCEPT ![entity[t].id] =
              Updated(table[entity[t].id], entity[t].row, loaded[t])]

\* A save that fails, with its UPDATE done or not: a pass gives up the pair, a call that
\* saved COMPLETED goes on to save the order as FAILED, and any other call ends.
LEMMA FailedSave ==
  ASSUME Typed, NEW t \in Tasks, SaveFails(t)
  PROVE  /\ pc[t] \in {"saving", "writing"}
         /\ entity[t].id \in Orders /\ entity[t].row \in Columns
         /\ entity[t].row.status \notin {None, "EXPIRED"}
         /\ \/ table' = table /\ unsure' = unsure
            \/ pc[t] = "writing" /\ TakesEffect(t) /\ unsure' = unsure \cup {entity[t].id}
         /\ \/ /\ t \in Passes /\ pc' = [pc EXCEPT ![t] = "checking"]
               /\ todo' = [todo EXCEPT ![t] = OtherPairs(t)] /\ OtherPairs(t) \subseteq todo[t]
               /\ entity' = entity
            \/ /\ t \in Calls /\ pc' = [pc EXCEPT ![t] = "saving"]
               /\ entity[t].row.status = "COMPLETED"
               /\ \E e \in Objects : /\ entity' = [entity EXCEPT ![t] = e]
                                   /\ e.id = entity[t].id /\ e.row.status = "FAILED"
                                   /\ e.row.forexOrder = entity[t].row.forexOrder
               /\ todo' = todo
            \/ /\ t \in Calls /\ pc' = [pc EXCEPT ![t] = "threw"]
               /\ entity' = [entity EXCEPT ![t] = NoObject]
               /\ todo' = todo
         /\ loaded' = [loaded EXCEPT ![t] = NoRow]
         /\ UNCHANGED <<audit, due, traded, shared>>
<1>0. pc[t] \in {"saving", "writing"} /\ entity[t] \in Objects /\ entity[t].row \in Columns
  BY DEF SaveFails, Typed, Types, Objects
<1>1. /\ pc[t] \in {"saving", "writing"} /\ entity[t] \in Objects
      /\ entity[t].id \in Orders /\ entity[t].row \in Columns
      /\ entity[t].row.status \notin {None, "EXPIRED"}
      /\ \/ table' = table /\ unsure' = unsure
         \/ pc[t] = "writing" /\ TakesEffect(t) /\ unsure' = unsure \cup {entity[t].id}
  BY <1>0 DEF SaveFails, Typed, Rows, Holding, TableWritten, TakesEffect
<1>2. entity[t].row.status = "PENDING" <=> t \in Passes
  BY <1>1 DEF Typed, Rows, Holding
<1>3. CASE entity[t].row.status = "PENDING"
  <2>1. /\ todo' = [todo EXCEPT ![t] = OtherPairs(t)] /\ Goto(t, "checking")
        /\ UNCHANGED entity
    BY <1>3 DEF SaveFails
  <2>2. OtherPairs(t) \subseteq todo[t]
    BY DEF OtherPairs
  <2>. QED
    BY <1>1, <1>2, <1>3, <2>1, <2>2, Zenon DEF SaveFails, Goto
<1>4. CASE entity[t].row.status = "COMPLETED"
  <2>1. /\ entity' = [entity EXCEPT ![t] = WithStatus(entity[t], "FAILED")]
        /\ pc' = [pc EXCEPT ![t] = "saving"] /\ todo' = todo
    BY <1>4, Zenon DEF SaveFails, SaveAs, Goto, WithStatus
  <2>. QED
    BY <1>1, <1>2, <1>4, <2>1, WithStatusIs DEF SaveFails, Tasks, Statuses
<1>5. CASE entity[t].row.status \notin {"PENDING", "COMPLETED"}
  BY <1>1, <1>2, <1>5 DEF SaveFails, Leave, Goto, Tasks
<1>. QED
  BY <1>3, <1>4, <1>5

\* A trade, or the save of its ForexOrder.
LEMMA Traded ==
  ASSUME Typed, NEW c \in Calls, Trade(c) \/ SaveForexOrder(c)
  PROVE  /\ entity[c].row.status = "EXECUTING"
         /\ \/ /\ pc[c] = "trading" /\ pc' = [pc EXCEPT ![c] = "auditing"]
               /\ entity' = entity /\ traded' = traded \cup {c} /\ audit' = audit
            \/ /\ pc[c] \in {"trading", "auditing"} /\ pc' = [pc EXCEPT ![c] = "saving"]
               /\ \E e \in Objects : /\ entity' = [entity EXCEPT ![c] = e]
                                   /\ e.id = entity[c].id /\ e.row.status = "FAILED"
                                   /\ e.row.forexOrder = entity[c].row.forexOrder
               /\ traded' \in {traded, traded \cup {c}}
               /\ audit' \in {audit, audit \cup {c}}
            \/ /\ pc[c] = "auditing" /\ pc' = [pc EXCEPT ![c] = "saving"]
               /\ \E e \in Objects : /\ entity' = [entity EXCEPT ![c] = e]
                                   /\ e.id = entity[c].id /\ e.row.status = "COMPLETED"
                                   /\ e.row.forexOrder = c
               /\ traded' = traded /\ audit' = audit \cup {c}
         /\ UNCHANGED <<table, due, loaded, todo, shared, unsure>>
<1>1. pc[c] \in {"trading", "auditing"} /\ entity[c] \in Objects /\ entity[c].row.status = "EXECUTING"
  BY DEF Trade, SaveForexOrder, Typed, Types, Rows, Tasks
<1>2. CASE traded' = traded \cup {c} /\ Goto(c, "auditing") /\ UNCHANGED entity /\ Trade(c)
  BY <1>1, <1>2 DEF Trade, Goto
<1>3. CASE traded' \in {traded, traded \cup {c}} /\ SaveAs(c, entity[c], "FAILED") /\ Trade(c)
  <2>1. /\ entity' = [entity EXCEPT ![c] = WithStatus(entity[c], "FAILED")]
        /\ pc' = [pc EXCEPT ![c] = "saving"]
    BY <1>3, Zenon DEF SaveAs, Goto, WithStatus
  <2>2. /\ traded' \in {traded, traded \cup {c}} /\ pc[c] = "trading"
        /\ UNCHANGED <<table, audit, due, loaded, todo, shared, unsure>>
    BY <1>3 DEF Trade
  <2>. QED
    BY <1>1, <2>1, <2>2, WithStatusIs DEF Statuses
<1>4. CASE SaveForexOrder(c)
  <2>1. pc[c] = "auditing" /\ UNCHANGED <<table, due, loaded, todo, traded, shared, unsure>>
    BY <1>4 DEF SaveForexOrder
  <2>2. CASE /\ audit' = Audited(c)
             /\ SaveAs(c, [entity[c] EXCEPT !.row.forexOrder = c], "COMPLETED")
    <3>1. entity' = [entity EXCEPT ![c] = WithStatus(WithForexOrder(entity[c], c), "COMPLETED")]
      BY <2>2, Zenon DEF SaveAs, WithStatus, WithForexOrder
    <3>2. pc' = [pc EXCEPT ![c] = "saving"] /\ audit' = audit \cup {c}
      BY <2>2, Zenon DEF SaveAs, Goto, Audited
    <3>3. PICK e \in Objects : /\ e = WithStatus(WithForexOrder(entity[c], c), "COMPLETED")
                              /\ e.id = entity[c].id /\ e.row.status = "COMPLETED"
                              /\ e.row.forexOrder = c
      BY <1>1, WithStatusIs, WithForexOrderIs DEF Statuses
    <3>. QED
      BY <1>1, <2>1, <3>1, <3>2, <3>3
  <2>3. CASE audit' \in {audit, Audited(c)} /\ SaveAs(c, entity[c], "FAILED")
    <3>1. /\ entity' = [entity EXCEPT ![c] = WithStatus(entity[c], "FAILED")]
          /\ pc' = [pc EXCEPT ![c] = "saving"]
      BY <2>3, Zenon DEF SaveAs, Goto, WithStatus
    <3>. QED
      BY <1>1, <2>1, <2>3, <3>1, WithStatusIs DEF Statuses, Audited
  <2>. QED
    BY <1>4, <2>2, <2>3, Zenon DEF SaveForexOrder
<1>. QED
  BY <1>2, <1>3, <1>4, Zenon DEF Trade

\* A save: the status of the object tells what the task does next.
LEMMA Written ==
  ASSUME Typed, NEW t \in Tasks, WriteRow(t)
  PROVE  /\ pc[t] = "writing" /\ entity[t].id \in Orders /\ entity[t].row \in Columns
         /\ TakesEffect(t)
         /\ \/ /\ entity[t].row.status = "PENDING" /\ t \in Passes
               /\ pc' = [pc EXCEPT ![t] = "checking"] /\ entity' = entity
            \/ /\ entity[t].row.status = "EXECUTING" /\ t \in Calls
               /\ pc' = [pc EXCEPT ![t] = "trading"] /\ entity' = entity
            \/ /\ entity[t].row.status \in {"CANCELLED", "COMPLETED", "FAILED"}
               /\ pc' = [pc EXCEPT ![t] = "done"] /\ entity' = [entity EXCEPT ![t] = NoObject]
         /\ loaded' = [loaded EXCEPT ![t] = NoRow]
         /\ UNCHANGED <<audit, due, todo, traded, shared, unsure>>
<1>1. /\ pc[t] = "writing" /\ entity[t].id \in Orders
      /\ entity[t].row.status \notin {None, "EXPIRED"}
      /\ entity[t].row.status = "PENDING" <=> t \in Passes
  BY DEF WriteRow, Typed, Rows, Holding
<1>2. entity[t].row \in Columns /\ entity[t].row.status \in Statuses \cup {None}
  BY DEF Typed, Types, Objects, Columns
<1>3. CASE entity[t].row.status = "PENDING"
  BY <1>1, <1>2, <1>3 DEF WriteRow, Goto, TableWritten, TakesEffect
<1>4. CASE entity[t].row.status = "EXECUTING"
  <2>1. pc' = [pc EXCEPT ![t] = "trading"] /\ entity' = entity
    BY <1>4 DEF WriteRow, Goto
  <2>. QED
    BY <1>1, <1>2, <1>4, <2>1 DEF WriteRow, Tasks, TableWritten, TakesEffect
<1>5. CASE entity[t].row.status \notin {"PENDING", "EXECUTING"}
  <2>1. pc' = [pc EXCEPT ![t] = "done"] /\ entity' = [entity EXCEPT ![t] = NoObject]
    BY <1>5, Zenon DEF WriteRow, Leave, Goto
  <2>2. entity[t].row.status \in {"CANCELLED", "COMPLETED", "FAILED"}
    BY <1>1, <1>2, <1>5 DEF Statuses
  <2>. QED
    BY <1>1, <1>2, <2>1, <2>2 DEF WriteRow, TableWritten, TakesEffect
<1>. QED
  BY <1>3, <1>4, <1>5

-----------------------------------------------------------------------------
(* Types. *)

LEMMA TypedImpliesTypeOK == Typed => TypeOK
<1> SUFFICES ASSUME Typed
             PROVE  TypeOK
  OBVIOUS
<1>1. \A o \in Held : table[o] # NoRow
  <2>1. \A o \in Orders : table[o].status # None => table[o] # NoRow
    BY DEF NoRow
  <2>. QED
    BY <2>1, HeldIs DEF Typed, Rows, Holds
<1>2. due \subseteq {o \in Expiring : table[o] # NoRow}
  BY DEF Typed, Types, Rows, NoRow
<1>. QED
  BY <1>1, <1>2 DEF Typed, Types, Rows, TypeOK

LEMMA TypesInv ==
  ASSUME Typed, Next
  PROVE  Types'
<1> USE NoObjectType DEF Typed, Types
<1>0. {"saving", "writing", "checking", "done", "threw", "trading", "auditing", "idle"} \subseteq Steps
  BY DEF Steps, Holding
<1>1. ASSUME NEW o \in Orders, CreateLimitOrder(o) \/ BecomeDue(o)
      PROVE  Types'
  BY <1>1 DEF CreateLimitOrder, BecomeDue
<1>2. ASSUME NEW c \in Calls, NEW o \in Orders, CancelLimitOrder(c, o) \/ ExecuteLimitOrder(c, o)
      PROVE  Types'
  BY <1>0, <1>2, Begun DEF Tasks
<1>3. ASSUME NEW p \in Passes, CheckPendingLimitOrders(p)
      PROVE  Types'
  BY <1>0, <1>3, ReadObject DEF CheckPendingLimitOrders, Goto, Tasks
<1>4. ASSUME NEW t \in Tasks, LoadRow(t)
      PROVE  Types'
  <2>1. table[entity[t].id] \in Columns
    BY <1>4 DEF LoadRow, Rows, Holding
  <2>. QED
    BY <1>0, <1>4, <2>1 DEF LoadRow, Goto
<1>5. ASSUME NEW t \in Tasks, WriteRow(t)
      PROVE  Types'
  BY <1>0, <1>5, Written, UpdatedColumns DEF TakesEffect
<1>6. ASSUME NEW t \in Tasks, SaveFails(t)
      PROVE  Types'
  BY <1>0, <1>6, FailedSave, UpdatedColumns DEF TakesEffect
<1>7. ASSUME NEW c \in Calls, Trade(c) \/ SaveForexOrder(c)
      PROVE  Types'
  BY <1>0, <1>7, Traded DEF Tasks
<1>8. ASSUME NEW p \in Passes, CheckOrder(p)
      PROVE  Types'
  BY <1>0, <1>8, Checked DEF Tasks
<1>9. ASSUME NEW p \in Passes, FinishPass(p)
      PROVE  Types'
  BY <1>0, <1>9 DEF FinishPass, Leave, Goto, Tasks
<1>10. CASE ExpireOldLimitOrders
  <2>1. \A o \in Orders : [table[o] EXCEPT !.status = "EXPIRED"] \in Columns
    BY DEF Columns, Statuses
  <2>. QED
    BY <1>10, <2>1, ConstantsAssumption DEF ExpireOldLimitOrders, Expirable
<1>. QED
  BY <1>1, <1>2, <1>3, <1>4, <1>5, <1>6, <1>7, <1>8, <1>9, <1>10 DEF Next, Continue, Save

\* A row that has a status keeps having one.
LEMMA StatusStays ==
  ASSUME Typed, Next, NEW o \in Orders, table[o].status # None
  PROVE  table'[o].status # None
<1> USE DEF Typed, Types
<1>1. ASSUME NEW q \in Orders, CreateLimitOrder(q)
      PROVE  table'[o].status # None
  BY <1>1 DEF CreateLimitOrder, NewRow, None
<1>2. ASSUME NEW t \in Tasks, WriteRow(t)
      PROVE  table'[o].status # None
  <2>1. pc[t] = "writing"
    BY <1>2 DEF WriteRow
  <2>2. entity[t].row.status # None
    BY <2>1 DEF Rows, Holding
  <2>. QED
    BY <1>2, <2>2, Written, UpdatedColumns DEF TakesEffect
<1>3. CASE ExpireOldLimitOrders
  BY <1>3 DEF ExpireOldLimitOrders, Columns, None
<1>4. CASE table' = table
  BY <1>4
<1>5. ASSUME NEW t \in Tasks, SaveFails(t)
      PROVE  table'[o].status # None
  BY <1>5, FailedSave, UpdatedColumns DEF TakesEffect
<1>. QED
  BY <1>1, <1>2, <1>3, <1>4, <1>5
     DEF Next, Continue, Save, BecomeDue, CancelLimitOrder, ExecuteLimitOrder, CheckPendingLimitOrders,
         LoadRow, Trade, SaveForexOrder, CheckOrder, FinishPass

LEMMA RowsInv ==
  ASSUME Typed, Next
  PROVE  Rows'
<1> USE DEF Typed, Types, Rows, Holding, None
<1>0. /\ Calls \cap Passes = {} /\ due \subseteq Orders /\ Calls \subseteq Tasks /\ Passes \subseteq Tasks
      /\ \A o \in Orders : table[o].status # None => table'[o].status # None
  BY ConstantsAssumption, StatusStays DEF Tasks
<1>1. ASSUME NEW o \in Orders, CreateLimitOrder(o) \/ BecomeDue(o)
      PROVE  Rows'
  <2>1. \A q \in Orders : table'[q].status = None => table'[q] = table[q]
    BY <1>1 DEF CreateLimitOrder, BecomeDue, NewRow
  <2>2. \A q \in due' : q \in due \/ table[q] # NoRow
    BY <1>1 DEF CreateLimitOrder, BecomeDue
  <2>3. UNCHANGED <<pc, entity, todo>> /\ due' \subseteq Orders
    BY <1>1, ConstantsAssumption DEF CreateLimitOrder, BecomeDue
  <2>. QED
    BY <1>0, <2>1, <2>2, <2>3
<1>2. ASSUME NEW c \in Calls, NEW o \in Orders, CancelLimitOrder(c, o) \/ ExecuteLimitOrder(c, o)
      PROVE  Rows'
  BY <1>0, <1>2, Begun
<1>3. ASSUME NEW p \in Passes, CheckPendingLimitOrders(p)
      PROVE  Rows'
  <2>1. \A e \in todo'[p] : e.id \in Orders /\ table[e.id].status = "PENDING" /\ e.row.status = "PENDING"
    BY <1>3, ReadObject DEF CheckPendingLimitOrders, Open
  <2>2. pc' \in [Tasks -> Steps] /\ pc'[p] = "checking" /\ \A t \in Tasks \ {p} : pc'[t] = pc[t]
    BY <1>0, <1>3, TypesInv DEF CheckPendingLimitOrders, Goto
  <2>3. \A q \in Passes \ {p} : todo'[q] = todo[q]
    BY <1>3 DEF CheckPendingLimitOrders
  <2>. QED
    BY <1>0, <1>3, <2>1, <2>2, <2>3 DEF CheckPendingLimitOrders
<1>4. ASSUME NEW t \in Tasks, LoadRow(t)
      PROVE  Rows'
  BY <1>0, <1>4 DEF LoadRow, Goto
<1>5. ASSUME NEW t \in Tasks, WriteRow(t)
      PROVE  Rows'
  <2>1. \A o \in Orders : table[o].status # None \/ table'[o] = table[o]
    <3>1. table[entity[t].id].status # None
      BY <1>5 DEF WriteRow
    <3>2. \A o \in Orders : o # entity[t].id => table'[o] = table[o]
      BY <1>5, Written DEF TakesEffect
    <3>. QED
      BY <3>1, <3>2
  <2>. QED
    <3>1. UNCHANGED <<due, todo>>
      BY <1>5, Written
    <3>2. /\ pc' \in [Tasks -> Steps] /\ pc'[t] \in {"checking", "trading", "done"}
          /\ pc'[t] = "checking" => t \in Passes
          /\ pc'[t] = "trading" => entity' = entity /\ entity[t].row.status = "EXECUTING"
          /\ \A u \in Tasks \ {t} : pc'[u] = pc[u] /\ entity'[u] = entity[u]
      BY <1>5, Written, TypesInv
    <3>3. pc[t] = "writing"
      BY <1>5 DEF WriteRow
    <3>4. \A o \in Orders : table'[o].status = None => table'[o] = NoRow
      BY <1>0, <2>1
    <3>. QED
      BY <1>0, <2>1, <3>1, <3>2, <3>3, <3>4
<1>6. ASSUME NEW t \in Tasks, SaveFails(t)
      PROVE  Rows'
  <2>1. \A o \in Orders : table[o].status # None \/ table'[o] = table[o]
    BY <1>6, FailedSave DEF TakesEffect
  <2>2. \A o \in Orders : table'[o].status = None => table'[o] = NoRow
    BY <1>0, <2>1
  <2>. QED
    BY <1>0, <1>6, <2>1, <2>2, FailedSave
<1>7. ASSUME NEW c \in Calls, Trade(c) \/ SaveForexOrder(c)
      PROVE  Rows'
  BY <1>0, <1>7, Traded
<1>8. ASSUME NEW p \in Passes, CheckOrder(p)
      PROVE  Rows'
  BY <1>0, <1>8, Checked
<1>9. ASSUME NEW p \in Passes, FinishPass(p)
      PROVE  Rows'
  BY <1>0, <1>9 DEF FinishPass, Leave, Goto
<1>10. CASE ExpireOldLimitOrders
  <2>1. \A o \in Orders : table[o].status # None \/ table'[o] = table[o]
    <3>1. \A o \in Orders : table[o].status = "PENDING" \/ table'[o] = table[o]
      BY <1>10, Zenon DEF ExpireOldLimitOrders, Expirable, Open
    <3>. QED
      BY <3>1
  <2>2. UNCHANGED <<due, pc, entity, todo>>
    BY <1>10 DEF ExpireOldLimitOrders
  <2>. QED
    BY <1>0, <2>1, <2>2
<1>. QED
  BY <1>1, <1>2, <1>3, <1>4, <1>5, <1>6, <1>7, <1>8, <1>9, <1>10 DEF Next, Continue, Save

LEMMA TypedInv == Typed /\ [Next]_vars => Typed'
<1>1. ASSUME Typed, UNCHANGED vars
      PROVE  Typed'
  BY <1>1 DEF vars, Typed, Types, Rows
<1>. QED
  BY <1>1, TypesInv, RowsInv DEF Typed

-----------------------------------------------------------------------------
(* The ForexOrders that rows and objects name. *)

LEMMA BackedInv == Typed /\ AllBacked /\ [Next]_vars => AllBacked'
<1> SUFFICES ASSUME Typed, AllBacked, [Next]_vars
             PROVE  AllBacked'
  OBVIOUS
<1> USE DEF Typed, Types, AllBacked, Holding
<1>0. /\ Calls \cap Passes = {} /\ Calls \subseteq Tasks /\ Passes \subseteq Tasks
  BY ConstantsAssumption DEF Tasks
<1>a. ASSUME audit \subseteq audit', traded \subseteq traded', NEW x, Backed(x)
      PROVE  Backed(x)'
  BY <1>a DEF Backed
<1>1. ASSUME NEW o \in Orders, CreateLimitOrder(o) \/ BecomeDue(o)
      PROVE  AllBacked'
  BY <1>0, <1>1 DEF CreateLimitOrder, BecomeDue, NewRow, Backed
<1>2. ASSUME NEW c \in Calls, NEW o \in Orders, CancelLimitOrder(c, o) \/ ExecuteLimitOrder(c, o)
      PROVE  AllBacked'
  BY <1>0, <1>2, Begun DEF Backed
<1>3. ASSUME NEW p \in Passes, CheckPendingLimitOrders(p)
      PROVE  AllBacked'
  <2>1. \A e \in todo'[p] : Backed(e.row.forexOrder)
    BY <1>3, ReadObject DEF CheckPendingLimitOrders, Open
  <2>2. pc'[p] = "checking" /\ \A t \in Tasks \ {p} : pc'[t] = pc[t]
    BY <1>0, <1>3 DEF CheckPendingLimitOrders, Goto
  <2>3. \A q \in Passes \ {p} : todo'[q] = todo[q]
    BY <1>3 DEF CheckPendingLimitOrders
  <2>. QED
    BY <1>0, <1>3, <2>1, <2>2, <2>3 DEF CheckPendingLimitOrders, Backed
<1>4. ASSUME NEW t \in Tasks, LoadRow(t)
      PROVE  AllBacked'
  BY <1>0, <1>4 DEF LoadRow, Goto, Backed
<1>5. ASSUME NEW t \in Tasks, WriteRow(t)
      PROVE  AllBacked'
  BY <1>0, <1>5, Written, UpdatedColumns, SMTT(30) DEF Backed, TakesEffect
<1>6. ASSUME NEW t \in Tasks, SaveFails(t)
      PROVE  AllBacked'
  <2>1. \A o \in Orders : Backed(table'[o].forexOrder)
    BY <1>6, FailedSave, UpdatedColumns DEF TakesEffect, Backed
  <2>. QED
    BY <1>0, <1>6, <2>1, FailedSave DEF Backed
<1>7. ASSUME NEW c \in Calls, Trade(c) \/ SaveForexOrder(c)
      PROVE  AllBacked'
  BY <1>0, <1>7, Traded DEF Backed
<1>8. ASSUME NEW p \in Passes, CheckOrder(p)
      PROVE  AllBacked'
  BY <1>0, <1>8, Checked DEF Backed
<1>9. ASSUME NEW p \in Passes, FinishPass(p)
      PROVE  AllBacked'
  BY <1>0, <1>9 DEF FinishPass, Leave, Goto, Backed
<1>10. CASE ExpireOldLimitOrders
  <2>1. \A o \in Orders : table'[o].forexOrder = table[o].forexOrder
    BY <1>10 DEF ExpireOldLimitOrders, Expirable, Columns
  <2>. QED
    BY <1>0, <1>10, <2>1 DEF ExpireOldLimitOrders, Backed
<1>11. CASE UNCHANGED vars
  BY <1>11 DEF vars, Backed
<1>. QED
  BY <1>1, <1>2, <1>3, <1>4, <1>5, <1>6, <1>7, <1>8, <1>9, <1>10, <1>11 DEF Next, Continue, Save

-----------------------------------------------------------------------------
(* The steps, seen from an order that is still not shared after them. *)

\* A step that leaves the row of o alone, after which o has no object it did not have.
LEMMA Undisturbed ==
  ASSUME NEW o \in Orders, Serial(o), table'[o] = table[o], o \in unsure => o \in unsure',
         \A t \in Tasks : \/ UNCHANGED <<pc[t], entity[t], loaded[t]>>
                          \/ ~(pc'[t] \in Holding /\ entity'[t].id = o),
         \A p \in Passes : \A e \in todo'[p] : e.id = o => e \in todo[p]
  PROVE  Serial(o)'
<1> USE DEF Serial, Holds
<1>1. Alone(o)'
  BY DEF Alone
<1>2. InStep(o)'
  BY DEF InStep, StatusUnder, Belied
<1>3. Settled(o)'
  BY DEF Settled
<1>. QED
  BY <1>1, <1>2, <1>3

\* A step after which t holds the one object of o, if o has one, and in step.
LEMMA SoleHolder ==
  ASSUME NEW o \in Orders, NEW t \in Tasks,
         \A u \in Tasks : Holds(u, o)' => u = t,
         \A p \in Passes : \A e \in todo'[p] : e.id # o,
         Holds(t, o)' =>
           /\ table'[o].status = StatusUnder(entity'[t].row.status, pc'[t]) \/ Belied(t, o)'
           /\ entity'[t].row.status = "COMPLETED" => entity'[t].row.forexOrder # None
           /\ pc'[t] = "writing" => loaded'[t] = table'[o],
         Settled(o)'
  PROVE  Serial(o)'
<1>1. Alone(o)'
  BY DEF Alone
<1>2. InStep(o)'
  BY DEF InStep, StatusUnder, Belied
<1>. QED
  BY <1>1, <1>2 DEF Serial

\* What holds of the object of o while a task t holds it.
LEMMA HeldAlone ==
  ASSUME Typed, NEW o \in Orders, Serial(o), NEW t \in Tasks, Holds(t, o)
  PROVE  /\ \A u \in Tasks : Holds(u, o) => u = t
         /\ \A p \in Passes : \A e \in todo[p] : e.id # o
         /\ table[o].status = StatusUnder(entity[t].row.status, pc[t]) \/ Belied(t, o)
         /\ entity[t].row.status = "COMPLETED" => entity[t].row.forexOrder # None
         /\ pc[t] = "writing" => loaded[t] = table[o]
         /\ Settled(o)
BY DEF Serial, Alone, InStep

LEMMA NotHeld ==
  ASSUME NEW o, o \notin Held
  PROVE  /\ \A t \in Tasks : ~Holds(t, o)
         /\ \A p \in Passes : \A e \in todo[p] : e.id # o
BY HeldIs

LEMMA CreateSerial ==
  ASSUME Typed, NEW o \in Orders, Serial(o), NEW q \in Orders, CreateLimitOrder(q)
  PROVE  Serial(o)'
<1> USE DEF Typed, Types, CreateLimitOrder
<1>1. CASE o # q
  BY <1>1, Undisturbed
<1>2. CASE o = q
  <2>1. o \notin Held
    BY <1>2, TypedImpliesTypeOK DEF TypeOK
  <2>2. /\ \A t \in Tasks : ~Holds(t, o)'
        /\ \A p \in Passes : \A e \in todo'[p] : e.id # o
    BY <2>1, NotHeld DEF Holds
  <2>3. Settled(o)'
    BY <1>2 DEF Settled, NewRow
  <2>. QED
    BY <2>2, <2>3 DEF Serial, Alone, InStep
<1>. QED
  BY <1>1, <1>2

LEMMA BeginSerial ==
  ASSUME Typed, NEW o \in Orders \ shared', Serial(o), NEW c \in Calls, NEW q \in Orders,
         CancelLimitOrder(c, q) \/ ExecuteLimitOrder(c, q)
  PROVE  Serial(o)'
<1> USE DEF Typed, Types
<1>0. c \in Tasks
  BY DEF Tasks
<1>1. PICK e \in Objects : /\ entity' = [entity EXCEPT ![c] = e]
                          /\ e.id = q /\ e.row.status \in {"CANCELLED", "EXECUTING"}
  BY Begun
<1>2. /\ table[q].status = "PENDING" /\ pc' = [pc EXCEPT ![c] = "saving"]
      /\ shared' = shared \cup (Held \cap {q})
      /\ UNCHANGED <<table, audit, due, loaded, todo, traded, unsure>>
  BY Begun
<1>3. CASE o # q
  BY <1>0, <1>1, <1>2, <1>3, Undisturbed
<1>4. CASE o = q
  <2>1. o \notin Held
    BY <1>2, <1>4
  <2>2. /\ \A u \in Tasks : Holds(u, o)' => u = c
        /\ \A p \in Passes : \A f \in todo'[p] : f.id # o
    BY <1>0, <1>1, <1>2, <2>1, NotHeld DEF Holds
  <2>3. /\ pc'[c] = "saving" /\ entity'[c].row.status \in {"CANCELLED", "EXECUTING"}
        /\ table'[o].status = "PENDING"
    BY <1>0, <1>1, <1>2, <1>4
  <2>. QED
    BY <1>0, <2>2, <2>3, SoleHolder DEF StatusUnder, Settled
<1>. QED
  BY <1>3, <1>4

LEMMA PassSerial ==
  ASSUME Typed, NEW o \in Orders \ shared', Serial(o), NEW p \in Passes, CheckPendingLimitOrders(p)
  PROVE  Serial(o)'
<1> USE DEF Typed, Types, CheckPendingLimitOrders
<1>0. p \in Tasks /\ pc'[p] = "checking" /\ \A t \in Tasks \ {p} : pc'[t] = pc[t]
  BY DEF Tasks, Goto
<1>1. /\ \A e \in todo'[p] : e.id \in Orders /\ e = Object(e.id) /\ Open(e.id)
      /\ \A q \in Passes \ {p} : todo'[q] = todo[q]
  BY ReadObject
<1>2. CASE ~Open(o)
  BY <1>0, <1>1, <1>2, Undisturbed DEF Holding
<1>3. CASE Open(o)
  <2>1. o \notin Held
    BY <1>3
  <2>2. \A t \in Tasks : ~Holds(t, o)'
    BY <1>0, <2>1, NotHeld DEF Holds, Holding
  <2>3. \A q \in Passes : \A e \in todo'[q] : e.id = o => q = p /\ e = Object(o) /\ e.row = table[o]
    BY <1>1, <2>1, NotHeld, ReadObject
  <2>4. Settled(o)'
    BY DEF Serial, Settled
  <2>5. Alone(o)'
    BY <2>2, <2>3 DEF Alone
  <2>6. InStep(o)'
    BY <2>2, <2>3 DEF InStep
  <2>. QED
    BY <2>4, <2>5, <2>6 DEF Serial
<1>. QED
  BY <1>2, <1>3

LEMMA CheckSerial ==
  ASSUME Typed, NEW o \in Orders, Serial(o), NEW p \in Passes, CheckOrder(p)
  PROVE  Serial(o)'
<1> USE DEF Typed, Types
<1>0. p \in Tasks
  BY DEF Tasks
<1>2. PICK e \in todo[p] : /\ todo' = [todo EXCEPT ![p] = todo[p] \ {e}]
                          /\ entity' = [entity EXCEPT ![p] = e]
  BY Checked
<1>3. /\ pc' = [pc EXCEPT ![p] = "saving"] /\ pc[p] = "checking"
      /\ UNCHANGED <<table, audit, due, loaded, traded, shared, unsure>>
  BY Checked
<1>4. CASE e.id # o
  BY <1>0, <1>2, <1>3, <1>4, Undisturbed
<1>5. CASE e.id = o
  <2>1. /\ \A t \in Tasks : ~Holds(t, o)
        /\ \A q \in Passes : \A g \in todo[q] : g.id = o => q = p /\ g = e
        /\ e.row = table[o] /\ e.row.status = "PENDING"
    BY <1>5 DEF Serial, Alone, InStep, Rows
  <2>2. /\ \A u \in Tasks : Holds(u, o)' => u = p
        /\ \A q \in Passes : \A g \in todo'[q] : g.id # o
    BY <1>0, <1>2, <1>3, <2>1 DEF Holds
  <2>3. /\ pc'[p] = "saving" /\ entity'[p].row.status = "PENDING" /\ table'[o].status = "PENDING"
    BY <1>0, <1>2, <1>3, <2>1
  <2>. QED
    BY <1>0, <2>2, <2>3, SoleHolder DEF StatusUnder, Settled
<1>. QED
  BY <1>4, <1>5

LEMMA LoadSerial ==
  ASSUME Typed, NEW o \in Orders, Serial(o), NEW t \in Tasks, LoadRow(t)
  PROVE  Serial(o)'
<1> USE DEF Typed, Types, LoadRow, Goto
<1>1. CASE entity[t].id # o
  BY <1>1, Undisturbed
<1>2. CASE entity[t].id = o
  <2>1. Holds(t, o) /\ pc[t] = "saving" /\ pc'[t] = "writing" /\ loaded'[t] = table'[o]
    BY <1>2 DEF Holds, Holding
  <2>2. /\ \A u \in Tasks : Holds(u, o)' => u = t
        /\ \A p \in Passes : \A e \in todo'[p] : e.id # o
    BY <2>1, HeldAlone DEF Holds
  <2>3. /\ table'[o].status = StatusUnder(entity'[t].row.status, pc'[t]) \/ Belied(t, o)'
        /\ entity'[t].row.status = "COMPLETED" => entity'[t].row.forexOrder # None
        /\ Settled(o)'
    BY <2>1, HeldAlone DEF StatusUnder, Settled, Belied
  <2>. QED
    BY <2>1, <2>2, <2>3, SoleHolder
<1>. QED
  BY <1>1, <1>2

\* What the save of an order's only holder writes: the object, one step on the way.
LEMMA WrittenRow ==
  ASSUME Typed, NEW o \in Orders, Serial(o), NEW t \in Tasks, pc[t] = "writing",
         TakesEffect(t), entity[t].id = o
  PROVE  /\ Holds(t, o)
         /\ table'[o] = entity[t].row
         /\ table[o].status = StatusUnder(entity[t].row.status, "writing") \/ Belied(t, o)
         /\ Settled(o)'
<1>1. Holds(t, o)
  BY DEF Holds, Holding
<1>2. /\ loaded[t] = table[o]
      /\ table[o].status = StatusUnder(entity[t].row.status, "writing") \/ Belied(t, o)
      /\ entity[t].row.status = "COMPLETED" => entity[t].row.forexOrder # None
  BY <1>1, HeldAlone
<1>3. table'[o] = Updated(table[o], entity[t].row, loaded[t])
  BY DEF TakesEffect, Typed, Types
<1>4. table[o] \in Columns /\ entity[t].row \in Columns
  BY DEF Typed, Types, Objects
<1>5. table'[o] = entity[t].row
  BY <1>2, <1>3, <1>4, UpdatedColumns
<1>. QED
  BY <1>1, <1>2, <1>5 DEF Settled

LEMMA WriteSerial ==
  ASSUME Typed, NEW o \in Orders, Serial(o), NEW t \in Tasks, WriteRow(t)
  PROVE  Serial(o)'
<1> USE DEF Typed, Types
<1>0. /\ pc' \in [Tasks -> Steps] /\ pc'[t] \in {"checking", "trading", "done"}
      /\ pc'[t] = "trading" => entity'[t] = entity[t] /\ entity[t].row.status = "EXECUTING"
      /\ \A u \in Tasks \ {t} : UNCHANGED <<pc[u], entity[u], loaded[u]>>
      /\ todo' = todo /\ unsure' = unsure /\ pc[t] = "writing" /\ TakesEffect(t)
  BY Written DEF Steps, Holding
<1>1. CASE entity[t].id # o
  <2>1. table'[o] = table[o]
    BY <1>0, <1>1 DEF TakesEffect
  <2>2. ~(pc'[t] \in Holding /\ entity'[t].id = o)
    BY <1>0, <1>1 DEF Holding
  <2>. QED
    BY <1>0, <2>1, <2>2, Undisturbed
<1>2. CASE entity[t].id = o
  <2>1. Holds(t, o) /\ table'[o] = entity[t].row /\ Settled(o)'
    BY <1>0, <1>2, WrittenRow
  <2>2. /\ \A u \in Tasks : Holds(u, o)' => u = t
        /\ \A p \in Passes : \A e \in todo'[p] : e.id # o
    BY <1>0, <2>1, HeldAlone DEF Holds
  <2>3. Holds(t, o)' => /\ pc'[t] = "trading" /\ entity'[t].row.status = "EXECUTING"
                        /\ table'[o].status = "EXECUTING"
    BY <1>0, <2>1 DEF Holds, Holding
  <2>. QED
    BY <2>1, <2>2, <2>3, SoleHolder DEF StatusUnder
<1>. QED
  BY <1>1, <1>2

LEMMA FailSerial ==
  ASSUME Typed, NEW o \in Orders, Serial(o), NEW t \in Tasks, SaveFails(t)
  PROVE  Serial(o)'
<1> USE DEF Typed, Types
<1>0. /\ \A u \in Tasks \ {t} : UNCHANGED <<pc[u], entity[u], loaded[u]>>
      /\ \A p \in Passes : todo'[p] \subseteq todo[p]
      /\ \/ table' = table /\ unsure' = unsure
         \/ pc[t] = "writing" /\ TakesEffect(t) /\ unsure' = unsure \cup {entity[t].id}
      /\ pc[t] \in {"saving", "writing"}
      /\ \/ pc'[t] \in {"checking", "threw"}
         \/ /\ pc'[t] = "saving" /\ entity[t].row.status = "COMPLETED"
            /\ entity'[t].id = entity[t].id /\ entity'[t].row.status = "FAILED"
  BY FailedSave
<1>1. CASE entity[t].id # o
  <2>1. table'[o] = table[o] /\ (o \in unsure => o \in unsure')
    BY <1>0, <1>1 DEF TakesEffect
  <2>. QED
    BY <1>0, <1>1, <2>1, Undisturbed DEF Holding
<1>2. CASE entity[t].id = o
  <2>1. Holds(t, o)
    BY <1>0, <1>2 DEF Holds, Holding
  <2>2. /\ \A u \in Tasks : Holds(u, o)' => u = t
        /\ \A p \in Passes : \A e \in todo'[p] : e.id # o
    BY <1>0, <2>1, HeldAlone DEF Holds
  <2>3. Settled(o)'
    <3>1. CASE table' = table
      BY <2>1, <3>1, HeldAlone DEF Settled
    <3>2. CASE pc[t] = "writing" /\ TakesEffect(t)
      BY <1>2, <3>2, WrittenRow
    <3>. QED
      BY <1>0, <3>1, <3>2
  <2>4. Holds(t, o)' => /\ pc'[t] = "saving" /\ entity'[t].row.status = "FAILED"
                        /\ entity[t].row.status = "COMPLETED"
    BY <1>0 DEF Holds, Holding
  <2>5. entity[t].row.status = "COMPLETED"
          => \/ table'[o].status = "EXECUTING"
             \/ o \in unsure' /\ table'[o].status = "COMPLETED"
    <3>1. CASE table' = table
      BY <2>1, <3>1, HeldAlone DEF StatusUnder, Belied
    <3>2. CASE pc[t] = "writing" /\ TakesEffect(t) /\ unsure' = unsure \cup {entity[t].id}
      BY <1>2, <3>2, WrittenRow
    <3>. QED
      BY <1>0, <3>1, <3>2
  <2>. QED
    BY <2>2, <2>3, <2>4, <2>5, SoleHolder DEF StatusUnder, Belied
<1>. QED
  BY <1>1, <1>2

LEMMA TradeSerial ==
  ASSUME Typed, NEW o \in Orders, Serial(o), NEW c \in Calls, Trade(c) \/ SaveForexOrder(c)
  PROVE  Serial(o)'
<1> USE DEF Typed, Types
<1>0. /\ c \in Tasks
      /\ \A u \in Tasks \ {c} : UNCHANGED <<pc[u], entity[u], loaded[u]>>
      /\ UNCHANGED <<table, todo, loaded, unsure>>
      /\ pc[c] \in {"trading", "auditing"} /\ entity[c].row.status = "EXECUTING"
      /\ entity'[c].id = entity[c].id
      /\ \/ pc'[c] = "auditing" /\ entity'[c].row.status = "EXECUTING"
         \/ pc'[c] = "saving" /\ entity'[c].row.status = "FAILED"
         \/ /\ pc'[c] = "saving" /\ entity'[c].row.status = "COMPLETED"
            /\ entity'[c].row.forexOrder = c
  BY Traded DEF Tasks
<1>1. CASE entity[c].id # o
  BY <1>0, <1>1, Undisturbed
<1>2. CASE entity[c].id = o
  <2>1. Holds(c, o)
    BY <1>0, <1>2 DEF Holds, Holding
  <2>2. /\ \A u \in Tasks : Holds(u, o)' => u = c
        /\ \A p \in Passes : \A e \in todo'[p] : e.id # o
        /\ table'[o].status = "EXECUTING" /\ Settled(o)'
    BY <1>0, <2>1, HeldAlone DEF Holds, Settled, StatusUnder, Belied
  <2>3. c # None
    BY ConstantsAssumption
  <2>. QED
    BY <1>0, <2>2, <2>3, SoleHolder DEF StatusUnder
<1>. QED
  BY <1>1, <1>2

LEMMA ExpireSerial ==
  ASSUME Typed, NEW o \in Orders \ shared', Serial(o), ExpireOldLimitOrders
  PROVE  Serial(o)'
<1> USE DEF Typed, Types
<1>1. UNCHANGED <<pc, entity, loaded, todo, unsure>>
  BY DEF ExpireOldLimitOrders
<1>2. CASE o \notin Expirable
  <2>1. table'[o] = table[o]
    BY <1>2 DEF ExpireOldLimitOrders
  <2>. QED
    BY <1>1, <2>1, Undisturbed
<1>3. CASE o \in Expirable
  <2>1. o \notin Held /\ table'[o] = [table[o] EXCEPT !.status = "EXPIRED"]
    BY <1>3 DEF ExpireOldLimitOrders
  <2>2. table[o] \in Columns
    OBVIOUS
  <2>3. Settled(o)'
    BY <2>1, <2>2 DEF Columns, Settled
  <2>4. /\ \A t \in Tasks : ~Holds(t, o)'
        /\ \A p \in Passes : \A e \in todo'[p] : e.id # o
    BY <1>1, <2>1, NotHeld DEF Holds
  <2>. QED
    BY <2>3, <2>4 DEF Serial, Alone, InStep
<1>. QED
  BY <1>2, <1>3

LEMMA SerialInv ==
  ASSUME IInv, Next, NEW o \in Orders \ shared'
  PROVE  Serial(o)'
<1> USE DEF IInv
<1>0. shared \subseteq shared'
  <2>1. \A c \in Calls, q \in Orders :
          CancelLimitOrder(c, q) \/ ExecuteLimitOrder(c, q) => shared \subseteq shared'
    BY DEF CancelLimitOrder, ExecuteLimitOrder
  <2>2. \A t \in Tasks : Save(t) => shared' = shared
    BY DEF Save, LoadRow, WriteRow, SaveFails
  <2>. QED
    BY <2>1, <2>2 DEF Next, Continue, CreateLimitOrder, BecomeDue, CheckPendingLimitOrders, Trade,
          SaveForexOrder, CheckOrder, FinishPass, ExpireOldLimitOrders
<1>1. Typed /\ Serial(o)
  BY <1>0
<1>2. ASSUME NEW q \in Orders, BecomeDue(q)
      PROVE  Serial(o)'
  BY <1>1, <1>2, Undisturbed DEF BecomeDue
<1>3. ASSUME NEW p \in Passes, FinishPass(p)
      PROVE  Serial(o)'
  <2>1. /\ UNCHANGED <<table, loaded, todo, unsure>> /\ pc'[p] = "idle"
        /\ \A t \in Tasks \ {p} : UNCHANGED <<pc[t], entity[t]>>
    BY <1>1, <1>3 DEF FinishPass, Leave, Goto, Typed, Types, Tasks
  <2>. QED
    BY <1>1, <2>1, Undisturbed DEF Holding
<1>. QED
  BY <1>1, <1>2, <1>3, CreateSerial, BeginSerial, PassSerial, CheckSerial, LoadSerial, WriteSerial,
     FailSerial, TradeSerial, ExpireSerial DEF Next, Continue, Save

LEMMA NextInv == IInv /\ [Next]_vars => IInv'
<1>1. ASSUME IInv, UNCHANGED vars
      PROVE  IInv'
  <2>1. \A o \in Orders \ shared' : Serial(o)'
    BY <1>1, Undisturbed DEF vars, IInv
  <2>. QED
    BY <1>1, <2>1, TypedInv, BackedInv DEF IInv, vars
<1>2. ASSUME IInv, Next
      PROVE  IInv'
  BY <1>2, TypedInv, BackedInv, SerialInv DEF IInv
<1>. QED
  BY <1>1, <1>2

\* The row of an order that is not shared, when a save of it takes effect.
LEMMA EffectMoves ==
  ASSUME IInv, NEW o \in Orders \ shared, NEW t \in Tasks, pc[t] = "writing", TakesEffect(t),
         table'[o].status # table[o].status
  PROVE  LET move == <<table[o].status, table'[o].status>>
         IN  move \in Moves \/ (o \in unsure /\ move = <<"COMPLETED", "FAILED">>)
<1>1. Typed /\ Serial(o)
  BY DEF IInv
<1>2. entity[t].id = o
  BY <1>1 DEF TakesEffect, Typed, Types
<1>3. /\ table'[o] = entity[t].row
      /\ table[o].status = StatusUnder(entity[t].row.status, "writing") \/ Belied(t, o)
  BY <1>1, <1>2, WrittenRow
<1>4. entity[t].row.status \in {"PENDING", "EXECUTING", "CANCELLED", "COMPLETED", "FAILED"}
  BY <1>1 DEF Typed, Types, Rows, Holding, Objects, Columns, Statuses
<1>. QED
  BY <1>3, <1>4 DEF Moves, StatusUnder, Belied

\* A step moves the status of an order that is still not shared along its way.
LEMMA StatusMoves ==
  ASSUME IInv, Next, NEW o \in Orders \ shared', table'[o].status # table[o].status
  PROVE  LET move == <<table[o].status, table'[o].status>>
         IN  move \in Moves \/ (o \in unsure' /\ move = <<"COMPLETED", "FAILED">>)
<1> USE DEF Typed, Types
<1>0. Typed
  BY DEF IInv
<1>1. ASSUME NEW q \in Orders, CreateLimitOrder(q)
      PROVE  table[o].status = None /\ table'[o].status = "PENDING"
  BY <1>0, <1>1 DEF CreateLimitOrder, NewRow, NoRow
<1>2. ASSUME NEW t \in Tasks, WriteRow(t) \/ SaveFails(t)
      PROVE  LET move == <<table[o].status, table'[o].status>>
             IN  move \in Moves \/ (o \in unsure' /\ move = <<"COMPLETED", "FAILED">>)
  <2>1. pc[t] = "writing" /\ TakesEffect(t) /\ unsure \subseteq unsure'
    BY <1>0, <1>2, Written, FailedSave
  <2>2. o \notin shared
    BY <1>2 DEF WriteRow, SaveFails
  <2>. QED
    BY <2>1, <2>2, EffectMoves
<1>3. CASE ExpireOldLimitOrders
  <2>1. o \in Expirable /\ table'[o] = [table[o] EXCEPT !.status = "EXPIRED"]
    BY <1>3 DEF ExpireOldLimitOrders
  <2>2. table[o].status = "PENDING" /\ table[o] \in Columns
    BY <1>0, <2>1 DEF Expirable, Open
  <2>. QED
    BY <2>1, <2>2 DEF Moves, Columns
<1>4. \/ table' = table \/ (\E q \in Orders : CreateLimitOrder(q)) \/ ExpireOldLimitOrders
      \/ \E t \in Tasks : WriteRow(t) \/ SaveFails(t)
  BY DEF Next, Continue, Save, LoadRow, BecomeDue, CancelLimitOrder, ExecuteLimitOrder,
     CheckPendingLimitOrders, Trade, SaveForexOrder, CheckOrder, FinishPass
<1>. QED
  BY <1>1, <1>2, <1>3, <1>4 DEF Moves

-----------------------------------------------------------------------------
(* The theorems. *)

\* The invariant holds in every state of an execution.
THEOREM Invariance == Spec => []IInv
<1>1. Init => IInv
  BY InitInv
<1>2. IInv /\ [Next]_vars => IInv'
  BY NextInv
<1>. QED
  BY <1>1, <1>2, PTL DEF Spec

\* Every state is well typed, a pass only has orders to check that it read as PENDING,
\* and a running task only holds objects of orders that exist.
THEOREM TypeCorrect == Spec => []TypeOK
<1>1. IInv => TypeOK
  BY TypedImpliesTypeOK DEF IInv
<1>. QED
  BY <1>1, Invariance, PTL

\* However many calls and passes overlap, and whatever save fails: an order that names
\* a ForexOrder names one that was saved after a trade, and an order that is COMPLETED
\* names one unless a stale object was in play.
THEOREM CompletedOrdersAreAudited == Spec => []CompletedIsAudited
<1>1. IInv => CompletedIsAudited
  BY DEF IInv, AllBacked, Backed, Serial, Settled, CompletedIsAudited
<1>. QED
  BY <1>1, Invariance, PTL

\* An order that tasks only had one object of at a time is settled once: its status takes
\* the steps of Moves and no other, whatever fails on the way, but that FAILED is written
\* over COMPLETED after a save as COMPLETED that took effect and yet failed.
THEOREM OrdersKeepTheirWay == Spec => SerialLifecycle
<1>1. IInv /\ [Next]_vars =>
        [\A o \in Orders \ shared' :
           LET move == <<table[o].status, table'[o].status>>
           IN  table'[o].status # table[o].status
                 => move \in Moves \/ (o \in unsure' /\ move = <<"COMPLETED", "FAILED">>)]_vars
  BY StatusMoves
<1>. QED
  BY <1>1, Invariance, PTL DEF Spec, SerialLifecycle

=============================================================================
