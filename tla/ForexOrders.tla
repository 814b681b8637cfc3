---------------------------- MODULE ForexOrders ----------------------------
(***************************************************************************)
(* The purchase of currency in the transaction micro-service:              *)
(* TransactionsService.buyForex and what it calls, the BullMQ queue        *)
(* forex_retry_queue, and RetryOrderConsumer, its worker.                  *)
(*                                                                         *)
(* An attempt is one run of a purchase: the HTTP request that creates the  *)
(* order, or one run of a retry job.  Attempt <<o, n>> is the n-th of      *)
(* order o; pc says at which await it stands.  Each attempt that goes on   *)
(* to buy creates one ForexTransaction, and each attempt enqueues at most  *)
(* one job, so the attempt names its transaction and its job too.          *)
(*                                                                         *)
(* The wallet service is seen from here as a call that trades or answers   *)
(* an error (its own model is WalletService).  BullMQ is modelled from how *)
(* the service uses it: jobs added without options are run once, and run   *)
(* again once if the worker's lock on them expired (a stalled job).        *)
(***************************************************************************)
EXTENDS Integers, FiniteSets

CONSTANTS
  Orders,
  MaxRetries,   \* MAX_FOREX_RETRIES, 3 unless configured
  MaxFaults     \* bound: how often a call, a connection or a process fails

ASSUME ConstantsAssumption ==
  /\ MaxRetries \in Nat \ {0}
  /\ MaxFaults \in Nat

\* Each attempt enqueues at most one job and a job is run at most twice.
MaxAttempts == 2 * MaxRetries + 1
Attempts == Orders \X (1 .. MaxAttempts)
Order(a) == a[1]
None == <<>>

VARIABLES
  status,         \* ForexOrder.status, "NONE" before the order exists
  retryAttempts,  \* ForexOrder.retryAttempts
  txn,            \* ForexTransaction.status of each attempt's transaction
  pc,             \* where each attempt stands
  origin,         \* the attempt whose job this attempt runs; None for the HTTP request
  turn,           \* what the attempt's increment made of retryAttempts
  job,            \* the state in BullMQ of the job each attempt enqueued
  run,            \* the attempt that holds the lock of the job
  stalls,         \* how often the job stalled
  mails,          \* the kinds of e-mail sent about each order
  called,         \* history: attempts that called the wallet service
  traded,         \* history: attempts for which the wallet service traded
  inflight,       \* calls of the wallet service whose answer nobody waits for
  faults          \* history: faults so far

orders == <<status, retryAttempts, txn>>
queue == <<job, run, stalls>>
history == <<called, traded, inflight, faults>>
vars == <<status, retryAttempts, txn, pc, origin, turn, job, run, stalls, mails,
          called, traded, inflight, faults>>

-----------------------------------------------------------------------------

Statuses == {"NONE", "PENDING", "COMPLETED", "FAILED"}
TxnStatuses == {"NONE", "INITIATED", "COMPLETED", "FAILED"}
\* Steps at which an attempt awaits one of its databases, the queue or the broker.
Awaiting == {"incrementing", "loading", "saving", "succeeding", "failing", "retrying",
             "exhausted", "rejecting", "enqueueing", "mailSuccess", "mailFailure"}
Live == Awaiting \cup {"calling", "returning"}
Steps == Live \cup {"idle", "returned", "threw", "crashed"}
JobStates == {"none", "waiting", "active", "completed", "failed"}

Init ==
  /\ status = [o \in Orders |-> "NONE"]
  /\ retryAttempts = [o \in Orders |-> 0]
  /\ txn = [a \in Attempts |-> "NONE"]
  /\ pc = [a \in Attempts |-> "idle"]
  /\ origin = [a \in Attempts |-> None]
  /\ turn = [a \in Attempts |-> 0]
  /\ job = [a \in Attempts |-> "none"]
  /\ run = [a \in Attempts |-> None]
  /\ stalls = [a \in Attempts |-> 0]
  /\ mails = [o \in Orders |-> {}]
  /\ called = {}
  /\ traded = {}
  /\ inflight = {}
  /\ faults = 0

Goto(a, step) == pc' = [pc EXCEPT ![a] = step]

\* The next unused attempt of an order.
Fresh(a) ==
  /\ pc[a] = "idle"
  /\ \A b \in Attempts : Order(b) = Order(a) /\ b[2] < a[2] => pc[b] # "idle"

\* What becomes of the job that attempt a runs, if it still has the job's lock: the
\* worker moves it to completed or failed, and a job that fails is not tried again.
JobAfter(a, outcome) ==
  LET j == origin[a]
  IN  IF j # None /\ job[j] = "active" /\ run[j] = a
      THEN [job EXCEPT ![j] = outcome] ELSE job

-----------------------------------------------------------------------------
(* TransactionsService: the HTTP request, and the purchase itself. *)

\* buyForex: the order is created, then processForexPurchase is entered.
BuyForex(a) ==
  /\ status[Order(a)] = "NONE"
  /\ Fresh(a)
  /\ status' = [status EXCEPT ![Order(a)] = "PENDING"]
  /\ Goto(a, "saving")
  /\ UNCHANGED <<retryAttempts, txn, origin, turn, queue, mails, history>>

\* processForexPurchase saves the transaction of this attempt.
SaveTransaction(a) ==
  /\ pc[a] = "saving"
  /\ txn' = [txn EXCEPT ![a] = "INITIATED"]
  /\ Goto(a, "calling")
  /\ UNCHANGED <<status, retryAttempts, origin, turn, queue, mails, history>>

\* A mutant of AfterError: a temporary failure is answered and not enqueued.
AfterErrorMutant(code) == IF code \in {"NOT_FOUND", "INVALID_ARGUMENT"} THEN "failing" ELSE "returning"
\* catchError: NOT_FOUND and INVALID_ARGUMENT fail the order, any other code is retried.
AfterError(code) == IF code \in {"NOT_FOUND", "INVALID_ARGUMENT"} THEN "failing" ELSE "retrying"

\* The wallet service answers: it traded, or it did not and names a code.
CallWallet(a) ==
  /\ pc[a] = "calling"
  /\ called' = called \cup {a}
  /\ \/ /\ traded' = traded \cup {a}
        /\ Goto(a, "succeeding")
     \/ /\ \E code \in {"NOT_FOUND", "INVALID_ARGUMENT", "ABORTED", "UNKNOWN"} :
             Goto(a, AfterError(code))
        /\ UNCHANGED traded
  /\ UNCHANGED <<orders, origin, turn, queue, mails, inflight, faults>>

\* Mutants of Completed: one of the two updates is forgotten.
CompletedTxnOnly(a) == txn' = [txn EXCEPT ![a] = "COMPLETED"] /\ UNCHANGED status
CompletedOrderOnly(a) == status' = [status EXCEPT ![Order(a)] = "COMPLETED"] /\ UNCHANGED txn
\* succeedOrder: order and transaction are updated in one database transaction.
Completed(a) ==
  /\ status' = [status EXCEPT ![Order(a)] = "COMPLETED"]
  /\ txn' = [txn EXCEPT ![a] = "COMPLETED"]

SucceedOrder(a) ==
  /\ pc[a] = "succeeding"
  /\ Completed(a)
  /\ Goto(a, "mailSuccess")
  /\ UNCHANGED <<retryAttempts, origin, turn, queue, mails, history>>

\* failOrder: the transaction first.  A run that found the retries exhausted fails the
\* transaction its job names.
FailTransaction(a) ==
  /\ \/ /\ pc[a] = "failing"
        /\ txn' = [txn EXCEPT ![a] = "FAILED"]
        /\ Goto(a, "rejecting")
     \/ /\ pc[a] = "retrying"
        /\ txn' = [txn EXCEPT ![a] = "FAILED"]
        /\ Goto(a, "enqueueing")
     \/ /\ pc[a] = "exhausted"
        /\ txn' = [txn EXCEPT ![origin[a]] = "FAILED"]
        /\ Goto(a, "rejecting")
  /\ UNCHANGED <<status, retryAttempts, origin, turn, queue, mails, history>>

\* A mutant of RejectOrder: the order row is not updated.
RejectOrderMutant(a) ==
  /\ pc[a] = "rejecting"
  /\ Goto(a, "mailFailure")
  /\ UNCHANGED <<orders, origin, turn, queue, mails, history>>
\* failOrder with hardFail: then the order.
RejectOrder(a) ==
  /\ pc[a] = "rejecting"
  /\ status' = [status EXCEPT ![Order(a)] = "FAILED"]
  /\ Goto(a, "mailFailure")
  /\ UNCHANGED <<retryAttempts, txn, origin, turn, queue, mails, history>>

\* failOrder without hardFail: RetryOrderProducer.enqueue adds the next job.
EnqueueRetry(a) ==
  /\ pc[a] = "enqueueing"
  /\ job' = [job EXCEPT ![a] = "waiting"]
  /\ Goto(a, "returning")
  /\ UNCHANGED <<orders, origin, turn, run, stalls, mails, history>>

\* notifyUser, awaited by both ends of an order.
SendMail(a) ==
  /\ \/ /\ pc[a] = "mailSuccess"
        /\ mails' = [mails EXCEPT ![Order(a)] = @ \cup {"success"}]
     \/ /\ pc[a] = "mailFailure"
        /\ mails' = [mails EXCEPT ![Order(a)] = @ \cup {"failure"}]
  /\ Goto(a, "returning")
  /\ UNCHANGED <<orders, origin, turn, queue, history>>

\* The request is answered, or handleRetry resolves and the worker completes the job.
Return(a) ==
  /\ pc[a] = "returning"
  /\ Goto(a, "returned")
  /\ job' = JobAfter(a, "completed")
  /\ UNCHANGED <<orders, origin, turn, run, stalls, mails, history>>

-----------------------------------------------------------------------------
(* RetryOrderConsumer. *)

\* The worker locks a waiting job and enters handleRetry.
TakeJob(a, j) ==
  /\ job[j] = "waiting"
  /\ Order(a) = Order(j)
  /\ Fresh(a)
  /\ job' = [job EXCEPT ![j] = "active"]
  /\ run' = [run EXCEPT ![j] = a]
  /\ origin' = [origin EXCEPT ![a] = j]
  /\ Goto(a, "incrementing")
  /\ UNCHANGED <<orders, turn, stalls, mails, history>>

\* A mutant of IncrementRetries: the counter is not raised.
IncrementRetriesMutant(a) ==
  /\ pc[a] = "incrementing"
  /\ Goto(a, "loading")
  /\ UNCHANGED <<orders, origin, turn, queue, mails, history>>

\* increment is one UPDATE, so two runs never make the same value of it.
IncrementRetries(a) ==
  /\ pc[a] = "incrementing"
  /\ retryAttempts' = [retryAttempts EXCEPT ![Order(a)] = @ + 1]
  /\ turn' = [turn EXCEPT ![a] = retryAttempts[Order(a)] + 1]
  /\ Goto(a, "loading")
  /\ UNCHANGED <<status, txn, origin, queue, mails, history>>

\* A mutant of Exhausted: off by one.
ExhaustedMutant(o) == retryAttempts[o] > MaxRetries
\* forexOrder.retryAttempts >= maxRetries
Exhausted(o) == retryAttempts[o] >= MaxRetries

\* The order is read back; its status is not looked at.
LoadOrder(a) ==
  /\ pc[a] = "loading"
  /\ Goto(a, IF Exhausted(Order(a)) THEN "exhausted" ELSE "saving")
  /\ UNCHANGED <<orders, origin, turn, queue, mails, history>>

-----------------------------------------------------------------------------
(* Faults, each one counted against MaxFaults. *)

Fault == faults < MaxFaults /\ faults' = faults + 1

\* The answer of the wallet service is lost, before or after it traded: the client sees
\* UNAVAILABLE and goes on.  That the wallet service answers ABORTED because it lost the
\* answer to its own commit is the same case: the order is retried, traded or not.
LoseAnswer(a) ==
  /\ pc[a] = "calling"
  /\ Fault
  /\ called' = called \cup {a}
  /\ inflight' = inflight \cup {a}
  /\ Goto(a, AfterError("UNAVAILABLE"))
  /\ UNCHANGED <<orders, origin, turn, queue, mails, traded>>

\* A call without a caller comes to its end: the wallet service traded, or did not.
EndCall(a) ==
  /\ a \in inflight
  /\ inflight' = inflight \ {a}
  /\ traded' \in {traded, traded \cup {a}}
  /\ UNCHANGED <<orders, pc, origin, turn, queue, mails, called, faults>>

\* An awaited query, publish or enqueue fails.  Nothing catches it: the request ends
\* in an internal error, the job fails for good.  If it was done and its answer was lost,
\* that is as if the attempt had failed at its next await.
StepThrows(a) ==
  /\ pc[a] \in Awaiting
  /\ Fault
  /\ Goto(a, "threw")
  /\ job' = JobAfter(a, "failed")
  /\ UNCHANGED <<orders, origin, turn, run, stalls, mails, called, traded, inflight>>

\* The service dies with every attempt it was running, but not their calls.
Crash ==
  /\ \E a \in Attempts : pc[a] \in Live
  /\ Fault
  /\ pc' = [a \in Attempts |-> IF pc[a] \in Live THEN "crashed" ELSE pc[a]]
  /\ LET calling == {a \in Attempts : pc[a] = "calling"}
     IN  called' = called \cup calling /\ inflight' = inflight \cup calling
  /\ UNCHANGED <<orders, origin, turn, queue, mails, traded>>

\* The lock of an active job expires: its run crashed, or failed to renew the lock in
\* time and goes on unaware.  The job goes back to the queue the first time only
\* (maxStalledCount is 1).
Requeue(j) ==
  /\ job' = [job EXCEPT ![j] = IF stalls[j] = 0 THEN "waiting" ELSE "failed"]
  /\ stalls' = [stalls EXCEPT ![j] = @ + 1]
  /\ UNCHANGED <<orders, pc, origin, turn, run, mails, called, traded, inflight>>

RecoverJob(j) ==
  /\ job[j] = "active"
  /\ pc[run[j]] = "crashed"
  /\ Requeue(j)
  /\ UNCHANGED faults

StallJob(j) ==
  /\ job[j] = "active"
  /\ pc[run[j]] \in Live
  /\ Fault
  /\ Requeue(j)

-----------------------------------------------------------------------------

Continue(a) ==
  \/ SaveTransaction(a)
  \/ CallWallet(a)
  \/ SucceedOrder(a)
  \/ FailTransaction(a)
  \/ RejectOrder(a)
  \/ EnqueueRetry(a)
  \/ SendMail(a)
  \/ Return(a)
  \/ IncrementRetries(a)
  \/ LoadOrder(a)

Faulty ==
  \/ \E a \in Attempts : LoseAnswer(a) \/ StepThrows(a)
  \/ \E j \in Attempts : StallJob(j)
  \/ Crash

Work(j) == (\E a \in Attempts : TakeJob(a, j)) \/ RecoverJob(j)

\* Every order is placed and every attempt and job is over: nothing more happens.
AllSettled ==
  /\ \A o \in Orders : status[o] # "NONE"
  /\ \A a \in Attempts : pc[a] \notin Live /\ job[a] \notin {"waiting", "active"}
  /\ UNCHANGED vars

Next ==
  \/ \E a \in Attempts : BuyForex(a) \/ Continue(a) \/ EndCall(a)
  \/ \E j \in Attempts : Work(j)
  \/ Faulty
  \/ AllSettled

\* A live attempt is resumed, waiting jobs are taken, stalled ones are found.  Nothing
\* says that orders are placed or that faults happen.
Fairness ==
  /\ \A a \in Attempts : WF_vars(Continue(a))
  /\ \A j \in Attempts : WF_vars(Work(j))

Spec == Init /\ [][Next]_vars
FairSpec == Spec /\ Fairness

-----------------------------------------------------------------------------
(* Properties. *)

AttemptsOf(o) == {a \in Attempts : Order(a) = o}
OrderTraded(o) == traded \cap AttemptsOf(o) # {}

\* Types, and: a waiting job always finds an unused attempt, so the bound on the
\* number of attempts hides nothing.
TypeOK ==
  /\ status \in [Orders -> Statuses]
  /\ retryAttempts \in [Orders -> Nat]
  /\ txn \in [Attempts -> TxnStatuses]
  /\ pc \in [Attempts -> Steps]
  /\ origin \in [Attempts -> Attempts \cup {None}]
  /\ turn \in [Attempts -> Nat]
  /\ job \in [Attempts -> JobStates]
  /\ run \in [Attempts -> Attempts \cup {None}]
  /\ stalls \in [Attempts -> 0 .. 2]
  /\ mails \in [Orders -> SUBSET {"success", "failure"}]
  /\ called \subseteq Attempts
  /\ traded \subseteq called
  /\ inflight \subseteq called
  /\ faults \in 0 .. MaxFaults
  /\ \A j \in Attempts : job[j] = "waiting" => \E a \in AttemptsOf(Order(j)) : Fresh(a)

\* The wallet service is called at most MaxRetries times for an order, the first call
\* included, though jobs are run twice and their runs overlap: the counter is raised
\* before it is read.
AttemptsBounded == \A o \in Orders : Cardinality(called \cap AttemptsOf(o)) <= MaxRetries

\* Whatever crashes or runs twice, what the user is told succeeded did: a COMPLETED
\* order has a COMPLETED transaction, a COMPLETED transaction belongs to an attempt
\* that traded, and a success mail is only sent for an order that has one.
SuccessIsReal ==
  /\ \A o \in Orders :
       status[o] = "COMPLETED" \/ "success" \in mails[o]
         => \E a \in AttemptsOf(o) : txn[a] = "COMPLETED"
  /\ \A a \in Attempts : txn[a] = "COMPLETED" => a \in traded

\* The retries of an order end: there comes a time when nothing runs or waits for it,
\* after any number of crashes and stalls within the bound.
RetriesEnd ==
  \A o \in Orders :
    status[o] # "NONE" ~> \A a \in AttemptsOf(o) :
                              pc[a] \notin Live /\ job[a] \notin {"waiting", "active"}

\* The user is mailed the outcome the order has, and only that.
MailMatchesStatus ==
  \A o \in Orders : mails[o] \subseteq CASE status[o] = "COMPLETED" -> {"success"}
                                        [] status[o] = "FAILED" -> {"failure"}
                                        [] OTHER -> {}

\* Every order placed is reported to its user in the end.
EveryOrderReported == \A o \in Orders : status[o] # "NONE" ~> mails[o] # {}

\* Seen from outside, an order is traded at most once and settled accordingly: the
\* lifecycle of OrderLifecycle, with each attempt that traded counted as a trade.
Lifecycle == INSTANCE OrderLifecycle
  WITH trades <- [o \in Orders |-> Cardinality(traded \cap AttemptsOf(o))]
ImplementsLifecycle == Lifecycle!Spec

\* An order that is COMPLETED is not executed again.
CompletedNotReexecuted ==
  [][\A o \in Orders : status[o] = "COMPLETED"
       => called' \cap AttemptsOf(o) = called \cap AttemptsOf(o)]_vars

\* A FAILED order moved no money, so failing it needs no compensation.
FailedNeedsNoRollback == \A o \in Orders : status[o] = "FAILED" => ~OrderTraded(o)
=============================================================================
