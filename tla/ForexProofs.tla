---------------------------- MODULE ForexProofs ----------------------------
(***************************************************************************)
(* Theorems about ForexOrders, for any set of orders, any MaxRetries and   *)
(* any number of faults.                                                   *)
(***************************************************************************)
EXTENDS ForexOrders, NumberLemmas, TLAPS

-----------------------------------------------------------------------------
(* The inductive invariant. *)

\* The types of TypeOK, without its bounds.
Typed ==
  /\ status \in [Orders -> Statuses]
  /\ retryAttempts \in [Orders -> Nat]
  /\ txn \in [Attempts -> TxnStatuses]
  /\ pc \in [Attempts -> Steps]
  /\ origin \in [Attempts -> Attempts \cup {None}]
  /\ turn \in [Attempts -> Nat]
  /\ job \in [Attempts -> JobStates]
  /\ run \in [Attempts -> Attempts \cup {None}]
  /\ stalls \in [Attempts -> Nat]
  /\ mails \in [Orders -> SUBSET {"success", "failure"}]
  /\ called \subseteq Attempts
  /\ traded \subseteq called
  /\ inflight \subseteq called
  /\ faults \in 0 .. MaxFaults

\* What the step an attempt stands at says of its transaction and of its job.
TxnAtStep(a) ==
  /\ pc[a] \in {"idle", "incrementing", "loading", "saving", "exhausted"} => txn[a] = "NONE"
  /\ pc[a] \in {"calling", "succeeding", "failing", "retrying"} => txn[a] = "INITIATED"
  /\ pc[a] = "enqueueing" => txn[a] = "FAILED"
  /\ pc[a] = "mailSuccess" => txn[a] = "COMPLETED"
  /\ pc[a] = "succeeding" => a \in traded
  /\ pc[a] \in {"incrementing", "loading", "exhausted"} => origin[a] # None
  /\ txn[a] = "COMPLETED" => a \in traded

\* Jobs are enqueued, and run, for failed transactions only.
JobOfFailed(a) ==
  /\ job[a] # "none" => txn[a] = "FAILED"
  /\ origin[a] # None => job[origin[a]] # "none"

TxnsFollowSteps == \A a \in Attempts : TxnAtStep(a) /\ JobOfFailed(a)

\* What is told to have succeeded has a COMPLETED transaction.
ToldIsCompleted ==
  \A o \in Orders :
    status[o] = "COMPLETED" \/ "success" \in mails[o]
      => \E a \in AttemptsOf(o) : txn[a] = "COMPLETED"

\* An attempt that called the wallet service, or is about to decide on it.
Counted(a) == a \in called \/ pc[a] \in {"loading", "saving", "calling"}

\* An attempt has called, or may call, only with a turn below MaxRetries.
TurnInTime(a) ==
  /\ turn[a] <= retryAttempts[Order(a)]
  /\ pc[a] = "idle" => turn[a] = 0
  /\ pc[a] \in {"idle", "incrementing"} => a \notin called
  /\ a \in called \/ pc[a] \in {"saving", "calling"} => turn[a] < MaxRetries

\* No two of an order's attempts have the same turn.
TurnsDiffer ==
  \A a, b \in Attempts :
    Counted(a) /\ Counted(b) /\ Order(a) = Order(b) /\ turn[a] = turn[b] => a = b

\* Nothing happens to an order before it is placed.
Unplaced(a) ==
  status[Order(a)] = "NONE" => pc[a] = "idle" /\ a \notin called /\ job[a] = "none"

TurnsBounded ==
  /\ \A a \in Attempts : TurnInTime(a) /\ Unplaced(a)
  /\ TurnsDiffer

\* The job of j was run never, once at most, twice at most.
Runs(j) == {a \in Attempts : origin[a] = j}
NeverRun(j) == Runs(j) = {}
RunOnce(j) == \A a, b \in Runs(j) : a = b
RunTwice(j) == \A a, b, c \in Runs(j) : a = b \/ b = c \/ a = c

\* A job is run again only after it stalled, and it is put back only once.
RunsFollowStalls(j) ==
  /\ job[j] = "none" => NeverRun(j) /\ stalls[j] = 0
  /\ job[j] = "waiting" => stalls[j] < 2 /\ RunOnce(j) /\ (stalls[j] = 0 => NeverRun(j))
  /\ job[j] = "active" => stalls[j] < 2 /\ (stalls[j] = 0 => RunOnce(j))
  /\ RunTwice(j) /\ stalls[j] <= 2

\* Only an attempt that called the wallet service enqueues a job, one, at its end; and a
\* job is run by attempts of its order.
JobOfCaller(a) ==
  /\ pc[a] \in {"retrying", "enqueueing"} \/ job[a] # "none" => a \in called
  /\ job[a] # "none" => pc[a] \in {"returning", "returned", "threw", "crashed"}
  /\ origin[a] # None => Order(origin[a]) = Order(a)

\* The HTTP request of an order is the only attempt that no job started.
OneRequest ==
  \A a, b \in Attempts :
    /\ Order(a) = Order(b)
    /\ pc[a] # "idle" /\ pc[b] # "idle"
    /\ origin[a] = None /\ origin[b] = None
    => a = b

RunsBounded ==
  /\ \A a \in Attempts : RunsFollowStalls(a) /\ JobOfCaller(a)
  /\ OneRequest

IInv == Typed /\ TxnsFollowSteps /\ ToldIsCompleted /\ TurnsBounded /\ RunsBounded

-----------------------------------------------------------------------------
(* What the steps have in common. *)

LEMMA OrderOfAttempt == \A a \in Attempts : Order(a) \in Orders
BY DEF Attempts, Order

LEMMA NoneIsNoAttempt == None \notin Attempts
BY DEF Attempts, None

\* The actions of Next, when its disjunctions are resolved.
LEMMA NextCases ==
  ASSUME Next
  PROVE  \/ \E a \in Attempts :
              \/ BuyForex(a) \/ SaveTransaction(a) \/ CallWallet(a) \/ SucceedOrder(a)
              \/ FailTransaction(a) \/ RejectOrder(a) \/ EnqueueRetry(a) \/ SendMail(a)
              \/ Return(a) \/ IncrementRetries(a) \/ LoadOrder(a)
              \/ LoseAnswer(a) \/ EndCall(a) \/ StepThrows(a)
              \/ RecoverJob(a) \/ StallJob(a)
         \/ \E a, j \in Attempts : TakeJob(a, j)
         \/ Crash
         \/ UNCHANGED vars
BY DEF Next, Continue, Work, Faulty, AllSettled

\* The job a finished run leaves behind has a state, and no job comes or goes.
LEMMA JobAfterType ==
  ASSUME Typed, NEW a \in Attempts, NEW outcome \in {"completed", "failed"},
         job' = JobAfter(a, outcome)
  PROVE  /\ job' \in [Attempts -> JobStates]
         /\ \A b \in Attempts : job'[b] = "none" <=> job[b] = "none"
BY DEF Typed, JobAfter, JobStates

\* A job that loses its lock, likewise.
LEMMA RequeueType ==
  ASSUME Typed, NEW j \in Attempts, job[j] = "active", Requeue(j)
  PROVE  /\ job' \in [Attempts -> JobStates]
         /\ \A b \in Attempts : job'[b] = "none" <=> job[b] = "none"
BY DEF Typed, Requeue, JobStates

LEMMA InitInv == Init => IInv
<1> SUFFICES ASSUME Init PROVE IInv
  OBVIOUS
<1> USE DEF Init
<1>1. Typed
  BY ConstantsAssumption DEF Typed, Statuses, TxnStatuses, Steps, Live, Awaiting, JobStates
<1>2. TxnsFollowSteps
  BY DEF TxnsFollowSteps, TxnAtStep, JobOfFailed
<1>3. ToldIsCompleted
  BY DEF ToldIsCompleted
<1>4. TurnsBounded
  BY OrderOfAttempt, ConstantsAssumption
  DEF TurnsBounded, TurnInTime, Unplaced, TurnsDiffer, Counted
<1>5. RunsBounded
  BY NoneIsNoAttempt DEF RunsBounded, RunsFollowStalls, NeverRun, RunOnce, RunTwice, Runs, JobOfCaller, OneRequest
<1>. QED
  BY <1>1, <1>2, <1>3, <1>4, <1>5 DEF IInv

-----------------------------------------------------------------------------
(* Types. *)

LEMMA NextTyped ==
  ASSUME Typed, Next
  PROVE  Typed'
<1> USE OrderOfAttempt, ConstantsAssumption
<1> USE DEF orders, queue, history, Goto, Fault, Steps, Live, Awaiting, Statuses, TxnStatuses
<1>1. ASSUME NEW a \in Attempts,
             \/ BuyForex(a) \/ SaveTransaction(a) \/ SucceedOrder(a) \/ RejectOrder(a)
             \/ SendMail(a) \/ LoadOrder(a)
      PROVE  Typed'
  BY <1>1 DEF Typed, BuyForex, SaveTransaction, SucceedOrder, Completed, RejectOrder,
              SendMail, LoadOrder
<1>2. ASSUME NEW a \in Attempts, CallWallet(a) \/ LoseAnswer(a) \/ EndCall(a)
      PROVE  Typed'
  BY <1>2 DEF Typed, CallWallet, LoseAnswer, EndCall, AfterError
<1>3. ASSUME NEW a \in Attempts, FailTransaction(a)
      PROVE  Typed'
  BY <1>3 DEF Typed, FailTransaction
<1>4. ASSUME NEW a \in Attempts, EnqueueRetry(a)
      PROVE  Typed'
  BY <1>4 DEF Typed, EnqueueRetry, JobStates
<1>5. ASSUME NEW a \in Attempts, Return(a) \/ StepThrows(a)
      PROVE  Typed'
  BY <1>5, JobAfterType DEF Typed, Return, StepThrows
<1>6. ASSUME NEW a \in Attempts, NEW j \in Attempts, TakeJob(a, j)
      PROVE  Typed'
  BY <1>6 DEF Typed, TakeJob, JobStates
<1>7. ASSUME NEW a \in Attempts, IncrementRetries(a)
      PROVE  Typed'
  BY <1>7 DEF Typed, IncrementRetries
<1>8. ASSUME NEW a \in Attempts, RecoverJob(a) \/ StallJob(a)
      PROVE  Typed'
  BY <1>8, RequeueType DEF Typed, RecoverJob, StallJob, Requeue
<1>9. ASSUME Crash
      PROVE  Typed'
  BY <1>9 DEF Typed, Crash
<1>10. ASSUME UNCHANGED vars
       PROVE  Typed'
  BY <1>10 DEF Typed, vars
<1>. QED
  BY NextCases, <1>1, <1>2, <1>3, <1>4, <1>5, <1>6, <1>7, <1>8, <1>9, <1>10

-----------------------------------------------------------------------------
(* Transactions and jobs. *)

LEMMA NextTxnsFollowSteps ==
  ASSUME Typed, TxnsFollowSteps, Next
  PROVE  TxnsFollowSteps'
<1> SUFFICES ASSUME NEW b \in Attempts
             PROVE  TxnAtStep(b)' /\ JobOfFailed(b)'
  BY DEF TxnsFollowSteps
<1> USE DEF orders, queue, history, Goto, Typed, TxnsFollowSteps, TxnAtStep, JobOfFailed
<1>1. ASSUME NEW a \in Attempts,
             \/ BuyForex(a) \/ SaveTransaction(a) \/ SucceedOrder(a) \/ RejectOrder(a)
             \/ SendMail(a) \/ LoadOrder(a) \/ IncrementRetries(a)
      PROVE  TxnAtStep(b)' /\ JobOfFailed(b)'
  BY <1>1 DEF BuyForex, Fresh, SaveTransaction, SucceedOrder, Completed, RejectOrder,
              SendMail, LoadOrder, IncrementRetries
<1>2. ASSUME NEW a \in Attempts, CallWallet(a) \/ LoseAnswer(a) \/ EndCall(a)
      PROVE  TxnAtStep(b)' /\ JobOfFailed(b)'
  BY <1>2 DEF CallWallet, LoseAnswer, EndCall, AfterError
<1>3. ASSUME NEW a \in Attempts, FailTransaction(a)
      PROVE  TxnAtStep(b)' /\ JobOfFailed(b)'
  BY <1>3 DEF FailTransaction
<1>4. ASSUME NEW a \in Attempts, EnqueueRetry(a)
      PROVE  TxnAtStep(b)' /\ JobOfFailed(b)'
  BY <1>4 DEF EnqueueRetry
<1>5. ASSUME NEW a \in Attempts, Return(a) \/ StepThrows(a)
      PROVE  TxnAtStep(b)' /\ JobOfFailed(b)'
  <2>1. \A c \in Attempts : job'[c] = "none" <=> job[c] = "none"
    BY <1>5, JobAfterType DEF Return, StepThrows
  <2>. QED
    BY <1>5, <2>1 DEF Return, StepThrows
<1>6. ASSUME NEW a \in Attempts, NEW j \in Attempts, TakeJob(a, j)
      PROVE  TxnAtStep(b)' /\ JobOfFailed(b)'
  BY <1>6, NoneIsNoAttempt DEF TakeJob, Fresh
<1>7. ASSUME NEW a \in Attempts, RecoverJob(a) \/ StallJob(a)
      PROVE  TxnAtStep(b)' /\ JobOfFailed(b)'
  <2>1. \A c \in Attempts : job'[c] = "none" <=> job[c] = "none"
    BY <1>7, RequeueType DEF RecoverJob, StallJob
  <2>. QED
    BY <1>7, <2>1 DEF RecoverJob, StallJob, Requeue
<1>8. ASSUME Crash
      PROVE  TxnAtStep(b)' /\ JobOfFailed(b)'
  BY <1>8 DEF Crash
<1>9. ASSUME UNCHANGED vars
      PROVE  TxnAtStep(b)' /\ JobOfFailed(b)'
  BY <1>9 DEF vars
<1>. QED
  BY NextCases, <1>1, <1>2, <1>3, <1>4, <1>5, <1>6, <1>7, <1>8, <1>9

\* A COMPLETED transaction stays so.
LEMMA CompletedStays ==
  ASSUME Typed, TxnsFollowSteps, Next, NEW b \in Attempts, txn[b] = "COMPLETED"
  PROVE  txn'[b] = "COMPLETED"
<1> USE DEF orders, Typed, TxnsFollowSteps, TxnAtStep, JobOfFailed
<1>1. ASSUME NEW a \in Attempts, SaveTransaction(a) \/ SucceedOrder(a) \/ FailTransaction(a)
      PROVE  txn'[b] = "COMPLETED"
  BY <1>1 DEF SaveTransaction, SucceedOrder, Completed, FailTransaction
<1>2. ASSUME NEW a \in Attempts,
             \/ BuyForex(a) \/ CallWallet(a) \/ RejectOrder(a) \/ EnqueueRetry(a)
             \/ SendMail(a) \/ Return(a) \/ IncrementRetries(a) \/ LoadOrder(a)
             \/ LoseAnswer(a) \/ EndCall(a) \/ StepThrows(a) \/ RecoverJob(a) \/ StallJob(a)
             \/ \E j \in Attempts : TakeJob(a, j)
      PROVE  UNCHANGED txn
  BY <1>2 DEF BuyForex, CallWallet, RejectOrder, EnqueueRetry, SendMail, Return,
              IncrementRetries, LoadOrder, LoseAnswer, EndCall, StepThrows, RecoverJob,
              StallJob, Requeue, TakeJob
<1>3. CASE Crash
  BY <1>3 DEF Crash
<1>4. CASE UNCHANGED vars
  BY <1>4 DEF vars
<1>. QED
  BY NextCases, <1>1, <1>2, <1>3, <1>4

\* Only succeedOrder completes an order, and only after it is a success mailed.
LEMMA ToldBy ==
  ASSUME Typed, TxnsFollowSteps, Next, NEW o \in Orders,
         status'[o] = "COMPLETED" \/ "success" \in mails'[o]
  PROVE  \/ status[o] = "COMPLETED" \/ "success" \in mails[o]
         \/ \E a \in AttemptsOf(o) : txn'[a] = "COMPLETED"
<1> USE OrderOfAttempt DEF orders, history, Typed, AttemptsOf
<1>1. ASSUME NEW a \in Attempts, SucceedOrder(a)
      PROVE  \/ Order(a) = o /\ txn'[a] = "COMPLETED"
             \/ UNCHANGED <<status[o], mails[o]>>
  BY <1>1 DEF SucceedOrder, Completed
<1>2. ASSUME NEW a \in Attempts, SendMail(a)
      PROVE  \/ Order(a) = o /\ txn'[a] = "COMPLETED"
             \/ status'[o] = status[o] /\ ("success" \in mails'[o] => "success" \in mails[o])
  BY <1>2 DEF SendMail, TxnsFollowSteps, TxnAtStep
<1>3. ASSUME NEW a \in Attempts, BuyForex(a) \/ RejectOrder(a)
      PROVE  status'[o] # "COMPLETED" \/ status'[o] = status[o]
  BY <1>3 DEF BuyForex, RejectOrder
<1>4. ASSUME NEW a \in Attempts, BuyForex(a) \/ RejectOrder(a)
      PROVE  UNCHANGED mails
  BY <1>4 DEF BuyForex, RejectOrder
<1>5. ASSUME NEW a \in Attempts,
             \/ SaveTransaction(a) \/ CallWallet(a) \/ FailTransaction(a) \/ EnqueueRetry(a)
             \/ Return(a) \/ IncrementRetries(a) \/ LoadOrder(a)
             \/ LoseAnswer(a) \/ EndCall(a) \/ StepThrows(a) \/ RecoverJob(a) \/ StallJob(a)
             \/ \E j \in Attempts : TakeJob(a, j)
      PROVE  UNCHANGED <<status, mails>>
  BY <1>5 DEF SaveTransaction, CallWallet, FailTransaction, EnqueueRetry, Return,
              IncrementRetries, LoadOrder, LoseAnswer, EndCall, StepThrows, RecoverJob,
              StallJob, Requeue, TakeJob
<1>6. CASE Crash
  BY <1>6 DEF Crash
<1>7. CASE UNCHANGED vars
  BY <1>7 DEF vars
<1>. QED
  BY NextCases, <1>1, <1>2, <1>3, <1>4, <1>5, <1>6, <1>7

LEMMA NextToldIsCompleted ==
  ASSUME Typed, TxnsFollowSteps, ToldIsCompleted, Next
  PROVE  ToldIsCompleted'
BY ToldBy, CompletedStays DEF ToldIsCompleted, AttemptsOf

-----------------------------------------------------------------------------
(* Turns. *)

LEMMA NextTurnInTime ==
  ASSUME Typed, TxnsFollowSteps, TurnsBounded, Next
  PROVE  \A b \in Attempts : TurnInTime(b)' /\ Unplaced(b)'
<1> SUFFICES ASSUME NEW b \in Attempts
             PROVE  TurnInTime(b)' /\ Unplaced(b)'
  OBVIOUS
<1> USE OrderOfAttempt, ConstantsAssumption
<1> USE DEF orders, queue, history, Goto, Typed, TurnsBounded, TurnInTime, Unplaced
<1>1. ASSUME NEW a \in Attempts,
             \/ BuyForex(a) \/ SaveTransaction(a) \/ SucceedOrder(a) \/ FailTransaction(a)
             \/ RejectOrder(a) \/ SendMail(a)
      PROVE  TurnInTime(b)' /\ Unplaced(b)'
  BY <1>1 DEF BuyForex, Fresh, SaveTransaction, SucceedOrder, Completed, FailTransaction,
              RejectOrder, SendMail
<1>2. ASSUME NEW a \in Attempts, CallWallet(a) \/ LoseAnswer(a) \/ EndCall(a)
      PROVE  TurnInTime(b)' /\ Unplaced(b)'
  BY <1>2 DEF CallWallet, LoseAnswer, EndCall, AfterError
<1>3. ASSUME NEW a \in Attempts, EnqueueRetry(a)
      PROVE  TurnInTime(b)' /\ Unplaced(b)'
  BY <1>3 DEF EnqueueRetry
<1>4. ASSUME NEW a \in Attempts, Return(a) \/ StepThrows(a)
      PROVE  TurnInTime(b)' /\ Unplaced(b)'
  <2>1. \A c \in Attempts : job'[c] = "none" <=> job[c] = "none"
    BY <1>4, JobAfterType DEF Return, StepThrows
  <2>. QED
    BY <1>4, <2>1 DEF Return, StepThrows, Awaiting
<1>5. ASSUME NEW a \in Attempts, NEW j \in Attempts, TakeJob(a, j)
      PROVE  TurnInTime(b)' /\ Unplaced(b)'
  BY <1>5 DEF TakeJob, Fresh
<1>6. ASSUME NEW a \in Attempts, IncrementRetries(a)
      PROVE  TurnInTime(b)' /\ Unplaced(b)'
  BY <1>6 DEF IncrementRetries
<1>7. ASSUME NEW a \in Attempts, LoadOrder(a)
      PROVE  TurnInTime(b)' /\ Unplaced(b)'
  BY <1>7 DEF LoadOrder, Exhausted
<1>8. ASSUME NEW a \in Attempts, RecoverJob(a) \/ StallJob(a)
      PROVE  TurnInTime(b)' /\ Unplaced(b)'
  <2>1. \A c \in Attempts : job'[c] = "none" <=> job[c] = "none"
    BY <1>8, RequeueType DEF RecoverJob, StallJob
  <2>. QED
    BY <1>8, <2>1 DEF RecoverJob, StallJob, Requeue
<1>9. ASSUME Crash
      PROVE  TurnInTime(b)' /\ Unplaced(b)'
  BY <1>9 DEF Crash, Live, Awaiting
<1>10. ASSUME UNCHANGED vars
       PROVE  TurnInTime(b)' /\ Unplaced(b)'
  BY <1>10 DEF vars
<1>. QED
  BY NextCases, <1>1, <1>2, <1>3, <1>4, <1>5, <1>6, <1>7, <1>8, <1>9, <1>10

\* Only a new order, or a raised counter, gives an attempt a turn.
LEMMA CountedBefore ==
  ASSUME Typed, Next, \A a \in Attempts : ~BuyForex(a) /\ ~IncrementRetries(a),
         NEW b \in Attempts, Counted(b)'
  PROVE  Counted(b) /\ turn'[b] = turn[b]
<1> USE DEF orders, queue, history, Goto, Typed, Counted
<1>1. ASSUME NEW a \in Attempts,
             \/ SaveTransaction(a) \/ CallWallet(a) \/ SucceedOrder(a) \/ FailTransaction(a)
             \/ RejectOrder(a) \/ EnqueueRetry(a) \/ SendMail(a) \/ Return(a) \/ LoadOrder(a)
             \/ LoseAnswer(a) \/ EndCall(a) \/ StepThrows(a) \/ RecoverJob(a) \/ StallJob(a)
             \/ \E j \in Attempts : TakeJob(a, j)
      PROVE  Counted(b) /\ turn'[b] = turn[b]
  BY <1>1 DEF SaveTransaction, CallWallet, AfterError, SucceedOrder, FailTransaction,
              RejectOrder, EnqueueRetry, SendMail, Return, LoadOrder, LoseAnswer, EndCall,
              StepThrows, RecoverJob, StallJob, Requeue, TakeJob
<1>2. CASE Crash
  BY <1>2 DEF Crash
<1>3. CASE UNCHANGED vars
  BY <1>3 DEF vars
<1>. QED
  BY NextCases, <1>1, <1>2, <1>3

LEMMA NextTurnsDiffer ==
  ASSUME Typed, TurnsBounded, Next
  PROVE  TurnsDiffer'
<1> USE OrderOfAttempt
<1> USE DEF orders, queue, history, Goto, Typed, TurnsBounded, TurnInTime, Unplaced,
            TurnsDiffer, Counted
<1>1. ASSUME NEW a \in Attempts, BuyForex(a)
      PROVE  TurnsDiffer'
  BY <1>1 DEF BuyForex
<1>2. ASSUME NEW a \in Attempts, IncrementRetries(a)
      PROVE  TurnsDiffer'
  <2>1. \A b \in Attempts : Order(b) = Order(a) => turn[b] < turn'[a]
    BY <1>2 DEF IncrementRetries
  <2>. QED
    BY <1>2, <2>1 DEF IncrementRetries
<1>3. CASE \A a \in Attempts : ~BuyForex(a) /\ ~IncrementRetries(a)
  BY <1>3, CountedBefore
<1>. QED
  BY <1>1, <1>2, <1>3

-----------------------------------------------------------------------------
(* Runs of the jobs. *)

\* What a finished run makes of a job.
LEMMA JobAfterIs ==
  ASSUME Typed, NEW a \in Attempts, NEW outcome, job' = JobAfter(a, outcome), NEW j \in Attempts
  PROVE  job'[j] = job[j] \/ (job[j] = "active" /\ job'[j] = outcome)
BY DEF Typed, JobAfter

\* What becomes of a job that loses its lock.
LEMMA RequeueIs ==
  ASSUME Typed, NEW k \in Attempts, Requeue(k), NEW j \in Attempts
  PROVE  /\ j # k => job'[j] = job[j] /\ stalls'[j] = stalls[j]
         /\ job'[k] = IF stalls[k] = 0 THEN "waiting" ELSE "failed"
         /\ stalls'[k] = stalls[k] + 1
         /\ UNCHANGED <<orders, pc, origin, turn, run, mails, called, traded, inflight>>
BY DEF Typed, Requeue

\* A step that starts no run, and after which a job has at least the runs and stalls that
\* its state allowed before.
LEMMA RunsUnchanged ==
  ASSUME NEW j \in Attempts, RunsFollowStalls(j), UNCHANGED <<origin, stalls>>,
         \/ job'[j] = job[j]
         \/ job[j] = "active" /\ job'[j] \in {"completed", "failed"}
         \/ job[j] = "none" /\ job'[j] = "waiting"
  PROVE  RunsFollowStalls(j)'
BY DEF RunsFollowStalls, NeverRun, RunOnce, RunTwice, Runs

LEMMA NextRunsFollowStalls ==
  ASSUME Typed, TxnsFollowSteps, RunsBounded, Next
  PROVE  \A j \in Attempts : RunsFollowStalls(j)'
<1> SUFFICES ASSUME NEW j \in Attempts
             PROVE  RunsFollowStalls(j)'
  OBVIOUS
<1>0. RunsFollowStalls(j)
  BY DEF RunsBounded
<1> USE DEF queue, history
<1>1. ASSUME NEW a \in Attempts,
             \/ BuyForex(a) \/ SaveTransaction(a) \/ CallWallet(a) \/ SucceedOrder(a)
             \/ FailTransaction(a) \/ RejectOrder(a) \/ SendMail(a) \/ IncrementRetries(a)
             \/ LoadOrder(a) \/ LoseAnswer(a) \/ EndCall(a)
      PROVE  RunsFollowStalls(j)'
  <2>1. UNCHANGED <<origin, stalls, job>>
    BY <1>1 DEF BuyForex, SaveTransaction, CallWallet, SucceedOrder, FailTransaction, RejectOrder,
                SendMail, IncrementRetries, LoadOrder, LoseAnswer, EndCall
  <2>. QED
    BY <1>0, <2>1, RunsUnchanged
<1>2. ASSUME NEW a \in Attempts, EnqueueRetry(a)
      PROVE  RunsFollowStalls(j)'
  <2>1. a = j => job[j] = "none" /\ job'[j] = "waiting"
    BY <1>2, <1>0 DEF EnqueueRetry, Typed, RunsBounded, JobOfCaller, JobStates
  <2>2. a # j => job'[j] = job[j]
    BY <1>2 DEF EnqueueRetry, Typed
  <2>. QED
    BY <1>0, <1>2, <2>1, <2>2, RunsUnchanged DEF EnqueueRetry
<1>3. ASSUME NEW a \in Attempts, Return(a) \/ StepThrows(a)
      PROVE  RunsFollowStalls(j)'
  <2>1. \/ job'[j] = job[j]
        \/ job[j] = "active" /\ job'[j] \in {"completed", "failed"}
    BY <1>3, JobAfterIs DEF Return, StepThrows
  <2>. QED
    BY <1>0, <1>3, <2>1, RunsUnchanged DEF Return, StepThrows
<1>4. ASSUME NEW a \in Attempts, NEW k \in Attempts, TakeJob(a, k)
      PROVE  RunsFollowStalls(j)'
  <2> USE DEF TakeJob, Typed
  <2>1. CASE j = k
    <3>1. \A b \in Runs(j)' : b = a \/ b \in Runs(j)
      BY <1>4 DEF Runs
    <3>2. job[j] = "waiting" /\ job'[j] = "active" /\ stalls' = stalls
      BY <1>4, <2>1
    <3>3. RunOnce(j) /\ (stalls[j] = 0 => NeverRun(j)) /\ stalls[j] < 2 /\ stalls[j] <= 2
      BY <1>0, <3>2 DEF RunsFollowStalls
    <3>4. RunTwice(j)'
      BY <3>1, <3>3 DEF RunTwice, RunOnce
    <3>5. stalls[j] = 0 => RunOnce(j)'
      BY <3>1, <3>3 DEF RunOnce, NeverRun
    <3>. QED
      BY <3>2, <3>3, <3>4, <3>5 DEF RunsFollowStalls
  <2>2. CASE j # k
    <3>1. Runs(j)' \subseteq Runs(j)
      BY <1>4, <2>2 DEF Runs
    <3>2. UNCHANGED <<job[j], stalls>>
      BY <1>4, <2>2
    <3>. QED
      BY <1>0, <3>1, <3>2 DEF RunsFollowStalls, NeverRun, RunOnce, RunTwice
  <2>. QED
    BY <2>1, <2>2
<1>5. ASSUME NEW k \in Attempts, RecoverJob(k) \/ StallJob(k)
      PROVE  RunsFollowStalls(j)'
  <2>1. job[k] = "active" /\ Requeue(k)
    BY <1>5 DEF RecoverJob, StallJob
  <2>2. UNCHANGED origin
    BY <2>1, RequeueIs
  <2>3. CASE j = k
    <3>1. /\ job'[j] = IF stalls[j] = 0 THEN "waiting" ELSE "failed"
          /\ stalls'[j] = stalls[j] + 1 /\ stalls[j] \in Nat
      BY <2>1, <2>3, RequeueIs DEF Typed
    <3>2. stalls[j] < 2 /\ (stalls[j] = 0 => RunOnce(j)) /\ RunTwice(j)
      BY <1>0, <2>1, <2>3 DEF RunsFollowStalls
    <3>3. (RunOnce(j)' <=> RunOnce(j)) /\ (RunTwice(j)' <=> RunTwice(j))
      BY <2>2 DEF RunOnce, RunTwice, Runs
    <3>. QED
      BY <3>1, <3>2, <3>3 DEF RunsFollowStalls
  <2>4. CASE j # k
    <3>1. UNCHANGED <<job[j], stalls[j]>>
      BY <2>1, <2>4, RequeueIs
    <3>. QED
      BY <1>0, <2>2, <3>1 DEF RunsFollowStalls, NeverRun, RunOnce, RunTwice, Runs
  <2>. QED
    BY <2>3, <2>4
<1>6. CASE Crash \/ UNCHANGED vars
  BY <1>0, <1>6, RunsUnchanged DEF Crash, vars
<1>. QED
  BY NextCases, <1>1, <1>2, <1>3, <1>4, <1>5, <1>6

LEMMA NextJobOfCaller ==
  ASSUME Typed, TxnsFollowSteps, RunsBounded, Next
  PROVE  \A b \in Attempts : JobOfCaller(b)'
<1> SUFFICES ASSUME NEW b \in Attempts
             PROVE  JobOfCaller(b)'
  OBVIOUS
<1> USE DEF orders, queue, history, Goto, Typed, RunsBounded, JobOfCaller
<1>1. ASSUME NEW a \in Attempts,
             \/ BuyForex(a) \/ SaveTransaction(a) \/ SucceedOrder(a) \/ FailTransaction(a)
             \/ RejectOrder(a) \/ SendMail(a) \/ IncrementRetries(a) \/ LoadOrder(a)
      PROVE  JobOfCaller(b)'
  BY <1>1 DEF BuyForex, Fresh, SaveTransaction, SucceedOrder, FailTransaction, RejectOrder, SendMail,
              IncrementRetries, LoadOrder
<1>2. ASSUME NEW a \in Attempts, CallWallet(a) \/ LoseAnswer(a) \/ EndCall(a)
      PROVE  JobOfCaller(b)'
  BY <1>2 DEF CallWallet, LoseAnswer, EndCall, AfterError
<1>3. ASSUME NEW a \in Attempts, EnqueueRetry(a)
      PROVE  JobOfCaller(b)'
  BY <1>3 DEF EnqueueRetry
<1>4. ASSUME NEW a \in Attempts, Return(a) \/ StepThrows(a)
      PROVE  JobOfCaller(b)'
  <2>1. job'[b] = "none" <=> job[b] = "none"
    BY <1>4, JobAfterType DEF Return, StepThrows
  <2>. QED
    BY <1>4, <2>1 DEF Return, StepThrows, Awaiting
<1>5. ASSUME NEW a \in Attempts, NEW j \in Attempts, TakeJob(a, j)
      PROVE  JobOfCaller(b)'
  BY <1>5 DEF TakeJob, Fresh
<1>6. ASSUME NEW a \in Attempts, RecoverJob(a) \/ StallJob(a)
      PROVE  JobOfCaller(b)'
  <2>1. job'[b] = "none" <=> job[b] = "none"
    BY <1>6, RequeueType DEF RecoverJob, StallJob
  <2>. QED
    BY <1>6, <2>1 DEF RecoverJob, StallJob, Requeue
<1>7. CASE Crash
  BY <1>7 DEF Crash, Live, Awaiting
<1>8. CASE UNCHANGED vars
  BY <1>8 DEF vars
<1>. QED
  BY NextCases, <1>1, <1>2, <1>3, <1>4, <1>5, <1>6, <1>7, <1>8

LEMMA NextOneRequest ==
  ASSUME Typed, TurnsBounded, RunsBounded, Next
  PROVE  OneRequest'
<1> USE DEF orders, queue, history, Goto, Typed, RunsBounded, OneRequest
<1>1. ASSUME NEW a \in Attempts, BuyForex(a)
      PROVE  OneRequest'
  BY <1>1 DEF BuyForex, TurnsBounded, Unplaced
<1>2. ASSUME NEW a \in Attempts, NEW j \in Attempts, TakeJob(a, j)
      PROVE  OneRequest'
  BY <1>2, NoneIsNoAttempt DEF TakeJob
<1>3. ASSUME NEW a \in Attempts,
             \/ SaveTransaction(a) \/ CallWallet(a) \/ SucceedOrder(a) \/ FailTransaction(a)
             \/ RejectOrder(a) \/ EnqueueRetry(a) \/ SendMail(a) \/ Return(a) \/ LoadOrder(a)
             \/ IncrementRetries(a)
             \/ LoseAnswer(a) \/ EndCall(a) \/ StepThrows(a) \/ RecoverJob(a) \/ StallJob(a)
      PROVE  UNCHANGED origin /\ \A b \in Attempts : pc'[b] # "idle" => pc[b] # "idle"
  BY <1>3 DEF SaveTransaction, CallWallet, AfterError, SucceedOrder, FailTransaction,
              RejectOrder, EnqueueRetry, SendMail, Return, LoadOrder, IncrementRetries, LoseAnswer,
              EndCall, StepThrows, Awaiting, RecoverJob, StallJob, Requeue
<1>4. CASE Crash
  BY <1>4 DEF Crash, Live, Awaiting
<1>5. CASE UNCHANGED vars
  BY <1>5 DEF vars
<1>. QED
  BY NextCases, <1>1, <1>2, <1>3, <1>4, <1>5

LEMMA NextInv ==
  ASSUME IInv, [Next]_vars
  PROVE  IInv'
<1>1. CASE Next
  BY <1>1, NextTyped, NextTxnsFollowSteps, NextToldIsCompleted, NextTurnInTime, NextTurnsDiffer,
     NextRunsFollowStalls, NextJobOfCaller, NextOneRequest
  DEF IInv, TurnsBounded, RunsBounded
<1>2. CASE UNCHANGED vars
  BY <1>2 DEF vars, IInv, Typed, TxnsFollowSteps, TxnAtStep, JobOfFailed, ToldIsCompleted,
              AttemptsOf, TurnsBounded, TurnInTime, Unplaced, TurnsDiffer, Counted, RunsBounded,
              RunsFollowStalls, NeverRun, RunOnce, RunTwice, Runs, JobOfCaller, OneRequest
<1>. QED
  BY <1>1, <1>2

LEMMA InductiveInvariant == Spec => []IInv
<1>. QED
  BY InitInv, NextInv, PTL DEF Spec

-----------------------------------------------------------------------------
(* The theorems. *)

\* Attempts that called have different turns below MaxRetries, so they are no more.
LEMMA CallersAreFew ==
  ASSUME Typed, TurnsBounded, NEW o \in Orders
  PROVE  /\ IsFiniteSet(called \cap AttemptsOf(o))
         /\ Cardinality(called \cap AttemptsOf(o)) <= MaxRetries
<1> DEFINE Callers == called \cap AttemptsOf(o)
           Turns == 0 .. (MaxRetries - 1)
           TurnOf == [a \in Callers |-> turn[a]]
<1>1. IsFiniteSet(Turns) /\ Cardinality(Turns) = MaxRetries
  BY ConstantsAssumption, FS_Interval
<1>2. TurnOf \in [Callers -> Turns]
  BY ConstantsAssumption DEF Typed, TurnsBounded, TurnInTime, AttemptsOf
<1>3. \A a, b \in Callers : TurnOf[a] = TurnOf[b] => a = b
  BY DEF TurnsBounded, TurnsDiffer, Counted, AttemptsOf
<1>4. TurnOf \in Injection(Callers, Turns)
  BY <1>2, <1>3 DEF Injection, IsInjective
<1>. QED
  BY <1>1, <1>4, FS_Injection

\* However many jobs stall, run twice or overlap, and however many faults there are, the
\* wallet service is called at most MaxRetries times for an order: IncrementRetries
\* raises the counter in one statement before LoadOrder reads it, so the attempts that
\* call have different turns, all of them below MaxRetries.
THEOREM CallsBounded == Spec => []AttemptsBounded
<1>1. IInv => AttemptsBounded
  BY CallersAreFew DEF IInv, AttemptsBounded
<1>. QED
  BY InductiveInvariant, <1>1, PTL

\* Whatever fails, an order is COMPLETED, and its user mailed a success, only with a
\* COMPLETED transaction, and a transaction is COMPLETED only if its attempt traded:
\* succeedOrder runs after the answer and nothing fails a COMPLETED transaction.
THEOREM ReportedSuccessIsReal == Spec => []SuccessIsReal
<1>1. IInv => SuccessIsReal
  BY DEF IInv, ToldIsCompleted, TxnsFollowSteps, TxnAtStep, SuccessIsReal
<1>. QED
  BY InductiveInvariant, <1>1, PTL

-----------------------------------------------------------------------------
(* The bound on the number of attempts. *)

\* While a job waits, fewer than MaxAttempts of its order's attempts were used: those
\* that a job started are runs of the jobs of callers, two of each at most and one of
\* the waiting job, and there is one more, the HTTP request.
LEMMA RunsAreFew ==
  ASSUME IInv, NEW j \in Attempts, job[j] = "waiting"
  PROVE  LET later == {a \in AttemptsOf(Order(j)) : pc[a] # "idle" /\ origin[a] # None}
         IN  IsFiniteSet(later) /\ Cardinality(later) <= 2 * MaxRetries - 1
<1> DEFINE o == Order(j)
           later == {a \in AttemptsOf(o) : pc[a] # "idle" /\ origin[a] # None}
           callers == called \cap AttemptsOf(o)
           again(a) == \E b \in later : origin[b] = origin[a] /\ b[2] < a[2]
           which == [a \in later |-> <<origin[a], IF again(a) THEN 2 ELSE 1>>]
           places == (callers \X {1, 2}) \ {<<j, 2>>}
<1>1. IsFiniteSet(callers) /\ Cardinality(callers) <= MaxRetries /\ Cardinality(callers) \in Nat
  BY CallersAreFew, OrderOfAttempt, FS_CardinalityType DEF IInv
<1>2. j \in callers
  BY DEF IInv, RunsBounded, JobOfCaller, AttemptsOf
<1>3. IsFiniteSet(places) /\ Cardinality(places) = 2 * Cardinality(callers) - 1
  <2>1. IsFiniteSet({1, 2}) /\ Cardinality({1, 2}) = 2
    <3>1. IsFiniteSet({1}) /\ Cardinality({1}) = 1
      BY FS_Singleton, Zenon
    <3>2. IsFiniteSet({1} \cup {2}) /\ Cardinality({1} \cup {2}) = 2
      BY <3>1, FS_AddElement
    <3>. QED
      BY <3>2
  <2>2. IsFiniteSet(callers \X {1, 2}) /\ Cardinality(callers \X {1, 2}) = Cardinality(callers) * 2
    BY <1>1, <2>1, FS_Product
  <2>3. <<j, 2>> \in callers \X {1, 2}
    BY <1>2
  <2>4. IsFiniteSet(places) /\ Cardinality(places) = Cardinality(callers \X {1, 2}) - 1
    BY <2>2, <2>3, FS_RemoveElement
  <2> HIDE DEF callers, places
  <2>. QED
    BY <1>1, <2>2, <2>4
<1>4. \A a, b \in later : a[2] \in Nat /\ b[2] \in Nat /\ (a # b => a[2] # b[2])
  BY DEF AttemptsOf, Attempts, Order, MaxAttempts
<1>5. \A a \in later : origin[a] \in callers
  BY DEF IInv, Typed, TxnsFollowSteps, JobOfFailed, RunsBounded, JobOfCaller, AttemptsOf
<1>6. \A a, b \in later : origin[a] = j /\ origin[b] = j => a = b
  BY DEF IInv, RunsBounded, RunsFollowStalls, RunOnce, Runs, AttemptsOf
<1>7. \A a, b, c \in later :
        origin[a] = origin[b] /\ origin[b] = origin[c] => a = b \/ b = c \/ a = c
  BY <1>5 DEF IInv, RunsBounded, RunsFollowStalls, RunTwice, Runs, AttemptsOf
<1> HIDE DEF later, callers
<1>8. which \in [later -> places]
  <2> SUFFICES ASSUME NEW a \in later
               PROVE  which[a] \in places
    OBVIOUS
  <2>1. origin[a] = j => ~again(a)
    BY <1>4, <1>6
  <2>. QED
    BY <1>5, <2>1
<1>9. \A a, b \in later : which[a] = which[b] => a = b
  <2> SUFFICES ASSUME NEW a \in later, NEW b \in later, which[a] = which[b], a # b
               PROVE  FALSE
    OBVIOUS
  <2>1. origin[a] = origin[b] /\ (again(a) <=> again(b))
    OBVIOUS
  <2>2. a[2] < b[2] \/ b[2] < a[2]
    BY <1>4
  <2>3. again(a) /\ again(b)
    BY <2>1, <2>2
  <2>4. PICK c \in later : origin[c] = origin[a] /\ c[2] < a[2]
    BY <2>3
  <2>5. PICK d \in later : origin[d] = origin[b] /\ d[2] < b[2]
    BY <2>3
  <2>6. c # a /\ d # b
    BY <1>4, <2>4, <2>5
  <2>7. c = b /\ d = a
    BY <1>7, <2>1, <2>4, <2>5, <2>6
  <2>. QED
    BY <1>4, <2>4, <2>5, <2>7
<1>10. which \in Injection(later, places)
  BY <1>8, <1>9 DEF Injection, IsInjective
<1>11. IsFiniteSet(later) /\ Cardinality(later) <= Cardinality(places) /\ Cardinality(later) \in Nat
  BY <1>3, <1>10, FS_Injection, FS_CardinalityType
<1>. QED
  BY <1>1, <1>3, <1>11, ConstantsAssumption DEF later

LEMMA WaitingJobIsTaken ==
  ASSUME IInv, NEW j \in Attempts, job[j] = "waiting"
  PROVE  \E a \in AttemptsOf(Order(j)) : Fresh(a)
<1> DEFINE o == Order(j)
           used == {a \in AttemptsOf(o) : pc[a] # "idle"}
           later == {a \in AttemptsOf(o) : pc[a] # "idle" /\ origin[a] # None}
           N == {n \in 1 .. MaxAttempts : pc[<<o, n>>] = "idle"}
<1>0. MaxAttempts \in Nat /\ o \in Orders /\ \A n \in 1 .. MaxAttempts : <<o, n>> \in AttemptsOf(o)
  BY ConstantsAssumption, OrderOfAttempt DEF MaxAttempts, AttemptsOf, Attempts, Order
<1>1. IsFiniteSet(later) /\ Cardinality(later) <= 2 * MaxRetries - 1 /\ Cardinality(later) \in Nat
  BY RunsAreFew, FS_CardinalityType
<1>2. IsFiniteSet(used) /\ Cardinality(used) <= 2 * MaxRetries /\ Cardinality(used) \in Nat
  <2>1. CASE used = later
    <3> HIDE DEF used, later
    <3>. QED
      BY <1>1, <2>1, ConstantsAssumption
  <2>2. CASE used # later
    <3>1. PICK r \in used : r \notin later
      BY <2>2
    <3>2. used = later \cup {r}
      BY <3>1 DEF IInv, RunsBounded, OneRequest, AttemptsOf
    <3>3. IsFiniteSet(used) /\ Cardinality(used) = Cardinality(later) + 1
      BY <1>1, <3>1, <3>2, FS_AddElement
    <3> HIDE DEF used, later
    <3>. QED
      BY <1>1, <3>3, ConstantsAssumption
  <2>. QED
    BY <2>1, <2>2, FS_CardinalityType
<1>3. N # {}
  <2> SUFFICES ASSUME N = {}
               PROVE  FALSE
    OBVIOUS
  <2> DEFINE nth == [n \in 1 .. MaxAttempts |-> <<o, n>>]
  <2>1. nth \in Injection(1 .. MaxAttempts, used)
    BY <1>0 DEF Injection, IsInjective
  <2>2. Cardinality(1 .. MaxAttempts) <= Cardinality(used)
    BY <1>2, <2>1, FS_Injection
  <2>3. Cardinality(1 .. MaxAttempts) = MaxAttempts
    BY <1>0, FS_Interval
  <2>4. MaxAttempts = 2 * MaxRetries + 1
    BY DEF MaxAttempts
  <2> HIDE DEF used
  <2>. QED
    BY <1>0, <1>2, <2>2, <2>3, <2>4, ConstantsAssumption
<1>4. PICK n \in N : \A m \in N : n <= m
  <2>1. N \subseteq Nat
    BY <1>0
  <2> HIDE DEF N
  <2>. QED
    BY <1>3, <2>1, SmallestNumber
<1>5. Fresh(<<o, n>>)
  <2> SUFFICES ASSUME NEW b \in Attempts, Order(b) = o, b[2] < n, pc[b] = "idle"
               PROVE  FALSE
    BY DEF Fresh, Order
  <2>1. b = <<o, b[2]>> /\ b[2] \in 1 .. MaxAttempts
    BY DEF Attempts, Order
  <2>2. b[2] \in N
    BY <2>1
  <2>. QED
    BY <1>0, <1>4, <2>1, <2>2
<1>. QED
  BY <1>0, <1>5

\* Every state is well typed; and a waiting job always finds an unused attempt of its
\* order, so the model never runs out of attempts, whatever stalls or crashes.
THEOREM TypeCorrect == Spec => []TypeOK
<1>1. IInv => TypeOK
  BY WaitingJobIsTaken DEF IInv, Typed, RunsBounded, RunsFollowStalls, TypeOK
<1>. QED
  BY InductiveInvariant, <1>1, PTL

-----------------------------------------------------------------------------
(* Without faults, an order has one thing going on at a time. *)

\* The attempt a is under way, or its job is about to be run.
Busy(a) == pc[a] \in Live \ {"returning"} \/ job[a] = "waiting"

\* The status an order has while its busy attempt stands at this step.
StatusAt(step) ==
  CASE step = "mailSuccess" -> "COMPLETED"
    [] step = "mailFailure" -> "FAILED"
    [] OTHER -> "PENDING"

\* Of the attempts of o one is busy at most, at a step that fits the status; one traded
\* at most, and the order is COMPLETED or about to be.
Smooth(o) ==
  /\ \A a \in AttemptsOf(o) : Busy(a) => status[o] = StatusAt(pc[a])
  /\ \A a, b \in AttemptsOf(o) : Busy(a) /\ Busy(b) => a = b
  /\ \A a \in traded \cap AttemptsOf(o) : pc[a] = "succeeding" \/ status[o] = "COMPLETED"
  /\ \A a, b \in traded \cap AttemptsOf(o) : a = b
  /\ mails[o] \subseteq CASE status[o] = "COMPLETED" -> {"success"}
                          [] status[o] = "FAILED" -> {"failure"}
                          [] OTHER -> {}

\* No attempt crashed or threw, and no job lost its run.
AllSmooth ==
  /\ inflight = {}
  /\ \A a \in Attempts :
       /\ pc[a] \notin {"crashed", "threw"}
       /\ job[a] = "active" => run[a] \in Attempts
  /\ \A o \in Orders : Smooth(o)

FaultFree == faults = 0 => AllSmooth

\* The actions of a step before the first fault.
LEMMA FaultFreeCases ==
  ASSUME Typed, Next, faults' = 0
  PROVE  /\ faults = 0
         /\ \/ \E a \in Attempts :
                 \/ BuyForex(a) \/ SaveTransaction(a) \/ CallWallet(a) \/ SucceedOrder(a)
                 \/ FailTransaction(a) \/ RejectOrder(a) \/ EnqueueRetry(a) \/ SendMail(a)
                 \/ Return(a) \/ IncrementRetries(a) \/ LoadOrder(a)
                 \/ EndCall(a) \/ RecoverJob(a)
            \/ \E a, j \in Attempts : TakeJob(a, j)
            \/ UNCHANGED vars
<1>1. faults \in Nat
  BY ConstantsAssumption DEF Typed
<1>2. ~Crash /\ \A a \in Attempts : ~LoseAnswer(a) /\ ~StepThrows(a) /\ ~StallJob(a)
  BY <1>1 DEF Crash, LoseAnswer, StepThrows, StallJob, Fault
<1>3. \A a \in Attempts :
        \/ BuyForex(a) \/ SaveTransaction(a) \/ CallWallet(a) \/ SucceedOrder(a)
        \/ FailTransaction(a) \/ RejectOrder(a) \/ EnqueueRetry(a) \/ SendMail(a)
        \/ Return(a) \/ IncrementRetries(a) \/ LoadOrder(a)
        \/ EndCall(a) \/ RecoverJob(a) \/ \E j \in Attempts : TakeJob(a, j)
        => faults' = faults
  BY DEF history, BuyForex, SaveTransaction, CallWallet, SucceedOrder, FailTransaction, RejectOrder,
         EnqueueRetry, SendMail, Return, IncrementRetries, LoadOrder, EndCall, RecoverJob, TakeJob
<1>. QED
  BY <1>2, <1>3, NextCases DEF vars

\* A step of another order: nothing that concerns o changes but that an attempt of o is
\* busy no more.
LEMMA SmoothOther ==
  ASSUME NEW o \in Orders, Smooth(o), UNCHANGED <<status[o], mails[o]>>,
         \A b \in AttemptsOf(o) :
           /\ Busy(b)' => Busy(b) /\ pc'[b] = pc[b]
           /\ b \in traded' => b \in traded
           /\ pc[b] = "succeeding" => pc'[b] = "succeeding"
  PROVE  Smooth(o)'
<1>1. \A b \in AttemptsOf(o) : Busy(b)' => StatusAt(pc[b])' = StatusAt(pc[b])
  BY DEF StatusAt
<1>2. AttemptsOf(o)' = AttemptsOf(o)
  BY DEF AttemptsOf
<1>. QED
  BY <1>1, <1>2 DEF Smooth

LEMMA NextSmooth ==
  ASSUME IInv, AllSmooth, Next, faults' = 0, NEW o \in Orders
  PROVE  Smooth(o)'
<1> USE OrderOfAttempt
<1> USE DEF orders, queue, history, Goto
<1>0. Typed /\ Smooth(o)
  BY DEF IInv, AllSmooth
<1>1. ASSUME NEW a \in Attempts, SaveTransaction(a) \/ FailTransaction(a) \/ IncrementRetries(a) \/ LoadOrder(a)
      PROVE  Smooth(o)'
  BY <1>0, <1>1 DEF Typed, Smooth, AttemptsOf, Busy, StatusAt, Live, Awaiting, SaveTransaction, FailTransaction,
     IncrementRetries, LoadOrder
<1>2. ASSUME NEW a \in Attempts, BuyForex(a)
      PROVE  Smooth(o)'
  BY <1>0, <1>2 DEF Typed, IInv, TurnsBounded, Unplaced, Smooth, AttemptsOf, Busy, StatusAt, Live, Awaiting, BuyForex
<1>3. ASSUME NEW a \in Attempts, CallWallet(a)
      PROVE  Smooth(o)'
  BY <1>0, <1>3 DEF Typed, Smooth, AttemptsOf, Busy, StatusAt, Live, Awaiting, CallWallet, AfterError
<1>4. ASSUME NEW a \in Attempts, SucceedOrder(a)
      PROVE  Smooth(o)'
  BY <1>0, <1>4 DEF Typed, Smooth, AttemptsOf, Busy, StatusAt, Live, Awaiting, SucceedOrder, Completed
<1>5. ASSUME NEW a \in Attempts, RejectOrder(a)
      PROVE  Smooth(o)'
  BY <1>0, <1>5 DEF Typed, Smooth, AttemptsOf, Busy, StatusAt, Live, Awaiting, RejectOrder
<1>11. ASSUME NEW a \in Attempts, SendMail(a)
      PROVE  Smooth(o)'
  <2>1. /\ UNCHANGED <<status, traded, job>> /\ pc' = [pc EXCEPT ![a] = "returning"]
        /\ pc[a] \in {"mailSuccess", "mailFailure"} /\ Busy(a)
    BY <1>11 DEF SendMail, Busy, Live, Awaiting
  <2>2. CASE Order(a) # o
    <3>1. mails'[o] = mails[o]
      BY <1>0, <1>11, <2>2 DEF SendMail, Typed
    <3>. QED
      BY <1>0, <2>1, <2>2, <3>1, SmoothOther DEF Busy, AttemptsOf, Typed
  <2>3. CASE Order(a) = o
    <3>1. status[o] = StatusAt(pc[a])
      BY <1>0, <2>1, <2>3 DEF Smooth, AttemptsOf
    <3>2. \/ status[o] = "COMPLETED" /\ mails'[o] = mails[o] \cup {"success"}
          \/ status[o] = "FAILED" /\ mails'[o] = mails[o] \cup {"failure"}
      BY <1>0, <1>11, <2>3, <3>1 DEF SendMail, StatusAt, Typed
    <3>3. mails'[o] \subseteq CASE status[o] = "COMPLETED" -> {"success"}
                                [] status[o] = "FAILED" -> {"failure"}
                                [] OTHER -> {}
      BY <1>0, <3>2 DEF Smooth
    <3>4. \A b \in AttemptsOf(o) : Busy(b)' => Busy(b) /\ pc'[b] = pc[b]
      BY <1>0, <2>1 DEF Busy, AttemptsOf, Typed, IInv, RunsBounded, JobOfCaller
    <3>5. \A b \in AttemptsOf(o) : pc[b] = "succeeding" => pc'[b] = "succeeding"
      BY <1>0, <2>1 DEF AttemptsOf, Typed
    <3>6. \A b \in AttemptsOf(o) : Busy(b)' => StatusAt(pc[b])' = StatusAt(pc[b])
      BY <3>4 DEF StatusAt
    <3>. QED
      BY <1>0, <2>1, <3>3, <3>4, <3>5, <3>6 DEF Smooth, AttemptsOf
  <2>. QED
    BY <2>2, <2>3
<1>6. ASSUME NEW a \in Attempts, EnqueueRetry(a)
      PROVE  Smooth(o)'
  BY <1>0, <1>6 DEF Typed, Smooth, AttemptsOf, Busy, StatusAt, Live, Awaiting, EnqueueRetry
<1>7. ASSUME NEW a \in Attempts, Return(a)
      PROVE  Smooth(o)'
  <2>1. \A b \in Attempts : job'[b] = "waiting" => job[b] = "waiting"
    BY <1>0, <1>7, JobAfterIs DEF Return
  <2>2. /\ UNCHANGED <<status, mails, traded>> /\ pc' = [pc EXCEPT ![a] = "returned"]
        /\ pc[a] = "returning"
    BY <1>7 DEF Return
  <2>3. \A b \in Attempts : Busy(b)' => Busy(b) /\ (pc'[b] = pc[b] \/ b = a)
    BY <1>0, <2>1, <2>2 DEF Busy, Typed, Live, Awaiting
  <2>4. StatusAt("returned") = StatusAt("returning")
    BY DEF StatusAt
  <2>5. \A b \in AttemptsOf(o) : Busy(b)' => StatusAt(pc[b])' = StatusAt(pc[b])
    BY <1>0, <2>2, <2>4 DEF StatusAt, Typed, AttemptsOf
  <2>. QED
    BY <1>0, <2>2, <2>3, <2>5 DEF Smooth, AttemptsOf, Typed
<1>8. ASSUME NEW a \in Attempts, EndCall(a) \/ RecoverJob(a)
      PROVE  FALSE
  BY <1>8 DEF AllSmooth, EndCall, RecoverJob
<1>9. ASSUME NEW a \in Attempts, NEW j \in Attempts, TakeJob(a, j)
      PROVE  Smooth(o)'
  <2>1. /\ pc[a] = "idle" /\ pc' = [pc EXCEPT ![a] = "incrementing"]
        /\ job[j] = "waiting" /\ job' = [job EXCEPT ![j] = "active"]
        /\ Order(a) = Order(j)
        /\ UNCHANGED <<status, mails, traded>>
    BY <1>9 DEF TakeJob, Fresh
  <2>2. Busy(j) /\ pc[j] \in {"returning", "returned", "threw", "crashed"}
    BY <2>1 DEF Busy, IInv, RunsBounded, JobOfCaller
  <2>3. \A b \in Attempts : Busy(b)' => b = a \/ (b # j /\ Busy(b) /\ pc'[b] = pc[b])
    BY <1>0, <2>1, <2>2 DEF Busy, Typed, Live, Awaiting
  <2>4. pc'[a] = "incrementing" /\ StatusAt("incrementing") = "PENDING"
    BY <1>0, <2>1 DEF StatusAt, Typed
  <2>5. StatusAt(pc[j]) = "PENDING"
    BY <2>2 DEF StatusAt
  <2>6. \A b \in Attempts : pc[b] = "succeeding" => pc'[b] = "succeeding"
    BY <1>0, <2>1 DEF Typed
  <2>7. CASE Order(a) # o
    BY <1>0, <2>1, <2>3, <2>6, <2>7, SmoothOther DEF AttemptsOf
  <2>8. CASE Order(a) = o
    <3>1. status[o] = "PENDING" /\ \A b \in AttemptsOf(o) : Busy(b) => b = j
      BY <1>0, <2>1, <2>2, <2>5, <2>8 DEF Smooth, AttemptsOf
    <3>2. \A b \in AttemptsOf(o) : Busy(b)' => b = a
      BY <2>3, <3>1 DEF AttemptsOf
    <3>3. \A b \in AttemptsOf(o) : Busy(b)' => StatusAt(pc[b])' = "PENDING"
      BY <2>4, <3>2 DEF StatusAt
    <3>. QED
      BY <1>0, <2>1, <2>6, <3>1, <3>2, <3>3 DEF Smooth, AttemptsOf
  <2>. QED
    BY <2>7, <2>8
<1>10. CASE UNCHANGED vars
  BY <1>0, <1>10, SmoothOther DEF vars, Busy
<1>. QED
  BY <1>0, FaultFreeCases, <1>1, <1>2, <1>3, <1>4, <1>5, <1>6, <1>7, <1>8, <1>9, <1>10, <1>11

LEMMA NextAllSmooth ==
  ASSUME IInv, AllSmooth, Next, faults' = 0
  PROVE  AllSmooth'
<1> USE DEF orders, queue, history, Goto, IInv, Typed, AllSmooth
<1> DEFINE Sound(b) == /\ pc'[b] \notin {"crashed", "threw"}
                       /\ job'[b] = "active" => run'[b] \in Attempts
<1>1. inflight' = {} /\ \A b \in Attempts : Sound(b)
  <2>1. ASSUME NEW a \in Attempts,
               \/ BuyForex(a) \/ SaveTransaction(a) \/ CallWallet(a) \/ SucceedOrder(a)
               \/ FailTransaction(a) \/ RejectOrder(a) \/ SendMail(a)
               \/ IncrementRetries(a) \/ LoadOrder(a)
        PROVE  inflight' = {} /\ \A b \in Attempts : Sound(b)
    BY <2>1 DEF BuyForex, SaveTransaction, CallWallet, AfterError, SucceedOrder, FailTransaction, RejectOrder,
           SendMail, IncrementRetries, LoadOrder
  <2>2. ASSUME NEW a \in Attempts, EnqueueRetry(a)
        PROVE  inflight' = {} /\ \A b \in Attempts : Sound(b)
    BY <2>2 DEF EnqueueRetry
  <2>3. ASSUME NEW a \in Attempts, Return(a)
        PROVE  inflight' = {} /\ \A b \in Attempts : Sound(b)
    <3>1. \A b \in Attempts : job'[b] = "active" => job[b] = "active"
      BY <2>3, JobAfterIs DEF Return
    <3>. QED
      BY <2>3, <3>1 DEF Return
  <2>4. ASSUME NEW a \in Attempts, NEW j \in Attempts, TakeJob(a, j)
        PROVE  inflight' = {} /\ \A b \in Attempts : Sound(b)
    BY <2>4 DEF TakeJob
  <2>5. ASSUME NEW a \in Attempts, EndCall(a) \/ RecoverJob(a)
        PROVE  FALSE
    BY <2>5 DEF EndCall, RecoverJob
  <2>6. CASE UNCHANGED vars
    BY <2>6 DEF vars
  <2>. QED
    BY FaultFreeCases, <2>1, <2>2, <2>3, <2>4, <2>5, <2>6
<1>. QED
  BY <1>1, NextSmooth

LEMMA FaultFreeInv == Spec => []FaultFree
<1>1. Init => FaultFree
  BY NoneIsNoAttempt DEF Init, FaultFree, AllSmooth, Smooth, Busy, Live, Awaiting, AttemptsOf
<1>2. IInv /\ FaultFree /\ [Next]_vars => FaultFree'
  <2>1. ASSUME IInv, FaultFree, Next, faults' = 0
        PROVE  AllSmooth'
    BY <2>1, FaultFreeCases, NextAllSmooth DEF FaultFree, IInv
  <2>2. ASSUME FaultFree, UNCHANGED vars
        PROVE  FaultFree'
    BY <2>2 DEF FaultFree, AllSmooth, Smooth, Busy, StatusAt, AttemptsOf, vars
  <2>. QED
    BY <2>1, <2>2 DEF FaultFree
<1>. QED
  BY InductiveInvariant, <1>1, <1>2, PTL DEF Spec

\* Until something fails, the user of an order is mailed the outcome that the order has,
\* and that only: there is one attempt of it under way at a time.
THEOREM MailsMatchUntilFault == Spec => [](faults = 0 => MailMatchesStatus)
<1>1. FaultFree => (faults = 0 => MailMatchesStatus)
  BY DEF FaultFree, AllSmooth, Smooth, MailMatchesStatus
<1>. QED
  BY FaultFreeInv, <1>1, PTL

-----------------------------------------------------------------------------
(* Without faults, a step of the purchase is a step of OrderLifecycle or none. *)

Trades == [o \in Orders |-> Cardinality(traded \cap AttemptsOf(o))]

\* The trade of an order's busy attempt is its first.
LEMMA FirstTrade ==
  ASSUME IInv, AllSmooth, NEW a \in Attempts, pc[a] \in {"calling", "rejecting"}
  PROVE  Trades[Order(a)] = 0 /\ status[Order(a)] = "PENDING"
<1>1. Busy(a) /\ a \in AttemptsOf(Order(a)) /\ Smooth(Order(a)) /\ Order(a) \in Orders
  BY OrderOfAttempt DEF Busy, Live, Awaiting, AttemptsOf, AllSmooth
<1>2. status[Order(a)] = "PENDING"
  BY <1>1 DEF Smooth, StatusAt
<1>3. \A b \in traded \cap AttemptsOf(Order(a)) : FALSE
  <2> SUFFICES ASSUME NEW b \in traded \cap AttemptsOf(Order(a))
               PROVE  FALSE
    OBVIOUS
  <2>1. pc[b] = "succeeding"
    BY <1>1, <1>2 DEF Smooth
  <2>2. Busy(b)
    BY <2>1 DEF Busy, Live, Awaiting
  <2>. QED
    BY <1>1, <2>1, <2>2 DEF Smooth
<1>4. traded \cap AttemptsOf(Order(a)) = {}
  BY <1>3
<1>. QED
  BY <1>1, <1>2, <1>4, FS_EmptySet DEF Trades

LEMMA StepImplements ==
  ASSUME IInv, AllSmooth, Next, faults' = 0
  PROVE  Lifecycle!Next \/ UNCHANGED <<status, Trades>>
<1> USE OrderOfAttempt
<1>0. Typed
  BY DEF IInv
<1>1. ASSUME NEW a \in Attempts, BuyForex(a)
      PROVE  Lifecycle!Place(Order(a))
  BY <1>1 DEF BuyForex, history, Lifecycle!Place
<1>2. ASSUME NEW a \in Attempts, CallWallet(a)
      PROVE  Lifecycle!Trade(Order(a)) \/ UNCHANGED <<status, Trades>>
  <2>1. UNCHANGED status
    BY <1>2 DEF CallWallet, orders
  <2>2. CASE traded' = traded
    BY <2>1, <2>2 DEF Trades, AttemptsOf
  <2>3. CASE traded' = traded \cup {a}
    <3>1. Trades[Order(a)] = 0 /\ status[Order(a)] = "PENDING"
      BY <1>2, FirstTrade DEF CallWallet
    <3>2. ASSUME NEW o \in Orders
          PROVE  Trades'[o] = IF o = Order(a) THEN 1 ELSE Trades[o]
      <4>1. CASE o = Order(a)
        <5>1. IsFiniteSet(traded \cap AttemptsOf(o))
          <6>1. IsFiniteSet(called \cap AttemptsOf(o))
            BY CallersAreFew DEF IInv
          <6>. QED
            BY <1>0, <6>1, FS_Subset DEF Typed
        <5>2. traded \cap AttemptsOf(o) = {}
          BY <3>1, <4>1, <5>1, FS_EmptySet DEF Trades
        <5>3. (traded \cap AttemptsOf(o))' = {a}
          BY <2>3, <4>1, <5>2 DEF AttemptsOf
        <5>. QED
          BY <4>1, <5>3, FS_Singleton DEF Trades
      <4>2. CASE o # Order(a)
        <5>1. (traded \cap AttemptsOf(o))' = traded \cap AttemptsOf(o)
          BY <2>3, <4>2 DEF AttemptsOf
        <5>. QED
          BY <4>2, <5>1 DEF Trades
      <4>. QED
        BY <4>1, <4>2
    <3>3. Trades' = [Trades EXCEPT ![Order(a)] = 1]
      BY <3>2 DEF Trades
    <3>. QED
      BY <2>1, <3>1, <3>3 DEF Lifecycle!Trade, Trades
  <2>. QED
    BY <1>2, <2>2, <2>3 DEF CallWallet
<1>3. ASSUME NEW a \in Attempts, SucceedOrder(a)
      PROVE  Lifecycle!Complete(Order(a))
  <2>1. /\ pc[a] = "succeeding" /\ UNCHANGED traded
        /\ status' = [status EXCEPT ![Order(a)] = "COMPLETED"]
    BY <1>3 DEF SucceedOrder, Completed, history
  <2>2. Busy(a) /\ a \in AttemptsOf(Order(a)) /\ Smooth(Order(a))
    BY <2>1 DEF Busy, Live, Awaiting, AttemptsOf, AllSmooth
  <2>3. status[Order(a)] = "PENDING"
    BY <2>1, <2>2 DEF Smooth, StatusAt
  <2>4. traded \cap AttemptsOf(Order(a)) = {a}
    BY <2>1, <2>2 DEF Smooth, IInv, TxnsFollowSteps, TxnAtStep
  <2>5. Trades[Order(a)] = 1 /\ UNCHANGED Trades
    BY <2>1, <2>4, FS_Singleton DEF Trades, AttemptsOf
  <2>. QED
    BY <2>1, <2>3, <2>5 DEF Lifecycle!Complete, Trades
<1>4. ASSUME NEW a \in Attempts, RejectOrder(a)
      PROVE  Lifecycle!Fail(Order(a))
  <2>1. Trades[Order(a)] = 0 /\ status[Order(a)] = "PENDING"
    BY <1>4, FirstTrade DEF RejectOrder
  <2>2. UNCHANGED traded /\ status' = [status EXCEPT ![Order(a)] = "FAILED"]
    BY <1>4 DEF RejectOrder, history
  <2>3. UNCHANGED Trades
    BY <2>2 DEF Trades, AttemptsOf
  <2>. QED
    BY <2>1, <2>2, <2>3 DEF Lifecycle!Fail, Trades
<1>5. ASSUME NEW a \in Attempts,
             \/ SaveTransaction(a) \/ FailTransaction(a) \/ EnqueueRetry(a) \/ SendMail(a)
             \/ Return(a) \/ IncrementRetries(a) \/ LoadOrder(a)
             \/ \E j \in Attempts : TakeJob(a, j)
      PROVE  UNCHANGED <<status, traded>>
  BY <1>5 DEF SaveTransaction, FailTransaction, EnqueueRetry, SendMail, Return, IncrementRetries, LoadOrder,
              TakeJob, orders, history
<1>6. ASSUME NEW a \in Attempts, EndCall(a) \/ RecoverJob(a)
      PROVE  FALSE
  BY <1>6 DEF AllSmooth, EndCall, RecoverJob
<1>7. UNCHANGED <<status, traded>> => UNCHANGED <<status, Trades>>
  BY DEF Trades, AttemptsOf
<1>8. CASE UNCHANGED vars
  BY <1>7, <1>8 DEF vars
<1>. QED
  BY <1>0, FaultFreeCases, <1>1, <1>2, <1>3, <1>4, <1>5, <1>6, <1>7, <1>8
     DEF Lifecycle!Next, Lifecycle!Settle

\* As long as nothing fails, the purchase keeps the promise of OrderLifecycle, liveness
\* aside: an order is traded at most once, COMPLETED only after that trade and FAILED
\* only without one, for any orders and any number of retries.
THEOREM LifecycleUntilFault ==
  Spec /\ [](faults = 0) => Lifecycle!Init /\ [][Lifecycle!Next]_(Lifecycle!vars)
<1>1. Init => Lifecycle!Init
  <2>1. Init => \A o \in Orders : traded \cap AttemptsOf(o) = {}
    BY DEF Init
  <2>. QED
    BY <2>1, FS_EmptySet DEF Init, Lifecycle!Init
<1>2. /\ IInv /\ FaultFree /\ [Next]_vars
      /\ faults = 0 /\ (faults = 0)'
      => [Lifecycle!Next]_(Lifecycle!vars)
  <2>1. ASSUME IInv, AllSmooth, Next, faults' = 0
        PROVE  [Lifecycle!Next]_(Lifecycle!vars)
    BY <2>1, StepImplements DEF Lifecycle!vars, Trades
  <2>2. ASSUME UNCHANGED vars
        PROVE  UNCHANGED Lifecycle!vars
    BY <2>2 DEF vars, Lifecycle!vars, AttemptsOf
  <2>. QED
    BY <2>1, <2>2 DEF FaultFree
<1>. QED
  BY InductiveInvariant, FaultFreeInv, <1>1, <1>2, PTL DEF Spec

=============================================================================
