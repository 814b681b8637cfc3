--------------------------- MODULE WalletService ---------------------------
(***************************************************************************)
(* The wallet micro-service: WalletService of apps/wallet, its two tables  *)
(* (wallet, wallet_transaction) and its gRPC call to the integration       *)
(* service.                                                                *)
(*                                                                         *)
(* Every gRPC call the service is given is a request r.  A handler is an   *)
(* async function: it runs from one await to the next, and other handlers  *)
(* run in between.  Each action below is one such stretch, and pc[r] names *)
(* the await at which the handler of r stands.  What a handler read before *)
(* an await and uses after it (a TypeORM entity, an amount) is state of r. *)
(*                                                                         *)
(* A row of the wallet table is identified by its (userId, currency) pair: *)
(* the table has a unique constraint on the pair, so the pair stands for   *)
(* the uuid too.  Amounts and balances are integers: the columns are       *)
(* NUMERIC without a scale, so sums and products are exact.                *)
(***************************************************************************)
EXTENDS Integers

CONSTANTS
  Users,            \* the user ids
  Currencies,       \* the currency codes
  Requests,         \* the gRPC calls the service receives
  Amounts,          \* amounts of fundWallet and withdrawWallet
  ForexAmounts,     \* amounts of buyForex
  Rates,            \* exchange rates the integration service may answer
  OpeningBalances   \* balances the wallets may have when the model starts

\* FundWalletInputDto and WithdrawWalletInputDto accept positive numbers only;
\* BuyForexInputDto accepts any number string, so its amounts are any integers.
ASSUME ConstantsAssumption ==
  /\ Amounts \subseteq Nat \ {0}
  /\ ForexAmounts \subseteq Int
  /\ Rates \subseteq Nat
  /\ OpeningBalances \subseteq Nat

VARIABLES
  rows,       \* the wallets that have a row
  balance,    \* the balance column
  ledger,     \* of each wallet's transaction rows: how many, their signed sum, and
              \* whether one is a CREDIT of a negative amount
  pc,         \* where the handler of each request stands, or the code it answered
  base,       \* the wallet entity a handler read first (its base wallet)
  target,     \* the target wallet entity of a buyForex
  change,     \* what the handler adds to its base and to its target entity
  wanted,     \* the (userId, currency) a handler looks up or creates
  contended,  \* history: wallets read while another handler was about to write them
  unacknowledged  \* history: calls that committed and were told by the driver they had not

database == <<rows, balance, ledger>>
locals == <<base, target, change, wanted>>
history == <<contended, unacknowledged>>
vars == <<rows, balance, ledger, pc, base, target, change, wanted, contended, unacknowledged>>

-----------------------------------------------------------------------------

Wallets == Users \X Currencies
Owner(w) == w[1]
Currency(w) == w[2]
NoWallet == <<>>

\* A TypeORM wallet entity in memory: the balance is the one last read.
Entities == [id : Wallets \cup {NoWallet}, balance : Int]
NoEntity == [id |-> NoWallet, balance |-> 0]
NoChange == [base |-> 0, target |-> 0]

\* The gRPC status a call ends with; UNKNOWN is what a handler's plain Error becomes.
Codes == {"OK", "NOT_FOUND", "INVALID_ARGUMENT", "ABORTED", "UNKNOWN"}
\* The steps at which a handler holds an entity that it will write back.
Buying == {"quoting", "targeting", "trading", "tradingNew"}
Writing == Buying \cup {"saving"}
Steps == Writing \cup {"idle", "lookup", "inserting"}

HoldsBase(r, w) == pc[r] \in Writing /\ base[r].id = w
HoldsTarget(r, w) == pc[r] = "trading" /\ target[r].id = w

Init ==
  /\ rows \in SUBSET Wallets
  /\ balance \in [Wallets -> OpeningBalances \cup {0}]
  /\ \A w \in Wallets : balance[w] \in IF w \in rows THEN OpeningBalances ELSE {0}
  /\ ledger = [w \in Wallets |->
                [count |-> IF balance[w] = 0 THEN 0 ELSE 1, net |-> balance[w],
                 overdrawing |-> FALSE]]
  /\ pc = [r \in Requests |-> "idle"]
  /\ base = [r \in Requests |-> NoEntity]
  /\ target = [r \in Requests |-> NoEntity]
  /\ change = [r \in Requests |-> NoChange]
  /\ wanted = [r \in Requests |-> NoWallet]
  /\ contended = {}
  /\ unacknowledged = {}

-----------------------------------------------------------------------------
(* What the handlers are built from. *)

\* A SELECT outside any transaction takes no lock: the entity is a snapshot.
Snapshot(w) == [id |-> w, balance |-> balance[w]]

\* History: a snapshot of w is taken while some handler holds one to write back.
NoteRead(w) ==
  contended' = IF \E q \in Requests : HoldsBase(q, w) \/ HoldsTarget(q, w)
               THEN contended \cup {w} ELSE contended

\* A mutant of SufficientFund: off by one.
SufficientFundMutant(b, amount) == b >= amount - 1
\* validateSufficientFund
SufficientFund(b, amount) == b >= amount

\* The handler returns or throws: its locals are gone, the caller gets the code.
Answer(r, code) ==
  /\ pc' = [pc EXCEPT ![r] = code]
  /\ base' = [base EXCEPT ![r] = NoEntity]
  /\ target' = [target EXCEPT ![r] = NoEntity]
  /\ change' = [change EXCEPT ![r] = NoChange]
  /\ wanted' = [wanted EXCEPT ![r] = NoWallet]

\* The database committed and its answer decides: when the connection breaks before that
\* is there, the promise rejects as if nothing had been written.
Committed(r, error) ==
  \/ /\ Answer(r, "OK")
     /\ UNCHANGED unacknowledged
  \/ /\ Answer(r, error)
     /\ unacknowledged' = unacknowledged \cup {r}

Goto(r, step) == pc' = [pc EXCEPT ![r] = step]

\* A mutant of Recorded: the transaction row is left out of what is saved.
RecordedMutant(l, amount) == l
\* One more wallet_transaction row; WITHDRAW and DEBIT rows count negatively.
Recorded(l, amount) ==
  [count |-> l.count + 1, net |-> l.net + amount, overdrawing |-> l.overdrawing]
\* The same with a CREDIT row: buyForex takes any amount, so a CREDIT may be negative.
Credited(l, amount) ==
  [count |-> l.count + 1, net |-> l.net + amount,
   overdrawing |-> l.overdrawing \/ amount < 0]

-----------------------------------------------------------------------------
(* fundWallet and withdrawWallet: handleWalletTransaction. *)

\* Look the wallet up by id and owner and validate; the transaction comes later.
\* A failed query is answered like a missing row.
HandleWalletTransaction(r, user, w, amount, valid) ==
  /\ pc[r] = "idle"
  /\ \/ /\ w \in rows
        /\ Owner(w) = user
        /\ valid
        /\ base' = [base EXCEPT ![r] = Snapshot(w)]
        /\ change' = [change EXCEPT ![r] = [base |-> amount, target |-> 0]]
        /\ NoteRead(w)
        /\ Goto(r, "saving")
        /\ UNCHANGED <<target, wanted>>
     \/ /\ w \in rows
        /\ Owner(w) = user
        /\ ~valid
        /\ Answer(r, "INVALID_ARGUMENT")
        /\ UNCHANGED contended
     \/ /\ Answer(r, "NOT_FOUND")
        /\ UNCHANGED contended
  /\ UNCHANGED <<database, unacknowledged>>

FundWallet(r, user, w, amount) ==
  HandleWalletTransaction(r, user, w, amount, TRUE)

WithdrawWallet(r, user, w, amount) ==
  HandleWalletTransaction(r, user, w, -amount, SufficientFund(balance[w], amount))

\* The transaction commits: the balance written is the snapshot's plus the change.
\* The catch of the handler cannot tell a commit whose answer is lost from a rollback.
SaveWallet(r) ==
  /\ pc[r] = "saving"
  /\ LET w == base[r].id
     IN  /\ balance' = [balance EXCEPT ![w] = base[r].balance + change[r].base]
         /\ ledger' = [ledger EXCEPT ![w] = Recorded(@, change[r].base)]
  /\ Committed(r, "ABORTED")
  /\ UNCHANGED <<rows, contended>>

-----------------------------------------------------------------------------
(* createWallet and getWalletBalance. *)

CreateWallet(r, user, currency) ==
  /\ pc[r] = "idle"
  /\ wanted' = [wanted EXCEPT ![r] = <<user, currency>>]
  /\ Goto(r, "lookup")
  /\ UNCHANGED <<rows, balance, ledger, base, target, change, history>>

\* The balance of an existing wallet; any error of the query creates the wallet.
GetWalletBalance(r, user, currency) ==
  /\ pc[r] = "idle"
  /\ \/ /\ <<user, currency>> \in rows
        /\ Answer(r, "OK")
     \/ /\ wanted' = [wanted EXCEPT ![r] = <<user, currency>>]
        /\ Goto(r, "lookup")
        /\ UNCHANGED <<base, target, change>>
  /\ UNCHANGED <<rows, balance, ledger, history>>

\* findOneBy in createWallet: an existing wallet is returned as it is.
LookupWallet(r) ==
  /\ pc[r] = "lookup"
  /\ \/ /\ wanted[r] \in rows
        /\ Answer(r, "OK")
     \/ /\ wanted[r] \notin rows
        /\ Goto(r, "inserting")
        /\ UNCHANGED locals
     \/ Answer(r, "UNKNOWN")
  /\ UNCHANGED <<rows, balance, ledger, history>>

\* A mutant of Inserted: the new wallet is returned and never saved.
InsertedMutant(w) == rows
\* The wallet table with one more row.
Inserted(w) == rows \cup {w}

\* A mutant of Insertable: the table has no unique constraint.
InsertableMutant(w) == w \in Wallets
\* The unique constraint on (userId, currency).
Insertable(w) == w \notin rows

InsertWallet(r) ==
  /\ pc[r] = "inserting"
  /\ Insertable(wanted[r])
  /\ rows' = Inserted(wanted[r])
  /\ balance' = [balance EXCEPT ![wanted[r]] = 0]
  /\ Committed(r, "UNKNOWN")
  /\ UNCHANGED <<ledger, contended>>

\* The insert violates the constraint, or fails otherwise: nothing catches the error.
InsertFails(r) ==
  /\ pc[r] = "inserting"
  /\ Answer(r, "UNKNOWN")
  /\ UNCHANGED <<rows, balance, ledger, history>>

\* getAllUserWallets reads only; a failed query is not caught.
GetAllUserWallets(r, user) ==
  /\ pc[r] = "idle"
  /\ \/ Answer(r, IF \E w \in rows : Owner(w) = user THEN "OK" ELSE "NOT_FOUND")
     \/ Answer(r, "UNKNOWN")
  /\ UNCHANGED <<rows, balance, ledger, history>>

-----------------------------------------------------------------------------
(* buyForex. *)

\* findBaseWalletOrFail looks a wallet up by its currency alone, so any user's
\* wallet of that currency may be the one it returns; then the funds are checked.
BuyForex(r, user, baseCurrency, targetCurrency, amount) ==
  /\ pc[r] = "idle"
  /\ \/ \E w \in rows :
          /\ Currency(w) = baseCurrency
          /\ SufficientFund(balance[w], amount)
          /\ base' = [base EXCEPT ![r] = Snapshot(w)]
          /\ change' = [change EXCEPT ![r] = [base |-> -amount, target |-> 0]]
          /\ wanted' = [wanted EXCEPT ![r] = <<user, targetCurrency>>]
          /\ NoteRead(w)
          /\ Goto(r, "quoting")
          /\ UNCHANGED target
     \/ /\ \E w \in rows : /\ Currency(w) = baseCurrency
                           /\ ~SufficientFund(balance[w], amount)
        /\ Answer(r, "INVALID_ARGUMENT")
        /\ UNCHANGED contended
     \/ /\ Answer(r, "NOT_FOUND")
        /\ UNCHANGED contended
  /\ UNCHANGED <<database, unacknowledged>>

\* A currency converts to itself at rate 1 (getExchangeRate).
Quotes(from, to) == IF from = to THEN {1} ELSE Rates

\* The integration service answers a rate, fails (ABORTED), or has none for the
\* pair: new Decimal(undefined) then throws outside every catch (UNKNOWN).
FetchExchangeRate(r) ==
  /\ pc[r] = "quoting"
  /\ LET from == Currency(base[r].id)
         to == Currency(wanted[r])
     IN  \/ \E rate \in Quotes(from, to) :
              /\ change' = [change EXCEPT ![r].target = (-change[r].base) * rate]
              /\ Goto(r, "targeting")
              /\ UNCHANGED <<base, target, wanted>>
         \/ Answer(r, "ABORTED")
         \/ /\ from # to
            /\ Answer(r, "UNKNOWN")
  /\ UNCHANGED <<rows, balance, ledger, history>>

\* getOrCreateTargetWalletInTxn: again by currency alone, through the repository
\* and not the transaction's manager.  A failed query counts as no wallet.
GetOrCreateTargetWallet(r) ==
  /\ pc[r] = "targeting"
  /\ \/ \E w \in rows :
          /\ Currency(w) = Currency(wanted[r])
          /\ target' = [target EXCEPT ![r] = Snapshot(w)]
          /\ NoteRead(w)
          /\ Goto(r, "trading")
     \/ /\ Goto(r, "tradingNew")
        /\ UNCHANGED <<target, contended>>
  /\ UNCHANGED <<rows, balance, ledger, base, change, wanted, unacknowledged>>

\* manager.save([base, target, debit, credit]) and the commit.  When both entities
\* are the same row the target's write is the later one.
SaveTrade(r) ==
  /\ pc[r] = "trading"
  /\ LET b == base[r].id
         t == target[r].id
     IN  /\ balance' = [balance EXCEPT ![b] = base[r].balance + change[r].base,
                                       ![t] = target[r].balance + change[r].target]
         /\ ledger' = [ledger EXCEPT ![b] = Recorded(@, change[r].base),
                                     ![t] = Credited(@, change[r].target)]
  /\ Committed(r, "ABORTED")
  /\ UNCHANGED <<rows, contended>>

\* The same with a target wallet inserted for the buyer by this transaction.
SaveTradeNew(r) ==
  /\ pc[r] = "tradingNew"
  /\ Insertable(wanted[r])
  /\ rows' = Inserted(wanted[r])
  /\ LET b == base[r].id
         t == wanted[r]
     IN  /\ balance' = [balance EXCEPT ![b] = base[r].balance + change[r].base,
                                       ![t] = change[r].target]
         /\ ledger' = [ledger EXCEPT ![b] = Recorded(@, change[r].base),
                                     ![t] = Credited(@, change[r].target)]
  /\ Committed(r, "ABORTED")
  /\ UNCHANGED contended

\* A mutant of TransactionFails: the new wallet's insert is not inside the tryCatch.
TransactionFailsMutant(r) ==
  /\ pc[r] \in {"saving", "trading"}
  /\ Answer(r, "ABORTED")
  /\ UNCHANGED <<rows, balance, ledger, history>>

\* The database transaction is rolled back: a constraint, a deadlock, a connection lost
\* before the commit (one lost after it is in Committed).
TransactionFails(r) ==
  /\ pc[r] \in {"saving", "targeting", "trading", "tradingNew"}
  /\ Answer(r, "ABORTED")
  /\ UNCHANGED <<rows, balance, ledger, history>>

-----------------------------------------------------------------------------

Receive(r) ==
  \/ \E u \in Users, w \in Wallets, a \in Amounts :
       FundWallet(r, u, w, a) \/ WithdrawWallet(r, u, w, a)
  \/ \E u \in Users, c \in Currencies :
       CreateWallet(r, u, c) \/ GetWalletBalance(r, u, c)
  \/ \E u \in Users : GetAllUserWallets(r, u)
  \/ \E u \in Users, b \in Currencies, t \in Currencies, a \in ForexAmounts :
       BuyForex(r, u, b, t, a)

Continue(r) ==
  \/ SaveWallet(r)
  \/ LookupWallet(r)
  \/ InsertWallet(r)
  \/ InsertFails(r)
  \/ FetchExchangeRate(r)
  \/ GetOrCreateTargetWallet(r)
  \/ SaveTrade(r)
  \/ SaveTradeNew(r)
  \/ TransactionFails(r)

\* Every call of this (finite) model is answered: nothing more happens.
AllAnswered ==
  /\ \A r \in Requests : pc[r] \in Codes
  /\ UNCHANGED vars

Next == (\E r \in Requests : Receive(r) \/ Continue(r)) \/ AllAnswered

\* A handler that stands at an await is resumed: the database and the integration
\* service answer or fail.  Nothing says that a request is ever sent.
Fairness == \A r \in Requests : WF_vars(Continue(r))

Spec == Init /\ [][Next]_vars
FairSpec == Spec /\ Fairness

-----------------------------------------------------------------------------
(* Properties. *)

Ledgers == [count : Nat, net : Int, overdrawing : BOOLEAN]
TablesTyped ==
  /\ rows \subseteq Wallets
  /\ balance \in [Wallets -> Int]
  /\ ledger \in [Wallets -> Ledgers]
  /\ contended \subseteq Wallets
  /\ unacknowledged \subseteq Requests
LocalsTyped ==
  /\ pc \in [Requests -> Steps \cup Codes]
  /\ base \in [Requests -> Entities]
  /\ target \in [Requests -> Entities]
  /\ change \in [Requests -> [base : Int, target : Int]]
  /\ wanted \in [Requests -> Wallets \cup {NoWallet}]
HandlersHoldRows ==
  \A r \in Requests :
    /\ pc[r] \in Writing => base[r].id \in rows
    /\ pc[r] = "trading" => target[r].id \in rows
    /\ pc[r] \in Buying \cup {"lookup", "inserting"} => wanted[r] \in Wallets
NoRowNoMoney ==
  \A w \in Wallets \ rows :
    balance[w] = 0 /\ ledger[w] = [count |-> 0, net |-> 0, overdrawing |-> FALSE]

\* Types, and: a handler past its first read holds an existing wallet, and a wallet
\* without a row has neither balance nor transactions (rows are never deleted).
TypeOK == TablesTyped /\ LocalsTyped /\ HandlersHoldRows /\ NoRowNoMoney

\* A balance below zero has one cause: a buyForex of a negative amount, which credits
\* the target wallet with it.  Withdrawals, fundings and trades that overlap, fail or lose
\* each other's updates overdraw no wallet: what is written is a balance that was
\* validated, not the one then in the table.
OnlyCreditsOverdraw == \A w \in Wallets : balance[w] < 0 => ledger[w].overdrawing

\* A balance is the sum of the wallet's transactions, as the wallet_transaction table
\* is there to record.
BalanceIsLedger == \A w \in Wallets : balance[w] = ledger[w].net

\* The same for the wallets no two handlers ever held at once: overlapping
\* read-modify-writes are the only thing that makes table and ledger differ, whatever
\* fails, is rolled back, or is created concurrently.
SerialConsistency ==
  \A w \in Wallets \ contended : balance[w] = ledger[w].net

\* Every change of a balance comes with at least one new transaction row of that
\* wallet, written by the same commit.
BalanceChangeRecorded ==
  [][\A w \in Wallets : balance'[w] # balance[w] => ledger'[w].count > ledger[w].count]_vars

\* A buyForex for a user debits a wallet of that user.
TradesOwnWallet ==
  \A r \in Requests : pc[r] \in Buying => Owner(base[r].id) = Owner(wanted[r])

\* Every call received is answered: no path of a handler, failures included, ends at
\* an await that nothing resumes.
EveryCallAnswered ==
  \A r \in Requests : pc[r] # "idle" ~> pc[r] \in Codes
=============================================================================
