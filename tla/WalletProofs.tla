---------------------------- MODULE WalletProofs ----------------------------
(***************************************************************************)
(* Theorems about WalletService, for any sets of users, currencies, calls, *)
(* amounts and rates.                                                      *)
(***************************************************************************)
EXTENDS WalletService, TLAPS

USE DEF Codes, Buying, Writing, Steps, Entities, NoEntity, NoChange, history

\* The actions a call takes, when the disjunctions of Next are resolved.
LEMMA NextCases ==
  ASSUME Next
  PROVE  \/ \E r \in Requests :
              \/ \E u \in Users, w \in Wallets, a \in Amounts :
                   FundWallet(r, u, w, a) \/ WithdrawWallet(r, u, w, a)
              \/ \E u \in Users, c \in Currencies :
                   CreateWallet(r, u, c) \/ GetWalletBalance(r, u, c)
              \/ \E u \in Users : GetAllUserWallets(r, u)
              \/ \E u \in Users, b \in Currencies, t \in Currencies, a \in ForexAmounts :
                   BuyForex(r, u, b, t, a)
              \/ SaveWallet(r)
              \/ LookupWallet(r)
              \/ InsertWallet(r)
              \/ InsertFails(r)
              \/ FetchExchangeRate(r)
              \/ GetOrCreateTargetWallet(r)
              \/ SaveTrade(r)
              \/ SaveTradeNew(r)
              \/ TransactionFails(r)
         \/ UNCHANGED vars
BY DEF Next, Receive, Continue, AllAnswered

-----------------------------------------------------------------------------
(* Type correctness. *)

LEMMA InitTypeOK == Init => TypeOK
<1> SUFFICES ASSUME Init PROVE TypeOK
  OBVIOUS
<1> USE DEF Init
<1>1. TablesTyped
  <2>. balance \in [Wallets -> OpeningBalances \cup {0}]
    OBVIOUS
  <2>. OpeningBalances \cup {0} \subseteq Int
    BY ConstantsAssumption
  <2>1. balance \in [Wallets -> Int]
    BY Zenon
  <2>2. \A w \in Wallets :
          [count |-> IF balance[w] = 0 THEN 0 ELSE 1, net |-> balance[w],
           overdrawing |-> FALSE] \in Ledgers
    BY <2>1 DEF Ledgers
  <2>3. ledger \in [Wallets -> Ledgers]
    BY <2>2
  <2>. QED
    BY <2>1, <2>3 DEF TablesTyped
<1>2. LocalsTyped
  BY DEF LocalsTyped
<1>3. HandlersHoldRows
  BY DEF HandlersHoldRows
<1>4. NoRowNoMoney
  BY DEF NoRowNoMoney
<1>. QED
  BY <1>1, <1>2, <1>3, <1>4 DEF TypeOK

\* A handler that answers keeps the types of the locals, when no row is deleted.
LEMMA AnswerTypeOK ==
  ASSUME TypeOK, NEW r \in Requests, NEW code \in Codes, Answer(r, code),
         rows \subseteq rows'
  PROVE  LocalsTyped' /\ HandlersHoldRows'
<1>1. LocalsTyped'
  BY DEF TypeOK, LocalsTyped, Answer
<1>2. HandlersHoldRows'
  BY DEF TypeOK, LocalsTyped, HandlersHoldRows, Answer
<1>. QED
  BY <1>1, <1>2

\* A call that committed answers, one way or the other.
LEMMA CommittedAnswers ==
  ASSUME TypeOK, NEW r \in Requests, NEW error \in Codes, Committed(r, error)
  PROVE  /\ \E code \in Codes : Answer(r, code)
         /\ unacknowledged' \subseteq Requests
BY DEF Committed, TypeOK, TablesTyped

LEMMA CommittedTypeOK ==
  ASSUME TypeOK, NEW r \in Requests, NEW error \in Codes, Committed(r, error),
         rows \subseteq rows'
  PROVE  LocalsTyped' /\ HandlersHoldRows' /\ unacknowledged' \subseteq Requests
BY CommittedAnswers, AnswerTypeOK

\* A step that leaves the tables alone keeps what is said of them.
LEMMA SameTablesTypeOK ==
  ASSUME TypeOK, UNCHANGED database, contended' \subseteq Wallets,
         UNCHANGED unacknowledged
  PROVE  TablesTyped' /\ NoRowNoMoney' /\ rows \subseteq rows'
BY DEF TypeOK, TablesTyped, NoRowNoMoney, database

\* One more row in a wallet's ledger.
LEMMA RecordedType ==
  ASSUME NEW l \in Ledgers, NEW amount \in Int
  PROVE  /\ Recorded(l, amount) \in Ledgers
         /\ Recorded(l, amount).net = l.net + amount
         /\ Recorded(l, amount).count = l.count + 1
         /\ Recorded(l, amount).overdrawing = l.overdrawing
         /\ Credited(l, amount) \in Ledgers
         /\ Credited(l, amount).net = l.net + amount
         /\ Credited(l, amount).count = l.count + 1
         /\ Credited(l, amount).overdrawing = (l.overdrawing \/ amount < 0)
BY DEF Recorded, Credited, Ledgers

LEMMA NoteReadType ==
  ASSUME TypeOK, NEW w \in Wallets, NoteRead(w)
  PROVE  contended' \subseteq Wallets
BY DEF TypeOK, TablesTyped, NoteRead

\* handleWalletTransaction keeps the types, whatever amount and verdict it is given.
LEMMA HandleTypeOK ==
  ASSUME TypeOK, NEW r \in Requests, NEW u \in Users, NEW w \in Wallets,
         NEW amount \in Int, NEW valid,
         HandleWalletTransaction(r, u, w, amount, valid)
  PROVE  TypeOK'
<1>1. UNCHANGED <<database, unacknowledged>>
  BY DEF HandleWalletTransaction
<1>2. CASE Answer(r, "NOT_FOUND") /\ UNCHANGED contended
  BY <1>1, <1>2, SameTablesTypeOK, AnswerTypeOK DEF TypeOK, TablesTyped
<1>3. CASE Answer(r, "INVALID_ARGUMENT") /\ UNCHANGED contended
  BY <1>1, <1>3, SameTablesTypeOK, AnswerTypeOK DEF TypeOK, TablesTyped
<1>4. CASE /\ w \in rows
           /\ base' = [base EXCEPT ![r] = Snapshot(w)]
           /\ change' = [change EXCEPT ![r] = [base |-> amount, target |-> 0]]
           /\ NoteRead(w)
           /\ Goto(r, "saving")
           /\ UNCHANGED <<target, wanted>>
  <2>1. TablesTyped' /\ NoRowNoMoney'
    BY <1>1, <1>4, NoteReadType, SameTablesTypeOK
  <2>2. Snapshot(w) \in Entities
    BY DEF Snapshot, TypeOK, TablesTyped
  <2>3. LocalsTyped'
    BY <1>4, <2>2 DEF TypeOK, LocalsTyped, Goto
  <2>4. HandlersHoldRows'
    BY <1>1, <1>4 DEF TypeOK, LocalsTyped, HandlersHoldRows, Goto, Snapshot, database
  <2>. QED
    BY <2>1, <2>3, <2>4 DEF TypeOK
<1>. QED
  BY <1>2, <1>3, <1>4 DEF HandleWalletTransaction

\* A base wallet entity in the hands of a handler.
LEMMA HeldBase ==
  ASSUME TypeOK, NEW r \in Requests, pc[r] \in Writing
  PROVE  /\ base[r].id \in rows
         /\ base[r].id \in Wallets
         /\ base[r].balance \in Int
         /\ change[r].base \in Int
         /\ change[r].target \in Int
BY DEF TypeOK, TablesTyped, LocalsTyped, HandlersHoldRows

LEMMA NextTypeOK ==
  ASSUME TypeOK, Next
  PROVE  TypeOK'
<1>1. ASSUME NEW r \in Requests, NEW u \in Users, NEW w \in Wallets, NEW a \in Amounts,
             FundWallet(r, u, w, a) \/ WithdrawWallet(r, u, w, a)
      PROVE  TypeOK'
  <2>1. a \in Int /\ -a \in Int
    BY ConstantsAssumption
  <2>. QED
    BY <1>1, <2>1, HandleTypeOK DEF FundWallet, WithdrawWallet
<1>2. ASSUME NEW r \in Requests, NEW u \in Users, NEW c \in Currencies,
             CreateWallet(r, u, c) \/ GetWalletBalance(r, u, c)
      PROVE  TypeOK'
  <2>1. UNCHANGED <<database, history>>
    BY <1>2 DEF CreateWallet, GetWalletBalance, database
  <2>2. TablesTyped' /\ NoRowNoMoney' /\ rows \subseteq rows'
    BY <2>1, SameTablesTypeOK DEF TypeOK, TablesTyped
  <2>3. CASE Answer(r, "OK")
    BY <2>2, <2>3, AnswerTypeOK DEF TypeOK
  <2>4. CASE /\ wanted' = [wanted EXCEPT ![r] = <<u, c>>]
             /\ Goto(r, "lookup")
             /\ UNCHANGED <<base, target, change>>
    <3>1. <<u, c>> \in Wallets
      BY DEF Wallets
    <3>2. LocalsTyped'
      BY <2>4, <3>1 DEF TypeOK, LocalsTyped, Goto
    <3>3. HandlersHoldRows'
      BY <2>2, <2>4, <3>1 DEF TypeOK, LocalsTyped, HandlersHoldRows, Goto
    <3>. QED
      BY <2>2, <3>2, <3>3 DEF TypeOK
  <2>. QED
    BY <1>2, <2>3, <2>4 DEF CreateWallet, GetWalletBalance
<1>3. ASSUME NEW r \in Requests, NEW code \in Codes, Answer(r, code),
             UNCHANGED <<rows, balance, ledger, history>>
      PROVE  TypeOK'
  BY <1>3, SameTablesTypeOK, AnswerTypeOK DEF TypeOK, TablesTyped, database
<1>4. ASSUME NEW r \in Requests, NEW u \in Users, GetAllUserWallets(r, u)
      PROVE  TypeOK'
  BY <1>3, <1>4 DEF GetAllUserWallets
<1>5. ASSUME NEW r \in Requests, NEW u \in Users, NEW b \in Currencies, NEW t \in Currencies,
             NEW a \in ForexAmounts, BuyForex(r, u, b, t, a)
      PROVE  TypeOK'
  <2>1. UNCHANGED <<database, unacknowledged>>
    BY <1>5 DEF BuyForex
  <2>2. CASE Answer(r, "NOT_FOUND") /\ UNCHANGED contended
    BY <1>3, <2>1, <2>2 DEF database
  <2>3. CASE Answer(r, "INVALID_ARGUMENT") /\ UNCHANGED contended
    BY <1>3, <2>1, <2>3 DEF database
  <2>4. ASSUME NEW w \in rows,
               base' = [base EXCEPT ![r] = Snapshot(w)],
               change' = [change EXCEPT ![r] = [base |-> -a, target |-> 0]],
               wanted' = [wanted EXCEPT ![r] = <<u, t>>],
               NoteRead(w),
               Goto(r, "quoting"),
               UNCHANGED target
        PROVE  TypeOK'
    <3>1. w \in Wallets /\ <<u, t>> \in Wallets /\ -a \in Int
      BY ConstantsAssumption DEF TypeOK, TablesTyped, Wallets
    <3>2. TablesTyped' /\ NoRowNoMoney'
      BY <2>1, <2>4, <3>1, NoteReadType, SameTablesTypeOK
    <3>3. Snapshot(w) \in Entities
      BY <3>1 DEF Snapshot, TypeOK, TablesTyped
    <3>4. LocalsTyped'
      BY <2>4, <3>1, <3>3 DEF TypeOK, LocalsTyped, Goto
    <3>5. HandlersHoldRows'
      BY <2>1, <2>4, <3>1
         DEF TypeOK, LocalsTyped, HandlersHoldRows, Goto, Snapshot, database
    <3>. QED
      BY <3>2, <3>4, <3>5 DEF TypeOK
  <2>. QED
    BY <1>5, <2>2, <2>3, <2>4 DEF BuyForex
<1>6. ASSUME NEW r \in Requests, SaveWallet(r)
      PROVE  TypeOK'
  <2>1. base[r].id \in rows /\ base[r].id \in Wallets
        /\ base[r].balance + change[r].base \in Int /\ change[r].base \in Int
    BY <1>6, HeldBase DEF SaveWallet
  <2>2. TablesTyped'
    BY <1>6, CommittedAnswers, <2>1, RecordedType DEF SaveWallet, TypeOK, TablesTyped
  <2>3. NoRowNoMoney'
    BY <1>6, <2>1 DEF SaveWallet, TypeOK, TablesTyped, NoRowNoMoney
  <2>4. LocalsTyped' /\ HandlersHoldRows' /\ unacknowledged' \subseteq Requests
    BY <1>6, CommittedTypeOK DEF SaveWallet
  <2>. QED
    BY <2>2, <2>3, <2>4 DEF TypeOK
<1>7. ASSUME NEW r \in Requests, LookupWallet(r)
      PROVE  TypeOK'
  <2>1. CASE /\ pc[r] = "lookup"
             /\ Goto(r, "inserting")
             /\ UNCHANGED locals
             /\ UNCHANGED <<rows, balance, ledger, history>>
    <3>1. TablesTyped' /\ NoRowNoMoney'
      BY <2>1, SameTablesTypeOK DEF database, TypeOK, TablesTyped
    <3>2. LocalsTyped'
      BY <2>1 DEF TypeOK, LocalsTyped, Goto, locals
    <3>3. HandlersHoldRows'
      BY <2>1 DEF TypeOK, LocalsTyped, HandlersHoldRows, Goto, locals
    <3>. QED
      BY <3>1, <3>2, <3>3 DEF TypeOK
  <2>. QED
    BY <1>3, <1>7, <2>1 DEF LookupWallet
<1>8. ASSUME NEW r \in Requests, InsertWallet(r)
      PROVE  TypeOK'
  <2>1. wanted[r] \in Wallets
    BY <1>8 DEF InsertWallet, TypeOK, HandlersHoldRows
  <2>2. TablesTyped'
    BY <1>8, CommittedAnswers, <2>1 DEF InsertWallet, Inserted, TypeOK, TablesTyped
  <2>3. NoRowNoMoney'
    BY <1>8, <2>1 DEF InsertWallet, Inserted, TypeOK, TablesTyped, NoRowNoMoney
  <2>4. LocalsTyped' /\ HandlersHoldRows' /\ unacknowledged' \subseteq Requests
    BY <1>8, CommittedTypeOK DEF InsertWallet, Inserted
  <2>. QED
    BY <2>2, <2>3, <2>4 DEF TypeOK
<1>9. ASSUME NEW r \in Requests, InsertFails(r) \/ TransactionFails(r)
      PROVE  TypeOK'
  BY <1>3, <1>9 DEF InsertFails, TransactionFails
<1>10. ASSUME NEW r \in Requests, FetchExchangeRate(r)
       PROVE  TypeOK'
  <2>1. ASSUME NEW rate \in Quotes(Currency(base[r].id), Currency(wanted[r])),
               change' = [change EXCEPT ![r].target = (-change[r].base) * rate],
               Goto(r, "targeting"),
               UNCHANGED <<base, target, wanted>>
        PROVE  TypeOK'
    <3>1. rate \in Int
      BY ConstantsAssumption DEF Quotes
    <3>2. change[r].base \in Int
      BY DEF TypeOK, LocalsTyped
    <3>3. (-change[r].base) * rate \in Int
      BY <3>1, <3>2
    <3>4. TablesTyped' /\ NoRowNoMoney' /\ UNCHANGED rows
      BY <1>10, SameTablesTypeOK DEF FetchExchangeRate, database, TypeOK, TablesTyped
    <3>5. LocalsTyped'
      BY <2>1, <3>3 DEF TypeOK, LocalsTyped, Goto
    <3>6. HandlersHoldRows'
      BY <1>10, <2>1, <3>4 DEF FetchExchangeRate, TypeOK, LocalsTyped, HandlersHoldRows, Goto
    <3>. QED
      BY <3>4, <3>5, <3>6 DEF TypeOK
  <2>. QED
    BY <1>3, <1>10, <2>1 DEF FetchExchangeRate
<1>11. ASSUME NEW r \in Requests, GetOrCreateTargetWallet(r)
       PROVE  TypeOK'
  <2>1. UNCHANGED <<database, unacknowledged>>
    BY <1>11 DEF GetOrCreateTargetWallet, database
  <2>2. ASSUME NEW w \in rows,
               target' = [target EXCEPT ![r] = Snapshot(w)],
               NoteRead(w),
               Goto(r, "trading")
        PROVE  TypeOK'
    <3>1. w \in Wallets
      BY DEF TypeOK, TablesTyped
    <3>2. TablesTyped' /\ NoRowNoMoney'
      BY <2>1, <2>2, <3>1, NoteReadType, SameTablesTypeOK
    <3>3. Snapshot(w) \in Entities
      BY <3>1 DEF Snapshot, TypeOK, TablesTyped
    <3>4. LocalsTyped'
      BY <1>11, <2>2, <3>3 DEF GetOrCreateTargetWallet, TypeOK, LocalsTyped, Goto
    <3>5. HandlersHoldRows'
      BY <1>11, <2>2
         DEF GetOrCreateTargetWallet, TypeOK, LocalsTyped, HandlersHoldRows, Goto, Snapshot
    <3>. QED
      BY <3>2, <3>4, <3>5 DEF TypeOK
  <2>3. CASE Goto(r, "tradingNew") /\ UNCHANGED <<target, contended>>
    <3>1. TablesTyped' /\ NoRowNoMoney'
      BY <2>1, <2>3, SameTablesTypeOK DEF TypeOK, TablesTyped
    <3>2. LocalsTyped'
      BY <1>11, <2>3 DEF GetOrCreateTargetWallet, TypeOK, LocalsTyped, Goto
    <3>3. HandlersHoldRows'
      BY <1>11, <2>3 DEF GetOrCreateTargetWallet, TypeOK, LocalsTyped, HandlersHoldRows, Goto
    <3>. QED
      BY <3>1, <3>2, <3>3 DEF TypeOK
  <2>. QED
    BY <1>11, <2>2, <2>3 DEF GetOrCreateTargetWallet
<1>12. ASSUME NEW r \in Requests, SaveTrade(r)
       PROVE  TypeOK'
  <2>1. /\ base[r].id \in rows /\ base[r].id \in Wallets
        /\ base[r].balance + change[r].base \in Int /\ change[r].base \in Int
        /\ change[r].target \in Int
    BY <1>12, HeldBase DEF SaveTrade
  <2>2. /\ target[r].id \in rows /\ target[r].id \in Wallets
        /\ target[r].balance + change[r].target \in Int
    BY <1>12, <2>1 DEF SaveTrade, TypeOK, TablesTyped, LocalsTyped, HandlersHoldRows
  <2>3. TablesTyped'
    BY <1>12, CommittedAnswers, <2>1, <2>2, RecordedType DEF SaveTrade, TypeOK, TablesTyped
  <2>4. NoRowNoMoney'
    BY <1>12, <2>1, <2>2 DEF SaveTrade, TypeOK, TablesTyped, NoRowNoMoney
  <2>5. LocalsTyped' /\ HandlersHoldRows' /\ unacknowledged' \subseteq Requests
    BY <1>12, CommittedTypeOK DEF SaveTrade
  <2>. QED
    BY <2>3, <2>4, <2>5 DEF TypeOK
<1>13. ASSUME NEW r \in Requests, SaveTradeNew(r)
       PROVE  TypeOK'
  <2>1. /\ base[r].id \in rows /\ base[r].id \in Wallets
        /\ base[r].balance + change[r].base \in Int /\ change[r].base \in Int
        /\ change[r].target \in Int
    BY <1>13, HeldBase DEF SaveTradeNew
  <2>2. wanted[r] \in Wallets
    BY <1>13 DEF SaveTradeNew, TypeOK, HandlersHoldRows
  <2>3. TablesTyped'
    BY <1>13, CommittedAnswers, <2>1, <2>2, RecordedType DEF SaveTradeNew, Inserted, TypeOK, TablesTyped
  <2>4. NoRowNoMoney'
    BY <1>13, <2>1, <2>2 DEF SaveTradeNew, Inserted, TypeOK, TablesTyped, NoRowNoMoney
  <2>5. LocalsTyped' /\ HandlersHoldRows' /\ unacknowledged' \subseteq Requests
    BY <1>13, CommittedTypeOK DEF SaveTradeNew, Inserted
  <2>. QED
    BY <2>3, <2>4, <2>5 DEF TypeOK
<1>14. ASSUME UNCHANGED vars
       PROVE  TypeOK'
  BY <1>14 DEF vars, TypeOK, TablesTyped, LocalsTyped, HandlersHoldRows, NoRowNoMoney
<1>. QED
  BY NextCases, <1>1, <1>2, <1>4, <1>5, <1>6, <1>7, <1>8, <1>9, <1>10, <1>11,
     <1>12, <1>13, <1>14

\* The tables and the handlers' locals keep their types, a handler that will write
\* holds wallets that exist, and a wallet without a row has no money.
THEOREM TypeCorrect == Spec => []TypeOK
<1>1. TypeOK /\ UNCHANGED vars => TypeOK'
  BY DEF vars, TypeOK, TablesTyped, LocalsTyped, HandlersHoldRows, NoRowNoMoney
<1>. QED
  BY InitTypeOK, NextTypeOK, <1>1, PTL DEF Spec

-----------------------------------------------------------------------------
(* Why a balance may be negative. *)

\* What a handler is about to write is not negative: its snapshot was validated against
\* its own amount, and is only added to otherwise.  Or the wallet has its negative CREDIT.
WritesCovered ==
  \A r \in Requests :
    /\ pc[r] \in Writing => \/ base[r].balance + change[r].base >= 0
                            \/ ledger[base[r].id].overdrawing
    /\ pc[r] = "trading" => \/ target[r].balance >= 0
                            \/ ledger[target[r].id].overdrawing

\* OnlyCreditsOverdraw alone is not inductive: a write stores a snapshot plus a change,
\* not the balance in the table.
OverdraftInv == OnlyCreditsOverdraw /\ WritesCovered

\* No transaction row is ever deleted.
CreditsStay == \A w \in Wallets : ledger[w].overdrawing => ledger'[w].overdrawing

LEMMA InitOverdraft == Init => OverdraftInv
<1> SUFFICES ASSUME Init PROVE OverdraftInv
  OBVIOUS
<1>1. OnlyCreditsOverdraw
  <2>1. balance \in [Wallets -> OpeningBalances \cup {0}]
    BY DEF Init
  <2>2. \A n \in OpeningBalances \cup {0} : ~(n < 0)
    BY ConstantsAssumption
  <2>. QED
    BY <2>1, <2>2, Zenon DEF OnlyCreditsOverdraw
<1>2. WritesCovered
  BY DEF Init, WritesCovered
<1>. QED
  BY <1>1, <1>2 DEF OverdraftInv

\* A call that answers writes nothing any more, and the other handlers' writes stay
\* covered.
LEMMA AnswerCovered ==
  ASSUME TypeOK, WritesCovered, CreditsStay, NEW r \in Requests, NEW code \in Codes,
         Answer(r, code)
  PROVE  WritesCovered'
<1>1. ASSUME NEW q \in Requests
      PROVE  /\ pc'[q] \in Writing => /\ pc[q] \in Writing
                                      /\ base'[q] = base[q] /\ change'[q] = change[q]
                                      /\ base[q].id \in Wallets
             /\ pc'[q] = "trading" => /\ pc[q] = "trading" /\ target'[q] = target[q]
                                      /\ target[q].id \in Wallets
  BY DEF Answer, TypeOK, TablesTyped, LocalsTyped, HandlersHoldRows
<1>. QED
  BY <1>1 DEF WritesCovered, CreditsStay

LEMMA CommitCovered ==
  ASSUME TypeOK, OverdraftInv, CreditsStay, NEW r \in Requests, NEW error \in Codes,
         Committed(r, error), OnlyCreditsOverdraw'
  PROVE  OverdraftInv'
BY CommittedAnswers, AnswerCovered DEF OverdraftInv

\* A handler that goes on with what it holds, of tables that did not change.
LEMMA SameCovered ==
  ASSUME OverdraftInv, UNCHANGED <<balance, ledger>>,
         \A q \in Requests :
           /\ pc'[q] \in Writing => \/ /\ pc[q] \in Writing
                                       /\ base'[q] = base[q]
                                       /\ change'[q].base = change[q].base
                                    \/ base'[q].balance + change'[q].base >= 0
                                    \/ ledger[base'[q].id].overdrawing
           /\ pc'[q] = "trading" => \/ pc[q] = "trading" /\ target'[q] = target[q]
                                    \/ target'[q].balance >= 0
                                    \/ ledger[target'[q].id].overdrawing
  PROVE  OverdraftInv'
<1>1. OnlyCreditsOverdraw'
  BY DEF OverdraftInv, OnlyCreditsOverdraw
<1>2. WritesCovered'
  BY DEF OverdraftInv, WritesCovered
<1>. QED
  BY <1>1, <1>2 DEF OverdraftInv

LEMMA AnswerOverdraft ==
  ASSUME TypeOK, OverdraftInv, NEW r \in Requests, NEW code \in Codes, Answer(r, code),
         UNCHANGED <<balance, ledger>>
  PROVE  OverdraftInv'
BY AnswerCovered DEF OverdraftInv, OnlyCreditsOverdraw, CreditsStay

\* A handler takes its first snapshot, of w, and what it will add is covered.
LEMMA ReadCovered ==
  ASSUME TypeOK, OverdraftInv, UNCHANGED <<balance, ledger, target>>,
         NEW r \in Requests, NEW w \in Wallets, NEW amount \in Int,
         \/ balance[w] + amount >= 0
         \/ ledger[w].overdrawing,
         base' = [base EXCEPT ![r] = Snapshot(w)],
         change' = [change EXCEPT ![r] = [base |-> amount, target |-> 0]],
         NEW step \in {"saving", "quoting"}, Goto(r, step)
  PROVE  OverdraftInv'
<1>1. ASSUME NEW q \in Requests \ {r}
      PROVE  UNCHANGED <<base[q], change[q], pc[q]>>
  BY DEF Goto, TypeOK, LocalsTyped
<1>2. /\ base'[r].balance = balance[w] /\ base'[r].id = w /\ change'[r].base = amount
      /\ pc'[r] # "trading"
  BY DEF Goto, Snapshot, TypeOK, LocalsTyped
<1>. QED
  BY <1>1, <1>2, SameCovered

LEMMA HandleOverdraft ==
  ASSUME TypeOK, OverdraftInv, NEW r \in Requests, NEW u \in Users, NEW w \in Wallets,
         NEW amount \in Int, NEW valid,
         valid => balance[w] + amount >= 0 \/ ledger[w].overdrawing,
         HandleWalletTransaction(r, u, w, amount, valid)
  PROVE  OverdraftInv'
<1>1. UNCHANGED <<balance, ledger>>
  BY DEF HandleWalletTransaction, database
<1>2. CASE Answer(r, "NOT_FOUND") \/ Answer(r, "INVALID_ARGUMENT")
  BY <1>1, <1>2, AnswerOverdraft
<1>3. CASE /\ valid
           /\ base' = [base EXCEPT ![r] = Snapshot(w)]
           /\ change' = [change EXCEPT ![r] = [base |-> amount, target |-> 0]]
           /\ Goto(r, "saving")
           /\ UNCHANGED target
  BY <1>1, <1>3, ReadCovered
<1>. QED
  BY <1>2, <1>3 DEF HandleWalletTransaction

\* A trade commits: b is written what the handler validated, t its snapshot and a CREDIT.
LEMMA TradeOverdraft ==
  ASSUME TypeOK, OverdraftInv, NEW b \in Wallets, NEW t \in Wallets,
         NEW x \in Int, NEW y \in Int, NEW m \in Int, NEW n \in Int,
         x >= 0 \/ ledger[b].overdrawing,
         y - n >= 0 \/ ledger[t].overdrawing,
         balance' = [balance EXCEPT ![b] = x, ![t] = y],
         ledger' = [ledger EXCEPT ![b] = Recorded(@, m), ![t] = Credited(@, n)]
  PROVE  OnlyCreditsOverdraw' /\ CreditsStay
<1>1. \A w \in Wallets : /\ ledger[w] \in Ledgers
                         /\ balance[w] \in Int
                         /\ balance[w] < 0 => ledger[w].overdrawing
  BY DEF TypeOK, TablesTyped, OverdraftInv, OnlyCreditsOverdraw
<1>2. \A l \in Ledgers : /\ Recorded(l, m) \in Ledgers
                         /\ Recorded(l, m).overdrawing = l.overdrawing
                         /\ Credited(l, n).overdrawing = (l.overdrawing \/ n < 0)
  BY RecordedType
<1>3. DOMAIN ledger = Wallets /\ DOMAIN balance = Wallets
  BY DEF TypeOK, TablesTyped
<1>4. ASSUME NEW w \in Wallets
      PROVE  /\ ledger[w].overdrawing => ledger'[w].overdrawing
             /\ balance'[w] < 0 => ledger'[w].overdrawing
  <2>1. CASE w = t
    <3>1. balance'[w] = y
      BY <1>3, <2>1
    <3>2. PICK l \in Ledgers : /\ ledger'[w] = Credited(l, n)
                               /\ l.overdrawing = ledger[w].overdrawing
      <4>1. CASE b = t
        BY <1>1, <1>2, <1>3, <2>1, <4>1
      <4>2. CASE b # t
        BY <1>1, <1>3, <2>1, <4>2
      <4>. QED
        BY <4>1, <4>2
    <3>3. ledger'[w].overdrawing = (ledger[w].overdrawing \/ n < 0)
      BY <1>2, <3>2
    <3>4. ~(n < 0) /\ y < 0 => ~(y - n >= 0)
      OBVIOUS
    <3>. QED
      BY <2>1, <3>1, <3>3, <3>4
  <2>2. CASE w = b /\ w # t
    BY <1>1, <1>2, <1>3, <2>2
  <2>3. CASE w # b /\ w # t
    BY <1>1, <1>3, <2>3
  <2>. QED
    BY <2>1, <2>2, <2>3
<1>. QED
  BY <1>4 DEF OnlyCreditsOverdraw, CreditsStay

LEMMA NextOverdraft ==
  ASSUME TypeOK, OverdraftInv, Next
  PROVE  OverdraftInv'
<1>1. ASSUME NEW r \in Requests, NEW u \in Users, NEW w \in Wallets, NEW a \in Amounts,
             FundWallet(r, u, w, a)
      PROVE  OverdraftInv'
  <2>1. a \in Int /\ (balance[w] + a >= 0 \/ ledger[w].overdrawing)
    BY ConstantsAssumption DEF TypeOK, TablesTyped, OverdraftInv, OnlyCreditsOverdraw
  <2>. QED
    BY <1>1, <2>1, HandleOverdraft DEF FundWallet
<1>2. ASSUME NEW r \in Requests, NEW u \in Users, NEW w \in Wallets, NEW a \in Amounts,
             WithdrawWallet(r, u, w, a)
      PROVE  OverdraftInv'
  <2>1. -a \in Int /\ (SufficientFund(balance[w], a) => balance[w] + (-a) >= 0)
    BY ConstantsAssumption DEF TypeOK, TablesTyped, SufficientFund
  <2>. QED
    BY <1>2, <2>1, HandleOverdraft DEF WithdrawWallet
<1>3. ASSUME NEW r \in Requests, NEW step, step \notin Writing, Goto(r, step),
             UNCHANGED <<balance, ledger, base, target, change>>
      PROVE  OverdraftInv'
  <2>1. \A q \in Requests : pc'[q] \in Writing => pc[q] = pc'[q]
    BY <1>3 DEF Goto, TypeOK, LocalsTyped
  <2>. QED
    BY <1>3, <2>1, SameCovered
<1>4. ASSUME NEW r \in Requests, NEW code \in Codes, Answer(r, code),
             UNCHANGED <<balance, ledger>>
      PROVE  OverdraftInv'
  BY <1>4, AnswerOverdraft
<1>5. ASSUME NEW r \in Requests, NEW u \in Users, NEW c \in Currencies,
             CreateWallet(r, u, c) \/ GetWalletBalance(r, u, c)
      PROVE  OverdraftInv'
  BY <1>3, <1>4, <1>5 DEF CreateWallet, GetWalletBalance
<1>6. ASSUME NEW r \in Requests, NEW u \in Users, GetAllUserWallets(r, u)
      PROVE  OverdraftInv'
  BY <1>4, <1>6 DEF GetAllUserWallets
<1>7. ASSUME NEW r \in Requests, NEW u \in Users, NEW b \in Currencies, NEW t \in Currencies,
             NEW a \in ForexAmounts, BuyForex(r, u, b, t, a)
      PROVE  OverdraftInv'
  <2>1. UNCHANGED <<balance, ledger>>
    BY <1>7 DEF BuyForex, database
  <2>2. ASSUME NEW w \in rows,
               SufficientFund(balance[w], a),
               base' = [base EXCEPT ![r] = Snapshot(w)],
               change' = [change EXCEPT ![r] = [base |-> -a, target |-> 0]],
               Goto(r, "quoting"),
               UNCHANGED target
        PROVE  OverdraftInv'
    <3>1. -a \in Int /\ w \in Wallets /\ balance[w] + (-a) >= 0
      BY <2>2, ConstantsAssumption DEF SufficientFund, TypeOK, TablesTyped
    <3>. QED
      BY <2>1, <2>2, <3>1, ReadCovered
  <2>. QED
    BY <1>4, <1>7, <2>1, <2>2 DEF BuyForex
<1>8. ASSUME NEW r \in Requests, SaveWallet(r)
      PROVE  OverdraftInv'
  <2>1. /\ base[r].id \in Wallets /\ change[r].base \in Int
        /\ base[r].balance + change[r].base \in Int
        /\ \/ base[r].balance + change[r].base >= 0
           \/ ledger[base[r].id].overdrawing
    BY <1>8, HeldBase DEF SaveWallet, OverdraftInv, WritesCovered
  <2>2. ASSUME NEW w \in Wallets
        PROVE  /\ ledger'[w].overdrawing = ledger[w].overdrawing
               /\ balance'[w] < 0 => ledger'[w].overdrawing
    <3>1. CASE w = base[r].id
      <4>1. /\ ledger'[w] = Recorded(ledger[w], change[r].base)
            /\ balance'[w] = base[r].balance + change[r].base
            /\ ledger[w] \in Ledgers
        BY <1>8, <2>1, <3>1 DEF SaveWallet, TypeOK, TablesTyped
      <4>2. Recorded(ledger[w], change[r].base).overdrawing = ledger[w].overdrawing
        BY DEF Recorded
      <4>3. ~(base[r].balance + change[r].base < 0) \/ ledger[w].overdrawing
        BY <2>1, <3>1
      <4>. QED
        BY <4>1, <4>2, <4>3
    <3>2. CASE w # base[r].id
      BY <1>8, <3>2 DEF SaveWallet, TypeOK, TablesTyped, OverdraftInv, OnlyCreditsOverdraw
    <3>. QED
      BY <3>1, <3>2
  <2>. QED
    BY <1>8, <2>2, CommitCovered DEF SaveWallet, OnlyCreditsOverdraw, CreditsStay
<1>9. ASSUME NEW r \in Requests, LookupWallet(r)
      PROVE  OverdraftInv'
  BY <1>3, <1>4, <1>9 DEF LookupWallet, locals
<1>10. ASSUME NEW r \in Requests, InsertWallet(r)
       PROVE  OverdraftInv'
  <2>1. OnlyCreditsOverdraw' /\ CreditsStay
    BY <1>10 DEF InsertWallet, TypeOK, TablesTyped, OverdraftInv, OnlyCreditsOverdraw,
                 CreditsStay
  <2>. QED
    BY <1>10, <2>1, CommitCovered DEF InsertWallet
<1>11. ASSUME NEW r \in Requests, InsertFails(r) \/ TransactionFails(r)
       PROVE  OverdraftInv'
  BY <1>4, <1>11 DEF InsertFails, TransactionFails
<1>12. ASSUME NEW r \in Requests, FetchExchangeRate(r)
       PROVE  OverdraftInv'
  <2>1. UNCHANGED <<balance, ledger>>
    BY <1>12 DEF FetchExchangeRate
  <2>2. ASSUME NEW rate, Goto(r, "targeting"), UNCHANGED <<base, target>>,
               change' = [change EXCEPT ![r].target = (-change[r].base) * rate]
        PROVE  OverdraftInv'
    <3>1. \A q \in Requests : /\ pc'[q] \in Writing => pc[q] \in Writing
                              /\ pc'[q] = "trading" => pc[q] = "trading"
                              /\ change'[q].base = change[q].base
      BY <1>12, <2>2 DEF FetchExchangeRate, Goto, TypeOK, LocalsTyped
    <3>. QED
      BY <2>1, <2>2, <3>1, SameCovered
  <2>. QED
    BY <1>4, <1>12, <2>1, <2>2 DEF FetchExchangeRate
<1>13. ASSUME NEW r \in Requests, GetOrCreateTargetWallet(r)
       PROVE  OverdraftInv'
  <2>1. UNCHANGED <<balance, ledger, base, change>> /\ pc[r] = "targeting"
    BY <1>13 DEF GetOrCreateTargetWallet
  <2>2. ASSUME NEW w \in rows,
               target' = [target EXCEPT ![r] = Snapshot(w)],
               Goto(r, "trading")
        PROVE  OverdraftInv'
    <3>1. w \in Wallets /\ (balance[w] >= 0 \/ ledger[w].overdrawing)
      BY DEF TypeOK, TablesTyped, OverdraftInv, OnlyCreditsOverdraw
    <3>2. target'[r].balance = balance[w] /\ target'[r].id = w
      BY <2>2 DEF TypeOK, LocalsTyped, Snapshot
    <3>3. \A q \in Requests \ {r} : target'[q] = target[q] /\ pc'[q] = pc[q]
      BY <2>2 DEF TypeOK, LocalsTyped, Goto
    <3>. QED
      BY <2>1, <3>1, <3>2, <3>3, SameCovered
  <2>3. CASE Goto(r, "tradingNew") /\ UNCHANGED target
    <3>1. \A q \in Requests : pc'[q] = IF q = r THEN "tradingNew" ELSE pc[q]
      BY <2>3 DEF TypeOK, LocalsTyped, Goto
    <3>. QED
      BY <2>1, <2>3, <3>1, SameCovered
  <2>. QED
    BY <1>13, <2>2, <2>3 DEF GetOrCreateTargetWallet
<1>14. ASSUME NEW r \in Requests, SaveTrade(r)
       PROVE  OverdraftInv'
  <2> DEFINE b == base[r].id
             t == target[r].id
             x == base[r].balance + change[r].base
             y == target[r].balance + change[r].target
  <2>1. /\ b \in Wallets /\ x \in Int /\ change[r].base \in Int /\ change[r].target \in Int
        /\ x >= 0 \/ ledger[b].overdrawing
    BY <1>14, HeldBase DEF SaveTrade, OverdraftInv, WritesCovered
  <2>2. t \in Wallets /\ target[r].balance \in Int
    BY <1>14 DEF SaveTrade, TypeOK, TablesTyped, LocalsTyped, HandlersHoldRows
  <2>3. y \in Int /\ (y - change[r].target >= 0 \/ ledger[t].overdrawing)
    BY <1>14, <2>1, <2>2 DEF SaveTrade, OverdraftInv, WritesCovered
  <2>4. /\ balance' = [balance EXCEPT ![b] = x, ![t] = y]
        /\ ledger' = [ledger EXCEPT ![b] = Recorded(@, change[r].base),
                                    ![t] = Credited(@, change[r].target)]
    BY <1>14 DEF SaveTrade
  <2> HIDE DEF b, t, x, y
  <2>5. OnlyCreditsOverdraw' /\ CreditsStay
    BY <2>1, <2>2, <2>3, <2>4, TradeOverdraft
  <2>. QED
    BY <1>14, <2>5, CommitCovered DEF SaveTrade
<1>15. ASSUME NEW r \in Requests, SaveTradeNew(r)
       PROVE  OverdraftInv'
  <2> DEFINE b == base[r].id
             t == wanted[r]
             x == base[r].balance + change[r].base
             y == change[r].target
  <2>1. /\ b \in Wallets /\ x \in Int /\ change[r].base \in Int /\ y \in Int
        /\ x >= 0 \/ ledger[b].overdrawing
    BY <1>15, HeldBase DEF SaveTradeNew, OverdraftInv, WritesCovered
  <2>2. t \in Wallets
    BY <1>15 DEF SaveTradeNew, TypeOK, HandlersHoldRows
  <2>3. y - y >= 0
    BY <2>1
  <2>4. /\ balance' = [balance EXCEPT ![b] = x, ![t] = y]
        /\ ledger' = [ledger EXCEPT ![b] = Recorded(@, change[r].base),
                                    ![t] = Credited(@, y)]
    BY <1>15 DEF SaveTradeNew
  <2> HIDE DEF b, t, x, y
  <2>5. OnlyCreditsOverdraw' /\ CreditsStay
    BY <2>1, <2>2, <2>3, <2>4, TradeOverdraft
  <2>. QED
    BY <1>15, <2>5, CommitCovered DEF SaveTradeNew
<1>16. ASSUME UNCHANGED vars
       PROVE  OverdraftInv'
  BY <1>16 DEF vars, OverdraftInv, OnlyCreditsOverdraw, WritesCovered
<1>. QED
  BY NextCases, <1>1, <1>2, <1>5, <1>6, <1>7, <1>8, <1>9, <1>10, <1>11, <1>12, <1>13,
     <1>14, <1>15, <1>16

\* Whatever amounts are traded, of either sign: a wallet below zero has a negative CREDIT,
\* however many calls overlap, fail or lose each other's updates.
THEOREM NothingElseOverdraws == Spec => []OnlyCreditsOverdraw
<1>1. OverdraftInv /\ UNCHANGED vars => OverdraftInv'
  BY DEF vars, OverdraftInv, OnlyCreditsOverdraw, WritesCovered
<1>2. OverdraftInv => OnlyCreditsOverdraw
  BY DEF OverdraftInv
<1>3. TypeOK /\ OverdraftInv /\ [Next]_vars => OverdraftInv'
  BY <1>1, NextOverdraft
<1>. QED
  BY InitOverdraft, TypeCorrect, <1>2, <1>3, PTL DEF Spec

-----------------------------------------------------------------------------
(* Balances and transactions agree wherever handlers do not overlap. *)

Held(q, w) == HoldsBase(q, w) \/ HoldsTarget(q, w)

\* The entity of a wallet that was never contended still shows the table's balance ...
FreshSnapshots ==
  \A w \in Wallets \ contended, q \in Requests :
    /\ HoldsBase(q, w) => base[q].balance = balance[w]
    /\ HoldsTarget(q, w) => target[q].balance = balance[w]

\* ... because at most one handler holds it, and that one holds it once.
SoleHolders ==
  \A w \in Wallets \ contended, p, q \in Requests :
    /\ Held(p, w) /\ Held(q, w) => p = q
    /\ ~(HoldsBase(q, w) /\ HoldsTarget(q, w))

SerialInv == SerialConsistency /\ FreshSnapshots /\ SoleHolders

LEMMA InitSerial == Init => SerialInv
BY DEF Init, SerialInv, SerialConsistency, FreshSnapshots, SoleHolders, Held, HoldsBase,
       HoldsTarget

\* A handler that answers holds nothing any more; the others hold what they held.
LEMMA AnswerReleases ==
  ASSUME TypeOK, NEW r \in Requests, NEW code \in Codes, Answer(r, code),
         NEW q \in Requests, NEW w \in Wallets
  PROVE  /\ HoldsBase(q, w)' => q # r /\ HoldsBase(q, w) /\ base'[q] = base[q]
         /\ HoldsTarget(q, w)' => q # r /\ HoldsTarget(q, w) /\ target'[q] = target[q]
BY DEF TypeOK, LocalsTyped, Answer, HoldsBase, HoldsTarget

\* Handlers that hold no more than before, of tables that did not change.
LEMMA SameSerial ==
  ASSUME SerialInv, UNCHANGED <<balance, ledger, contended>>,
         \A q \in Requests, w \in Wallets :
           /\ HoldsBase(q, w)' => HoldsBase(q, w) /\ base'[q] = base[q]
           /\ HoldsTarget(q, w)' => HoldsTarget(q, w) /\ target'[q] = target[q]
  PROVE  SerialInv'
<1>1. SerialConsistency'
  BY DEF SerialInv, SerialConsistency
<1>2. FreshSnapshots'
  BY DEF SerialInv, FreshSnapshots
<1>3. SoleHolders'
  BY DEF SerialInv, SoleHolders, Held
<1>. QED
  BY <1>1, <1>2, <1>3 DEF SerialInv

LEMMA AnswerSerial ==
  ASSUME TypeOK, SerialInv, NEW r \in Requests, NEW code \in Codes, Answer(r, code),
         UNCHANGED <<balance, ledger, contended>>
  PROVE  SerialInv'
BY AnswerReleases, SameSerial

\* A handler takes its first snapshot, of w.
LEMMA ReadBaseSerial ==
  ASSUME TypeOK, SerialInv, NEW r \in Requests, NEW w \in Wallets, pc[r] = "idle",
         UNCHANGED <<balance, ledger, target>>, NoteRead(w),
         base' = [base EXCEPT ![r] = Snapshot(w)],
         NEW step \in {"saving", "quoting"}, Goto(r, step)
  PROVE  SerialInv'
<1>1. contended \subseteq contended'
  BY DEF NoteRead
<1>2. ASSUME NEW v \in Wallets \ contended', NEW q \in Requests
      PROVE  /\ HoldsBase(q, v)' => \/ q = r /\ v = w /\ base'[q].balance = balance[v]
                                    \/ q # r /\ HoldsBase(q, v) /\ base'[q] = base[q]
             /\ HoldsTarget(q, v)' => q # r /\ HoldsTarget(q, v)
  BY DEF TypeOK, LocalsTyped, HoldsBase, HoldsTarget, Goto, Snapshot
<1>3. ASSUME w \notin contended', NEW q \in Requests
      PROVE  ~HoldsBase(q, w) /\ ~HoldsTarget(q, w)
  BY <1>3 DEF NoteRead
<1>4. SerialConsistency'
  BY <1>1 DEF SerialInv, SerialConsistency
<1>5. FreshSnapshots'
  BY <1>1, <1>2 DEF SerialInv, FreshSnapshots
<1>6. SoleHolders'
  BY <1>1, <1>2, <1>3 DEF SerialInv, SoleHolders, Held
<1>. QED
  BY <1>4, <1>5, <1>6 DEF SerialInv

\* A buyForex takes its second snapshot, of w.
LEMMA ReadTargetSerial ==
  ASSUME TypeOK, SerialInv, NEW r \in Requests, NEW w \in Wallets, pc[r] = "targeting",
         UNCHANGED <<balance, ledger, base>>, NoteRead(w),
         target' = [target EXCEPT ![r] = Snapshot(w)],
         Goto(r, "trading")
  PROVE  SerialInv'
<1>1. contended \subseteq contended'
  BY DEF NoteRead
<1>2. ASSUME NEW v \in Wallets \ contended', NEW q \in Requests
      PROVE  /\ HoldsTarget(q, v)' => \/ q = r /\ v = w /\ target'[q].balance = balance[v]
                                      \/ q # r /\ HoldsTarget(q, v) /\ target'[q] = target[q]
             /\ HoldsBase(q, v)' => HoldsBase(q, v)
  BY DEF TypeOK, LocalsTyped, HoldsBase, HoldsTarget, Goto, Snapshot
<1>3. ASSUME w \notin contended', NEW q \in Requests
      PROVE  ~HoldsBase(q, w) /\ ~HoldsTarget(q, w)
  BY <1>3 DEF NoteRead
<1>4. SerialConsistency'
  BY <1>1 DEF SerialInv, SerialConsistency
<1>5. FreshSnapshots'
  BY <1>1, <1>2 DEF SerialInv, FreshSnapshots
<1>6. SoleHolders'
  BY <1>1, <1>2, <1>3 DEF SerialInv, SoleHolders, Held
<1>. QED
  BY <1>4, <1>5, <1>6 DEF SerialInv

\* A commit of r that writes only wallets it holds, or that have no row yet, each
\* consistently when it was not contended.
LEMMA CommitSerial ==
  ASSUME TypeOK, SerialInv, NEW r \in Requests, NEW error \in Codes, Committed(r, error),
         UNCHANGED contended,
         \A w \in Wallets \ contended :
           \/ /\ balance'[w] = balance[w]
              /\ ledger'[w].net = ledger[w].net
           \/ /\ Held(r, w) \/ w \notin rows
              /\ balance'[w] = ledger'[w].net
  PROVE  SerialInv'
<1>1. \E code \in Codes : Answer(r, code)
  BY CommittedAnswers
<1>2. SerialConsistency'
  BY DEF SerialInv, SerialConsistency
<1>3. \A w \in Wallets, q \in Requests : Held(q, w) => w \in rows
  BY DEF TypeOK, HandlersHoldRows, Held, HoldsBase, HoldsTarget
<1>4. ASSUME NEW w \in Wallets \ contended, NEW q \in Requests, Held(q, w), q # r
      PROVE  balance'[w] = balance[w]
  <2>1. ~Held(r, w) /\ w \in rows
    BY <1>3, <1>4 DEF SerialInv, SoleHolders
  <2>. QED
    BY <2>1
<1>5. FreshSnapshots'
  BY <1>1, <1>4, AnswerReleases DEF SerialInv, FreshSnapshots, Held
<1>6. SoleHolders'
  BY <1>1, AnswerReleases DEF SerialInv, SoleHolders, Held
<1>. QED
  BY <1>2, <1>5, <1>6 DEF SerialInv

LEMMA HandleSerial ==
  ASSUME TypeOK, SerialInv, NEW r \in Requests, NEW u \in Users, NEW w \in Wallets,
         NEW amount \in Int, NEW valid,
         HandleWalletTransaction(r, u, w, amount, valid)
  PROVE  SerialInv'
<1>1. UNCHANGED <<balance, ledger>> /\ pc[r] = "idle"
  BY DEF HandleWalletTransaction, database
<1>2. CASE (Answer(r, "NOT_FOUND") \/ Answer(r, "INVALID_ARGUMENT")) /\ UNCHANGED contended
  BY <1>1, <1>2, AnswerSerial
<1>3. CASE /\ base' = [base EXCEPT ![r] = Snapshot(w)]
           /\ NoteRead(w)
           /\ Goto(r, "saving")
           /\ UNCHANGED target
  BY <1>1, <1>3, ReadBaseSerial
<1>. QED
  BY <1>2, <1>3 DEF HandleWalletTransaction

LEMMA NextSerial ==
  ASSUME TypeOK, SerialInv, Next
  PROVE  SerialInv'
<1>1. ASSUME NEW r \in Requests, NEW u \in Users, NEW w \in Wallets, NEW a \in Amounts,
             FundWallet(r, u, w, a) \/ WithdrawWallet(r, u, w, a)
      PROVE  SerialInv'
  <2>1. a \in Int /\ -a \in Int
    BY ConstantsAssumption
  <2>. QED
    BY <1>1, <2>1, HandleSerial DEF FundWallet, WithdrawWallet
<1>2. ASSUME NEW r \in Requests, NEW code \in Codes, Answer(r, code),
             UNCHANGED <<rows, balance, ledger, history>>
      PROVE  SerialInv'
  BY <1>2, AnswerSerial
<1>3. ASSUME NEW r \in Requests, NEW step \in {"lookup", "inserting"}, Goto(r, step),
             UNCHANGED <<balance, ledger, contended, base, target>>
      PROVE  SerialInv'
  <2>1. \A q \in Requests, w \in Wallets :
          /\ HoldsBase(q, w)' => HoldsBase(q, w) /\ base'[q] = base[q]
          /\ HoldsTarget(q, w)' => HoldsTarget(q, w) /\ target'[q] = target[q]
    BY <1>3 DEF TypeOK, LocalsTyped, HoldsBase, HoldsTarget, Goto
  <2>. QED
    BY <1>3, <2>1, SameSerial
<1>4. ASSUME NEW r \in Requests, NEW u \in Users, NEW c \in Currencies,
             CreateWallet(r, u, c) \/ GetWalletBalance(r, u, c)
      PROVE  SerialInv'
  BY <1>2, <1>3, <1>4 DEF CreateWallet, GetWalletBalance
<1>5. ASSUME NEW r \in Requests, NEW u \in Users, GetAllUserWallets(r, u)
      PROVE  SerialInv'
  BY <1>2, <1>5 DEF GetAllUserWallets
<1>6. ASSUME NEW r \in Requests, NEW u \in Users, NEW b \in Currencies, NEW t \in Currencies,
             NEW a \in ForexAmounts, BuyForex(r, u, b, t, a)
      PROVE  SerialInv'
  <2>1. UNCHANGED <<rows, balance, ledger>> /\ pc[r] = "idle"
    BY <1>6 DEF BuyForex, database
  <2>2. ASSUME NEW w \in rows,
               base' = [base EXCEPT ![r] = Snapshot(w)],
               NoteRead(w),
               Goto(r, "quoting"),
               UNCHANGED target
        PROVE  SerialInv'
    <3>1. w \in Wallets
      BY DEF TypeOK, TablesTyped
    <3>. QED
      BY <2>1, <2>2, <3>1, ReadBaseSerial
  <2>. QED
    BY <1>2, <1>6, <2>1, <2>2 DEF BuyForex
<1>7. ASSUME NEW r \in Requests, SaveWallet(r)
      PROVE  SerialInv'
  <2>1. /\ HoldsBase(r, base[r].id) /\ base[r].id \in Wallets /\ change[r].base \in Int
        /\ base[r].balance \in Int
    BY <1>7, HeldBase DEF SaveWallet, HoldsBase
  <2>2. ASSUME NEW w \in Wallets \ contended
        PROVE  \/ balance'[w] = balance[w] /\ ledger'[w].net = ledger[w].net
               \/ Held(r, w) /\ balance'[w] = ledger'[w].net
    <3>1. CASE w = base[r].id
      <4>1. base[r].balance = ledger[w].net
        BY <2>1, <3>1 DEF SerialInv, SerialConsistency, FreshSnapshots
      <4>2. ledger'[w].net = ledger[w].net + change[r].base
        BY <1>7, <2>1, <3>1, RecordedType DEF SaveWallet, TypeOK, TablesTyped
      <4>3. balance'[w] = base[r].balance + change[r].base
        BY <1>7, <3>1 DEF SaveWallet, TypeOK, TablesTyped
      <4>. QED
        BY <2>1, <3>1, <4>1, <4>2, <4>3 DEF Held
    <3>2. CASE w # base[r].id
      BY <1>7, <3>2 DEF SaveWallet, TypeOK, TablesTyped
    <3>. QED
      BY <3>1, <3>2
  <2>. QED
    BY <1>7, <2>2, CommitSerial DEF SaveWallet
<1>8. ASSUME NEW r \in Requests, LookupWallet(r)
      PROVE  SerialInv'
  BY <1>2, <1>3, <1>8 DEF LookupWallet, locals
<1>9. ASSUME NEW r \in Requests, InsertWallet(r)
      PROVE  SerialInv'
  <2>1. ASSUME NEW w \in Wallets \ contended
        PROVE  \/ balance'[w] = balance[w] /\ ledger'[w].net = ledger[w].net
               \/ w \notin rows /\ balance'[w] = ledger'[w].net
    <3>1. CASE w = wanted[r]
      BY <1>9, <3>1 DEF InsertWallet, Insertable, TypeOK, TablesTyped, NoRowNoMoney
    <3>2. CASE w # wanted[r]
      BY <1>9, <3>2 DEF InsertWallet, TypeOK, TablesTyped
    <3>. QED
      BY <3>1, <3>2
  <2>. QED
    BY <1>9, <2>1, CommitSerial DEF InsertWallet
<1>10. ASSUME NEW r \in Requests, InsertFails(r) \/ TransactionFails(r)
       PROVE  SerialInv'
  BY <1>2, <1>10 DEF InsertFails, TransactionFails
<1>11. ASSUME NEW r \in Requests, pc[r] \in Buying,
              NEW step \in {"targeting", "tradingNew"}, Goto(r, step),
              UNCHANGED <<balance, ledger, contended, base, target>>
       PROVE  SerialInv'
  <2>1. \A q \in Requests, w \in Wallets :
          /\ HoldsBase(q, w)' => HoldsBase(q, w) /\ base'[q] = base[q]
          /\ HoldsTarget(q, w)' => HoldsTarget(q, w) /\ target'[q] = target[q]
    BY <1>11 DEF TypeOK, LocalsTyped, HoldsBase, HoldsTarget, Goto
  <2>. QED
    BY <1>11, <2>1, SameSerial
<1>12. ASSUME NEW r \in Requests, FetchExchangeRate(r)
       PROVE  SerialInv'
  BY <1>2, <1>11, <1>12 DEF FetchExchangeRate
<1>13. ASSUME NEW r \in Requests, GetOrCreateTargetWallet(r)
       PROVE  SerialInv'
  <2>1. ASSUME NEW w \in rows,
               target' = [target EXCEPT ![r] = Snapshot(w)],
               NoteRead(w),
               Goto(r, "trading")
        PROVE  SerialInv'
    <3>1. w \in Wallets
      BY DEF TypeOK, TablesTyped
    <3>. QED
      BY <1>13, <2>1, <3>1, ReadTargetSerial DEF GetOrCreateTargetWallet
  <2>2. CASE Goto(r, "tradingNew") /\ UNCHANGED <<target, contended>>
    BY <1>11, <1>13, <2>2 DEF GetOrCreateTargetWallet
  <2>. QED
    BY <1>13, <2>1, <2>2 DEF GetOrCreateTargetWallet
<1>14. ASSUME NEW r \in Requests, SaveTrade(r)
       PROVE  SerialInv'
  <2> DEFINE b == base[r].id
             t == target[r].id
  <2>1. /\ HoldsBase(r, b) /\ b \in Wallets
        /\ base[r].balance \in Int /\ change[r].base \in Int /\ change[r].target \in Int
    BY <1>14, HeldBase DEF SaveTrade, HoldsBase
  <2>2. HoldsTarget(r, t) /\ t \in Wallets /\ target[r].balance \in Int
    BY <1>14 DEF SaveTrade, TypeOK, TablesTyped, LocalsTyped, HandlersHoldRows, HoldsTarget
  <2>3. ASSUME NEW w \in Wallets \ contended
        PROVE  \/ balance'[w] = balance[w] /\ ledger'[w].net = ledger[w].net
               \/ Held(r, w) /\ balance'[w] = ledger'[w].net
    <3>1. ~(w = b /\ w = t)
      BY <2>1, <2>2 DEF SerialInv, SoleHolders
    <3>2. CASE w = b
      <4>1. base[r].balance = ledger[w].net
        BY <2>1, <3>2 DEF SerialInv, SerialConsistency, FreshSnapshots
      <4>2. ledger'[w].net = ledger[w].net + change[r].base
        BY <1>14, <2>1, <2>2, <3>1, <3>2, RecordedType DEF SaveTrade, TypeOK, TablesTyped
      <4>3. balance'[w] = base[r].balance + change[r].base
        BY <1>14, <2>1, <2>2, <3>1, <3>2 DEF SaveTrade, TypeOK, TablesTyped
      <4>. QED
        BY <2>1, <3>2, <4>1, <4>2, <4>3 DEF Held
    <3>3. CASE w = t
      <4>1. target[r].balance = ledger[w].net
        BY <2>2, <3>3 DEF SerialInv, SerialConsistency, FreshSnapshots
      <4>2. ledger'[w].net = ledger[w].net + change[r].target
        BY <1>14, <2>1, <2>2, <3>1, <3>3, RecordedType DEF SaveTrade, TypeOK, TablesTyped
      <4>3. balance'[w] = target[r].balance + change[r].target
        BY <1>14, <2>1, <2>2, <3>1, <3>3 DEF SaveTrade, TypeOK, TablesTyped
      <4>. QED
        BY <2>2, <3>3, <4>1, <4>2, <4>3 DEF Held
    <3>4. CASE w # b /\ w # t
      BY <1>14, <2>1, <2>2, <3>4 DEF SaveTrade, TypeOK, TablesTyped
    <3>. QED
      BY <3>2, <3>3, <3>4
  <2>. QED
    BY <1>14, <2>3, CommitSerial DEF SaveTrade
<1>15. ASSUME NEW r \in Requests, SaveTradeNew(r)
       PROVE  SerialInv'
  <2> DEFINE b == base[r].id
             t == wanted[r]
  <2>1. /\ HoldsBase(r, b) /\ b \in Wallets /\ b \in rows
        /\ base[r].balance \in Int /\ change[r].base \in Int /\ change[r].target \in Int
    BY <1>15, HeldBase DEF SaveTradeNew, HoldsBase
  <2>2. t \in Wallets /\ t \notin rows
    BY <1>15 DEF SaveTradeNew, Insertable, TypeOK, HandlersHoldRows
  <2>3. ASSUME NEW w \in Wallets \ contended
        PROVE  \/ balance'[w] = balance[w] /\ ledger'[w].net = ledger[w].net
               \/ (Held(r, w) \/ w \notin rows) /\ balance'[w] = ledger'[w].net
    <3>1. CASE w = b
      <4>1. base[r].balance = ledger[w].net
        BY <2>1, <3>1 DEF SerialInv, SerialConsistency, FreshSnapshots
      <4>2. ledger'[w].net = ledger[w].net + change[r].base
        BY <1>15, <2>1, <2>2, <3>1, RecordedType DEF SaveTradeNew, TypeOK, TablesTyped
      <4>3. balance'[w] = base[r].balance + change[r].base
        BY <1>15, <2>1, <2>2, <3>1 DEF SaveTradeNew, TypeOK, TablesTyped
      <4>. QED
        BY <2>1, <3>1, <4>1, <4>2, <4>3 DEF Held
    <3>2. CASE w = t
      <4>1. ledger[w].net = 0
        BY <2>2, <3>2 DEF TypeOK, NoRowNoMoney
      <4>2. ledger'[w].net = ledger[w].net + change[r].target
        BY <1>15, <2>1, <2>2, <3>2, RecordedType DEF SaveTradeNew, TypeOK, TablesTyped
      <4>3. balance'[w] = change[r].target
        BY <1>15, <2>1, <2>2, <3>2 DEF SaveTradeNew, TypeOK, TablesTyped
      <4>. QED
        BY <2>1, <2>2, <3>2, <4>1, <4>2, <4>3
    <3>3. CASE w # b /\ w # t
      BY <1>15, <2>1, <2>2, <3>3 DEF SaveTradeNew, TypeOK, TablesTyped
    <3>. QED
      BY <3>1, <3>2, <3>3
  <2>. QED
    BY <1>15, <2>3, CommitSerial DEF SaveTradeNew
<1>16. ASSUME UNCHANGED vars
       PROVE  SerialInv'
  BY <1>16 DEF vars, SerialInv, SerialConsistency, FreshSnapshots, SoleHolders, Held,
               HoldsBase, HoldsTarget
<1>. QED
  BY NextCases, <1>1, <1>4, <1>5, <1>6, <1>7, <1>8, <1>9, <1>10, <1>12, <1>13, <1>14,
     <1>15, <1>16

\* A wallet that no two handlers ever held at once has exactly the balance its
\* transactions add up to: only overlapping handlers make the two tables disagree.
THEOREM SerialCallsAgree == Spec => []SerialConsistency
<1>1. SerialInv /\ UNCHANGED vars => SerialInv'
  BY DEF vars, SerialInv, SerialConsistency, FreshSnapshots, SoleHolders, Held,
         HoldsBase, HoldsTarget
<1>2. SerialInv => SerialConsistency
  BY DEF SerialInv
<1>3. TypeOK /\ SerialInv /\ [Next]_vars => SerialInv'
  BY <1>1, NextSerial
<1>. QED
  BY InitSerial, TypeCorrect, <1>2, <1>3, PTL DEF Spec

-----------------------------------------------------------------------------
(* No balance changes without a transaction row. *)

\* The ledgers a commit writes grow.
LEMMA LedgersGrow ==
  ASSUME TypeOK, NEW b \in Wallets, NEW t \in Wallets, NEW x \in Int, NEW y \in Int,
         NEW w \in {b, t}, NEW l,
         l = [ledger EXCEPT ![b] = Recorded(@, x), ![t] = Credited(@, y)]
  PROVE  l[w].count > ledger[w].count
<1>1. ledger[w] \in Ledgers /\ ledger[w].count \in Nat
  BY DEF TypeOK, TablesTyped, Ledgers
<1>2. /\ Recorded(ledger[w], x) \in Ledgers
      /\ Recorded(ledger[w], x).count = ledger[w].count + 1
      /\ Credited(ledger[w], y).count = ledger[w].count + 1
  BY <1>1, RecordedType
<1>3. /\ Recorded(ledger[w], x).count > ledger[w].count
      /\ Credited(ledger[w], y).count > ledger[w].count
      /\ Credited(Recorded(ledger[w], x), y).count > ledger[w].count
  <2>1. Credited(Recorded(ledger[w], x), y).count = Recorded(ledger[w], x).count + 1
    BY <1>2, RecordedType
  <2>. QED
    BY <1>1, <1>2, <2>1
<1>4. DOMAIN ledger = Wallets
  BY DEF TypeOK, TablesTyped
<1>5. CASE b = t
  BY <1>1, <1>3, <1>4, <1>5
<1>6. CASE b # t
  BY <1>1, <1>3, <1>4, <1>6
<1>. QED
  BY <1>5, <1>6

LEMMA StepRecorded ==
  ASSUME TypeOK, Next, NEW w \in Wallets, balance'[w] # balance[w]
  PROVE  ledger'[w].count > ledger[w].count
<1>1. ASSUME NEW r \in Requests, SaveWallet(r)
      PROVE  ledger'[w].count > ledger[w].count
  <2>1. base[r].id \in Wallets /\ change[r].base \in Int
    BY <1>1, HeldBase DEF SaveWallet
  <2>2. w = base[r].id
    BY <1>1, <2>1 DEF SaveWallet, TypeOK, TablesTyped
  <2>3. ledger'[w] = Recorded(ledger[w], change[r].base)
    BY <1>1, <2>2 DEF SaveWallet, TypeOK, TablesTyped
  <2>4. ledger[w] \in Ledgers /\ ledger[w].count \in Nat
    BY DEF TypeOK, TablesTyped, Ledgers
  <2>5. ledger'[w].count = ledger[w].count + 1
    BY <2>1, <2>3, <2>4, RecordedType
  <2>. QED
    BY <2>4, <2>5
<1>2. ASSUME NEW r \in Requests, InsertWallet(r)
      PROVE  FALSE
  BY <1>2 DEF InsertWallet, Insertable, TypeOK, TablesTyped, NoRowNoMoney
<1>3. ASSUME NEW r \in Requests, SaveTrade(r)
      PROVE  ledger'[w].count > ledger[w].count
  <2>1. /\ base[r].id \in Wallets /\ change[r].base \in Int /\ change[r].target \in Int
        /\ target[r].id \in Wallets
    BY <1>3, HeldBase DEF SaveTrade, TypeOK, TablesTyped, HandlersHoldRows
  <2>2. w \in {base[r].id, target[r].id}
    BY <1>3, <2>1 DEF SaveTrade, TypeOK, TablesTyped
  <2>3. ledger' = [ledger EXCEPT ![base[r].id] = Recorded(@, change[r].base),
                                ![target[r].id] = Credited(@, change[r].target)]
    BY <1>3 DEF SaveTrade
  <2>. QED
    BY <2>1, <2>2, <2>3, LedgersGrow
<1>4. ASSUME NEW r \in Requests, SaveTradeNew(r)
      PROVE  ledger'[w].count > ledger[w].count
  <2>1. /\ base[r].id \in Wallets /\ change[r].base \in Int /\ change[r].target \in Int
        /\ wanted[r] \in Wallets
    BY <1>4, HeldBase DEF SaveTradeNew, TypeOK, HandlersHoldRows
  <2>2. w \in {base[r].id, wanted[r]}
    BY <1>4, <2>1 DEF SaveTradeNew, TypeOK, TablesTyped
  <2>. QED
    BY <1>4, <2>1, <2>2, LedgersGrow DEF SaveTradeNew
<1>5. ASSUME NEW r \in Requests, NEW u \in Users, NEW v \in Wallets, NEW a \in Amounts,
             FundWallet(r, u, v, a) \/ WithdrawWallet(r, u, v, a)
      PROVE  UNCHANGED balance
  BY <1>5 DEF FundWallet, WithdrawWallet, HandleWalletTransaction, database
<1>6. ASSUME NEW r \in Requests, NEW u \in Users, NEW b \in Currencies, NEW t \in Currencies,
             NEW a \in ForexAmounts, BuyForex(r, u, b, t, a)
      PROVE  UNCHANGED balance
  BY <1>6 DEF BuyForex, database
<1>7. ASSUME NEW r \in Requests,
             \/ \E u \in Users, c \in Currencies :
                  CreateWallet(r, u, c) \/ GetWalletBalance(r, u, c)
             \/ \E u \in Users : GetAllUserWallets(r, u)
             \/ LookupWallet(r) \/ InsertFails(r) \/ FetchExchangeRate(r)
             \/ GetOrCreateTargetWallet(r) \/ TransactionFails(r)
      PROVE  UNCHANGED balance
  BY <1>7 DEF CreateWallet, GetWalletBalance, GetAllUserWallets, LookupWallet, InsertFails,
              FetchExchangeRate, GetOrCreateTargetWallet, TransactionFails
<1>. QED
  BY NextCases, <1>1, <1>2, <1>3, <1>4, <1>5, <1>6, <1>7 DEF vars

\* A balance changes only in a commit that also inserts a transaction row of that wallet.
THEOREM ChangesRecorded == Spec => BalanceChangeRecorded
<1>1. TypeOK /\ [Next]_vars =>
        [\A w \in Wallets : balance'[w] # balance[w] => ledger'[w].count > ledger[w].count]_vars
  BY StepRecorded DEF vars
<1>. QED
  BY TypeCorrect, <1>1, PTL DEF Spec, BalanceChangeRecorded
=============================================================================
