--------------------------- MODULE EndpointProofs ---------------------------
(***************************************************************************)
(* Theorems about Endpoints, for any users, currencies, requests, amounts  *)
(* and number of faults.                                                   *)
(***************************************************************************)
EXTENDS Endpoints, TLAPS

-----------------------------------------------------------------------------
(* The inductive invariant. *)

CallSteps == W!Codes \cup {"idle", "lookup", "inserting", "saving"}

\* Types of what the arguments below look at.
Typed ==
  /\ rows \subseteq Wallets
  /\ sessions \subseteq accounts
  /\ call \in [Requests -> CallSteps]
  /\ wanted \in [Requests -> Wallets \cup {<<>>}]
  /\ http \in [Requests -> Live \cup Ended \cup {"idle"}]
  /\ ask \in [Requests -> Asks]
  /\ says \in [Requests -> {"none", "success", "failure"}]
  /\ mail \in [Requests -> {"none", "posting", "queued", "delivered", "lost"}]

WalletKinds == MoneyKinds \cup {"create", "list"}

\* What a request that stands at a step asks for, and whether it made its call.
KindOfStep(r) ==
  /\ http[r] = "idle" => says[r] = "none"
  /\ ask[r].kind = "none" => http[r] = "idle"
  /\ http[r] \in {"checking", "saving"} => ask[r].kind = "signup"
  /\ http[r] = "verifying" => ask[r].kind = "login"
  /\ http[r] = "authenticating" => IsMoney(r)
  /\ http[r] = "validating" => ask[r].kind = "create"
  /\ http[r] \in {"ready", "calling"} => ask[r].kind \in WalletKinds
  /\ call[r] # "idle" => /\ ask[r].kind \in WalletKinds
                         /\ http[r] \in {"calling"} \cup (Ended \ {"401"})
  /\ http[r] = "calling" => call[r] # "idle"

\* What a call of the wallet service is about, and what its OK says of the wallets.
CallOfKind(r) ==
  /\ call[r] \in {"lookup", "inserting"} =>
       ask[r].kind = "create" /\ wanted[r] = ask[r].wallet
  /\ call[r] = "saving" => IsMoney(r)
  /\ call[r] = "OK" /\ ask[r].kind = "create" => ask[r].wallet \in rows
  /\ call[r] = "OK" /\ ask[r].kind = "list" => \E w \in rows : W!Owner(w) = ask[r].user

\* A wallet is asked for by its owner, with the cookie of an account.
Vouched(r) ==
  ask[r].kind = "create" =>
    /\ ask[r].wallet \in Wallets
    /\ W!Owner(ask[r].wallet) = ask[r].user
    /\ http[r] # "401" => ask[r].user \in accounts

\* What the answer of a request, and the mail about it, say of its call.
Truthful(r) ==
  /\ http[r] = "OK" => IF ask[r].kind \in WalletKinds THEN call[r] = "OK"
                       ELSE ask[r].user \in accounts \cap sessions
  /\ says[r] = "success" => call[r] = "OK"
  /\ IsMoney(r) /\ (http[r] \in {"400", "404", "500"} \/ says[r] = "failure")
       => r \in unheard \cup unacknowledged \/ call[r] \in W!Codes \ {"OK"}

\* What a request can ask for.
WellFormed(q) ==
  /\ q.kind # "none"
  /\ q.user \in Users
  /\ q.kind \in MoneyKinds => q.wallet \in Wallets /\ q.amount \in Amounts

Consistent(r) == KindOfStep(r) /\ CallOfKind(r) /\ Vouched(r) /\ Truthful(r)
RequestsConsistent == \A r \in Requests : Consistent(r)

IInv == Typed /\ RequestsConsistent /\ WalletsHaveAccounts /\ OneSignUpWins

\* Nothing is asked for that the constants do not offer, so that the wallet service and
\* the users table are only given what they know.
Enclosed ==
  /\ accounts \subseteq Users
  /\ unheard \subseteq Requests
  /\ faults \in 0 .. MaxFaults
  /\ \A r \in Requests : IF http[r] = "idle" THEN ask[r] = NoAsk ELSE WellFormed(ask[r])

-----------------------------------------------------------------------------
(* What the steps have in common. *)

\* The actions of Next, when its disjunctions are resolved.
LEMMA NextCases ==
  ASSUME Next
  PROVE  \/ \E r \in Requests :
              \/ Receive(r)
              \/ CheckEmail(r) \/ SaveUser(r) \/ VerifyUser(r)
              \/ Authenticate(r) \/ ValidateCurrency(r)
              \/ CallWallet(r) \/ HearWallet(r) \/ WalletContinues(r)
              \/ Publish(r) \/ SendEmail(r)
              \/ LoseAnswer(r) \/ PublishFails(r) \/ SendEmailFails(r)
         \/ TransactionServiceDies \/ AuthServiceDies \/ BrokerRestarts
         \/ UNCHANGED vars
BY DEF Next, Continue, ForwardMail, Faulty, AllOver

\* What the codes of a call become, and which of them is a success.
LEMMA HttpStatusType ==
  ASSUME NEW kind \in WalletKinds, NEW code \in W!Codes \cup {"UNAVAILABLE"}
  PROVE  /\ HttpStatus(kind, code) \in {"OK", "404", "400", "500"}
         /\ HttpStatus(kind, code) = "OK" <=> code = "OK"
BY DEF HttpStatus, WalletKinds, MoneyKinds, W!Codes

\* A request that a step does not touch stays consistent, since nothing is deleted.
LEMMA Undisturbed ==
  ASSUME NEW q, Consistent(q),
         UNCHANGED <<http[q], ask[q], call[q], wanted[q], says[q]>>,
         rows \subseteq rows', accounts \subseteq accounts', sessions \subseteq sessions',
         unheard \subseteq unheard', unacknowledged \subseteq unacknowledged'
  PROVE  Consistent(q)'
BY DEF Consistent, KindOfStep, CallOfKind, Vouched, Truthful, IsMoney

LEMMA InitInv == Init => IInv
<1> SUFFICES ASSUME Init PROVE IInv
  OBVIOUS
<1> USE DEF Init, W!Init
<1>1. Typed
  BY DEF Typed, CallSteps, Asks, NoAsk, Wallets, W!Wallets, W!NoWallet
<1>2. RequestsConsistent
  BY DEF RequestsConsistent, Consistent, KindOfStep, CallOfKind, Vouched, Truthful, IsMoney,
         NoAsk, MoneyKinds
<1>3. WalletsHaveAccounts /\ OneSignUpWins
  BY DEF WalletsHaveAccounts, OneSignUpWins, NoAsk
<1>. QED
  BY <1>1, <1>2, <1>3 DEF IInv

-----------------------------------------------------------------------------
(* The steps of one request, each of which leaves the others alone. *)

\* What arrives, and where the request may stand at its first await.
LEMMA Arrivals ==
  ASSUME NEW r \in Requests, Receive(r)
  PROVE  \E question \in Asks, steps \in SUBSET (Live \cup Ended) :
           /\ Arrive(r, question, steps)
           /\ WellFormed(question)
           /\ \/ question.kind = "signup" /\ steps = {"checking"}
              \/ question.kind = "login" /\ steps = {"verifying"}
              \/ question.kind = "list" /\ steps \subseteq {"ready", "401"}
              \/ /\ question.kind = "create"
                 /\ question.wallet \in Wallets
                 /\ W!Owner(question.wallet) = question.user
                 /\ steps \subseteq {"validating", "401"}
                 /\ "validating" \in steps => question.user \in sessions
              \/ question.kind \in MoneyKinds /\ steps \subseteq {"authenticating", "403"}
<1> USE DEF MoneyKinds, AuthKinds, Live, Ended, Statuses
<1>1. CASE \E u \in Users : SignUp(r, u) \/ LogIn(r, u) \/ GetAllUserWallets(r, u)
  <2>1. PICK u \in Users : SignUp(r, u) \/ LogIn(r, u) \/ GetAllUserWallets(r, u)
    BY <1>1
  <2>2. \A kind \in AuthKinds : [NoAsk EXCEPT !.kind = kind, !.user = u] \in Asks
    BY DEF Asks, NoAsk
  <2>3. \A kind \in AuthKinds : /\ [NoAsk EXCEPT !.kind = kind, !.user = u].kind = kind
                               /\ WellFormed([NoAsk EXCEPT !.kind = kind, !.user = u])
    BY DEF NoAsk, WellFormed
  <2>4. CASE SignUp(r, u)
    BY <2>2, <2>3, <2>4 DEF SignUp
  <2>5. CASE LogIn(r, u)
    BY <2>2, <2>3, <2>5 DEF LogIn
  <2>6. CASE GetAllUserWallets(r, u)
    <3>1. WithJwt(u, "ready") \in SUBSET (Live \cup Ended) /\ WithJwt(u, "ready") \subseteq {"ready", "401"}
      BY DEF WithJwt
    <3>. QED
      BY <2>2, <2>3, <2>6, <3>1 DEF GetAllUserWallets
  <2>. QED
    BY <2>1, <2>4, <2>5, <2>6
<1>2. CASE \E u \in Users, w \in Wallets : CreateUserWallet(r, u, w)
  <2>1. PICK u \in Users, w \in Wallets : CreateUserWallet(r, u, w)
    BY <1>2
  <2>2. DEFINE q == [NoAsk EXCEPT !.kind = "create", !.user = u, !.wallet = w]
  <2>3. q \in Asks /\ q.kind = "create" /\ q.user = u /\ q.wallet = w /\ WellFormed(q)
    BY DEF Asks, NoAsk, WellFormed
  <2> HIDE DEF q
  <2>4. /\ WithJwt(u, "validating") \in SUBSET (Live \cup Ended)
        /\ WithJwt(u, "validating") \subseteq {"validating", "401"}
        /\ "validating" \in WithJwt(u, "validating") => u \in sessions
    BY DEF WithJwt
  <2>5. W!Owner(w) = u /\ Arrive(r, q, WithJwt(u, "validating"))
    BY <2>1 DEF CreateUserWallet, q
  <2>. QED
    BY <2>3, <2>4, <2>5
<1>3. CASE \E kind \in MoneyKinds, u \in Users, w \in Wallets, a \in Amounts :
             MoveMoney(r, kind, u, w, a)
  <2>1. PICK kind \in MoneyKinds, u \in Users, w \in Wallets, a \in Amounts :
          MoveMoney(r, kind, u, w, a)
    BY <1>3
  <2>2. DEFINE q == [kind |-> kind, user |-> u, wallet |-> w, amount |-> a]
  <2>3. q \in Asks /\ q.kind = kind /\ WellFormed(q)
    BY DEF Asks, WellFormed
  <2>. QED
    BY <2>1, <2>3 DEF MoveMoney
<1>. QED
  BY <1>1, <1>2, <1>3 DEF Receive

LEMMA ReceiveInv ==
  ASSUME Typed, RequestsConsistent, NEW r \in Requests, Receive(r)
  PROVE  Typed' /\ RequestsConsistent'
<1> USE DEF MoneyKinds, AuthKinds
<1>1. PICK question \in Asks, steps \in SUBSET (Live \cup Ended) :
        /\ Arrive(r, question, steps)
        /\ \/ question.kind = "signup" /\ steps = {"checking"}
           \/ question.kind = "login" /\ steps = {"verifying"}
           \/ question.kind = "list" /\ steps \subseteq {"ready", "401"}
           \/ /\ question.kind = "create"
              /\ question.wallet \in Wallets
              /\ W!Owner(question.wallet) = question.user
              /\ steps \subseteq {"validating", "401"}
              /\ "validating" \in steps => question.user \in sessions
           \/ question.kind \in MoneyKinds /\ steps \subseteq {"authenticating", "403"}
  BY Arrivals
<1>2. Typed'
  BY <1>1 DEF Arrive, Goto, Typed, wallets, users, mailing, Live, Ended, Statuses
<1>3. Consistent(r)'
  BY <1>1 DEF Arrive, Goto, Typed, wallets, users, mailing, RequestsConsistent, Consistent,
              KindOfStep, CallOfKind, Vouched, Truthful, IsMoney, WalletKinds, Live, Ended,
              Statuses
<1>4. \A q \in Requests \ {r} : Consistent(q)'
  BY <1>1, Undisturbed DEF Arrive, Goto, Typed, wallets, users, mailing, RequestsConsistent
<1>. QED
  BY <1>2, <1>3, <1>4 DEF RequestsConsistent

\* The awaits of the auth service and of the guards.
LEMMA AuthInv ==
  ASSUME Typed, RequestsConsistent, NEW r \in Requests,
         \/ CheckEmail(r) \/ SaveUser(r) \/ VerifyUser(r) \/ Authenticate(r)
         \/ ValidateCurrency(r)
  PROVE  Typed' /\ RequestsConsistent'
<1> USE DEF CheckEmail, SaveUser, VerifyUser, Authenticate, ValidateCurrency, Goto, Typed,
            wallets, users, mailing
<1>1. Typed'
  BY DEF Live, Ended, Statuses
<1>2. Consistent(r)'
  BY DEF RequestsConsistent, Consistent, KindOfStep, CallOfKind, Vouched, Truthful, IsMoney,
         WalletKinds, MoneyKinds, Ended, Statuses
<1>3. \A q \in Requests \ {r} : Consistent(q)'
  BY Undisturbed DEF RequestsConsistent
<1>. QED
  BY <1>1, <1>2, <1>3 DEF RequestsConsistent

LEMMA CallWalletInv ==
  ASSUME Typed, RequestsConsistent, NEW r \in Requests, CallWallet(r)
  PROVE  Typed' /\ RequestsConsistent'
<1> USE DEF CallWallet, Goto, Typed, users, mailing
<1> USE DEF W!CreateWallet, W!GetAllUserWallets, W!FundWallet, W!WithdrawWallet,
            W!HandleWalletTransaction, W!database, W!history, W!Goto, W!Answer, W!Codes,
            CallSteps
<1>1. ask[r].kind = "create" =>
        /\ <<ask[r].user, W!Currency(ask[r].wallet)>> = ask[r].wallet
        /\ ask[r].wallet \in Wallets
  BY DEF RequestsConsistent, Consistent, Vouched, Wallets, W!Owner, W!Currency
<1>2. Typed'
  BY <1>1 DEF Live, W!NoWallet
<1>3. Consistent(r)'
  BY <1>1 DEF RequestsConsistent, Consistent, KindOfStep, CallOfKind, Vouched, Truthful, IsMoney,
              WalletKinds, MoneyKinds
<1>4. \A q \in Requests \ {r} : Consistent(q)'
  BY Undisturbed DEF RequestsConsistent
<1>. QED
  BY <1>2, <1>3, <1>4 DEF RequestsConsistent

LEMMA WalletContinuesInv ==
  ASSUME Typed, RequestsConsistent, NEW r \in Requests, WalletContinues(r)
  PROVE  Typed' /\ RequestsConsistent'
<1> USE DEF WalletContinues, Typed, users, mailing
<1> USE DEF W!SaveWallet, W!LookupWallet, W!InsertWallet, W!InsertFails, W!TransactionFails,
            W!locals, W!history, W!Committed, W!Inserted, W!Goto, W!Answer, W!Codes, CallSteps
<1>1. call[r] \in {"lookup", "inserting"} => wanted[r] = ask[r].wallet /\ ask[r].wallet \in Wallets
  BY DEF RequestsConsistent, Consistent, CallOfKind, Vouched
<1>2. Typed'
  BY <1>1 DEF W!NoWallet
<1>3. Consistent(r)'
  BY <1>1 DEF RequestsConsistent, Consistent, KindOfStep, CallOfKind, Vouched, Truthful, IsMoney,
              WalletKinds, MoneyKinds
<1>4. \A q \in Requests \ {r} : Consistent(q)'
  BY Undisturbed DEF RequestsConsistent
<1>. QED
  BY <1>2, <1>3, <1>4 DEF RequestsConsistent

LEMMA HearWalletInv ==
  ASSUME Typed, RequestsConsistent, NEW r \in Requests, HearWallet(r) \/ LoseAnswer(r)
  PROVE  Typed' /\ RequestsConsistent'
<1> USE DEF HearWallet, LoseAnswer, Respond, Goto, Typed, wallets, users, mailing
<1>1. ask[r].kind \in WalletKinds
  BY DEF RequestsConsistent, Consistent, KindOfStep
<1>2. PICK code \in W!Codes \cup {"UNAVAILABLE"} :
        /\ Respond(r, HttpStatus(ask[r].kind, code))
        /\ \/ code = call[r] /\ UNCHANGED unheard
           \/ code = "UNAVAILABLE" /\ unheard' = unheard \cup {r}
        /\ call[r] # "OK" => code # "OK"
  <2>1. CASE HearWallet(r)
    BY <2>1, Zenon
  <2>2. CASE LoseAnswer(r)
    <3>1. call[r] # "OK" => "UNAVAILABLE" # "OK"
      OBVIOUS
    <3>. QED
      BY <2>2, <3>1, Zenon
  <2>. QED
    BY <2>1, <2>2
<1>3. /\ HttpStatus(ask[r].kind, code) \in {"OK", "404", "400", "500"}
      /\ HttpStatus(ask[r].kind, code) = "OK" <=> code = "OK"
  BY <1>1, HttpStatusType
<1>4. Typed'
  BY <1>2, <1>3 DEF Outcome, Ended, Statuses
<1>5. Consistent(r)'
  BY <1>1, <1>2, <1>3 DEF Outcome, RequestsConsistent, Consistent, KindOfStep, CallOfKind,
                          Vouched, Truthful, IsMoney, Ended, Statuses
<1>6. \A q \in Requests \ {r} : Consistent(q)'
  BY Undisturbed DEF RequestsConsistent
<1>. QED
  BY <1>4, <1>5, <1>6 DEF RequestsConsistent

LEMMA MailInv ==
  ASSUME Typed, RequestsConsistent, NEW r \in Requests,
         Publish(r) \/ SendEmail(r) \/ SendEmailFails(r)
  PROVE  Typed' /\ RequestsConsistent'
<1> USE DEF Publish, SendEmail, SendEmailFails, Typed, wallets, users
<1>1. Typed'
  OBVIOUS
<1>2. \A q \in Requests : Consistent(q)'
  BY Undisturbed DEF RequestsConsistent
<1>. QED
  BY <1>1, <1>2 DEF RequestsConsistent

-----------------------------------------------------------------------------
(* The steps that disturb many requests: a process or the broker goes down. *)

\* A request that dies promised nothing, and its call goes on without it.
LEMMA KilledInv ==
  ASSUME Typed, RequestsConsistent, NEW kinds, Kill(kinds),
         UNCHANGED <<wallets, sessions, ask, says, unheard>>,
         accounts \subseteq accounts',
         mail' \in [Requests -> {"none", "posting", "queued", "delivered", "lost"}]
  PROVE  Typed' /\ RequestsConsistent'
<1> USE DEF Kill, Typed, wallets
<1>1. Typed'
  BY DEF Live, Ended, Statuses
<1>2. ASSUME NEW q \in Requests
      PROVE  Consistent(q)'
  <2>1. CASE http'[q] = http[q]
    BY <2>1, Undisturbed DEF RequestsConsistent
  <2>2. CASE http'[q] = "dead" /\ http[q] \in Live
    BY <2>2 DEF RequestsConsistent, Consistent, KindOfStep, CallOfKind, Vouched, Truthful,
                IsMoney, Live, Ended, Statuses
  <2>. QED
    BY <2>1, <2>2
<1>. QED
  BY <1>1, <1>2 DEF RequestsConsistent

LEMMA BreakdownInv ==
  ASSUME Typed, RequestsConsistent,
         \/ TransactionServiceDies
         \/ \E r \in Requests : PublishFails(r)
         \/ AuthServiceDies
         \/ BrokerRestarts
         \/ UNCHANGED vars
  PROVE  Typed' /\ RequestsConsistent'
<1>1. CASE TransactionServiceDies \/ \E r \in Requests : PublishFails(r)
  BY <1>1, KilledInv DEF TransactionServiceDies, PublishFails, KillTransactionService, Typed, users
<1>2. CASE AuthServiceDies
  BY <1>2, KilledInv DEF AuthServiceDies, Typed, mailing
<1>3. CASE BrokerRestarts \/ UNCHANGED vars
  <2> USE DEF BrokerRestarts, vars, Typed, wallets, users, mailing
  <2>1. Typed'
    BY <1>3
  <2>2. \A q \in Requests : Consistent(q)'
    BY <1>3, Undisturbed DEF RequestsConsistent
  <2>. QED
    BY <2>1, <2>2 DEF RequestsConsistent
<1>. QED
  BY <1>1, <1>2, <1>3

-----------------------------------------------------------------------------
(* The two parts of the invariant that relate the tables of two services, *)
(* and two requests.                                                       *)

\* Only LookupWallet's insert adds a wallet, and its call was vouched for.
LEMMA AccountsInv ==
  ASSUME IInv, Next
  PROVE  WalletsHaveAccounts'
<1> USE DEF IInv, Typed, wallets, users, mailing
<1>1. accounts \subseteq accounts'
  BY NextCases DEF Receive, SignUp, LogIn, GetAllUserWallets, CreateUserWallet, MoveMoney,
    Arrive, CheckEmail, SaveUser, VerifyUser, Authenticate, ValidateCurrency, CallWallet,
    HearWallet, WalletContinues, Publish, SendEmail, LoseAnswer, PublishFails, SendEmailFails,
    TransactionServiceDies, AuthServiceDies, BrokerRestarts, KillTransactionService, vars
<1>2. CASE UNCHANGED rows
  BY <1>1, <1>2 DEF WalletsHaveAccounts
<1>3. CASE \E r \in Requests : WalletContinues(r)
  <2>1. PICK r \in Requests : WalletContinues(r)
    BY <1>3
  <2>2. \/ rows' = rows
        \/ call[r] = "inserting" /\ rows' = rows \cup {wanted[r]}
    BY <2>1 DEF WalletContinues, W!SaveWallet, W!LookupWallet, W!InsertWallet, W!InsertFails,
                W!TransactionFails, W!Inserted
  <2>3. call[r] = "inserting" => W!Owner(wanted[r]) \in accounts
    BY DEF RequestsConsistent, Consistent, CallOfKind, Vouched, KindOfStep, Ended
  <2>. QED
    BY <1>1, <2>2, <2>3 DEF WalletsHaveAccounts
<1>4. rows' = rows \/ \E r \in Requests : WalletContinues(r)
  BY NextCases DEF Receive, SignUp, LogIn, GetAllUserWallets, CreateUserWallet, MoveMoney,
    Arrive, CheckEmail, SaveUser, VerifyUser, Authenticate, ValidateCurrency, CallWallet,
    HearWallet, Publish, SendEmail, LoseAnswer, PublishFails, SendEmailFails,
    TransactionServiceDies, AuthServiceDies, BrokerRestarts, KillTransactionService, vars,
    W!CreateWallet, W!GetAllUserWallets, W!FundWallet, W!WithdrawWallet,
    W!HandleWalletTransaction, W!database
<1>. QED
  BY <1>2, <1>3, <1>4

\* A sign-up is answered as created when its insert went through, and then the address is
\* taken: the account of an earlier winner is still there.
LEMMA SignUpInv ==
  ASSUME IInv, Next
  PROVE  OneSignUpWins'
<1> USE DEF IInv, Typed, wallets, users, mailing, Goto
<1> DEFINE Won(q) == ask[q].kind = "signup" /\ http[q] = "OK"
<1>1. \A q \in Requests : Won(q) => ask[q].user \in accounts
  BY DEF RequestsConsistent, Consistent, Truthful, WalletKinds, MoneyKinds
<1>2. CASE \E r \in Requests : SaveUser(r) /\ http'[r] = "OK"
  <2>1. PICK r \in Requests : SaveUser(r) /\ http'[r] = "OK"
    BY <1>2
  <2>2. ask' = ask /\ ask[r].user \notin accounts
    BY <2>1 DEF SaveUser, EmailFree
  <2>3. \A q \in Requests \ {r} : http'[q] = http[q]
    BY <2>1 DEF SaveUser
  <2>. QED
    BY <1>1, <2>2, <2>3 DEF OneSignUpWins
<1>3. CASE \A q \in Requests : Won(q)' => Won(q) /\ ask'[q] = ask[q]
  BY <1>3 DEF OneSignUpWins
<1>4. ASSUME NEW q \in Requests, Won(q)', ~(Won(q) /\ ask'[q] = ask[q])
      PROVE  \E r \in Requests : SaveUser(r) /\ http'[r] = "OK"
  <2>1. CASE \E r \in Requests : Receive(r)
    <3>1. PICK r \in Requests : Receive(r)
      BY <2>1
    <3>2. PICK question \in Asks, steps \in SUBSET (Live \cup Ended) :
            Arrive(r, question, steps) /\ "OK" \notin steps
      BY <3>1, Arrivals
    <3>. QED
      BY <1>4, <3>2 DEF Arrive
  <2>2. CASE \E r \in Requests : HearWallet(r) \/ LoseAnswer(r)
    BY <1>4, <2>2 DEF HearWallet, LoseAnswer, Respond, RequestsConsistent, Consistent, KindOfStep,
                      WalletKinds, MoneyKinds
  <2>3. CASE \E r \in Requests : VerifyUser(r)
    BY <1>4, <2>3 DEF VerifyUser, RequestsConsistent, Consistent, KindOfStep
  <2>4. CASE \E r \in Requests : SaveUser(r)
    BY <1>4, <2>4 DEF SaveUser
  <2>5. CASE UNCHANGED <<http, ask>>
    BY <1>4, <2>5
  <2>6. CASE \E kinds : Kill(kinds) /\ UNCHANGED ask
    BY <1>4, <2>6 DEF Kill
  <2>7. CASE \E r \in Requests, step \in {"saving", "ready", "calling", "400", "403", "500"} :
               Goto(r, step) /\ UNCHANGED ask
    BY <1>4, <2>7
  <2>. QED
    BY <2>1, <2>2, <2>3, <2>4, <2>5, <2>6, <2>7, NextCases
       DEF CheckEmail, Authenticate, ValidateCurrency, CallWallet, WalletContinues, Publish,
           SendEmail, PublishFails, SendEmailFails, TransactionServiceDies, AuthServiceDies,
           BrokerRestarts, KillTransactionService, vars
<1>. QED
  BY <1>2, <1>3, <1>4

LEMMA NextInv ==
  ASSUME IInv, Next
  PROVE  IInv'
<1>1. Typed' /\ RequestsConsistent'
  BY NextCases, ReceiveInv, AuthInv, CallWalletInv, HearWalletInv, WalletContinuesInv, MailInv,
     BreakdownInv DEF IInv
<1>. QED
  BY <1>1, AccountsInv, SignUpInv DEF IInv

LEMMA InductiveInvariant == Spec => []IInv
<1>1. IInv /\ UNCHANGED vars => IInv'
  <2> SUFFICES ASSUME IInv, UNCHANGED vars PROVE IInv'
    OBVIOUS
  <2>1. Typed' /\ RequestsConsistent'
    BY BreakdownInv DEF IInv
  <2>2. WalletsHaveAccounts' /\ OneSignUpWins'
    BY DEF IInv, vars, wallets, users, WalletsHaveAccounts, OneSignUpWins
  <2>. QED
    BY <2>1, <2>2 DEF IInv
<1>. QED
  BY InitInv, NextInv, <1>1, PTL DEF Spec

-----------------------------------------------------------------------------
(* Endpoints implements WalletService. *)

LEMMA InitEnclosed == Init => Enclosed
BY ConstantsAssumption DEF Init, Enclosed, W!Init

\* Only the sign-ups that are saving add accounts, of users; only faults count.
LEMMA TablesEnclosed ==
  ASSUME IInv, Enclosed, Next
  PROVE  accounts' \subseteq Users /\ unheard' \subseteq Requests /\ faults' \in 0 .. MaxFaults
<1> USE DEF IInv, Typed, Enclosed, wallets, users, mailing
<1>1. \A r \in Requests : http[r] = "saving" => ask[r].user \in Users
  BY DEF WellFormed
<1>2. \/ UNCHANGED accounts
      \/ \E r \in Requests : SaveUser(r) /\ accounts' = accounts \cup {ask[r].user}
      \/ AuthServiceDies
  BY NextCases DEF Receive, SignUp, LogIn, GetAllUserWallets, CreateUserWallet, MoveMoney,
    Arrive, CheckEmail, SaveUser, VerifyUser, Authenticate, ValidateCurrency, CallWallet,
    HearWallet, WalletContinues, Publish, SendEmail, LoseAnswer, PublishFails, SendEmailFails,
    TransactionServiceDies, BrokerRestarts, KillTransactionService, vars
<1>3. accounts' \subseteq Users
  <2>1. CASE \E r \in Requests : SaveUser(r) /\ accounts' = accounts \cup {ask[r].user}
    BY <1>1, <2>1 DEF SaveUser
  <2>2. CASE AuthServiceDies
    BY <1>1, <2>2 DEF AuthServiceDies
  <2>. QED
    BY <1>2, <2>1, <2>2
<1>4. UNCHANGED unheard \/ \E r \in Requests : unheard' = unheard \cup {r}
  BY NextCases DEF Receive, SignUp, LogIn, GetAllUserWallets, CreateUserWallet, MoveMoney,
    Arrive, CheckEmail, SaveUser, VerifyUser, Authenticate, ValidateCurrency, CallWallet,
    HearWallet, WalletContinues, Publish, SendEmail, LoseAnswer, PublishFails, SendEmailFails,
    TransactionServiceDies, AuthServiceDies, BrokerRestarts, KillTransactionService, vars
<1>5. UNCHANGED faults \/ Fault
  BY NextCases DEF Receive, SignUp, LogIn, GetAllUserWallets, CreateUserWallet, MoveMoney,
    Arrive, CheckEmail, SaveUser, VerifyUser, Authenticate, ValidateCurrency, CallWallet,
    HearWallet, WalletContinues, Publish, SendEmail, LoseAnswer, PublishFails, SendEmailFails,
    TransactionServiceDies, AuthServiceDies, BrokerRestarts, KillTransactionService, vars
<1>6. faults' \in 0 .. MaxFaults
  BY <1>5, ConstantsAssumption DEF Fault
<1>. QED
  BY <1>4, <1>6, <1>3

LEMMA NextEnclosed ==
  ASSUME IInv, Enclosed, Next
  PROVE  Enclosed'
<1> USE DEF IInv, Typed, Enclosed, wallets, users, mailing, Goto
<1>1. "idle" \notin Live \cup Ended
  BY DEF Live, Ended, Statuses
<1>2. CASE \E r \in Requests : Receive(r)
  <2>1. PICK r \in Requests : Receive(r)
    BY <1>2
  <2>2. PICK question \in Asks, steps \in SUBSET (Live \cup Ended) :
          Arrive(r, question, steps) /\ WellFormed(question)
    BY <2>1, Arrivals
  <2>. QED
    BY <1>1, <2>2, TablesEnclosed DEF Arrive, WellFormed
<1>3. CASE /\ UNCHANGED ask
           /\ \A q \in Requests : http'[q] = "idle" <=> http[q] = "idle"
  BY <1>3, TablesEnclosed DEF WellFormed
<1>4. CASE \E r \in Requests : HearWallet(r) \/ LoseAnswer(r)
  <2>1. PICK r \in Requests : HearWallet(r) \/ LoseAnswer(r)
    BY <1>4
  <2>2. ask[r].kind \in WalletKinds /\ http[r] # "idle"
    BY <2>1 DEF HearWallet, LoseAnswer, RequestsConsistent, Consistent, KindOfStep
  <2>3. PICK code \in W!Codes \cup {"UNAVAILABLE"} :
          http' = [http EXCEPT ![r] = HttpStatus(ask[r].kind, code)]
    BY <2>1 DEF HearWallet, LoseAnswer, Respond
  <2>4. HttpStatus(ask[r].kind, code) # "idle"
    BY <2>2, HttpStatusType
  <2>5. UNCHANGED ask
    BY <2>1 DEF HearWallet, LoseAnswer
  <2>. QED
    BY <1>3, <2>2, <2>3, <2>4, <2>5
<1>5. CASE \E kinds : Kill(kinds) /\ UNCHANGED ask
  BY <1>1, <1>3, <1>5 DEF Kill, Live
<1>6. CASE \E r \in Requests, step \in (Live \cup Ended) :
             Goto(r, step) /\ http[r] # "idle" /\ UNCHANGED ask
  BY <1>1, <1>3, <1>6
<1>7. CASE UNCHANGED <<http, ask>>
  BY <1>3, <1>7
<1>8. ASSUME NEW r \in Requests,
             \/ CheckEmail(r) \/ SaveUser(r) \/ VerifyUser(r) \/ Authenticate(r)
             \/ ValidateCurrency(r) \/ CallWallet(r)
      PROVE  Enclosed'
  BY <1>6, <1>8 DEF CheckEmail, SaveUser, VerifyUser, Authenticate, ValidateCurrency, CallWallet,
                    Live, Ended, Statuses
<1>9. ASSUME \/ \E r \in Requests : \/ WalletContinues(r) \/ Publish(r) \/ SendEmail(r)
                                    \/ SendEmailFails(r)
             \/ BrokerRestarts
             \/ UNCHANGED vars
      PROVE  Enclosed'
  BY <1>7, <1>9 DEF WalletContinues, Publish, SendEmail, SendEmailFails, BrokerRestarts, vars
<1>10. ASSUME TransactionServiceDies \/ AuthServiceDies \/ \E r \in Requests : PublishFails(r)
       PROVE  Enclosed'
  BY <1>5, <1>10 DEF TransactionServiceDies, AuthServiceDies, PublishFails, KillTransactionService
<1>. QED
  BY <1>2, <1>4, <1>8, <1>9, <1>10, NextCases

\* The theorems of WalletProofs, about the wallet service that is called from here.
WP == INSTANCE WalletProofs WITH pc <- call, ForexAmounts <- {}, Rates <- {}

LEMMA WalletConstants == WP!ConstantsAssumption
BY ConstantsAssumption DEF WP!ConstantsAssumption

\* What a request calls the wallet service with is what the service can be called with.
LEMMA CallsAreReceived ==
  ASSUME IInv, Enclosed, NEW r \in Requests, CallWallet(r)
  PROVE  W!Receive(r)
<1> USE DEF IInv, RequestsConsistent, Consistent, Vouched, Enclosed, WellFormed, MoneyKinds
<1>1. ask[r].user \in Users /\ (ask[r].kind \in MoneyKinds => ask[r].wallet \in Wallets /\ ask[r].amount \in Amounts)
  BY DEF CallWallet
<1>2. ask[r].kind = "create" => W!Currency(ask[r].wallet) \in Currencies
  BY DEF W!Currency, Wallets
<1>3. W!Wallets = Wallets
  BY DEF W!Wallets, Wallets
<1>. QED
  BY <1>1, <1>2, <1>3 DEF CallWallet, W!Receive

LEMMA StepImplements ==
  ASSUME IInv, Enclosed, Next
  PROVE  [W!Next]_(W!vars)
<1>1. CASE UNCHANGED wallets
  BY <1>1 DEF wallets, W!vars
<1>2. CASE \E r \in Requests : CallWallet(r)
  BY <1>2, CallsAreReceived DEF W!Next
<1>3. CASE \E r \in Requests : WalletContinues(r)
  BY <1>3 DEF WalletContinues, W!Next, W!Continue
<1>. QED
  BY <1>1, <1>2, <1>3, NextCases DEF Receive, SignUp, LogIn, GetAllUserWallets, CreateUserWallet,
    MoveMoney, Arrive, CheckEmail, SaveUser, VerifyUser, Authenticate, ValidateCurrency,
    HearWallet, Publish, SendEmail, LoseAnswer, PublishFails, SendEmailFails,
    TransactionServiceDies, AuthServiceDies, BrokerRestarts, KillTransactionService, vars

LEMMA EnclosedInvariant == Spec => []Enclosed
<1>1. Enclosed /\ UNCHANGED vars => Enclosed'
  BY DEF Enclosed, WellFormed, vars, users
<1>. QED
  BY InductiveInvariant, InitEnclosed, NextEnclosed, <1>1, PTL DEF Spec

\* Seen from the wallet service, all that the endpoints, their guards, their requests that
\* die and their answers that are lost amount to is calls of its handlers, each with a user
\* and a wallet it may be asked about: what is true of the service alone holds here.
THEOREM UsesWalletService == Spec => W!Spec
<1>1. Init => W!Init
  BY DEF Init
<1>2. UNCHANGED vars => UNCHANGED W!vars
  BY DEF vars, wallets, W!vars
<1>. QED
  BY InductiveInvariant, EnclosedInvariant, StepImplements, <1>1, <1>2, PTL DEF Spec, W!Spec

LEMMA SameService == W!Spec => WP!Spec
<1>1. W!Init => WP!Init
  BY DEF W!Init, WP!Init, W!Wallets, WP!Wallets, W!NoWallet, WP!NoWallet, W!NoEntity,
         WP!NoEntity, W!NoChange, WP!NoChange
<1>2. [W!Next]_(W!vars) => [WP!Next]_(WP!vars)
  BY Zenon DEF W!Next, WP!Next, W!Receive, WP!Receive, W!Continue, WP!Continue, W!AllAnswered,
         WP!AllAnswered, W!FundWallet, WP!FundWallet, W!WithdrawWallet,
         WP!WithdrawWallet, W!HandleWalletTransaction, WP!HandleWalletTransaction,
         W!SaveWallet, WP!SaveWallet, W!CreateWallet, WP!CreateWallet,
         W!GetWalletBalance, WP!GetWalletBalance, W!LookupWallet, WP!LookupWallet,
         W!InsertWallet, WP!InsertWallet, W!InsertFails, WP!InsertFails,
         W!GetAllUserWallets, WP!GetAllUserWallets, W!BuyForex, WP!BuyForex,
         W!FetchExchangeRate, WP!FetchExchangeRate, W!GetOrCreateTargetWallet,
         WP!GetOrCreateTargetWallet, W!SaveTrade, WP!SaveTrade, W!SaveTradeNew,
         WP!SaveTradeNew, W!TransactionFails, WP!TransactionFails, W!vars, WP!vars,
         W!database, WP!database, W!locals, WP!locals, W!Wallets, WP!Wallets,
         W!Owner, WP!Owner, W!Currency, WP!Currency, W!NoWallet, WP!NoWallet,
         W!NoEntity, WP!NoEntity, W!NoChange, WP!NoChange, W!Codes, WP!Codes,
         W!Buying, WP!Buying, W!Writing, WP!Writing, W!HoldsBase, WP!HoldsBase,
         W!HoldsTarget, WP!HoldsTarget, W!Snapshot, WP!Snapshot, W!NoteRead,
         WP!NoteRead, W!SufficientFund, WP!SufficientFund, W!Answer, WP!Answer,
         W!Goto, WP!Goto, W!Recorded, WP!Recorded, W!Credited, WP!Credited,
         W!Committed, WP!Committed, W!history, WP!history, W!Inserted, WP!Inserted,
         W!Insertable, WP!Insertable, W!Quotes, WP!Quotes
<1>. QED
  BY <1>1, <1>2, PTL DEF W!Spec, WP!Spec

-----------------------------------------------------------------------------
(* The theorems. *)

\* For any number of users, requests and faults: a wallet that the wallet service stores
\* belongs to a row of the auth service's users table, though no constraint spans the two.
THEOREM NoWalletWithoutAccount == Spec => []WalletsHaveAccounts
<1>1. IInv => WalletsHaveAccounts
  BY DEF IInv
<1>. QED
  BY InductiveInvariant, <1>1, PTL

\* However many sign-ups race for an e-mail address, and whatever dies among them, the
\* check before the insert and the unique constraint let one be answered as created.
THEOREM SignUpsExclude == Spec => []OneSignUpWins
<1>1. IInv => OneSignUpWins
  BY DEF IInv
<1>. QED
  BY InductiveInvariant, <1>1, PTL

\* A funding or withdrawal that is answered or mailed as unsuccessful moved no money and
\* never will, unless the wallet service's answer, or its database's to the commit, was
\* lost: with any number of requests in flight and any number of processes that die.
THEOREM FailureMovesNothing == Spec => []UnsuccessfulMovedNothing
<1>1. IInv => UnsuccessfulMovedNothing
  BY DEF IInv, RequestsConsistent, Consistent, Truthful, UnsuccessfulMovedNothing
<1>. QED
  BY InductiveInvariant, <1>1, PTL

\* What a user is answered, or mailed, as done is done, in the other service's database too.
THEOREM SuccessIsKept == Spec => []DoneIsDone
<1>1. IInv => DoneIsDone
  <2> SUFFICES ASSUME IInv, NEW r \in Requests
               PROVE  /\ http[r] = "OK" =>
                           CASE ask[r].kind \in {"signup", "login"} ->
                                  ask[r].user \in accounts \cap sessions
                             [] ask[r].kind = "create" -> ask[r].wallet \in rows
                             [] ask[r].kind = "list" -> \E w \in rows : W!Owner(w) = ask[r].user
                             [] OTHER -> call[r] = "OK"
                      /\ says[r] = "success" => call[r] = "OK"
    BY DEF DoneIsDone
  <2> USE DEF IInv, RequestsConsistent, Consistent, KindOfStep, CallOfKind, Truthful,
              WalletKinds, MoneyKinds
  <2>1. ask[r].kind \in WalletKinds \cup {"signup", "login", "none"}
    BY DEF Typed, Asks, AuthKinds
  <2>. QED
    BY <2>1
<1>. QED
  BY InductiveInvariant, <1>1, PTL

\* Types, of both services: a request that is not there asks for nothing, a call of the
\* wallet service was made by a request that got as far, its handlers past their first read
\* hold an existing wallet, and a wallet without a row has no money.
THEOREM TypeCorrect == Spec => []TypeOK
<1>1. W!Spec => []WP!TypeOK
  BY WalletConstants, SameService, WP!TypeCorrect, PTL DEF WP!TypeCorrect
<1>2. WP!TypeOK => W!TypeOK
  BY Zenon DEF W!TypeOK, WP!TypeOK, W!TablesTyped, WP!TablesTyped, W!LocalsTyped, WP!LocalsTyped,
         W!HandlersHoldRows, WP!HandlersHoldRows, W!NoRowNoMoney, WP!NoRowNoMoney, W!Ledgers, WP!Ledgers, W!Wallets,
         WP!Wallets, W!Entities, WP!Entities, W!NoWallet, WP!NoWallet, W!Codes, WP!Codes,
         W!Steps, WP!Steps, W!Writing, WP!Writing, W!Buying, WP!Buying
<1>3. IInv /\ Enclosed /\ W!TypeOK => TypeOK
  <2> SUFFICES ASSUME IInv, Enclosed, W!TypeOK PROVE TypeOK
    OBVIOUS
  <2>1. \A r \in Requests : http[r] = "idle" <=> ask[r] = NoAsk
    BY DEF Enclosed, WellFormed, NoAsk
  <2>2. \A r \in Requests : call[r] # "idle" => http[r] \in {"calling"} \cup Ended
    BY DEF IInv, RequestsConsistent, Consistent, KindOfStep
  <2>. QED
    BY <2>1, <2>2 DEF IInv, Typed, Enclosed, TypeOK
<1>. QED
  BY InductiveInvariant, EnclosedInvariant, UsesWalletService, <1>1, <1>2, <1>3, PTL

\* What WalletProofs promises of the wallet service holds behind the endpoints, whatever
\* requests and processes die: only a negative CREDIT overdraws, balance and ledger agree for
\* every wallet no two handlers held at once, and no change of a balance without a
\* transaction row.
THEOREM MoneyBehindEndpoints ==
  Spec => []W!OnlyCreditsOverdraw /\ []W!SerialConsistency /\ W!BalanceChangeRecorded
<1>1. W!Spec => []WP!OnlyCreditsOverdraw
  BY WalletConstants, SameService, WP!NothingElseOverdraws, PTL DEF WP!NothingElseOverdraws
<1>2. W!Spec => []WP!SerialConsistency
  BY WalletConstants, SameService, WP!SerialCallsAgree, PTL DEF WP!SerialCallsAgree
<1>3. W!Spec => WP!BalanceChangeRecorded
  BY WalletConstants, SameService, WP!ChangesRecorded, PTL DEF WP!ChangesRecorded
<1>4. WP!OnlyCreditsOverdraw => W!OnlyCreditsOverdraw
  BY DEF W!OnlyCreditsOverdraw, WP!OnlyCreditsOverdraw, W!Wallets, WP!Wallets
<1>5. WP!SerialConsistency => W!SerialConsistency
  BY DEF W!SerialConsistency, WP!SerialConsistency, W!Wallets, WP!Wallets
<1>6. WP!BalanceChangeRecorded => W!BalanceChangeRecorded
  BY PTL DEF W!BalanceChangeRecorded, WP!BalanceChangeRecorded, W!Wallets, WP!Wallets, W!vars,
             WP!vars, W!database
<1>. QED
  BY UsesWalletService, <1>1, <1>2, <1>3, <1>4, <1>5, <1>6, PTL
=============================================================================
