------------------------------ MODULE Endpoints ------------------------------
(***************************************************************************)
(* The HTTP endpoints of accounts, wallets, funding and withdrawal, on top *)
(* of WalletService: the auth service (AuthService, UsersService), the     *)
(* funding half of TransactionsService, the guards in front of both, and   *)
(* the way of a mail through RabbitMQ to the notification service.         *)
(*                                                                         *)
(* A request r is one HTTP request; it makes at most one call of the       *)
(* wallet service, and call[r] is WalletService's pc of that call.  When   *)
(* the answer of a call is lost, the request ends and the call goes on.    *)
(*                                                                         *)
(* A user id stands for the e-mail address: the users table has a unique   *)
(* constraint on it.  Passwords decide nothing: verifyUser ignores whether *)
(* they match.                                                             *)
(***************************************************************************)
EXTENDS Integers

CONSTANTS
  Users,            \* who may sign up
  Currencies,       \* the currency codes
  Requests,         \* the HTTP requests
  Amounts,          \* amounts of funding and withdrawal, positive by the DTOs
  OpeningBalances,  \* balances the wallets may have when the model starts
  MaxFaults         \* bound: lost answers, failed publishes, dying processes

ASSUME ConstantsAssumption ==
  /\ Amounts \subseteq Nat \ {0}
  /\ OpeningBalances \subseteq Nat
  /\ MaxFaults \in Nat

VARIABLES
  rows, balance, ledger, call, base, target, change, wanted, contended, unacknowledged,
                    \* the wallet service, see WalletService
  accounts,         \* the rows of the users table
  sessions,         \* the users who were given a JWT cookie
  http,             \* where each request stands, or the status it was answered
  ask,              \* what each request asks for
  says,             \* the outcome the mail about a request tells
  mail,             \* where that mail is
  unheard,          \* history: requests that lost the answer of the wallet service
  faults            \* history: faults so far

wallets ==
  <<rows, balance, ledger, call, base, target, change, wanted, contended, unacknowledged>>
users == <<accounts, sessions>>
mailing == <<says, mail>>
vars == <<wallets, users, http, ask, mailing, unheard, faults>>

\* buyForex is not called from here.
W == INSTANCE WalletService WITH pc <- call, ForexAmounts <- {}, Rates <- {}

-----------------------------------------------------------------------------

Wallets == Users \X Currencies

\* fundWallet and withdrawWallet are the transaction service's, the others the auth
\* service's.
MoneyKinds == {"fund", "withdraw"}
AuthKinds == {"signup", "login", "create", "list"}
Asks == [kind : MoneyKinds \cup AuthKinds \cup {"none"},
         user : Users \cup {"none"},
         wallet : Wallets \cup {<<>>},
         amount : Amounts \cup {0}]
NoAsk == [kind |-> "none", user |-> "none", wallet |-> <<>>, amount |-> 0]

Live == {"checking", "saving", "verifying", "authenticating", "validating", "ready",
         "calling"}
Statuses == {"OK", "400", "401", "403", "404", "500"}
\* A dead request: its connection went down with the process.
Ended == Statuses \cup {"dead"}

IsMoney(r) == ask[r].kind \in MoneyKinds

\* A wallet's user has an account: nothing deletes rows of either table.
Init ==
  /\ accounts \in SUBSET Users
  /\ sessions \in SUBSET accounts
  /\ W!Init
  /\ \A w \in rows : W!Owner(w) \in accounts
  /\ http = [r \in Requests |-> "idle"]
  /\ ask = [r \in Requests |-> NoAsk]
  /\ says = [r \in Requests |-> "none"]
  /\ mail = [r \in Requests |-> "none"]
  /\ unheard = {}
  /\ faults = 0

Goto(r, step) == http' = [http EXCEPT ![r] = step]
Fault == faults < MaxFaults /\ faults' = faults + 1

\* A request arrives and runs to its first await, or is rejected.
Arrive(r, question, steps) ==
  /\ http[r] = "idle"
  /\ ask' = [ask EXCEPT ![r] = question]
  /\ \E s \in steps : Goto(r, s)
  /\ UNCHANGED <<wallets, users, mailing, unheard, faults>>

-----------------------------------------------------------------------------
(* AuthService: sign up and log in. *)

SignUp(r, u) == Arrive(r, [NoAsk EXCEPT !.kind = "signup", !.user = u], {"checking"})

\* A mutant of CheckEmail: the cookie is set before the user is saved.
CheckEmailMutant(r) ==
  /\ http[r] = "checking"
  /\ ask[r].user \notin accounts
  /\ Goto(r, "saving")
  /\ sessions' = sessions \cup {ask[r].user}
  /\ UNCHANGED <<wallets, accounts, ask, mailing, unheard, faults>>

\* createBasicUserOrFail: is there a user of that e-mail?  Every error of it, a failed
\* query included, becomes a BadRequestException.
CheckEmail(r) ==
  /\ http[r] = "checking"
  /\ \/ /\ ask[r].user \notin accounts
        /\ Goto(r, "saving")
     \/ Goto(r, "400")
  /\ UNCHANGED <<wallets, users, ask, mailing, unheard, faults>>

\* A mutant of EmailFree: the column is not unique.
EmailFreeMutant(u) == u \in Users
\* The unique constraint on users.email.
EmailFree(u) == u \notin accounts

\* The user is saved and logged in; or the insert violates the constraint or fails; or it
\* commits and the database connection breaks before that is known.
SaveUser(r) ==
  /\ http[r] = "saving"
  /\ \/ /\ EmailFree(ask[r].user)
        /\ accounts' = accounts \cup {ask[r].user}
        /\ sessions' = sessions \cup {ask[r].user}
        /\ Goto(r, "OK")
        /\ UNCHANGED faults
     \/ /\ Goto(r, "400")
        /\ UNCHANGED <<users, faults>>
     \/ /\ EmailFree(ask[r].user)
        /\ Fault
        /\ accounts' = accounts \cup {ask[r].user}
        /\ Goto(r, "400")
        /\ UNCHANGED sessions
  /\ UNCHANGED <<wallets, ask, mailing, unheard>>

LogIn(r, u) == Arrive(r, [NoAsk EXCEPT !.kind = "login", !.user = u], {"verifying"})

\* verifyUser and login: the cookie of an existing user, or Unauthorized when the query
\* or argon2's verify throws.  What verify answers is not looked at: any password will do.
VerifyUser(r) ==
  /\ http[r] = "verifying"
  /\ \/ /\ ask[r].user \in accounts
        /\ sessions' = sessions \cup {ask[r].user}
        /\ Goto(r, "OK")
     \/ /\ Goto(r, "401")
        /\ UNCHANGED sessions
  /\ UNCHANGED <<wallets, accounts, ask, mailing, unheard, faults>>

-----------------------------------------------------------------------------
(* The endpoints that call the wallet service. *)

\* JwtAuthGuard verifies the cookie in the auth service itself.
WithJwt(u, step) == IF u \in sessions THEN {step, "401"} ELSE {"401"}

CreateUserWallet(r, u, w) ==
  /\ W!Owner(w) = u
  /\ Arrive(r, [NoAsk EXCEPT !.kind = "create", !.user = u, !.wallet = w],
            WithJwt(u, "validating"))

GetAllUserWallets(r, u) ==
  Arrive(r, [NoAsk EXCEPT !.kind = "list", !.user = u], WithJwt(u, "ready"))

\* AuthServiceGuard hands the cookie, if there is one, to the auth service.
MoveMoney(r, kind, u, w, amount) ==
  Arrive(r, [kind |-> kind, user |-> u, wallet |-> w, amount |-> amount],
         IF u \in sessions THEN {"authenticating", "403"} ELSE {"403"})

\* The auth service looks the user up; any error makes the guard answer false.
Authenticate(r) ==
  /\ http[r] = "authenticating"
  /\ \/ /\ ask[r].user \in accounts
        /\ Goto(r, "ready")
     \/ Goto(r, "403")
  /\ UNCHANGED <<wallets, users, ask, mailing, unheard, faults>>

\* CurrencyIsSupportedRule asks the integration service.
ValidateCurrency(r) ==
  /\ http[r] = "validating"
  /\ \E step \in {"ready", "400", "500"} : Goto(r, step)
  /\ UNCHANGED <<wallets, users, ask, mailing, unheard, faults>>

\* The call is sent, and the wallet service enters its handler.
CallWallet(r) ==
  /\ http[r] = "ready"
  /\ LET q == ask[r]
     IN  \/ q.kind = "create" /\ W!CreateWallet(r, q.user, W!Currency(q.wallet))
         \/ q.kind = "list" /\ W!GetAllUserWallets(r, q.user)
         \/ q.kind = "fund" /\ W!FundWallet(r, q.user, q.wallet, q.amount)
         \/ q.kind = "withdraw" /\ W!WithdrawWallet(r, q.user, q.wallet, q.amount)
  /\ Goto(r, "calling")
  /\ UNCHANGED <<users, ask, mailing, unheard, faults>>

\* A mutant of HttpStatus: an aborted transaction is taken for an answer.
HttpStatusMutant(kind, code) == IF code \in {"OK", "ABORTED"} THEN "OK" ELSE "500"
\* Another: a result with an empty balance is taken for an error.
HttpStatusFalsy(kind, code) == IF code = "OK" /\ kind # "withdraw" THEN "OK" ELSE "500"
\* The catchError of each endpoint: what the codes of the wallet service become.
HttpStatus(kind, code) ==
  CASE code = "OK" -> "OK"
    [] code = "NOT_FOUND" /\ kind # "create" -> "404"
    [] code = "INVALID_ARGUMENT" /\ kind \in MoneyKinds -> "400"
    [] OTHER -> "500"

\* A mutant of Outcome: the text does not look at the error.
OutcomeMutant(status) == "success"
Outcome(status) == IF status = "OK" THEN "success" ELSE "failure"

\* The request is answered.  Funding and withdrawal start notifyUser before they do, and
\* do not await it.
Respond(r, status) ==
  /\ Goto(r, status)
  /\ IF IsMoney(r)
     THEN /\ says' = [says EXCEPT ![r] = Outcome(status)]
          /\ mail' = [mail EXCEPT ![r] = "posting"]
     ELSE UNCHANGED mailing

\* A mutant of HearWallet: an error of the call leaves the promise pending.
HearWalletMutant(r) ==
  /\ http[r] = "calling"
  /\ call[r] = "OK"
  /\ Respond(r, "OK")
  /\ UNCHANGED <<wallets, users, ask, unheard, faults>>
\* The wallet service's answer arrives.
HearWallet(r) ==
  /\ http[r] = "calling"
  /\ call[r] \in W!Codes
  /\ Respond(r, HttpStatus(ask[r].kind, call[r]))
  /\ UNCHANGED <<wallets, users, ask, unheard, faults>>

\* The wallet service's handlers run on, whether their caller still listens or not.
WalletContinues(r) ==
  /\ \/ W!SaveWallet(r)
     \/ W!LookupWallet(r)
     \/ W!InsertWallet(r)
     \/ W!InsertFails(r)
     \/ W!TransactionFails(r)
  /\ UNCHANGED <<users, http, ask, mailing, unheard, faults>>

-----------------------------------------------------------------------------
(* The mail. *)

\* notifyUser emits to the queue.
Publish(r) ==
  /\ mail[r] = "posting"
  /\ mail' = [mail EXCEPT ![r] = "queued"]
  /\ UNCHANGED <<wallets, users, http, ask, says, unheard, faults>>

\* handleSendEmail; the message counts as acknowledged once it was handed over.
SendEmail(r) ==
  /\ mail[r] = "queued"
  /\ mail' = [mail EXCEPT ![r] = "delivered"]
  /\ UNCHANGED <<wallets, users, http, ask, says, unheard, faults>>

-----------------------------------------------------------------------------
(* Faults, each one counted against MaxFaults. *)

\* The call does not get through, or its answer does not: the client sees UNAVAILABLE.
LoseAnswer(r) ==
  /\ http[r] \in {"ready", "calling"}
  /\ Fault
  /\ unheard' = unheard \cup {r}
  /\ Respond(r, HttpStatus(ask[r].kind, "UNAVAILABLE"))
  /\ UNCHANGED <<wallets, users, ask>>

\* A process dies with the requests of these kinds that it was serving.
Kill(kinds) ==
  http' = [r \in Requests |->
            IF ask[r].kind \in kinds /\ http[r] \in Live THEN "dead" ELSE http[r]]

KillTransactionService ==
  /\ Kill(MoneyKinds)
  /\ mail' = [r \in Requests |-> IF mail[r] = "posting" THEN "lost" ELSE mail[r]]
  /\ UNCHANGED <<wallets, users, ask, says, unheard>>

\* The broker cannot be reached: nothing awaits notifyUser, its promise rejects
\* unhandled, and that ends a Node.js process.
PublishFails(r) ==
  /\ mail[r] = "posting"
  /\ Fault
  /\ KillTransactionService

TransactionServiceDies ==
  /\ \E r \in Requests : IsMoney(r) /\ http[r] \in Live
  /\ Fault
  /\ KillTransactionService

\* Inserts that were on their way to the database may still be done.
AuthServiceDies ==
  /\ \E r \in Requests : ask[r].kind \in AuthKinds /\ http[r] \in Live
  /\ Fault
  /\ \E done \in SUBSET {ask[r].user : r \in {q \in Requests : http[q] = "saving"}} :
       accounts' = accounts \cup done
  /\ Kill(AuthKinds)
  /\ UNCHANGED <<wallets, sessions, ask, mailing, unheard>>

\* The notification service dies over a mail, or the SMTP server refuses it.
SendEmailFails(r) ==
  /\ mail[r] = "queued"
  /\ Fault
  /\ mail' = [mail EXCEPT ![r] = "lost"]
  /\ UNCHANGED <<wallets, users, http, ask, says, unheard>>

\* The queue is not durable.
BrokerRestarts ==
  /\ \E r \in Requests : mail[r] = "queued"
  /\ Fault
  /\ mail' = [r \in Requests |-> IF mail[r] = "queued" THEN "lost" ELSE mail[r]]
  /\ UNCHANGED <<wallets, users, http, ask, says, unheard>>

-----------------------------------------------------------------------------

Receive(r) ==
  \/ \E u \in Users : SignUp(r, u) \/ LogIn(r, u) \/ GetAllUserWallets(r, u)
  \/ \E u \in Users, w \in Wallets : CreateUserWallet(r, u, w)
  \/ \E kind \in MoneyKinds, u \in Users, w \in Wallets, a \in Amounts :
       MoveMoney(r, kind, u, w, a)

Continue(r) ==
  \/ CheckEmail(r)
  \/ SaveUser(r)
  \/ VerifyUser(r)
  \/ Authenticate(r)
  \/ ValidateCurrency(r)
  \/ CallWallet(r)
  \/ HearWallet(r)

ForwardMail(r) == Publish(r) \/ SendEmail(r)

Faulty ==
  \/ \E r \in Requests : LoseAnswer(r) \/ PublishFails(r) \/ SendEmailFails(r)
  \/ TransactionServiceDies
  \/ AuthServiceDies
  \/ BrokerRestarts

\* Every request of this (finite) model is over, with its call and its mail.
AllOver ==
  /\ \A r \in Requests : /\ http[r] \in Ended
                         /\ call[r] \in W!Codes \cup {"idle"}
                         /\ mail[r] \notin {"posting", "queued"}
  /\ UNCHANGED vars

Next ==
  \/ \E r \in Requests : Receive(r) \/ Continue(r) \/ WalletContinues(r) \/ ForwardMail(r)
  \/ Faulty
  \/ AllOver

\* Handlers are resumed, the wallet service's too.  Nothing says that requests are sent,
\* that faults happen, or that mails arrive.
Fairness ==
  \A r \in Requests : WF_vars(Continue(r)) /\ WF_vars(WalletContinues(r))

Spec == Init /\ [][Next]_vars
FairSpec == Spec /\ Fairness

-----------------------------------------------------------------------------
(* Properties. *)

\* Types; a request that was lost or is being served asks for something, and a call of
\* the wallet service was made by a request that got as far.
TypeOK ==
  /\ W!TypeOK
  /\ accounts \subseteq Users
  /\ sessions \subseteq accounts
  /\ http \in [Requests -> Live \cup Ended \cup {"idle"}]
  /\ ask \in [Requests -> Asks]
  /\ says \in [Requests -> {"none", "success", "failure"}]
  /\ mail \in [Requests -> {"none", "posting", "queued", "delivered", "lost"}]
  /\ unheard \subseteq Requests
  /\ faults \in 0 .. MaxFaults
  /\ \A r \in Requests : http[r] = "idle" <=> ask[r] = NoAsk
  /\ \A r \in Requests : call[r] # "idle" => http[r] \in {"calling"} \cup Ended

\* What a user is answered as done is done, in the database of the other service as well:
\* the account exists, the wallet exists, the money moved.  The mail says the same.
DoneIsDone ==
  \A r \in Requests :
    LET q == ask[r]
    IN  /\ http[r] = "OK" =>
             CASE q.kind \in {"signup", "login"} -> q.user \in accounts \cap sessions
               [] q.kind = "create" -> q.wallet \in rows
               [] q.kind = "list" -> \E w \in rows : W!Owner(w) = q.user
               [] OTHER -> call[r] = "OK"
        /\ says[r] = "success" => call[r] = "OK"

\* A funding or withdrawal that is answered or mailed as unsuccessful moved no money and
\* will not, unless an answer was lost: the wallet service's, or its database's to the
\* commit.  In these two cases the money may have moved and a user may pay twice; no other
\* interleaving or failure, of either service, makes a third.
UnsuccessfulMovedNothing ==
  \A r \in Requests \ (unheard \cup unacknowledged) :
    IsMoney(r) /\ (http[r] \in {"400", "404", "500"} \/ says[r] = "failure")
      => call[r] \in W!Codes \ {"OK"}

\* Of the sign-ups that race for an e-mail address at most one is answered as created.
OneSignUpWins ==
  LET winners == {r \in Requests : ask[r].kind = "signup" /\ http[r] = "OK"}
  IN  \A r, q \in winners : ask[r].user = ask[q].user => r = q

\* Every wallet belongs to an account, though the wallet service knows no accounts and
\* creates what it is asked to: only users that exist hold a cookie.
WalletsHaveAccounts == \A w \in rows : W!Owner(w) \in accounts

\* Every request ends, whichever of the services behind it fails.
EveryRequestEnds == \A r \in Requests : http[r] # "idle" ~> http[r] \in Ended
=============================================================================
