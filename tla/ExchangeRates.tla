--------------------------- MODULE ExchangeRates ---------------------------
(***************************************************************************)
(* ExchangeRateService of the integration micro-service: the Redis set of  *)
(* supported currencies and the Redis hash of rates, filled from the       *)
(* external API when the service first starts and then daily.              *)
(*                                                                         *)
(* A refresh t is one run of refreshAllExchangeRates.  It fetches the      *)
(* rates of the base currency, stores the supported currencies, enters the *)
(* base's rates into the table, and then fetches and enters those of every *)
(* currency, all at once.  A worker <<t, c>> is one run of                 *)
(* addExchangeRateDataToConversionTable: of the base if c is First, and    *)
(* otherwise of currency c, with the fetch that precedes it.               *)
(*                                                                         *)
(* Rates have no values here.  The API counts its versions: a rate in the  *)
(* table is the version it was fetched from, 0 if there is none.           *)
(***************************************************************************)
EXTENDS Integers

CONSTANTS
  Currencies,   \* those the API knows
  Base,         \* "USD"
  First,        \* names the worker of a refresh's first pass
  Updated,      \* bound: the pairs updateExchangeRate is called for
  Refreshes,    \* bound: refreshes at a time
  MaxVersion,   \* bound: versions of the API
  MaxFaults     \* bound: failed fetches and writes, crashes, and updates of a rate

\* getConversionKey: one field of the hash for each ordered pair.
Pairs == {p \in Currencies \X Currencies : p[1] # p[2]}

ASSUME ConstantsAssumption ==
  /\ Base \in Currencies
  /\ First \notin Currencies
  /\ Updated \subseteq Pairs
  /\ MaxVersion \in Nat \ {0}
  /\ MaxFaults \in Nat

VARIABLES
  api,         \* the version the API serves
  mode,        \* the process: "down", "starting" (in onModuleInit) or "running"
  supported,   \* the set of supported currencies in Redis
  table,       \* the conversion table in Redis
  phase,       \* where refreshAllExchangeRates stands
  visited,     \* the visitedBases its workers share
  work,        \* where each worker stands and what it collected
  update,      \* the updateExchangeRate in flight
  alone,       \* history: nothing else wrote to the table since the refresh began
  started,     \* history: the version when it began, as long as it is alone
  faults       \* history: faults and updates so far

redis == <<supported, table>>
tasks == <<phase, visited, work, update>>
history == <<alone, started>>
vars == <<api, mode, supported, table, phase, visited, work, update, alone, started,
          faults>>

-----------------------------------------------------------------------------

Versions == 0 .. MaxVersion
Codes == Currencies \cup {First}
Workers == Refreshes \X Codes
\* The currency whose rates a worker enters.
From(w) == IF w[2] = First THEN Base ELSE w[2]

Phases == {"idle", "fetching", "storing", "first", "all", "done", "failed"}
Steps == {"idle", "fetching", "reversing", "writing", "done", "failed"}
None == [from |-> First, to |-> First, version |-> 0]

\* quote: the version of its rates; reverse: of the reverse rates it fetched; left:
\* currencies it has not come to; asking: the currency it fetches.
Idle == [step |-> "idle", quote |-> 0, reverse |-> [c \in Currencies |-> 0],
         left |-> {}, asking |-> First]

InProgress(t) == phase[t] \in {"fetching", "storing", "first", "all"}
Alive(w) == work[w].step \in {"fetching", "reversing", "writing"}
\* A refresh that failed may still have workers: Promise.all does not wait for them.
Busy(t) == InProgress(t) \/ \E c \in Codes : Alive(<<t, c>>)

Init ==
  /\ api = 1
  /\ mode = "down"
  /\ supported = {}
  /\ table = [p \in Pairs |-> 0]
  /\ phase = [t \in Refreshes |-> "idle"]
  /\ visited = [t \in Refreshes |-> {}]
  /\ work = [w \in Workers |-> Idle]
  /\ update = None
  /\ alone = [t \in Refreshes |-> FALSE]
  /\ started = [t \in Refreshes |-> 0]
  /\ faults = 0

Fault == faults < MaxFaults /\ faults' = faults + 1
Enter(t, p) == phase' = [phase EXCEPT ![t] = p]

-----------------------------------------------------------------------------
(* refreshAllExchangeRates *)

\* A run begins, in a slot whose last run has nothing left to do.
Begin(t) ==
  /\ ~Busy(t)
  /\ Enter(t, "fetching")
  /\ work' = [w \in Workers |-> IF w[1] = t THEN Idle ELSE work[w]]
  /\ visited' = [visited EXCEPT ![t] = {}]
  /\ alone' = [u \in Refreshes |->
                IF u = t THEN update = None /\ \A s \in Refreshes \ {t} : ~Busy(s)
                         ELSE alone[u] /\ ~Busy(u)]
  /\ started' = [u \in Refreshes |->
                  IF ~alone'[u] THEN 0 ELSE IF u = t THEN api ELSE started[u]]
  /\ UNCHANGED <<api, supported, table, update>>

FetchBase(t) ==
  /\ phase[t] = "fetching"
  /\ \/ /\ work' = [work EXCEPT ![<<t, First>>] = [@ EXCEPT !.quote = api]]
        /\ Enter(t, "storing")
        /\ UNCHANGED faults
     \/ /\ Fault
        /\ Enter(t, "failed")
        /\ UNCHANGED work
  /\ UNCHANGED <<api, mode, redis, visited, update, history>>

\* The loop of worker w, with record r, runs to its next await: the reverse fetch of a
\* currency that is not in seen, or the write of what it collected.
Proceed(w, r, seen) ==
  LET open == r.left \ seen
  IN  IF open = {}
      THEN work' = [work EXCEPT ![w] =
                     [r EXCEPT !.step = "writing", !.left = {}, !.asking = First]]
      ELSE \E c \in open :
             work' = [work EXCEPT ![w] =
                       [r EXCEPT !.step = "reversing", !.left = open \ {c}, !.asking = c]]

\* The worker enters the loop with rates of this version, its own currency visited.
StartLoop(w, version) ==
  LET seen == visited[w[1]] \cup {From(w)}
  IN  /\ visited' = [visited EXCEPT ![w[1]] = seen]
      /\ Proceed(w, [Idle EXCEPT !.quote = version, !.left = Currencies], seen)

\* storeAllSupportedCurrency adds the currencies one by one and at once, and may fail
\* with any of them added.
StoreSupported(t) ==
  /\ phase[t] = "storing"
  /\ \/ /\ supported' = Currencies
        /\ StartLoop(<<t, First>>, work[<<t, First>>].quote)
        /\ Enter(t, "first")
        /\ UNCHANGED faults
     \/ /\ Fault
        /\ \E S \in SUBSET Currencies : supported' = supported \cup S
        /\ Enter(t, "failed")
        /\ UNCHANGED <<visited, work>>
  /\ UNCHANGED <<api, mode, table, update, history>>

\* A mutant of Fetched: what the first pass has visited is not fetched again.
FetchedMutant(t) == Currencies \ visited[t]
\* The currencies the second pass fetches.
Fetched(t) == Currencies

-----------------------------------------------------------------------------
(* addExchangeRateDataToConversionTable *)

\* The fetch of a currency in the second pass; a failure fails the refresh.
FetchCode(w) ==
  /\ work[w].step = "fetching"
  /\ \/ /\ StartLoop(w, api)
        /\ UNCHANGED <<phase, faults>>
     \/ /\ Fault
        /\ work' = [work EXCEPT ![w] = [@ EXCEPT !.step = "failed"]]
        /\ Enter(w[1], "failed")
        /\ UNCHANGED visited
  /\ UNCHANGED <<api, mode, redis, update, history>>

\* The reverse fetch; its failure is logged and the currency stays unvisited.
FetchReverse(w) ==
  /\ work[w].step = "reversing"
  /\ LET t == w[1]
         c == work[w].asking
     IN  \/ /\ visited' = [visited EXCEPT ![t] = @ \cup {c}]
            /\ Proceed(w, [work[w] EXCEPT !.reverse = [@ EXCEPT ![c] = api]],
                       visited[t] \cup {c})
            /\ UNCHANGED faults
         \/ /\ Fault
            /\ Proceed(w, work[w], visited[t])
            /\ UNCHANGED visited
  /\ UNCHANGED <<api, mode, redis, phase, update, history>>

\* The table with what worker w collected: rates from its currency, and those to it
\* that it fetched in reverse.
Collected(w) ==
  [p \in Pairs |->
    CASE p[1] = From(w) -> work[w].quote
      [] p[2] = From(w) /\ work[w].reverse[p[1]] # 0 -> work[w].reverse[p[1]]
      [] OTHER -> table[p]]

\* setHash: one HMSET, whose failure may be that of its answer.  After the first pass the
\* second one starts.
WriteHash(w) ==
  /\ work[w].step = "writing"
  /\ LET t == w[1]
     IN  \/ /\ table' = Collected(w)
            /\ IF w[2] = First
               THEN /\ work' = [v \in Workers |->
                                 IF v[1] # t THEN work[v]
                                 ELSE IF v[2] \in Fetched(t) THEN [Idle EXCEPT !.step = "fetching"]
                                 ELSE [Idle EXCEPT !.step = "done"]]
                    /\ Enter(t, "all")
               ELSE /\ work' = [work EXCEPT ![w] = [Idle EXCEPT !.step = "done"]]
                    /\ UNCHANGED phase
            /\ UNCHANGED faults
         \/ /\ Fault
            /\ table' \in {table, Collected(w)}
            /\ work' = [work EXCEPT ![w] = [Idle EXCEPT !.step = "failed"]]
            /\ Enter(t, "failed")
  /\ UNCHANGED <<api, mode, supported, visited, update, history>>

Finish(t) ==
  /\ phase[t] = "all"
  /\ \A c \in Codes : work[<<t, c>>].step = "done"
  /\ Enter(t, "done")
  /\ UNCHANGED <<api, mode, redis, visited, work, update, history, faults>>

-----------------------------------------------------------------------------
(* updateExchangeRate: the rate of one pair is fetched, then written, if it can be. *)

FetchUpdate(p) ==
  /\ mode = "running"
  /\ update = None
  /\ Fault
  /\ update' = [from |-> p[1], to |-> p[2], version |-> api]
  /\ alone' = [t \in Refreshes |-> FALSE]
  /\ started' = [t \in Refreshes |-> 0]
  /\ UNCHANGED <<api, mode, redis, phase, visited, work>>

WriteUpdate ==
  /\ update # None
  /\ table' \in {table, [table EXCEPT ![<<update.from, update.to>>] = update.version]}
  /\ update' = None
  /\ UNCHANGED <<api, mode, supported, phase, visited, work, history, faults>>

-----------------------------------------------------------------------------
(* The process and the API. *)

\* onModuleInit refreshes only if the set of supported currencies does not exist.
Start ==
  /\ mode = "down"
  /\ IF supported = {}
     THEN mode' = "starting" /\ \E t \in Refreshes : Begin(t)
     ELSE mode' = "running" /\ UNCHANGED <<api, redis, tasks, history>>
  /\ UNCHANGED faults

\* It waits for the refresh and swallows its error; then the application is up.
InitEnds ==
  /\ mode = "starting"
  /\ \A t \in Refreshes : ~InProgress(t)
  /\ mode' = "running"
  /\ UNCHANGED <<api, redis, tasks, history, faults>>

\* Mutants of RefreshExchangeRateCron: whether the process is there or not; and, as in
\* onModuleInit, only if nothing is stored.
CronWhileDown(t) == Begin(t) /\ UNCHANGED <<mode, faults>>
CronIfEmpty(t) ==
  /\ mode = "running" /\ supported = {}
  /\ Begin(t)
  /\ UNCHANGED <<mode, faults>>
\* handleRefreshExchangeRateCron, daily; it does not look whether the last run ended.
RefreshExchangeRateCron(t) ==
  /\ mode = "running"
  /\ Begin(t)
  /\ UNCHANGED <<mode, faults>>

Crash ==
  /\ mode # "down"
  /\ Fault
  /\ mode' = "down"
  /\ phase' = [t \in Refreshes |-> "idle"]
  /\ work' = [w \in Workers |-> Idle]
  /\ update' = None
  /\ UNCHANGED <<api, redis, visited, history>>

NewVersion ==
  /\ api < MaxVersion
  /\ api' = api + 1
  /\ UNCHANGED <<mode, redis, tasks, history, faults>>

-----------------------------------------------------------------------------

Work(w) == FetchCode(w) \/ FetchReverse(w) \/ WriteHash(w)
Advance(t) == FetchBase(t) \/ StoreSupported(t) \/ Finish(t)

Next ==
  \/ \E t \in Refreshes : Advance(t) \/ RefreshExchangeRateCron(t)
  \/ \E w \in Workers : Work(w)
  \/ \E p \in Updated : FetchUpdate(p)
  \/ WriteUpdate
  \/ Start \/ InitEnds \/ Crash \/ NewVersion

\* A refresh, with its workers, goes on.
Resume(t) == Advance(t) \/ \E c \in Codes : Work(<<t, c>>)

\* Awaits are resumed, and a process that stays up has its cron job every day.  Nothing
\* says that a process that died is started again.
Fairness ==
  /\ WF_vars(InitEnds)
  /\ WF_vars(WriteUpdate)
  /\ WF_vars(\E t \in Refreshes : RefreshExchangeRateCron(t))
  /\ \A t \in Refreshes : WF_vars(Resume(t))

Spec == Init /\ [][Next]_vars
FairSpec == Spec /\ Fairness

-----------------------------------------------------------------------------
(* Properties. *)

WorkTyped ==
  work \in [Workers -> [step : Steps, quote : Versions, reverse : [Currencies -> Versions],
                        left : SUBSET Currencies, asking : Codes]]

\* Types, and: no rate is newer than the API, and a down process has nothing in flight.
TypeOK ==
  /\ api \in Versions \ {0}
  /\ mode \in {"down", "starting", "running"}
  /\ supported \subseteq Currencies
  /\ table \in [Pairs -> 0 .. api]
  /\ phase \in [Refreshes -> Phases]
  /\ visited \in [Refreshes -> SUBSET Currencies]
  /\ WorkTyped
  /\ update \in [from : Codes, to : Codes, version : Versions]
  /\ started \in [Refreshes -> 0 .. api]
  /\ alone \in [Refreshes -> BOOLEAN]
  /\ faults \in 0 .. MaxFaults
  /\ mode = "down" => update = None /\ \A t \in Refreshes : ~Busy(t)

\* A refresh that ends without an error, and that nothing overlapped, leaves a rate no
\* older than its beginning for every pair of currencies, whichever of its reverse
\* fetches failed.
RefreshIsComplete ==
  [][\A t \in Refreshes :
       phase[t] # "done" /\ phase'[t] = "done" /\ alone[t]
         => supported = Currencies /\ \A p \in Pairs : table[p] >= started[t]]_vars

\* Once the API has its last version, and if the process is not down for ever, the table
\* comes to that version for every pair and stays there: though refreshes fail half way
\* and their workers go on beside the next refresh, refreshes and updates overlap and
\* write older rates over newer ones, and a restart does not repeat a refresh that died.
RatesFollow ==
  ([]<>(mode # "down")) => <>[](\A p \in Pairs : table[p] = api)
=============================================================================
