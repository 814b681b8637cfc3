--------------------------- MODULE ExchangeProofs ---------------------------
(***************************************************************************)
(* Theorems about ExchangeRates, for any currencies, numbers of refreshes  *)
(* at a time, versions of the API and faults.                              *)
(***************************************************************************)
EXTENDS ExchangeRates, TLAPS

-----------------------------------------------------------------------------
(* The inductive invariant. *)

WorkRecords ==
  {r \in [step : Steps, quote : Versions, reverse : [Currencies -> Versions],
          left : SUBSET Currencies, asking : Codes] :
     r.step = "reversing" => r.asking \in Currencies}

Typed ==
  /\ api \in Versions \ {0}
  /\ mode \in {"down", "starting", "running"}
  /\ supported \subseteq Currencies
  /\ table \in [Pairs -> Versions]
  /\ phase \in [Refreshes -> Phases]
  /\ visited \in [Refreshes -> SUBSET Currencies]
  /\ work \in [Workers -> WorkRecords]
  /\ update \in [from : Codes, to : Codes, version : Versions]
  /\ started \in [Refreshes -> Versions]
  /\ alone \in [Refreshes -> BOOLEAN]
  /\ faults \in 0 .. MaxFaults

\* Nothing in flight or stored is newer than the API.
NotAfter(r, v) == r.quote <= v /\ \A c \in Currencies : r.reverse[c] <= v
Served ==
  /\ \A p \in Pairs : table[p] <= api
  /\ \A t \in Refreshes : started[t] <= api
  /\ \A w \in Workers : NotAfter(work[w], api)
  /\ update.version <= api

\* A process that is down has nothing in flight.
DownIsIdle == mode = "down" => update = None /\ \A t \in Refreshes : ~Busy(t)

\* The workers of a refresh begin when its currencies are stored.
WorkersWait ==
  \A t \in Refreshes :
    phase[t] \in {"fetching", "storing"} => \A c \in Codes : ~ Alive(<<t, c>>)

\* The first pass begins when every currency is stored, and none is ever removed.
SupportedStored ==
  \A t \in Refreshes :
    phase[t] \in {"first", "all"} \/ Alive(<<t, First>>) => supported = Currencies

\* A refresh that is marked as alone is, as long as it has something to do.
AloneIsAlone ==
  \A t \in Refreshes :
    alone[t] /\ Busy(t) => update = None /\ \A u \in Refreshes \ {t} : ~Busy(u)

\* What a worker is about to write it fetched since its refresh began.
NotBefore(r, v) == r.quote >= v /\ \A c \in Currencies : r.reverse[c] = 0 \/ r.reverse[c] >= v
Collecting(r) == r.step \in {"reversing", "writing"}
WorkIsFresh ==
  \A t \in Refreshes :
    /\ phase[t] = "storing" => work[<<t, First>>].quote >= started[t]
    /\ \A c \in Codes : Collecting(work[<<t, c>>]) => NotBefore(work[<<t, c>>], started[t])

\* A worker of the second pass that is done has entered the rates of its currency, and
\* what was written since is no older than the refresh.
DoneIsEntered ==
  \A t \in Refreshes :
    alone[t] /\ phase[t] = "all" =>
      \A p \in Pairs : work[<<t, p[1]>>].step = "done" => table[p] >= started[t]

IInv ==
  /\ Typed /\ Served /\ DownIsIdle /\ WorkersWait /\ SupportedStored /\ AloneIsAlone
  /\ WorkIsFresh /\ DoneIsEntered

-----------------------------------------------------------------------------
(* What the steps are made of. *)

NoReverse == [c \in Currencies |-> 0]

LEMMA IdleType ==
  /\ Idle \in WorkRecords
  /\ Idle.step = "idle" /\ Idle.quote = 0 /\ Idle.reverse = NoReverse
BY ConstantsAssumption DEF Idle, WorkRecords, Steps, Versions, Codes, NoReverse

\* Worker w is in the loop, with these rates.
Loops(w, q, rev) ==
  \E x \in WorkRecords : /\ work' = [work EXCEPT ![w] = x]
                         /\ x.step \in {"reversing", "writing"}
                         /\ x.quote = q
                         /\ x.reverse = rev

LEMMA Proceeds ==
  ASSUME NEW w, NEW r \in WorkRecords, NEW seen, Proceed(w, r, seen)
  PROVE  Loops(w, r.quote, r.reverse)
<1>1. r.left \ seen \in SUBSET Currencies /\ \A c \in r.left \ seen : c \in Codes
  BY DEF WorkRecords, Codes
<1>2. First \in Codes /\ {} \in SUBSET Currencies /\ "writing" \in Steps /\ "reversing" \in Steps
  BY DEF Codes, Steps
<1>3. CASE r.left \ seen = {}
  <2> DEFINE x == [r EXCEPT !.step = "writing", !.left = {}, !.asking = First]
  <2>1. x \in WorkRecords /\ x.step = "writing" /\ x.quote = r.quote /\ x.reverse = r.reverse
    BY <1>2 DEF WorkRecords
  <2>2. work' = [work EXCEPT ![w] = x]
    BY <1>3 DEF Proceed
  <2> HIDE DEF x
  <2>. QED
    BY <2>1, <2>2 DEF Loops
<1>4. CASE r.left \ seen # {}
  <2>1. PICK c \in r.left \ seen :
          work' = [work EXCEPT ![w] =
                    [r EXCEPT !.step = "reversing", !.left = (r.left \ seen) \ {c}, !.asking = c]]
    BY <1>4 DEF Proceed
  <2> DEFINE x == [r EXCEPT !.step = "reversing", !.left = (r.left \ seen) \ {c}, !.asking = c]
  <2>2. (r.left \ seen) \ {c} \in SUBSET Currencies
    BY <1>1
  <2>3. x \in WorkRecords /\ x.step = "reversing" /\ x.quote = r.quote /\ x.reverse = r.reverse
    BY <1>1, <1>2, <2>2 DEF WorkRecords
  <2> HIDE DEF x
  <2>. QED
    BY <2>1, <2>3 DEF Loops, x
<1>. QED
  BY <1>3, <1>4

LEMMA LoopStarts ==
  ASSUME Typed, NEW w \in Workers, NEW v \in Versions, StartLoop(w, v)
  PROVE  /\ Loops(w, v, NoReverse)
         /\ visited' \in [Refreshes -> SUBSET Currencies]
<1> DEFINE r == [Idle EXCEPT !.quote = v, !.left = Currencies]
<1>1. r \in WorkRecords /\ r.quote = v /\ r.reverse = NoReverse
  BY IdleType DEF WorkRecords
<1>2. Proceed(w, r, visited[w[1]] \cup {From(w)})
  BY DEF StartLoop
<1>3. From(w) \in Currencies /\ w[1] \in Refreshes
  BY ConstantsAssumption DEF From, Workers, Codes
<1>4. visited' \in [Refreshes -> SUBSET Currencies]
  BY <1>3 DEF StartLoop, Typed
<1> HIDE DEF r
<1>. QED
  BY <1>1, <1>2, <1>4, Proceeds

\* The workers of a refresh.
LEMMA WorkerPairs ==
  /\ \A t \in Refreshes, c \in Codes : <<t, c>> \in Workers
  /\ \A w \in Workers : w[1] \in Refreshes /\ w[2] \in Codes /\ w = <<w[1], w[2]>>
  /\ First \in Codes /\ First \notin Currencies /\ Currencies \subseteq Codes
  /\ \A p \in Pairs : p[1] \in Currencies /\ p[2] \in Currencies /\ p[1] # p[2]
BY ConstantsAssumption DEF Workers, Codes, Pairs

\* A worker that is alive moves on, or ends.  What it writes, if it does, is no older than
\* its refresh.
LEMMA WorkerInv ==
  ASSUME IInv, NEW w \in Workers, Alive(w), NEW x \in WorkRecords,
         work' = [work EXCEPT ![w] = x],
         UNCHANGED <<api, mode, supported, update, started, alone>>,
         phase' = phase \/ phase' = [phase EXCEPT ![w[1]] = "failed"],
         visited' \in [Refreshes -> SUBSET Currencies],
         faults' \in 0 .. MaxFaults,
         NotAfter(x, api),
         Collecting(x) => NotBefore(x, started[w[1]]),
         table' \in [Pairs -> Versions],
         \A p \in Pairs : table'[p] <= api,
         \A p \in Pairs : table'[p] = table[p] \/ table'[p] >= started[w[1]],
         \A p \in Pairs : p[1] = w[2] /\ x.step = "done" => table'[p] >= started[w[1]]
  PROVE  IInv'
<1> DEFINE t == w[1]
<1>1. t \in Refreshes /\ w[2] \in Codes /\ w = <<t, w[2]>>
  BY WorkerPairs
<1>2. /\ Typed /\ Served /\ DownIsIdle /\ WorkersWait /\ SupportedStored /\ AloneIsAlone
      /\ WorkIsFresh /\ DoneIsEntered
  BY DEF IInv
<1>3. /\ work \in [Workers -> WorkRecords]
      /\ work' \in [Workers -> WorkRecords]
      /\ work'[w] = x
      /\ \A v \in Workers \ {w} : work'[v] = work[v]
  BY <1>2 DEF Typed
<1>4. /\ phase' \in [Refreshes -> Phases]
      /\ \A u \in Refreshes \ {t} : phase'[u] = phase[u]
      /\ phase'[t] \in {phase[t], "failed"}
  BY <1>1, <1>2 DEF Typed, Phases
<1>5. Busy(t)
  BY <1>1 DEF Busy
<1>6. \A v \in Workers \ {w} : Alive(v)' <=> Alive(v)
  BY <1>3 DEF Alive
<1>7. \A u \in Refreshes : Busy(u)' => Busy(u)
  <2>1. \A u \in Refreshes \ {t} : \A c \in Codes : <<u, c>> \in Workers \ {w}
    BY <1>1, WorkerPairs
  <2>2. \A u \in Refreshes \ {t} : Busy(u)' => Busy(u)
    BY <1>4, <1>6, <2>1 DEF Busy, InProgress
  <2>. QED
    BY <1>5, <2>2
<1>8. Typed'
  BY <1>2, <1>3, <1>4 DEF Typed
<1>9. Served'
  BY <1>2, <1>3 DEF Served, Typed, NotAfter
<1>10. DownIsIdle'
  BY <1>2, <1>7 DEF DownIsIdle
<1>11. SupportedStored'
  <2>1. \A u \in Refreshes : <<u, First>> \in Workers
    BY WorkerPairs
  <2>2. \A u \in Refreshes : Alive(<<u, First>>)' => Alive(<<u, First>>)
    BY <1>6, <2>1
  <2>3. \A u \in Refreshes : phase'[u] \in {"first", "all"} => phase[u] \in {"first", "all"}
    BY <1>4
  <2>. QED
    BY <1>2, <2>2, <2>3 DEF SupportedStored
<1>12. AloneIsAlone'
  BY <1>2, <1>7 DEF AloneIsAlone
<1>13. WorkIsFresh'
  <2>1. \A u \in Refreshes : phase'[u] = "storing" => phase[u] = "storing"
    BY <1>4
  <2>2. ASSUME NEW u \in Refreshes, phase'[u] = "storing"
        PROVE  work'[<<u, First>>].quote >= started[u]
    <3>1. u # t
      BY <1>1, <1>2, <2>1, <2>2 DEF WorkersWait
    <3>2. <<u, First>> \in Workers \ {w}
      BY <1>1, <3>1, WorkerPairs
    <3>. QED
      BY <1>2, <1>3, <2>1, <2>2, <3>2 DEF WorkIsFresh
  <2>3. ASSUME NEW u \in Refreshes, NEW c \in Codes, Collecting(work'[<<u, c>>])
        PROVE  NotBefore(work'[<<u, c>>], started[u])
    <3>1. CASE <<u, c>> = w
      BY <1>3, <2>3, <3>1
    <3>2. CASE <<u, c>> # w
      BY <1>2, <1>3, <2>3, <3>2, WorkerPairs DEF WorkIsFresh
    <3>. QED
      BY <3>1, <3>2
  <2>. QED
    BY <2>2, <2>3 DEF WorkIsFresh
<1>14. DoneIsEntered'
  <2>1. ASSUME NEW u \in Refreshes, alone[u], phase'[u] = "all", NEW p \in Pairs,
               work'[<<u, p[1]>>].step = "done"
        PROVE  table'[p] >= started[u]
    <3>1. phase[u] = "all" /\ Busy(u)
      BY <1>4, <2>1 DEF Busy, InProgress
    <3>2. u = t
      BY <1>1, <1>2, <1>5, <2>1, <3>1 DEF AloneIsAlone
    <3>3. CASE w = <<u, p[1]>>
      BY <1>3, <2>1, <3>2, <3>3
    <3>4. CASE w # <<u, p[1]>>
      <4>1. <<u, p[1]>> \in Workers \ {w}
        BY <3>4, WorkerPairs
      <4>2. table[p] >= started[u]
        BY <1>2, <1>3, <2>1, <3>1, <4>1 DEF DoneIsEntered
      <4>. QED
        BY <3>2, <4>2
    <3>. QED
      BY <3>3, <3>4
  <2>. QED
    BY <2>1 DEF DoneIsEntered
<1>15. WorkersWait'
  <2>1. ASSUME NEW u \in Refreshes, phase'[u] \in {"fetching", "storing"}
        PROVE  u # t /\ phase[u] \in {"fetching", "storing"}
    BY <1>1, <1>2, <1>4, <2>1 DEF WorkersWait
  <2>2. \A u \in Refreshes \ {t} : \A c \in Codes : <<u, c>> \in Workers \ {w}
    BY <1>1, WorkerPairs
  <2>. QED
    BY <1>2, <1>6, <2>1, <2>2 DEF WorkersWait
<1>. QED
  BY <1>8, <1>9, <1>10, <1>11, <1>12, <1>13, <1>14, <1>15 DEF IInv

LEMMA Counted ==
  ASSUME Typed, Fault \/ UNCHANGED faults
  PROVE  faults' \in 0 .. MaxFaults
BY ConstantsAssumption DEF Typed, Fault

\* Rates that are fetched now are neither newer than the API nor older than a refresh.
LEMMA FetchedNow ==
  ASSUME Typed, Served, NEW t \in Refreshes
  PROVE  /\ api \in Versions /\ started[t] \in Versions /\ started[t] <= api
         /\ \A r \in WorkRecords :
              /\ r.quote = api /\ r.reverse = NoReverse =>
                   NotAfter(r, api) /\ NotBefore(r, started[t])
<1>1. api \in Versions /\ started[t] \in Versions /\ started[t] <= api
  BY DEF Typed, Served
<1>2. api \in Nat /\ started[t] \in Nat
  BY <1>1, ConstantsAssumption DEF Versions
<1>. QED
  BY <1>1, <1>2 DEF NoReverse, NotAfter, NotBefore

LEMMA FetchCodeInv ==
  ASSUME IInv, NEW w \in Workers, FetchCode(w)
  PROVE  IInv'
<1>1. /\ UNCHANGED <<api, mode, supported, table, update, started, alone>>
      /\ work[w].step = "fetching" /\ Alive(w)
  BY DEF FetchCode, redis, history, Alive
<1>2. Typed /\ Served /\ w[1] \in Refreshes /\ work[w] \in WorkRecords
  BY WorkerPairs DEF IInv, Typed
<1>3. CASE StartLoop(w, api) /\ UNCHANGED <<phase, faults>>
  <2>1. api \in Versions
    BY <1>2 DEF Typed
  <2>2. Loops(w, api, NoReverse) /\ visited' \in [Refreshes -> SUBSET Currencies]
    BY <1>2, <1>3, <2>1, LoopStarts
  <2>3. PICK x \in WorkRecords : /\ work' = [work EXCEPT ![w] = x]
                                 /\ x.step \in {"reversing", "writing"}
                                 /\ x.quote = api
                                 /\ x.reverse = NoReverse
    BY <2>2 DEF Loops
  <2>4. NotAfter(x, api) /\ NotBefore(x, started[w[1]])
    BY <1>2, <2>3, FetchedNow
  <2>5. /\ table' \in [Pairs -> Versions] /\ \A p \in Pairs : table'[p] <= api
        /\ faults' \in 0 .. MaxFaults
    BY <1>1, <1>2, <1>3 DEF Typed, Served
  <2>. QED
    BY <1>1, <1>3, <2>2, <2>3, <2>4, <2>5, WorkerInv
<1>4. CASE /\ Fault
           /\ work' = [work EXCEPT ![w] = [work[w] EXCEPT !.step = "failed"]]
           /\ Enter(w[1], "failed")
           /\ UNCHANGED visited
  <2> DEFINE x == [work[w] EXCEPT !.step = "failed"]
  <2>1. x \in WorkRecords /\ x.step = "failed" /\ x.quote = work[w].quote /\ x.reverse = work[w].reverse
    BY <1>2 DEF WorkRecords, Steps
  <2>2. work' = [work EXCEPT ![w] = x] /\ phase' = [phase EXCEPT ![w[1]] = "failed"]
    BY <1>4 DEF Enter
  <2> HIDE DEF x
  <2>3. NotAfter(x, api) /\ ~ Collecting(x)
    BY <1>2, <2>1 DEF Served, NotAfter, Collecting
  <2>4. /\ table' \in [Pairs -> Versions] /\ \A p \in Pairs : table'[p] <= api
        /\ visited' \in [Refreshes -> SUBSET Currencies]
    BY <1>1, <1>2, <1>4 DEF Typed, Served
  <2>5. faults' \in 0 .. MaxFaults
    BY <1>2, <1>4, Counted
  <2>. QED
    BY <1>1, <2>1, <2>2, <2>3, <2>4, <2>5, WorkerInv
<1>. QED
  BY <1>3, <1>4 DEF FetchCode

LEMMA FetchReverseInv ==
  ASSUME IInv, NEW w \in Workers, FetchReverse(w)
  PROVE  IInv'
<1>1. /\ UNCHANGED <<api, mode, supported, table, update, started, alone, phase>>
      /\ work[w].step = "reversing" /\ Alive(w)
  BY DEF FetchReverse, redis, history, Alive
<1>2. Typed /\ Served /\ WorkIsFresh /\ w[1] \in Refreshes /\ w[2] \in Codes /\ w = <<w[1], w[2]>>
      /\ work[w] \in WorkRecords
  BY WorkerPairs DEF IInv, Typed
<1>3. NotAfter(work[w], api) /\ NotBefore(work[w], started[w[1]])
  BY <1>1, <1>2 DEF Served, WorkIsFresh, Collecting
<1>4. /\ table' \in [Pairs -> Versions] /\ \A p \in Pairs : table'[p] <= api
      /\ api \in Versions
  BY <1>1, <1>2 DEF Typed, Served
<1>5. api \in Nat /\ started[w[1]] \in Nat /\ started[w[1]] <= api
  BY <1>2, ConstantsAssumption DEF Typed, Served, Versions
<1> DEFINE c == work[w].asking
           r == [work[w] EXCEPT !.reverse = [@ EXCEPT ![c] = api]]
<1>8. c \in Currencies
  BY <1>1, <1>2 DEF WorkRecords
<1>6. CASE /\ visited' = [visited EXCEPT ![w[1]] = visited[w[1]] \cup {c}]
           /\ Proceed(w, r, visited[w[1]] \cup {c})
           /\ UNCHANGED faults
  <2>1. r \in WorkRecords /\ r.quote = work[w].quote /\ r.reverse = [work[w].reverse EXCEPT ![c] = api]
    BY <1>2, <1>4 DEF WorkRecords
  <2>2. Proceed(w, r, visited[w[1]] \cup {c})
    BY <1>6
  <2> HIDE DEF r
  <2>3. PICK x \in WorkRecords : /\ work' = [work EXCEPT ![w] = x]
                                 /\ x.step \in {"reversing", "writing"}
                                 /\ x.quote = r.quote
                                 /\ x.reverse = r.reverse
    <3>1. Loops(w, r.quote, r.reverse)
      BY <2>1, <2>2, Proceeds
    <3>. QED
      BY <3>1 DEF Loops
  <2>4. \A d \in Currencies : x.reverse[d] \in {api, work[w].reverse[d]}
    BY <1>2, <2>1, <2>3 DEF WorkRecords
  <2>5. NotAfter(x, api) /\ NotBefore(x, started[w[1]])
    BY <1>3, <1>5, <2>1, <2>3, <2>4 DEF NotAfter, NotBefore
  <2>6. visited' \in [Refreshes -> SUBSET Currencies] /\ faults' \in 0 .. MaxFaults
    BY <1>2, <1>6, <1>8 DEF Typed
  <2>. QED
    BY <1>1, <1>4, <2>3, <2>5, <2>6, WorkerInv
<1>7. CASE Fault /\ Proceed(w, work[w], visited[w[1]]) /\ UNCHANGED visited
  <2>1. PICK x \in WorkRecords : /\ work' = [work EXCEPT ![w] = x]
                                 /\ x.step \in {"reversing", "writing"}
                                 /\ x.quote = work[w].quote
                                 /\ x.reverse = work[w].reverse
    <3>1. Loops(w, work[w].quote, work[w].reverse)
      BY <1>2, <1>7, Proceeds
    <3>. QED
      BY <3>1 DEF Loops
  <2>2. NotAfter(x, api) /\ NotBefore(x, started[w[1]])
    BY <1>3, <2>1 DEF NotAfter, NotBefore
  <2>3. visited' \in [Refreshes -> SUBSET Currencies] /\ faults' \in 0 .. MaxFaults
    BY <1>2, <1>7, Counted DEF Typed
  <2>. QED
    BY <1>1, <1>4, <2>1, <2>2, <2>3, WorkerInv
<1>. QED
  BY <1>6, <1>7 DEF FetchReverse

\* The rates that a worker is about to write.
LEMMA CollectedRates ==
  ASSUME IInv, NEW w \in Workers, work[w].step = "writing"
  PROVE  /\ Collected(w) \in [Pairs -> Versions]
         /\ \A p \in Pairs :
              /\ Collected(w)[p] <= api
              /\ Collected(w)[p] = table[p] \/ Collected(w)[p] >= started[w[1]]
              /\ p[1] = From(w) => Collected(w)[p] >= started[w[1]]
<1>1. Typed /\ Served /\ w[1] \in Refreshes /\ w[2] \in Codes /\ w = <<w[1], w[2]>>
  BY WorkerPairs DEF IInv
<1>2. /\ work[w].quote \in Versions
      /\ \A c \in Currencies : work[w].reverse[c] \in Versions
  BY <1>1 DEF Typed, WorkRecords
<1>3. NotAfter(work[w], api) /\ NotBefore(work[w], started[w[1]])
  BY <1>1 DEF IInv, Served, WorkIsFresh, Collecting
<1>4. ASSUME NEW p \in Pairs
      PROVE  /\ Collected(w)[p] \in Versions
             /\ Collected(w)[p] <= api
             /\ Collected(w)[p] = table[p] \/ Collected(w)[p] >= started[w[1]]
             /\ p[1] = From(w) => Collected(w)[p] >= started[w[1]]
  <2>1. p[1] \in Currencies
    BY WorkerPairs
  <2>2. CASE p[1] = From(w)
    <3>1. p[2] # From(w)
      BY <2>2, WorkerPairs
    <3>2. Collected(w)[p] = work[w].quote
      BY <2>2, <3>1 DEF Collected
    <3>. QED
      BY <1>2, <1>3, <3>2 DEF NotAfter, NotBefore
  <2>3. CASE p[1] # From(w) /\ p[2] = From(w) /\ work[w].reverse[p[1]] # 0
    <3>1. Collected(w)[p] = work[w].reverse[p[1]]
      BY <2>3 DEF Collected
    <3>. QED
      BY <1>2, <1>3, <2>1, <2>3, <3>1 DEF NotAfter, NotBefore
  <2>4. CASE p[1] # From(w) /\ ~ (p[2] = From(w) /\ work[w].reverse[p[1]] # 0)
    <3>1. Collected(w)[p] = table[p]
      BY <2>4 DEF Collected
    <3>. QED
      BY <1>1, <2>4, <3>1 DEF Typed, Served
  <2>. QED
    BY <2>2, <2>3, <2>4
<1>5. Collected(w) \in [Pairs -> Versions]
  <2>1. Collected(w) = [p \in Pairs |-> Collected(w)[p]]
    BY DEF Collected
  <2>. QED
    BY <1>4, <2>1
<1>. QED
  BY <1>4, <1>5

\* A record that holds no rates.
LEMMA RestingRecord ==
  ASSUME NEW s \in {"fetching", "done", "failed"}
  PROVE  /\ [Idle EXCEPT !.step = s] \in WorkRecords
         /\ [Idle EXCEPT !.step = s].step = s
         /\ ~ Collecting([Idle EXCEPT !.step = s])
         /\ api \in Nat => NotAfter([Idle EXCEPT !.step = s], api)
BY IdleType DEF WorkRecords, Steps, Collecting, NotAfter, NoReverse

LEMMA ApiNat ==
  ASSUME Typed
  PROVE  api \in Nat /\ \A t \in Refreshes : started[t] \in Nat
BY ConstantsAssumption DEF Typed, Versions

\* Every rate a worker has is one of some version.
LEMMA NotBeforeZero ==
  ASSUME NEW x \in WorkRecords
  PROVE  NotBefore(x, 0)
<1>1. x.quote \in Nat /\ \A c \in Currencies : x.reverse[c] \in Nat
  BY ConstantsAssumption DEF WorkRecords, Versions
<1>. QED
  BY <1>1 DEF NotBefore

LEMMA WriteFailsInv ==
  ASSUME IInv, NEW w \in Workers, work[w].step = "writing",
         Fault,
         table' \in {table, Collected(w)},
         work' = [work EXCEPT ![w] = [Idle EXCEPT !.step = "failed"]],
         Enter(w[1], "failed"),
         UNCHANGED <<api, mode, supported, visited, update, started, alone>>
  PROVE  IInv'
<1>1. Typed /\ Served /\ Alive(w)
  BY DEF IInv, Alive
<1> DEFINE x == [Idle EXCEPT !.step = "failed"]
<1>2. x \in WorkRecords /\ x.step = "failed" /\ ~ Collecting(x) /\ NotAfter(x, api)
  BY <1>1, ApiNat, RestingRecord
<1>3. work' = [work EXCEPT ![w] = x]
  OBVIOUS
<1> HIDE DEF x
<1>4. /\ table' \in [Pairs -> Versions]
      /\ \A p \in Pairs : /\ table'[p] <= api
                          /\ table'[p] = table[p] \/ table'[p] >= started[w[1]]
  BY <1>1, CollectedRates DEF Typed, Served
<1>5. visited' \in [Refreshes -> SUBSET Currencies] /\ faults' \in 0 .. MaxFaults
  BY <1>1, Counted DEF Typed
<1>6. phase' = [phase EXCEPT ![w[1]] = "failed"]
  BY DEF Enter
<1>. QED
  BY <1>1, <1>2, <1>3, <1>4, <1>5, <1>6, WorkerInv

LEMMA WriteCodeInv ==
  ASSUME IInv, NEW w \in Workers, work[w].step = "writing", w[2] # First,
         table' = Collected(w),
         work' = [work EXCEPT ![w] = [Idle EXCEPT !.step = "done"]],
         UNCHANGED <<api, mode, supported, phase, visited, update, started, alone, faults>>
  PROVE  IInv'
<1>1. Typed /\ Served /\ Alive(w)
  BY DEF IInv, Alive
<1> DEFINE x == [Idle EXCEPT !.step = "done"]
<1>2. x \in WorkRecords /\ x.step = "done" /\ ~ Collecting(x) /\ NotAfter(x, api)
  BY <1>1, ApiNat, RestingRecord
<1>3. work' = [work EXCEPT ![w] = x]
  OBVIOUS
<1> HIDE DEF x
<1>4. From(w) = w[2]
  BY DEF From
<1>5. /\ table' \in [Pairs -> Versions]
      /\ \A p \in Pairs : /\ table'[p] <= api
                          /\ table'[p] = table[p] \/ table'[p] >= started[w[1]]
                          /\ p[1] = w[2] => table'[p] >= started[w[1]]
  BY <1>1, <1>4, CollectedRates
<1>6. visited' \in [Refreshes -> SUBSET Currencies] /\ faults' \in 0 .. MaxFaults
  BY <1>1 DEF Typed
<1>. QED
  BY <1>1, <1>2, <1>3, <1>5, <1>6, WorkerInv

\* The first pass ends: nothing of the second one is done yet.
LEMMA WriteFirstInv ==
  ASSUME IInv, NEW t \in Refreshes, work[<<t, First>>].step = "writing",
         table' = Collected(<<t, First>>),
         work' = [v \in Workers |->
                   IF v[1] # t THEN work[v]
                   ELSE IF v[2] \in Fetched(t) THEN [Idle EXCEPT !.step = "fetching"]
                   ELSE [Idle EXCEPT !.step = "done"]],
         Enter(t, "all"),
         UNCHANGED <<api, mode, supported, visited, update, started, alone, faults>>
  PROVE  IInv'
<1>1. /\ Typed /\ Served /\ DownIsIdle /\ WorkersWait /\ SupportedStored /\ AloneIsAlone
      /\ WorkIsFresh /\ DoneIsEntered
  BY DEF IInv
<1>2. <<t, First>> \in Workers /\ Alive(<<t, First>>) /\ Busy(t)
  BY WorkerPairs DEF Alive, Busy
<1>3. /\ phase' \in [Refreshes -> Phases] /\ phase'[t] = "all"
      /\ \A u \in Refreshes \ {t} : phase'[u] = phase[u]
  BY <1>1 DEF Enter, Typed, Phases
<1> DEFINE fetching == [Idle EXCEPT !.step = "fetching"]
           done == [Idle EXCEPT !.step = "done"]
<1>4. /\ fetching \in WorkRecords /\ fetching.step = "fetching" /\ ~ Collecting(fetching)
      /\ NotAfter(fetching, api)
      /\ done \in WorkRecords /\ done.step = "done" /\ ~ Collecting(done) /\ NotAfter(done, api)
  BY <1>1, ApiNat, RestingRecord
<1>5. work' = [v \in Workers |-> IF v[1] # t THEN work[v]
                                ELSE IF v[2] \in Currencies THEN fetching ELSE done]
  BY DEF Fetched
<1> HIDE DEF fetching, done
<1>6. /\ work' \in [Workers -> WorkRecords]
      /\ \A u \in Refreshes \ {t}, c \in Codes : work'[<<u, c>>] = work[<<u, c>>]
      /\ \A c \in Currencies : work'[<<t, c>>] = fetching
      /\ work'[<<t, First>>] = done
  <2>1. work' \in [Workers -> WorkRecords]
    BY <1>1, <1>4, <1>5 DEF Typed
  <2>2. ASSUME NEW u \in Refreshes, NEW c \in Codes
        PROVE  work'[<<u, c>>] = IF u # t THEN work[<<u, c>>]
                                 ELSE IF c \in Currencies THEN fetching ELSE done
    <3>1. <<u, c>> \in Workers /\ <<u, c>>[1] = u /\ <<u, c>>[2] = c
      BY WorkerPairs
    <3>. QED
      BY <1>5, <3>1
  <2>3. \A c \in Currencies : c \in Codes
    BY WorkerPairs
  <2>. QED
    BY <2>1, <2>2, <2>3, WorkerPairs
<1>7. table' \in [Pairs -> Versions] /\ \A p \in Pairs : table'[p] <= api
  BY <1>2, CollectedRates
<1>8. Typed'
  BY <1>1, <1>3, <1>6, <1>7 DEF Typed
<1>9. Served'
  <2>1. \A v \in Workers : work'[v] \in {work[v], fetching, done}
    BY <1>5
  <2>2. \A v \in Workers : NotAfter(work'[v], api)
    BY <1>1, <1>4, <2>1 DEF Served
  <2>. QED
    BY <1>1, <1>7, <2>2 DEF Served, NotAfter
<1>10. \A u \in Refreshes : Busy(u)' => Busy(u)
  BY <1>2, <1>3, <1>6 DEF Busy, InProgress, Alive
<1>11. DownIsIdle' /\ AloneIsAlone'
  BY <1>1, <1>10 DEF DownIsIdle, AloneIsAlone
<1>12. WorkersWait' /\ SupportedStored'
  BY <1>1, <1>2, <1>3, <1>4, <1>6, WorkerPairs DEF WorkersWait, SupportedStored, Alive
<1>13. WorkIsFresh'
  <2>1. ASSUME NEW u \in Refreshes, phase'[u] = "storing"
        PROVE  work'[<<u, First>>].quote >= started[u]
    BY <1>1, <1>3, <1>6, <2>1, WorkerPairs DEF WorkIsFresh
  <2>2. ASSUME NEW u \in Refreshes, NEW c \in Codes, Collecting(work'[<<u, c>>])
        PROVE  NotBefore(work'[<<u, c>>], started[u])
    BY <1>1, <1>4, <1>6, <2>2, WorkerPairs DEF WorkIsFresh, Codes
  <2>. QED
    BY <2>1, <2>2 DEF WorkIsFresh
<1>14. DoneIsEntered'
  <2>1. ASSUME NEW u \in Refreshes \ {t}
        PROVE  ~ (alone[u] /\ phase'[u] = "all")
    BY <1>1, <1>2, <1>3 DEF AloneIsAlone, Busy, InProgress
  <2>2. \A p \in Pairs : work'[<<t, p[1]>>].step # "done"
    BY <1>4, <1>6, WorkerPairs
  <2>. QED
    BY <2>1, <2>2 DEF DoneIsEntered
<1>. QED
  BY <1>8, <1>9, <1>11, <1>12, <1>13, <1>14 DEF IInv

LEMMA WriteHashInv ==
  ASSUME IInv, NEW w \in Workers, WriteHash(w)
  PROVE  IInv'
<1>1. work[w].step = "writing" /\ UNCHANGED <<api, mode, supported, visited, update, started, alone>>
  BY DEF WriteHash, history
<1>2. w[1] \in Refreshes /\ w[2] \in Codes /\ w = <<w[1], w[2]>>
  BY WorkerPairs
<1>3. CASE w[2] = First /\ UNCHANGED faults /\ table' = Collected(w)
             /\ work' = [v \in Workers |->
                          IF v[1] # w[1] THEN work[v]
                          ELSE IF v[2] \in Fetched(w[1]) THEN [Idle EXCEPT !.step = "fetching"]
                          ELSE [Idle EXCEPT !.step = "done"]]
             /\ Enter(w[1], "all")
  <2>1. w = <<w[1], First>>
    BY <1>2, <1>3
  <2>. QED
    BY <1>1, <1>2, <1>3, <2>1, WriteFirstInv
<1>4. CASE w[2] # First /\ UNCHANGED <<faults, phase>> /\ table' = Collected(w)
             /\ work' = [work EXCEPT ![w] = [Idle EXCEPT !.step = "done"]]
  BY <1>1, <1>4, WriteCodeInv
<1>5. CASE Fault /\ table' \in {table, Collected(w)} /\ Enter(w[1], "failed")
             /\ work' = [work EXCEPT ![w] = [Idle EXCEPT !.step = "failed"]]
  BY <1>1, <1>5, WriteFailsInv
<1>. QED
  BY <1>3, <1>4, <1>5 DEF WriteHash

\* A refresh fails or is done; it may have added supported currencies.
LEMMA RefreshEnds ==
  ASSUME IInv, NEW t \in Refreshes, NEW e \in {"failed", "done"},
         phase' = [phase EXCEPT ![t] = e],
         supported' \subseteq Currencies, supported \subseteq supported',
         faults' \in 0 .. MaxFaults,
         UNCHANGED <<api, mode, table, visited, work, update, started, alone>>
  PROVE  IInv'
<1>1. /\ Typed /\ Served /\ DownIsIdle /\ WorkersWait /\ SupportedStored /\ AloneIsAlone
      /\ WorkIsFresh /\ DoneIsEntered
  BY DEF IInv
<1>2. phase' \in [Refreshes -> Phases] /\ phase'[t] = e
      /\ \A u \in Refreshes \ {t} : phase'[u] = phase[u]
  BY <1>1 DEF Typed, Phases
<1>3. \A u \in Refreshes, s \in {"fetching", "storing", "first", "all"} :
        phase'[u] = s => phase[u] = s
  BY <1>2
<1>4. \A v : Alive(v)' <=> Alive(v)
  BY DEF Alive
<1>5. \A u \in Refreshes : Busy(u)' => Busy(u)
  BY <1>3, <1>4 DEF Busy, InProgress
<1>6. Typed' /\ Served'
  BY <1>1, <1>2 DEF Typed, Served
<1>7. DownIsIdle' /\ AloneIsAlone'
  BY <1>1, <1>5 DEF DownIsIdle, AloneIsAlone
<1>8. WorkersWait' /\ SupportedStored'
  BY <1>1, <1>3, <1>4 DEF WorkersWait, SupportedStored
<1>9. WorkIsFresh' /\ DoneIsEntered'
  BY <1>1, <1>3 DEF WorkIsFresh, DoneIsEntered
<1>. QED
  BY <1>6, <1>7, <1>8, <1>9 DEF IInv

LEMMA FetchBaseInv ==
  ASSUME IInv, NEW t \in Refreshes, FetchBase(t)
  PROVE  IInv'
<1>1. /\ Typed /\ Served /\ DownIsIdle /\ WorkersWait /\ SupportedStored /\ AloneIsAlone
      /\ WorkIsFresh /\ DoneIsEntered
  BY DEF IInv
<1>2. phase[t] = "fetching"
      /\ UNCHANGED <<api, mode, supported, table, visited, update, started, alone>>
  BY DEF FetchBase, redis, history
<1> DEFINE w == <<t, First>>
           x == [work[w] EXCEPT !.quote = api]
<1>3. w \in Workers /\ \A c \in Codes : <<t, c>> \in Workers
  BY WorkerPairs
<1>4. x \in WorkRecords /\ x.quote = api /\ x.step = work[w].step /\ x.reverse = work[w].reverse
  BY <1>1, <1>3 DEF Typed, WorkRecords
<1>5. CASE work' = [work EXCEPT ![w] = x] /\ Enter(t, "storing") /\ UNCHANGED faults
  <2>1. work' = [work EXCEPT ![w] = x]
    BY <1>5
  <2> HIDE DEF x, w
  <2>2. /\ work' \in [Workers -> WorkRecords]
        /\ work'[w] = x
        /\ \A v \in Workers \ {w} : work'[v] = work[v]
        /\ \A v \in Workers : work'[v].step = work[v].step
    BY <1>1, <1>3, <1>4, <2>1 DEF Typed
  <2>3. /\ phase' \in [Refreshes -> Phases] /\ phase'[t] = "storing"
        /\ \A u \in Refreshes \ {t} : phase'[u] = phase[u]
    BY <1>1, <1>5 DEF Enter, Typed, Phases
  <2>4. \A v \in Workers : Alive(v)' <=> Alive(v)
    BY <2>2 DEF Alive
  <2>5. \A u \in Refreshes : Busy(u)' => Busy(u)
    BY <1>2, <2>3, <2>4, WorkerPairs DEF Busy, InProgress
  <2>6. Typed'
    BY <1>1, <1>2, <1>5, <2>2, <2>3 DEF Typed
  <2>7. Served'
    <3>1. NotAfter(x, api)
      BY <1>1, <1>3, <1>4, ApiNat DEF Served, NotAfter
    <3>2. \A v \in Workers : NotAfter(work'[v], api)
      BY <1>1, <2>2, <3>1 DEF Served
    <3>. QED
      BY <1>1, <1>2, <3>2 DEF Served, NotAfter
  <2>8. DownIsIdle' /\ AloneIsAlone'
    BY <1>1, <1>2, <2>5 DEF DownIsIdle, AloneIsAlone
  <2>9. WorkersWait' /\ SupportedStored'
    BY <1>1, <1>2, <2>3, <2>4, WorkerPairs DEF WorkersWait, SupportedStored
  <2>10. WorkIsFresh'
    <3>1. x.quote >= started[t]
      BY <1>1, <1>4, ApiNat DEF Served
    <3>2. \A c \in Codes : ~ Collecting(work'[<<t, c>>])
      BY <1>1, <1>2, <1>3, <2>2 DEF WorkersWait, Alive, Collecting
    <3>3. ASSUME NEW u \in Refreshes \ {t}, NEW c \in Codes
          PROVE  work'[<<u, c>>] = work[<<u, c>>]
      BY <2>2, WorkerPairs DEF w
    <3>4. work'[<<t, First>>].quote >= started[t]
      BY <2>2, <3>1 DEF w
    <3>. QED
      BY <1>1, <1>2, <2>3, <3>2, <3>3, <3>4, WorkerPairs DEF WorkIsFresh
  <2>11. DoneIsEntered'
    <3>1. \A p \in Pairs, u \in Refreshes : <<u, p[1]>> \in Workers
      BY WorkerPairs
    <3>2. \A u \in Refreshes : phase'[u] = "all" => phase[u] = "all"
      BY <2>3
    <3>. QED
      BY <1>1, <1>2, <2>2, <3>1, <3>2 DEF DoneIsEntered
  <2>. QED
    BY <2>6, <2>7, <2>8, <2>9, <2>10, <2>11 DEF IInv
<1>6. CASE Fault /\ Enter(t, "failed") /\ UNCHANGED work
  <2>1. faults' \in 0 .. MaxFaults /\ supported' \subseteq Currencies
    BY <1>1, <1>2, <1>6, Counted DEF Typed
  <2>. QED
    BY <1>2, <1>6, <2>1, RefreshEnds DEF Enter
<1>. QED
  BY <1>5, <1>6 DEF FetchBase

LEMMA StoreSupportedInv ==
  ASSUME IInv, NEW t \in Refreshes, StoreSupported(t)
  PROVE  IInv'
<1>1. /\ Typed /\ Served /\ DownIsIdle /\ WorkersWait /\ SupportedStored /\ AloneIsAlone
      /\ WorkIsFresh /\ DoneIsEntered
  BY DEF IInv
<1>2. phase[t] = "storing" /\ UNCHANGED <<api, mode, table, update, started, alone>>
  BY DEF StoreSupported, history
<1> DEFINE w == <<t, First>>
<1>3. w \in Workers /\ \A c \in Codes : <<t, c>> \in Workers
  BY WorkerPairs
<1>4. CASE supported' = Currencies /\ StartLoop(w, work[w].quote) /\ Enter(t, "first")
           /\ UNCHANGED faults
  <2>1. work[w].quote \in Versions /\ work[w].quote >= started[t] /\ work[w].quote <= api
    BY <1>1, <1>2, <1>3 DEF Typed, WorkRecords, WorkIsFresh, Served, NotAfter
  <2>2. Loops(w, work[w].quote, NoReverse) /\ visited' \in [Refreshes -> SUBSET Currencies]
    BY <1>1, <1>3, <1>4, <2>1, LoopStarts
  <2>3. PICK x \in WorkRecords : /\ work' = [work EXCEPT ![w] = x]
                                 /\ x.step \in {"reversing", "writing"}
                                 /\ x.quote = work[w].quote
                                 /\ x.reverse = NoReverse
    BY <2>2 DEF Loops
  <2> HIDE DEF w
  <2>4. /\ work' \in [Workers -> WorkRecords]
        /\ work'[w] = x
        /\ \A v \in Workers \ {w} : work'[v] = work[v]
    BY <1>1, <1>3, <2>3 DEF Typed
  <2>5. /\ phase' \in [Refreshes -> Phases] /\ phase'[t] = "first"
        /\ \A u \in Refreshes \ {t} : phase'[u] = phase[u]
    BY <1>1, <1>4 DEF Enter, Typed, Phases
  <2>6. \A u \in Refreshes \ {t}, c \in Codes : work'[<<u, c>>] = work[<<u, c>>]
    BY <2>4, WorkerPairs DEF w
  <2>7. \A u \in Refreshes \ {t}, c \in Codes : Alive(<<u, c>>)' <=> Alive(<<u, c>>)
    BY <2>6 DEF Alive
  <2>8. \A u \in Refreshes : Busy(u)' => Busy(u)
    BY <1>2, <2>5, <2>7 DEF Busy, InProgress
  <2>9. Typed'
    BY <1>1, <1>2, <1>4, <2>2, <2>4, <2>5 DEF Typed
  <2>10. Served'
    <3>1. NotAfter(x, api)
      BY <1>1, <2>1, <2>3, ApiNat DEF NotAfter, NoReverse
    <3>2. \A v \in Workers : NotAfter(work'[v], api)
      BY <1>1, <2>4, <3>1 DEF Served
    <3>. QED
      BY <1>1, <1>2, <3>2 DEF Served, NotAfter
  <2>11. DownIsIdle' /\ AloneIsAlone'
    <3>1. mode' = mode
      BY DEF StoreSupported
    <3>. QED
      BY <1>1, <1>2, <2>8, <3>1 DEF DownIsIdle, AloneIsAlone
  <2>12. WorkersWait' /\ SupportedStored'
    BY <1>1, <1>4, <2>5, <2>7 DEF WorkersWait, SupportedStored
  <2>13. WorkIsFresh'
    <3>1. NotBefore(x, started[t])
      BY <2>1, <2>3 DEF NotBefore, NoReverse
    <3>2. \A c \in Codes : <<t, c>> # w => work'[<<t, c>>] = work[<<t, c>>]
      BY <1>3, <2>4
    <3>3. ASSUME NEW c \in Codes, Collecting(work'[<<t, c>>])
          PROVE  NotBefore(work'[<<t, c>>], started[t])
      BY <1>1, <1>2, <2>4, <3>1, <3>2, <3>3 DEF WorkIsFresh
    <3>. QED
      BY <1>1, <1>2, <2>5, <2>6, <3>3, WorkerPairs DEF WorkIsFresh
  <2>14. DoneIsEntered'
    <3>1. \A u \in Refreshes : phase'[u] = "all" => phase[u] = "all" /\ u # t
      BY <2>5
    <3>. QED
      BY <1>1, <1>2, <2>6, <3>1, WorkerPairs DEF DoneIsEntered
  <2>. QED
    BY <2>9, <2>10, <2>11, <2>12, <2>13, <2>14 DEF IInv
<1>5. CASE /\ Fault
           /\ \E S \in SUBSET Currencies : supported' = supported \cup S
           /\ Enter(t, "failed")
           /\ UNCHANGED <<visited, work>>
  <2>1. faults' \in 0 .. MaxFaults /\ supported' \subseteq Currencies
        /\ supported \subseteq supported'
    BY <1>1, <1>5, Counted DEF Typed
  <2>2. mode' = mode
    BY DEF StoreSupported
  <2>. QED
    BY <1>2, <1>5, <2>1, <2>2, RefreshEnds DEF Enter
<1>. QED
  BY <1>4, <1>5 DEF StoreSupported

LEMMA FinishInv ==
  ASSUME IInv, NEW t \in Refreshes, Finish(t)
  PROVE  IInv'
<1>1. Typed
  BY DEF IInv
<1>. QED
  BY <1>1, RefreshEnds DEF Finish, Enter, redis, history, Typed

\* A refresh begins.  It is alone if nothing is in flight, and those that are in flight are
\* no longer alone.
LEMMA BeginInv ==
  ASSUME IInv, NEW t \in Refreshes, Begin(t), mode' \in {"starting", "running"},
         UNCHANGED faults
  PROVE  IInv'
<1>1. /\ Typed /\ Served /\ DownIsIdle /\ WorkersWait /\ SupportedStored /\ AloneIsAlone
      /\ WorkIsFresh /\ DoneIsEntered
  BY DEF IInv
<1>2. ~ Busy(t) /\ UNCHANGED <<api, supported, table, update>>
  BY DEF Begin
<1>3. /\ phase' \in [Refreshes -> Phases] /\ phase'[t] = "fetching"
      /\ \A u \in Refreshes \ {t} : phase'[u] = phase[u]
  BY <1>1 DEF Begin, Enter, Typed, Phases
<1>4. /\ work' \in [Workers -> WorkRecords]
      /\ \A v \in Workers : work'[v] \in {work[v], Idle}
  BY <1>1, IdleType DEF Begin, Typed
<1>5. /\ \A u \in Refreshes \ {t}, c \in Codes : work'[<<u, c>>] = work[<<u, c>>]
      /\ \A c \in Codes : work'[<<t, c>>] = Idle
  <2>1. ASSUME NEW u \in Refreshes, NEW c \in Codes
        PROVE  work'[<<u, c>>] = IF u = t THEN Idle ELSE work[<<u, c>>]
    <3>1. <<u, c>> \in Workers /\ <<u, c>>[1] = u
      BY WorkerPairs
    <3>. QED
      BY <3>1 DEF Begin
  <2>. QED
    BY <2>1
<1>6. /\ started' \in [Refreshes -> Versions]
      /\ \A u \in Refreshes : started'[u] \in {0, api, started[u]} /\ started'[u] <= api
      /\ \A u \in Refreshes \ {t} : started'[u] \in {0, started[u]}
  <2>1. /\ started \in [Refreshes -> Versions] /\ api \in Versions /\ 0 \in Versions
        /\ \A u \in Refreshes : started[u] <= api
    BY <1>1, ConstantsAssumption DEF Typed, Served, Versions
  <2>2. started' = [u \in Refreshes |->
                     IF ~ alone'[u] THEN 0 ELSE IF u = t THEN api ELSE started[u]]
    BY DEF Begin
  <2>. QED
    BY <1>1, <2>1, <2>2, ApiNat
<1>7. /\ alone' \in [Refreshes -> BOOLEAN]
      /\ alone'[t] => update = None /\ \A u \in Refreshes \ {t} : ~ Busy(u)
      /\ \A u \in Refreshes \ {t} : alone'[u] => ~ Busy(u)
  <2>1. alone' = [u \in Refreshes |->
                   IF u = t THEN update = None /\ \A s \in Refreshes \ {t} : ~ Busy(s)
                            ELSE alone[u] /\ ~ Busy(u)]
    BY DEF Begin
  <2> DEFINE quiet == update = None /\ \A s \in Refreshes \ {t} : ~ Busy(s)
  <2>2. \A u \in Refreshes : alone'[u] = (IF u = t THEN quiet ELSE alone[u] /\ ~ Busy(u))
    BY <2>1
  <2>3. quiet \in BOOLEAN /\ \A u \in Refreshes : (alone[u] /\ ~ Busy(u)) \in BOOLEAN
    OBVIOUS
  <2>4. alone' \in [Refreshes -> BOOLEAN]
    <3> DEFINE A(u) == IF u = t THEN quiet ELSE alone[u] /\ ~ Busy(u)
    <3>1. \A u \in Refreshes : A(u) \in BOOLEAN
      BY <2>3
    <3>2. alone' = [u \in Refreshes |-> A(u)]
      BY <2>1
    <3> HIDE DEF A
    <3>. QED
      BY <3>1, <3>2
  <2>5. alone'[t] = quiet
    BY <2>2
  <2>6. \A u \in Refreshes \ {t} : alone'[u] = (alone[u] /\ ~ Busy(u))
    BY <2>2
  <2>. QED
    BY <2>4, <2>5, <2>6, Zenon
<1>8. \A u \in Refreshes \ {t}, c \in Codes : Alive(<<u, c>>)' <=> Alive(<<u, c>>)
  BY <1>5 DEF Alive
<1>9. \A u \in Refreshes \ {t} : Busy(u)' <=> Busy(u)
  BY <1>3, <1>8 DEF Busy, InProgress
<1>10. \A c \in Codes : ~ Alive(<<t, c>>)' /\ ~ Collecting(work'[<<t, c>>])
  BY <1>5, IdleType DEF Alive, Collecting
<1>11. Typed'
  <2>1. visited' \in [Refreshes -> SUBSET Currencies]
    BY <1>1 DEF Begin, Typed
  <2>. QED
    BY <1>1, <1>2, <1>3, <1>4, <1>6, <1>7, <2>1 DEF Typed
<1>12. Served'
  <2>1. NotAfter(Idle, api)
    BY <1>1, IdleType, ApiNat DEF NotAfter, NoReverse
  <2>2. \A v \in Workers : NotAfter(work'[v], api)
    BY <1>1, <1>4, <2>1 DEF Served
  <2>3. \A u \in Refreshes : started'[u] <= api
    BY <1>6
  <2>. QED
    BY <1>1, <1>2, <2>2, <2>3 DEF Served, NotAfter
<1>13. DownIsIdle'
  BY DEF DownIsIdle
<1>14. WorkersWait' /\ SupportedStored'
  BY <1>1, <1>2, <1>3, <1>8, <1>10, WorkerPairs DEF WorkersWait, SupportedStored
<1>15. AloneIsAlone'
  BY <1>2, <1>7, <1>9 DEF AloneIsAlone
<1>16. WorkIsFresh'
  <2>1. ASSUME NEW u \in Refreshes \ {t}, NEW c \in Codes,
               NotBefore(work[<<u, c>>], started[u])
        PROVE  NotBefore(work'[<<u, c>>], started'[u])
    <3>1. work[<<u, c>>] \in WorkRecords /\ work'[<<u, c>>] = work[<<u, c>>]
      BY <1>1, <1>5, WorkerPairs DEF Typed
    <3>. QED
      BY <1>6, <2>1, <3>1, NotBeforeZero
  <2>2. ASSUME NEW u \in Refreshes, phase'[u] = "storing"
        PROVE  work'[<<u, First>>].quote >= started'[u]
    <3>1. u # t /\ phase[u] = "storing"
      BY <1>3, <2>2
    <3>2. /\ work[<<u, First>>] \in WorkRecords
          /\ work'[<<u, First>>] = work[<<u, First>>]
      BY <1>1, <1>5, <3>1, WorkerPairs DEF Typed
    <3>3. work[<<u, First>>].quote >= started[u] /\ work[<<u, First>>].quote >= 0
      BY <1>1, <3>1, <3>2, NotBeforeZero DEF WorkIsFresh, NotBefore
    <3>. QED
      BY <1>6, <3>1, <3>2, <3>3
  <2>3. ASSUME NEW u \in Refreshes, NEW c \in Codes, Collecting(work'[<<u, c>>])
        PROVE  NotBefore(work'[<<u, c>>], started'[u])
    <3>1. u # t
      BY <1>10, <2>3
    <3>2. Collecting(work[<<u, c>>])
      BY <1>5, <2>3, <3>1
    <3>. QED
      BY <1>1, <2>1, <3>1, <3>2 DEF WorkIsFresh
  <2>. QED
    BY <2>2, <2>3 DEF WorkIsFresh
<1>17. DoneIsEntered'
  BY <1>3, <1>7, <1>9 DEF DoneIsEntered, Busy, InProgress
<1>. QED
  BY <1>11, <1>12, <1>13, <1>14, <1>15, <1>16, <1>17 DEF IInv

LEMMA FetchUpdateInv ==
  ASSUME IInv, NEW p \in Updated, FetchUpdate(p)
  PROVE  IInv'
<1>1. /\ Typed /\ Served /\ DownIsIdle /\ WorkersWait /\ SupportedStored /\ AloneIsAlone
      /\ WorkIsFresh /\ DoneIsEntered
  BY DEF IInv
<1>2. /\ mode = "running" /\ update' = [from |-> p[1], to |-> p[2], version |-> api]
      /\ alone' = [t \in Refreshes |-> FALSE]
      /\ started' = [t \in Refreshes |-> 0]
      /\ UNCHANGED <<api, mode, supported, table, phase, visited, work>>
      /\ Fault
  BY DEF FetchUpdate, redis
<1>3. p[1] \in Codes /\ p[2] \in Codes
  BY ConstantsAssumption, WorkerPairs
<1>4. /\ alone' \in [Refreshes -> BOOLEAN] /\ \A t \in Refreshes : ~ alone'[t]
      /\ update' \in [from : Codes, to : Codes, version : Versions] /\ update'.version = api
  BY <1>1, <1>2, <1>3 DEF Typed
<1>5. started' \in [Refreshes -> Versions] /\ \A t \in Refreshes : started'[t] = 0
  BY <1>2, ConstantsAssumption DEF Versions
<1>6. Typed'
  <2>1. faults' \in 0 .. MaxFaults
    BY <1>1, <1>2, Counted
  <2>. QED
    BY <1>1, <1>2, <1>4, <1>5, <2>1 DEF Typed
<1>7. Served'
  BY <1>1, <1>2, <1>4, <1>5, ApiNat DEF Served, NotAfter
<1>8. DownIsIdle' /\ AloneIsAlone' /\ DoneIsEntered'
  BY <1>2, <1>4 DEF DownIsIdle, AloneIsAlone, DoneIsEntered
<1>9. WorkersWait' /\ SupportedStored'
  BY <1>1, <1>2 DEF WorkersWait, SupportedStored, Alive
<1>10. WorkIsFresh'
  <2>1. \A t \in Refreshes, c \in Codes : NotBefore(work'[<<t, c>>], 0)
    BY <1>1, <1>2, WorkerPairs, NotBeforeZero DEF Typed
  <2>2. \A t \in Refreshes : work'[<<t, First>>].quote >= 0
    BY <2>1, WorkerPairs DEF NotBefore
  <2>. QED
    BY <1>5, <2>1, <2>2 DEF WorkIsFresh
<1>. QED
  BY <1>6, <1>7, <1>8, <1>9, <1>10 DEF IInv

LEMMA WriteUpdateInv ==
  ASSUME IInv, WriteUpdate
  PROVE  IInv'
<1>1. /\ Typed /\ Served /\ DownIsIdle /\ WorkersWait /\ SupportedStored /\ AloneIsAlone
      /\ WorkIsFresh /\ DoneIsEntered
  BY DEF IInv
<1>2. /\ update # None /\ update' = None
      /\ UNCHANGED <<api, mode, supported, phase, visited, work, started, alone, faults>>
      /\ table' \in {table, [table EXCEPT ![<<update.from, update.to>>] = update.version]}
  BY DEF WriteUpdate, history
<1>3. /\ update.version \in Versions /\ update.version <= api
      /\ table \in [Pairs -> Versions] /\ \A p \in Pairs : table[p] <= api
  BY <1>1 DEF Typed, Served
<1>4. table' \in [Pairs -> Versions] /\ \A p \in Pairs : table'[p] <= api
  BY <1>2, <1>3
<1>5. None \in [from : Codes, to : Codes, version : Versions] /\ None.version = 0
  BY ConstantsAssumption DEF None, Codes, Versions
<1>6. Typed'
  BY <1>1, <1>2, <1>4, <1>5 DEF Typed
<1>7. Served'
  BY <1>1, <1>2, <1>4, <1>5, ApiNat DEF Served, NotAfter
<1>8. \A t \in Refreshes : ~ (alone[t] /\ Busy(t))
  BY <1>1, <1>2 DEF AloneIsAlone
<1>9. \A t \in Refreshes : Busy(t)' <=> Busy(t)
  BY <1>2 DEF Busy, InProgress, Alive
<1>10. DownIsIdle' /\ AloneIsAlone'
  BY <1>1, <1>2, <1>8, <1>9 DEF DownIsIdle, AloneIsAlone
<1>11. DoneIsEntered'
  BY <1>2, <1>8 DEF DoneIsEntered, Busy, InProgress
<1>12. WorkersWait' /\ SupportedStored' /\ WorkIsFresh'
  BY <1>1, <1>2 DEF WorkersWait, SupportedStored, WorkIsFresh, Alive
<1>. QED
  BY <1>6, <1>7, <1>10, <1>11, <1>12 DEF IInv

LEMMA CrashInv ==
  ASSUME IInv, Crash
  PROVE  IInv'
<1>1. Typed /\ Served
  BY DEF IInv
<1>2. /\ mode' = "down" /\ update' = None
      /\ phase' = [t \in Refreshes |-> "idle"] /\ work' = [w \in Workers |-> Idle]
      /\ UNCHANGED <<api, supported, table, visited, started, alone>>
  BY DEF Crash, redis, history
<1>3. /\ \A t \in Refreshes : phase'[t] = "idle"
      /\ \A v \in Workers : work'[v] = Idle
      /\ \A t \in Refreshes, c \in Codes : work'[<<t, c>>] = Idle
  BY <1>2, WorkerPairs
<1>4. \A t \in Refreshes, c \in Codes : ~ Alive(<<t, c>>)' /\ ~ Collecting(work'[<<t, c>>])
  BY <1>3, IdleType DEF Alive, Collecting
<1>5. \A t \in Refreshes : ~ Busy(t)'
  BY <1>3, <1>4 DEF Busy, InProgress
<1>6. None \in [from : Codes, to : Codes, version : Versions] /\ None.version = 0
  BY ConstantsAssumption DEF None, Codes, Versions
<1>7. Typed'
  <2>1. faults' \in 0 .. MaxFaults
    BY <1>1, Counted DEF Crash
  <2>2. phase' \in [Refreshes -> Phases] /\ work' \in [Workers -> WorkRecords]
    BY <1>2, IdleType DEF Phases
  <2>. QED
    BY <1>1, <1>2, <1>6, <2>1, <2>2 DEF Typed
<1>8. Served'
  <2>1. NotAfter(Idle, api)
    BY <1>1, IdleType, ApiNat DEF NotAfter, NoReverse
  <2>. QED
    BY <1>1, <1>2, <1>3, <1>6, <2>1, ApiNat DEF Served, NotAfter
<1>9. DownIsIdle' /\ AloneIsAlone'
  BY <1>2, <1>5 DEF DownIsIdle, AloneIsAlone
<1>10. WorkersWait' /\ SupportedStored' /\ WorkIsFresh' /\ DoneIsEntered'
  BY <1>3, <1>4, WorkerPairs DEF WorkersWait, SupportedStored, WorkIsFresh, DoneIsEntered
<1>. QED
  BY <1>7, <1>8, <1>9, <1>10 DEF IInv

LEMMA NewVersionInv ==
  ASSUME IInv, NewVersion
  PROVE  IInv'
<1>1. /\ Typed /\ Served /\ DownIsIdle /\ WorkersWait /\ SupportedStored /\ AloneIsAlone
      /\ WorkIsFresh /\ DoneIsEntered
  BY DEF IInv
<1>2. /\ api < MaxVersion /\ api' = api + 1
      /\ UNCHANGED <<mode, supported, table, phase, visited, work, update, started, alone, faults>>
  BY DEF NewVersion, redis, tasks, history
<1>3. api' \in Versions \ {0} /\ \A n \in Versions : n <= api => n <= api'
  BY <1>1, <1>2, ConstantsAssumption DEF Typed, Versions
<1>4. Typed'
  BY <1>1, <1>2, <1>3 DEF Typed
<1>5. Served'
  <2>1. ASSUME NEW v \in Workers
        PROVE  NotAfter(work[v], api')
    <3>1. /\ work[v].quote \in Versions
          /\ \A c \in Currencies : work[v].reverse[c] \in Versions
      BY <1>1 DEF Typed, WorkRecords
    <3>. QED
      BY <1>1, <1>3, <3>1 DEF Served, NotAfter
  <2>2. /\ \A p \in Pairs : table[p] \in Versions
        /\ \A t \in Refreshes : started[t] \in Versions
        /\ update.version \in Versions
    BY <1>1 DEF Typed
  <2>. QED
    BY <1>1, <1>2, <1>3, <2>1, <2>2 DEF Served, NotAfter
<1>6. \A t \in Refreshes : Busy(t)' <=> Busy(t)
  BY <1>2 DEF Busy, InProgress, Alive
<1>7. DownIsIdle' /\ AloneIsAlone'
  BY <1>1, <1>2, <1>6 DEF DownIsIdle, AloneIsAlone
<1>8. WorkersWait' /\ SupportedStored' /\ WorkIsFresh' /\ DoneIsEntered'
  BY <1>1, <1>2 DEF WorkersWait, SupportedStored, WorkIsFresh, DoneIsEntered, Alive
<1>. QED
  BY <1>4, <1>5, <1>7, <1>8 DEF IInv

\* The process goes up, or nothing happens.
LEMMA UpInv ==
  ASSUME IInv, mode' = "running" \/ UNCHANGED mode,
         UNCHANGED <<api, supported, table, phase, visited, work, update, started, alone, faults>>
  PROVE  IInv'
<1>1. /\ Typed /\ Served /\ DownIsIdle /\ WorkersWait /\ SupportedStored /\ AloneIsAlone
      /\ WorkIsFresh /\ DoneIsEntered
  BY DEF IInv
<1>2. Typed' /\ Served'
  BY <1>1 DEF Typed, Served
<1>3. \A t \in Refreshes : Busy(t)' <=> Busy(t)
  BY DEF Busy, InProgress, Alive
<1>4. DownIsIdle' /\ AloneIsAlone'
  BY <1>1, <1>3 DEF DownIsIdle, AloneIsAlone
<1>5. WorkersWait' /\ SupportedStored' /\ WorkIsFresh' /\ DoneIsEntered'
  BY <1>1 DEF WorkersWait, SupportedStored, WorkIsFresh, DoneIsEntered, Alive
<1>. QED
  BY <1>2, <1>4, <1>5 DEF IInv

LEMMA StartInv ==
  ASSUME IInv, Start
  PROVE  IInv'
<1>1. UNCHANGED faults
  BY DEF Start
<1>2. CASE mode' = "starting" /\ \E t \in Refreshes : Begin(t)
  BY <1>1, <1>2, BeginInv
<1>3. CASE mode' = "running" /\ UNCHANGED <<api, redis, tasks, history>>
  BY <1>1, <1>3, UpInv DEF redis, tasks, history
<1>. QED
  BY <1>2, <1>3 DEF Start

-----------------------------------------------------------------------------

LEMMA InitInv == Init => IInv
<1> SUFFICES ASSUME Init PROVE IInv
  OBVIOUS
<1>1. /\ \A t \in Refreshes : phase[t] = "idle" /\ ~ alone[t] /\ started[t] = 0
      /\ \A v \in Workers : work[v] = Idle
      /\ \A t \in Refreshes, c \in Codes : work[<<t, c>>] = Idle
  BY WorkerPairs DEF Init
<1>2. \A t \in Refreshes, c \in Codes : ~ Alive(<<t, c>>) /\ ~ Collecting(work[<<t, c>>])
  BY <1>1, IdleType DEF Alive, Collecting
<1>3. \A t \in Refreshes : ~ Busy(t)
  BY <1>1, <1>2 DEF Busy, InProgress
<1>4. None \in [from : Codes, to : Codes, version : Versions] /\ None.version = 0
  BY ConstantsAssumption DEF None, Codes, Versions
<1>5. Typed
  BY <1>4, IdleType, ConstantsAssumption DEF Init, Typed, Versions, Phases
<1>6. Served
  BY <1>1, <1>4, IdleType DEF Init, Served, NotAfter, NoReverse
<1>7. DownIsIdle /\ AloneIsAlone
  BY <1>3 DEF Init, DownIsIdle, AloneIsAlone
<1>8. WorkersWait /\ SupportedStored /\ WorkIsFresh /\ DoneIsEntered
  BY <1>1, <1>2, WorkerPairs DEF WorkersWait, SupportedStored, WorkIsFresh, DoneIsEntered
<1>. QED
  BY <1>5, <1>6, <1>7, <1>8 DEF IInv

LEMMA NextInv == IInv /\ [Next]_vars => IInv'
<1> SUFFICES ASSUME IInv, [Next]_vars PROVE IInv'
  OBVIOUS
<1>1. ASSUME NEW t \in Refreshes, Advance(t)
      PROVE  IInv'
  BY <1>1, FetchBaseInv, StoreSupportedInv, FinishInv DEF Advance
<1>2. ASSUME NEW t \in Refreshes, RefreshExchangeRateCron(t)
      PROVE  IInv'
  BY <1>2, BeginInv DEF RefreshExchangeRateCron
<1>3. ASSUME NEW w \in Workers, Work(w)
      PROVE  IInv'
  BY <1>3, FetchCodeInv, FetchReverseInv, WriteHashInv DEF Work
<1>4. ASSUME NEW p \in Updated, FetchUpdate(p)
      PROVE  IInv'
  BY <1>4, FetchUpdateInv
<1>5. CASE WriteUpdate
  BY <1>5, WriteUpdateInv
<1>6. CASE Start
  BY <1>6, StartInv
<1>7. CASE InitEnds
  BY <1>7, UpInv DEF InitEnds, redis, tasks, history
<1>8. CASE Crash
  BY <1>8, CrashInv
<1>9. CASE NewVersion
  BY <1>9, NewVersionInv
<1>10. CASE UNCHANGED vars
  BY <1>10, UpInv DEF vars
<1>. QED
  BY <1>1, <1>2, <1>3, <1>4, <1>5, <1>6, <1>7, <1>8, <1>9, <1>10 DEF Next

\* The invariant that the theorems below rest on holds in every state.
THEOREM Invariance == Spec => []IInv
BY InitInv, NextInv, PTL DEF Spec

\* Types; no rate in Redis, and no refresh, is newer than what the API serves; and a process
\* that is down has no refresh and no update in flight.
THEOREM TypeCorrect == Spec => []TypeOK
<1>1. IInv => TypeOK
  <2> SUFFICES ASSUME IInv PROVE TypeOK
    OBVIOUS
  <2>1. Typed /\ Served /\ DownIsIdle
    BY DEF IInv
  <2>2. api \in Nat
    BY <2>1, ApiNat
  <2>3. \A n \in Versions : n <= api => n \in 0 .. api
    BY <2>2 DEF Versions
  <2>4. table \in [Pairs -> 0 .. api] /\ started \in [Refreshes -> 0 .. api]
    BY <2>1, <2>3 DEF Typed, Served
  <2>5. WorkTyped
    BY <2>1 DEF WorkTyped, Typed, WorkRecords
  <2>. QED
    BY <2>1, <2>4, <2>5 DEF TypeOK, Typed, DownIsIdle
<1>. QED
  BY <1>1, Invariance, PTL

\* Only Finish ends a refresh without an error.
LEMMA OnlyFinish ==
  ASSUME Typed, [Next]_vars, NEW t \in Refreshes, phase[t] # "done", phase'[t] = "done"
  PROVE  Finish(t) /\ UNCHANGED <<supported, table>>
<1>1. phase \in [Refreshes -> Phases]
  BY DEF Typed
<1>2. ASSUME NEW u \in Refreshes, NEW s \in Phases \ {"done"}, Enter(u, s)
      PROVE  FALSE
  BY <1>1, <1>2 DEF Enter
<1>3. {"fetching", "storing", "first", "all", "failed"} \subseteq Phases \ {"done"}
  BY DEF Phases
<1>4. ~ UNCHANGED phase
  OBVIOUS
<1>5. PICK u \in Refreshes : Finish(u)
  <2>1. ASSUME NEW u \in Refreshes
        PROVE  ~ FetchBase(u) /\ ~ StoreSupported(u) /\ ~ Begin(u)
    BY <1>2, <1>3 DEF FetchBase, StoreSupported, Begin
  <2>2. ASSUME NEW w \in Workers
        PROVE  ~ Work(w)
    <3>1. w[1] \in Refreshes
      BY WorkerPairs
    <3>. QED
      BY <1>2, <1>3, <1>4, <3>1 DEF Work, FetchCode, FetchReverse, WriteHash
  <2>3. ~ WriteUpdate /\ ~ InitEnds /\ ~ NewVersion /\ \A p \in Updated : ~ FetchUpdate(p)
    BY <1>4 DEF WriteUpdate, InitEnds, NewVersion, FetchUpdate, tasks
  <2>4. ~ Crash
    BY DEF Crash
  <2>5. ~ Start
    BY <1>4, <2>1 DEF Start, tasks
  <2>6. ~ UNCHANGED vars
    BY <1>4 DEF vars
  <2>7. \A u \in Refreshes : ~ RefreshExchangeRateCron(u)
    BY <2>1 DEF RefreshExchangeRateCron
  <2>. QED
    BY <2>1, <2>2, <2>3, <2>4, <2>5, <2>6, <2>7 DEF Next, Advance
<1>6. u = t
  BY <1>1, <1>5 DEF Finish, Enter
<1>. QED
  BY <1>5, <1>6 DEF Finish, redis

\* A refresh that ends without an error, and that no other refresh and no update overlapped,
\* leaves every currency supported and, for every pair of them, a rate that is no older than
\* its beginning, although the reverse fetches of its workers may have failed: each worker
\* enters the rates from its own currency itself, and no other writes them an older one.
THEOREM RefreshesComplete == Spec => RefreshIsComplete
<1>1. IInv /\ [Next]_vars =>
        [\A t \in Refreshes :
           phase[t] # "done" /\ phase'[t] = "done" /\ alone[t]
             => supported = Currencies /\ \A p \in Pairs : table[p] >= started[t]]_vars
  <2> SUFFICES ASSUME IInv, [Next]_vars, NEW t \in Refreshes,
                      phase[t] # "done", phase'[t] = "done", alone[t]
               PROVE  supported = Currencies /\ \A p \in Pairs : table[p] >= started[t]
    OBVIOUS
  <2>1. Typed /\ SupportedStored /\ DoneIsEntered
    BY DEF IInv
  <2>2. Finish(t)
    BY <2>1, OnlyFinish
  <2>3. phase[t] = "all" /\ \A c \in Codes : work[<<t, c>>].step = "done"
    BY <2>2 DEF Finish
  <2>4. \A p \in Pairs : p[1] \in Codes
    BY WorkerPairs
  <2>. QED
    BY <2>1, <2>3, <2>4 DEF SupportedStored, DoneIsEntered
<1>. QED
  BY <1>1, Invariance, PTL DEF Spec, RefreshIsComplete
=============================================================================
