--------------------------- MODULE StreamingProofs ---------------------------
(***************************************************************************)
(* Theorems about RateStreaming, for any clients, currency pairs, number   *)
(* of messages and of rates.                                               *)
(***************************************************************************)
EXTENDS RateStreaming, SequenceTheorems, FiniteSetTheorems, TLAPS

-----------------------------------------------------------------------------
(* What one more message does to what a client was sent. *)

Messages == [event : Events, pair : Pairs, rate : 0 .. MaxRate]

\* The inbox t is s with one more message.
Grows(s, t, m) ==
  /\ t \in Seq(Messages)
  /\ Len(t) = Len(s) + 1
  /\ t[Len(t)] = m
  /\ \A i \in 1 .. Len(s) : t[i] = s[i]

AnswersIn(s) == {i \in DOMAIN s : s[i].event \in Answers}

\* The last acknowledgement of p among the first n messages is that of a subscription.
Acks(m, p) == m.pair = p /\ m.event \in {"subscribed", "unsubscribed"}
Told(s, n, p) ==
  \E j \in 1 .. n : /\ s[j].pair = p
                    /\ s[j].event = "subscribed"
                    /\ \A i \in j + 1 .. n : ~ Acks(s[i], p)
UpdatesTold(s) ==
  \A i \in 1 .. Len(s) : s[i].event = "rate-update" => Told(s, i - 1, s[i].pair)

\* A rate of p no older than r was among what was sent.
Heard(s, p, r) ==
  \E i \in 1 .. Len(s) : /\ s[i].pair = p
                         /\ s[i].event \in {"current-rate", "rate-update"}
                         /\ s[i].rate >= r

LEMMA AppendGrows ==
  ASSUME NEW s \in Seq(Messages), NEW m \in Messages
  PROVE  Grows(s, s \o <<m>>, m)
<1>1. <<m>> \in Seq(Messages) /\ Len(<<m>>) = 1 /\ <<m>>[1] = m
  OBVIOUS
<1>2. Len(s) \in Nat
  BY LenProperties
<1>3. /\ s \o <<m>> \in Seq(Messages)
      /\ Len(s \o <<m>>) = Len(s) + 1
      /\ \A i \in 1 .. Len(s) + 1 :
           (s \o <<m>>)[i] = IF i <= Len(s) THEN s[i] ELSE <<m>>[i - Len(s)]
  BY <1>1, ConcatProperties
<1>. QED
  BY <1>1, <1>2, <1>3 DEF Grows

LEMMA AnswersFinite ==
  ASSUME NEW s \in Seq(Messages)
  PROVE  IsFiniteSet(AnswersIn(s)) /\ Cardinality(AnswersIn(s)) \in Nat
<1>1. DOMAIN s = 1 .. Len(s) /\ Len(s) \in Nat
  BY LenProperties
<1>2. IsFiniteSet(1 .. Len(s))
  BY <1>1, FS_Interval
<1>. QED
  BY <1>1, <1>2, FS_Subset, FS_CardinalityType DEF AnswersIn

LEMMA GrowsAnswers ==
  ASSUME NEW s \in Seq(Messages), NEW t, NEW m, Grows(s, t, m)
  PROVE  Cardinality(AnswersIn(t)) =
           Cardinality(AnswersIn(s)) + (IF m.event \in Answers THEN 1 ELSE 0)
<1>1. /\ DOMAIN s = 1 .. Len(s) /\ Len(s) \in Nat
      /\ DOMAIN t = 1 .. Len(t)
  BY LenProperties DEF Grows
<1>2. IsFiniteSet(AnswersIn(s)) /\ Cardinality(AnswersIn(s)) \in Nat
  BY AnswersFinite
<1>3. CASE m.event \in Answers
  <2>1. AnswersIn(t) = AnswersIn(s) \cup {Len(t)} /\ Len(t) \notin AnswersIn(s)
    BY <1>1, <1>3 DEF Grows, AnswersIn
  <2>. QED
    BY <1>2, <1>3, <2>1, FS_AddElement
<1>4. CASE m.event \notin Answers
  <2>1. AnswersIn(t) = AnswersIn(s)
    BY <1>1, <1>4 DEF Grows, AnswersIn
  <2>. QED
    BY <1>2, <1>4, <2>1
<1>. QED
  BY <1>3, <1>4

LEMMA GrowsTold ==
  ASSUME NEW s \in Seq(Messages), NEW t, NEW m, Grows(s, t, m), NEW p,
         \/ Told(s, Len(s), p) /\ ~ (m.pair = p /\ m.event = "unsubscribed")
         \/ m.pair = p /\ m.event = "subscribed"
  PROVE  Told(t, Len(t), p)
<1>1. Len(s) \in Nat
  BY LenProperties
<1>2. CASE m.pair = p /\ m.event = "subscribed"
  <2>1. Len(t) \in 1 .. Len(t) /\ Len(t) + 1 .. Len(t) = {}
    BY <1>1 DEF Grows
  <2>. QED
    BY <1>2, <2>1 DEF Grows, Told
<1>3. CASE Told(s, Len(s), p) /\ ~ Acks(m, p)
  BY <1>1, <1>3, SMTT(30) DEF Grows, Told
<1>. QED
  BY <1>2, <1>3 DEF Acks

LEMMA GrowsUpdatesTold ==
  ASSUME NEW s \in Seq(Messages), NEW t, NEW m, Grows(s, t, m), UpdatesTold(s),
         m.event = "rate-update" => Told(s, Len(s), m.pair)
  PROVE  UpdatesTold(t)
<1>1. Len(s) \in Nat
  BY LenProperties
<1>2. ASSUME NEW n \in 0 .. Len(s), NEW p, Told(s, n, p)
      PROVE  Told(t, n, p)
  BY <1>1, <1>2 DEF Grows, Told
<1>3. ASSUME NEW i \in 1 .. Len(t), t[i].event = "rate-update"
      PROVE  Told(t, i - 1, t[i].pair)
  <2>1. CASE i = Len(t)
    BY <1>1, <1>2, <1>3, <2>1 DEF Grows
  <2>2. CASE i # Len(t)
    <3>1. i \in 1 .. Len(s) /\ i - 1 \in 0 .. Len(s) /\ t[i] = s[i]
      BY <1>1, <2>2 DEF Grows
    <3>. QED
      BY <1>2, <1>3, <3>1 DEF UpdatesTold
  <2>. QED
    BY <2>1, <2>2
<1>. QED
  BY <1>3 DEF UpdatesTold

LEMMA GrowsHeard ==
  ASSUME NEW s \in Seq(Messages), NEW t, NEW m, Grows(s, t, m), NEW p, NEW r,
         \/ Heard(s, p, r)
         \/ m.pair = p /\ m.event \in {"current-rate", "rate-update"} /\ m.rate >= r
  PROVE  Heard(t, p, r)
<1>1. Len(s) \in Nat
  BY LenProperties
<1>2. Len(t) \in 1 .. Len(t) /\ \A i \in 1 .. Len(s) : i \in 1 .. Len(t)
  BY <1>1 DEF Grows
<1>. QED
  BY <1>2 DEF Grows, Heard

-----------------------------------------------------------------------------
(* The inductive invariant. *)

Typed ==
  /\ rate \in [Pairs -> 0 .. MaxRate]
  /\ updates \in 0 .. MaxUpdates
  /\ socket \in [Clients -> {"new", "open", "closing", "closed"}]
  /\ clients \in [Known -> SUBSET Pairs]
  /\ Known = {c \in Clients : socket[c] \in {"open", "closing"}}
  /\ said \in [Clients -> Nat]
  /\ lookups \in [Clients -> Seq(Lookups)]
  /\ inbox \in [Clients -> Seq(Messages)]
  /\ owed \in [Clients -> [Pairs -> 0 .. MaxRate]]
  /\ \A c \in Clients, p \in Pairs : owed[c][p] <= rate[p]

\* Every lookup was asked for by a message; who is not connected was sent nothing.
Counted(c) ==
  /\ said[c] <= MaxSaid[c]
  /\ Len(lookups[c]) <= said[c]
  /\ socket[c] = "new" => lookups[c] = <<>>
  /\ socket[c] # "open" => inbox[c] = <<>>

Served(c) ==
  socket[c] = "open" => Cardinality(AnswersIn(inbox[c])) = Cardinality(Over(c))

\* The gateway's Map and what the client was told are the same.
Informed(c) ==
  /\ UpdatesTold(inbox[c])
  /\ socket[c] = "open" => \A p \in clients[c] : Told(inbox[c], Len(inbox[c]), p)

\* A lookup that will answer a rate of p no older than r, or may yet, or never will.
Promises(l, p, r) ==
  /\ l.pair = p
  /\ l.step \in {"asked", "failed", "refused"} \/ (l.step = "found" /\ l.rate >= r)

\* The rate that is owed was sent, or a lookup is about it.
Covered(c, p) ==
  \/ Heard(inbox[c], p, owed[c][p])
  \/ \E k \in DOMAIN lookups[c] : Promises(lookups[c][k], p, owed[c][p])
UpToDate(c) == socket[c] = "open" => \A p \in clients[c] : Covered(c, p)

IInv ==
  /\ Typed
  /\ \A c \in Clients : Counted(c) /\ Served(c) /\ Informed(c) /\ UpToDate(c)

-----------------------------------------------------------------------------
(* What the steps are made of. *)

\* A message is sent to one client, who receives it if its socket is open.
LEMMA SentToOne ==
  ASSUME Typed, NEW c \in Clients, NEW m \in Messages, inbox' = Sent(To(c, m))
  PROVE  /\ inbox' \in [Clients -> Seq(Messages)]
         /\ socket[c] = "open" => Grows(inbox[c], inbox'[c], m)
         /\ socket[c] # "open" => inbox'[c] = inbox[c]
         /\ \A d \in Clients \ {c} : inbox'[d] = inbox[d]
<1>1. inbox[c] \in Seq(Messages) /\ \A d \in Clients : inbox[d] \o <<>> = inbox[d]
  BY ConcatEmptySeq DEF Typed
<1>2. Grows(inbox[c], inbox[c] \o <<m>>, m)
  BY <1>1, AppendGrows
<1>3. inbox' = [d \in Clients |-> IF d = c /\ socket[c] = "open" THEN inbox[c] \o <<m>>
                                 ELSE inbox[d]]
  BY <1>1 DEF Sent, To
<1>. QED
  BY <1>2, <1>3 DEF Typed, Grows

\* A lookup is entered.
LEMMA Started ==
  ASSUME Typed, NEW c \in Clients, NEW p \in Pairs, StartLookup(c, p), MaxRate \in Nat
  PROVE  /\ lookups' \in [Clients -> Seq(Lookups)]
         /\ Len(lookups'[c]) = Len(lookups[c]) + 1
         /\ \A k \in DOMAIN lookups[c] : k \in DOMAIN lookups'[c] /\ lookups'[c][k] = lookups[c][k]
         /\ \A r : \E k \in DOMAIN lookups'[c] : Promises(lookups'[c][k], p, r)
         /\ Over(c)' = Over(c)
         /\ \A d \in Clients \ {c} : lookups'[d] = lookups[d]
<1> DEFINE l == [pair |-> p, step |-> "asked", rate |-> 0]
<1>1. l \in Lookups
  BY DEF Lookups
<1>2. l.pair = p /\ l.step = "asked"
  OBVIOUS
<1>3. lookups' = [lookups EXCEPT ![c] = Append(lookups[c], l)]
  BY DEF StartLookup
<1> HIDE DEF l
<1>4. lookups[c] \in Seq(Lookups) /\ Len(lookups[c]) \in Nat
  BY LenProperties DEF Typed
<1>5. lookups'[c] = Append(lookups[c], l)
  BY <1>3 DEF Typed
<1>6. /\ lookups'[c] \in Seq(Lookups)
      /\ Len(lookups'[c]) = Len(lookups[c]) + 1
      /\ \A k \in 1 .. Len(lookups[c]) : lookups'[c][k] = lookups[c][k]
      /\ lookups'[c][Len(lookups[c]) + 1] = l
  BY <1>1, <1>4, <1>5, AppendProperties
<1>7. DOMAIN lookups'[c] = 1 .. Len(lookups[c]) + 1 /\ DOMAIN lookups[c] = 1 .. Len(lookups[c])
  BY <1>4, <1>6, LenProperties
<1>8. \A r : Promises(l, p, r)
  BY <1>2 DEF Promises
<1>9. Over(c)' = Over(c)
  BY <1>2, <1>4, <1>6, <1>7 DEF Over
<1>10. \A r : \E k \in DOMAIN lookups'[c] : Promises(lookups'[c][k], p, r)
  <2>1. Len(lookups[c]) + 1 \in DOMAIN lookups'[c]
    BY <1>4, <1>7
  <2>. QED
    BY <1>6, <1>8, <2>1
<1>11. lookups' \in [Clients -> Seq(Lookups)] /\ \A d \in Clients \ {c} : lookups'[d] = lookups[d]
  BY <1>3, <1>5, <1>6 DEF Typed
<1>12. \A k \in DOMAIN lookups[c] : k \in DOMAIN lookups'[c] /\ lookups'[c][k] = lookups[c][k]
  BY <1>4, <1>6, <1>7
<1>. QED
  BY <1>6, <1>9, <1>10, <1>11, <1>12

\* A lookup moves on.
LEMMA Moved ==
  ASSUME Typed, NEW c \in Clients, NEW k \in DOMAIN lookups[c], NEW l \in Lookups,
         lookups' = [lookups EXCEPT ![c][k] = l]
  PROVE  /\ lookups' \in [Clients -> Seq(Lookups)]
         /\ Len(lookups'[c]) = Len(lookups[c])
         /\ DOMAIN lookups'[c] = DOMAIN lookups[c]
         /\ lookups'[c][k] = l
         /\ \A j \in DOMAIN lookups[c] \ {k} : lookups'[c][j] = lookups[c][j]
         /\ \A d \in Clients \ {c} : lookups'[d] = lookups[d]
<1>1. /\ lookups[c] \in Seq(Lookups) /\ Len(lookups[c]) \in Nat
      /\ DOMAIN lookups[c] = 1 .. Len(lookups[c])
  BY LenProperties DEF Typed
<1>2. lookups'[c] = [lookups[c] EXCEPT ![k] = l]
  BY DEF Typed
<1>3. /\ lookups'[c] \in Seq(Lookups)
      /\ Len(lookups'[c]) = Len(lookups[c])
      /\ \A j \in 1 .. Len(lookups[c]) : lookups'[c][j] = IF j = k THEN l ELSE lookups[c][j]
  BY <1>1, <1>2, ExceptSeq
<1>4. DOMAIN lookups'[c] = 1 .. Len(lookups[c])
  BY <1>3, LenProperties
<1>. QED
  BY <1>1, <1>3, <1>4 DEF Typed

LEMMA LookupType ==
  ASSUME Typed, NEW c \in Clients, NEW k \in DOMAIN lookups[c]
  PROVE  lookups[c][k] \in Lookups
<1>1. lookups[c] \in Seq(Lookups) /\ k \in 1 .. Len(lookups[c])
  BY LenProperties DEF Typed
<1>. QED
  BY <1>1, ElementOfSeq

LEMMA OverFinite ==
  ASSUME Typed, NEW c \in Clients
  PROVE  IsFiniteSet(Over(c)) /\ Cardinality(Over(c)) \in Nat
<1>1. DOMAIN lookups[c] = 1 .. Len(lookups[c]) /\ Len(lookups[c]) \in Nat
  BY LenProperties DEF Typed
<1> DEFINE n == Len(lookups[c])
<1>2. 1 \in Int /\ n \in Int
  BY <1>1
<1> HIDE DEF n
<1>3. IsFiniteSet(1 .. n)
  BY <1>2, FS_Interval
<1>. QED
  BY <1>1, <1>3, FS_Subset, FS_CardinalityType DEF Over, n

ClientOK(c) == Counted(c) /\ Served(c) /\ Informed(c) /\ UpToDate(c)

\* A client to whom a step does nothing.
LEMMA Undisturbed ==
  ASSUME NEW c, ClientOK(c),
         UNCHANGED <<socket[c], said[c], lookups[c], inbox[c], owed[c]>>,
         socket[c] = "open" => UNCHANGED clients[c]
  PROVE  ClientOK(c)'
BY DEF ClientOK, Counted, Served, Informed, UpToDate, Covered, Over

-----------------------------------------------------------------------------
(* Connections. *)

LEMMA InitInv == Init => IInv
<1> SUFFICES ASSUME Init PROVE IInv
  OBVIOUS
<1> USE DEF Init
<1>1. Typed
  BY ConstantsAssumption, EmptySeq DEF Typed, Known
<1>2. ASSUME NEW c \in Clients
      PROVE  ClientOK(c)
  <2>1. Len(<<>>) = 0 /\ DOMAIN <<>> = {}
    OBVIOUS
  <2>. QED
    BY <2>1, ConstantsAssumption DEF ClientOK, Counted, Served, Informed, UpToDate, UpdatesTold
<1>. QED
  BY <1>1, <1>2 DEF IInv, ClientOK

LEMMA ConnectionInv ==
  ASSUME IInv, NEW c \in Clients,
         HandleConnection(c) \/ StartClosing(c) \/ HandleDisconnect(c)
  PROVE  IInv'
<1> USE DEF HandleConnection, StartClosing, HandleDisconnect
<1>1. Typed /\ \A d \in Clients : ClientOK(d)
  BY DEF IInv, ClientOK
<1>2. Typed'
  <2>1. UNCHANGED <<rate, updates, said, lookups, owed>>
    OBVIOUS
  <2>2. socket' \in [Clients -> {"new", "open", "closing", "closed"}]
    BY <1>1 DEF Typed
  <2>i. inbox \in [Clients -> Seq(Messages)] /\ <<>> \in Seq(Messages)
    BY <1>1, EmptySeq DEF Typed
  <2>3. inbox' \in [Clients -> Seq(Messages)]
    BY <2>i
  <2>4. clients' \in [Known' -> SUBSET Pairs]
    BY <1>1 DEF Typed, Known
  <2>5. Known' = {d \in Clients : socket'[d] \in {"open", "closing"}}
    BY <1>1 DEF Typed, Known
  <2>. QED
    BY <1>1, <2>1, <2>2, <2>3, <2>4, <2>5 DEF Typed
<1>3. \A d \in Clients \ {c} : ClientOK(d)'
  BY <1>1, Undisturbed DEF Typed, Known
<1>4. ClientOK(c)'
  <2>1. Len(<<>>) = 0 /\ DOMAIN <<>> = {}
    OBVIOUS
  <2>2. UpdatesTold(<<>>)
    BY <2>1 DEF UpdatesTold
  <2>3. CASE HandleConnection(c)
    <3>1. inbox'[c] = <<>> /\ lookups'[c] = <<>> /\ clients'[c] = {}
      BY <1>1, <2>3 DEF ClientOK, Counted, Known
    <3>2. AnswersIn(<<>>) = {} /\ Over(c)' = {}
      BY <2>1, <3>1 DEF AnswersIn, Over
    <3>3. Counted(c)'
      BY <1>1, <2>3, <3>1 DEF ClientOK, Counted, Typed
    <3>. QED
      BY <2>2, <3>1, <3>2, <3>3 DEF ClientOK, Served, Informed, UpToDate
  <2>4. CASE StartClosing(c)
    BY <1>1, <2>2, <2>4 DEF Typed, ClientOK, Counted, Served, Informed, UpToDate
  <2>5. CASE HandleDisconnect(c)
    BY <1>1, <2>5 DEF Typed, ClientOK, Counted, Served, Informed, UpToDate
  <2>. QED
    BY <2>3, <2>4, <2>5
<1>. QED
  BY <1>2, <1>3, <1>4 DEF IInv, ClientOK

-----------------------------------------------------------------------------
(* Messages. *)

\* The client of an open socket is known, and has sent at most what it may.
LEMMA Said ==
  ASSUME Typed, NEW c \in Clients, Say(c)
  PROVE  /\ socket[c] = "open"
         /\ c \in Known
         /\ said' \in [Clients -> Nat]
         /\ said'[c] = said[c] + 1
         /\ said[c] \in Nat
         /\ said'[c] <= MaxSaid[c]
         /\ \A d \in Clients \ {c} : said'[d] = said[d]
<1>1. MaxSaid[c] \in Nat /\ said[c] \in Nat
  BY ConstantsAssumption DEF Typed
<1>2. said' = [said EXCEPT ![c] = said[c] + 1] /\ socket[c] = "open" /\ said[c] < MaxSaid[c]
  BY DEF Say
<1>3. said[c] + 1 \in Nat /\ said[c] + 1 <= MaxSaid[c]
  BY <1>1, <1>2
<1>. QED
  BY <1>1, <1>2, <1>3 DEF Typed

LEMMA SubscribeInv ==
  ASSUME IInv, NEW c \in Clients, NEW p \in Pairs, HandleSubscribe(c, p)
  PROVE  IInv'
<1> DEFINE m == Message("subscribed", p, 0)
<1>1. Typed /\ \A d \in Clients : ClientOK(d)
  BY DEF IInv, ClientOK
<1>2. /\ StartLookup(c, p) /\ Say(c) /\ inbox' = Sent(To(c, m))
      /\ clients' = [clients EXCEPT ![c] = clients[c] \cup {p}]
      /\ owed' = [owed EXCEPT ![c][p] = rate[p]]
      /\ UNCHANGED <<rate, updates, socket>>
  BY DEF HandleSubscribe
<1>3. m \in Messages /\ m.pair = p /\ m.event = "subscribed"
  BY ConstantsAssumption DEF Message, Messages, Events
<1> HIDE DEF m
<1>4. /\ inbox' \in [Clients -> Seq(Messages)]
      /\ Grows(inbox[c], inbox'[c], m)
      /\ \A d \in Clients \ {c} : inbox'[d] = inbox[d]
  BY <1>1, <1>2, <1>3, Said, SentToOne
<1>5. /\ lookups' \in [Clients -> Seq(Lookups)]
      /\ Len(lookups'[c]) = Len(lookups[c]) + 1
      /\ \A k \in DOMAIN lookups[c] : k \in DOMAIN lookups'[c] /\ lookups'[c][k] = lookups[c][k]
      /\ \A r : \E k \in DOMAIN lookups'[c] : Promises(lookups'[c][k], p, r)
      /\ Over(c)' = Over(c)
      /\ \A d \in Clients \ {c} : lookups'[d] = lookups[d]
  BY <1>1, <1>2, ConstantsAssumption, Started
<1>14. /\ owed' \in [Clients -> [Pairs -> 0 .. MaxRate]]
       /\ \A d \in Clients, q \in Pairs : owed'[d][q] <= rate[q]
       /\ \A d \in Clients \ {c} : owed'[d] = owed[d]
       /\ \A q \in Pairs \ {p} : owed'[c][q] = owed[c][q]
  BY <1>1, <1>2 DEF Typed
<1>6. Typed'
  BY <1>1, <1>2, <1>4, <1>5, <1>14, Said DEF Typed, Known
<1>7. \A d \in Clients \ {c} : ClientOK(d)'
  BY <1>1, <1>2, <1>4, <1>5, <1>14, Said, Undisturbed DEF Typed, Known
<1>8. inbox[c] \in Seq(Messages) /\ Len(lookups[c]) \in Nat
  BY <1>1, LenProperties DEF Typed
<1>9. clients'[c] = clients[c] \cup {p} /\ socket'[c] = "open" /\ socket[c] = "open"
  BY <1>1, <1>2, Said DEF Typed, Known
<1>10. Counted(c)'
  <2>1. said'[c] = said[c] + 1 /\ said[c] \in Nat /\ said'[c] <= MaxSaid[c]
    BY <1>1, <1>2, Said
  <2>2. Len(lookups[c]) <= said[c]
    BY <1>1 DEF ClientOK, Counted
  <2>3. Len(lookups'[c]) <= said'[c]
    BY <1>5, <1>8, <2>1, <2>2
  <2>. QED
    BY <1>9, <2>1, <2>3 DEF Counted
<1>11. Served(c)'
  <2>1. Cardinality(AnswersIn(inbox'[c])) = Cardinality(AnswersIn(inbox[c])) + 0
    BY <1>3, <1>4, <1>8, GrowsAnswers DEF Answers
  <2>2. Cardinality(AnswersIn(inbox[c])) \in Nat
    BY <1>8, AnswersFinite
  <2>. QED
    BY <1>1, <1>5, <1>9, <2>1, <2>2 DEF ClientOK, Served
<1>12. Informed(c)'
  <2>1. UpdatesTold(inbox'[c])
    BY <1>1, <1>3, <1>4, <1>8, GrowsUpdatesTold DEF ClientOK, Informed
  <2>2. \A q \in clients'[c] : Told(inbox'[c], Len(inbox'[c]), q)
    BY <1>1, <1>3, <1>4, <1>8, <1>9, GrowsTold DEF ClientOK, Informed
  <2>. QED
    BY <2>1, <2>2 DEF Informed
<1>13. UpToDate(c)'
  <2>1. ASSUME NEW q \in clients'[c]
        PROVE  Covered(c, q)'
    <3>1. CASE q = p
      BY <1>2, <1>5, <3>1 DEF Covered
    <3>2. CASE q # p
      <4>1. q \in Pairs /\ owed'[c][q] = owed[c][q]
        BY <1>1, <1>6, <1>9, <1>14, <3>2 DEF Typed
      <4>. QED
        BY <1>1, <1>2, <1>4, <1>5, <1>8, <1>9, <3>2, <4>1, GrowsHeard
           DEF ClientOK, UpToDate, Covered
    <3>. QED
      BY <3>1, <3>2
  <2>. QED
    BY <2>1 DEF UpToDate
<1>. QED
  BY <1>6, <1>7, <1>10, <1>11, <1>12, <1>13 DEF IInv, ClientOK

LEMMA UnsubscribeInv ==
  ASSUME IInv, NEW c \in Clients, NEW p \in Pairs, HandleUnsubscribe(c, p)
  PROVE  IInv'
<1> DEFINE m == Message("unsubscribed", p, 0)
<1>1. Typed /\ \A d \in Clients : ClientOK(d)
  BY DEF IInv, ClientOK
<1>2. /\ Say(c) /\ inbox' = Sent(To(c, m))
      /\ clients' = [clients EXCEPT ![c] = clients[c] \ {p}]
      /\ UNCHANGED <<rate, updates, socket, lookups, owed>>
  BY DEF HandleUnsubscribe
<1>3. m \in Messages /\ m.pair = p /\ m.event = "unsubscribed"
  BY ConstantsAssumption DEF Message, Messages, Events
<1> HIDE DEF m
<1>4. /\ inbox' \in [Clients -> Seq(Messages)]
      /\ Grows(inbox[c], inbox'[c], m)
      /\ \A d \in Clients \ {c} : inbox'[d] = inbox[d]
  BY <1>1, <1>2, <1>3, Said, SentToOne
<1>5. Typed'
  BY <1>1, <1>2, <1>4, Said DEF Typed, Known
<1>6. \A d \in Clients \ {c} : ClientOK(d)'
  BY <1>1, <1>2, <1>4, Said, Undisturbed DEF Typed, Known
<1>7. inbox[c] \in Seq(Messages) /\ Len(lookups[c]) \in Nat
  BY <1>1, LenProperties DEF Typed
<1>8. clients'[c] = clients[c] \ {p} /\ socket'[c] = "open" /\ socket[c] = "open"
  BY <1>1, <1>2, Said DEF Typed, Known
<1>9. Counted(c)'
  BY <1>1, <1>2, <1>7, <1>8, Said DEF ClientOK, Counted
<1>10. Served(c)'
  <2>1. Cardinality(AnswersIn(inbox'[c])) = Cardinality(AnswersIn(inbox[c])) + 0
    BY <1>3, <1>4, <1>7, GrowsAnswers DEF Answers
  <2>2. Cardinality(AnswersIn(inbox[c])) \in Nat
    BY <1>7, AnswersFinite
  <2>. QED
    BY <1>1, <1>2, <1>8, <2>1, <2>2 DEF ClientOK, Served, Over
<1>11. Informed(c)'
  <2>1. UpdatesTold(inbox'[c])
    BY <1>1, <1>3, <1>4, <1>7, GrowsUpdatesTold DEF ClientOK, Informed
  <2>2. \A q \in clients'[c] : Told(inbox'[c], Len(inbox'[c]), q)
    BY <1>1, <1>3, <1>4, <1>7, <1>8, GrowsTold DEF ClientOK, Informed
  <2>. QED
    BY <2>1, <2>2 DEF Informed
<1>12. UpToDate(c)'
  BY <1>1, <1>2, <1>4, <1>7, <1>8, GrowsHeard DEF ClientOK, UpToDate, Covered
<1>. QED
  BY <1>5, <1>6, <1>9, <1>10, <1>11, <1>12 DEF IInv, ClientOK

LEMMA GetRateInv ==
  ASSUME IInv, NEW c \in Clients, NEW p \in Pairs, HandleGetRate(c, p)
  PROVE  IInv'
<1>1. Typed /\ \A d \in Clients : ClientOK(d)
  BY DEF IInv, ClientOK
<1>2. StartLookup(c, p) /\ Say(c) /\ UNCHANGED <<rate, updates, socket, clients, inbox, owed>>
  BY DEF HandleGetRate
<1>3. /\ lookups' \in [Clients -> Seq(Lookups)]
      /\ Len(lookups'[c]) = Len(lookups[c]) + 1
      /\ \A k \in DOMAIN lookups[c] : k \in DOMAIN lookups'[c] /\ lookups'[c][k] = lookups[c][k]
      /\ Over(c)' = Over(c)
      /\ \A d \in Clients \ {c} : lookups'[d] = lookups[d]
  BY <1>1, <1>2, ConstantsAssumption, Started
<1>4. Typed'
  BY <1>1, <1>2, <1>3, Said DEF Typed, Known
<1>5. \A d \in Clients \ {c} : ClientOK(d)'
  BY <1>1, <1>2, <1>3, Said, Undisturbed
<1>6. Len(lookups[c]) \in Nat /\ socket[c] = "open"
  BY <1>1, <1>2, Said, LenProperties DEF Typed
<1>7. Counted(c)'
  BY <1>1, <1>2, <1>3, <1>6, Said DEF ClientOK, Counted
<1>8. Served(c)' /\ Informed(c)'
  BY <1>1, <1>2, <1>3 DEF ClientOK, Served, Informed
<1>9. UpToDate(c)'
  BY <1>1, <1>2, <1>3 DEF ClientOK, UpToDate, Covered
<1>. QED
  BY <1>4, <1>5, <1>7, <1>8, <1>9 DEF IInv, ClientOK

-----------------------------------------------------------------------------
(* sendCurrentRate. *)

\* What is over stays over, and what was covered by another lookup stays covered.
LEMMA ReadInv ==
  ASSUME IInv, NEW c \in Clients, NEW k \in DOMAIN lookups[c], ReadRate(c, k)
  PROVE  IInv'
<1>1. Typed /\ \A d \in Clients : ClientOK(d)
  BY DEF IInv, ClientOK
<1>2. UNCHANGED <<rate, updates, socket, clients, said, inbox, owed>> /\ lookups[c][k].step = "asked"
  BY DEF ReadRate
<1>3. lookups[c][k] \in Lookups
  BY <1>1, LookupType
<1>4. PICK l \in Lookups :
        /\ lookups' = [lookups EXCEPT ![c][k] = l]
        /\ l.pair = lookups[c][k].pair
        /\ l.step = "failed" \/ (l.step = "found" /\ l.rate = rate[l.pair])
  <2>1. rate[lookups[c][k].pair] \in 0 .. MaxRate
    BY <1>1, <1>3 DEF Lookups, Typed
  <2> DEFINE found == [lookups[c][k] EXCEPT !.step = "found", !.rate = rate[lookups[c][k].pair]]
             failed == [lookups[c][k] EXCEPT !.step = "failed"]
  <2>2. /\ found \in Lookups
        /\ found.pair = lookups[c][k].pair
        /\ found.step = "found"
        /\ found.rate = rate[found.pair]
    BY <1>3, <2>1 DEF Lookups
  <2>3. failed \in Lookups /\ failed.pair = lookups[c][k].pair /\ failed.step = "failed"
    BY <1>3 DEF Lookups
  <2>4. lookups' = [lookups EXCEPT ![c][k] = found] \/ lookups' = [lookups EXCEPT ![c][k] = failed]
    BY DEF ReadRate
  <2> HIDE DEF found, failed
  <2>. QED
    BY <2>2, <2>3, <2>4
<1>5. /\ lookups' \in [Clients -> Seq(Lookups)]
      /\ Len(lookups'[c]) = Len(lookups[c])
      /\ DOMAIN lookups'[c] = DOMAIN lookups[c]
      /\ lookups'[c][k] = l
      /\ \A j \in DOMAIN lookups[c] \ {k} : lookups'[c][j] = lookups[c][j]
      /\ \A d \in Clients \ {c} : lookups'[d] = lookups[d]
  BY <1>1, <1>4, Moved
<1>6. Typed'
  BY <1>1, <1>2, <1>5 DEF Typed, Known
<1>7. \A d \in Clients \ {c} : ClientOK(d)'
  BY <1>1, <1>2, <1>5, Undisturbed
<1>8. Over(c)' = Over(c)
  BY <1>2, <1>4, <1>5 DEF Over
<1>9. Counted(c)'
  <2>1. lookups[c] # <<>>
    OBVIOUS
  <2>. QED
    BY <1>1, <1>2, <1>5, <2>1 DEF ClientOK, Counted
<1>10. Served(c)' /\ Informed(c)'
  BY <1>1, <1>2, <1>8 DEF ClientOK, Served, Informed
<1>11. ASSUME NEW p \in Pairs, Covered(c, p)
       PROVE  Covered(c, p)'
  <2>0. rate[p] >= owed[c][p]
    BY <1>1 DEF Typed
  <2>1. ASSUME NEW j \in DOMAIN lookups[c], Promises(lookups[c][j], p, owed[c][p])
        PROVE  Promises(lookups'[c][j], p, owed[c][p])
    BY <1>2, <1>4, <1>5, <2>0, <2>1 DEF Promises
  <2>. QED
    BY <1>2, <1>5, <1>11, <2>1 DEF Covered
<1>12. UpToDate(c)'
  <2>1. socket[c] = "open" => clients[c] \subseteq Pairs
    BY <1>1 DEF Typed
  <2>. QED
    BY <1>1, <1>2, <1>11, <2>1 DEF ClientOK, UpToDate
<1>. QED
  BY <1>6, <1>7, <1>9, <1>10, <1>12 DEF IInv, ClientOK

\* One more lookup is over, and one more answer is sent if the client is still there.
LEMMA AnswerInv ==
  ASSUME IInv, NEW c \in Clients, NEW k \in DOMAIN lookups[c], AnswerLookup(c, k)
  PROVE  IInv'
<1>1. Typed /\ \A d \in Clients : ClientOK(d)
  BY DEF IInv, ClientOK
<1>2. UNCHANGED <<rate, updates, socket, clients, said, owed>>
  BY DEF AnswerLookup
<1>3. lookups[c][k] \in Lookups
  BY <1>1, LookupType
<1>4. PICK l \in Lookups, m \in Messages :
        /\ lookups' = [lookups EXCEPT ![c][k] = l]
        /\ inbox' = Sent(To(c, m))
        /\ m.event \in Answers
        /\ lookups[c][k].step \in {"found", "failed"}
        /\ l.pair = lookups[c][k].pair
        /\ l.step \in {"done", "refused"}
        /\ lookups[c][k].step = "failed" => l.step = "refused"
        /\ lookups[c][k].step = "found" =>
             m.event = "current-rate" /\ m.pair = l.pair /\ m.rate = lookups[c][k].rate
  <2>1. CASE lookups[c][k].step = "found"
    <3>1. [lookups[c][k] EXCEPT !.step = "done", !.rate = 0] \in Lookups
      <4>1. 0 \in 0 .. MaxRate
        BY ConstantsAssumption
      <4>. QED
        BY <1>3, <4>1 DEF Lookups
    <3>2. Message("current-rate", lookups[c][k].pair, lookups[c][k].rate) \in Messages
      BY <1>3 DEF Lookups, Messages, Message, Events, Answers
    <3>3. /\ lookups' = [lookups EXCEPT ![c][k] = [lookups[c][k] EXCEPT !.step = "done", !.rate = 0]]
          /\ inbox' = Sent(To(c, Message("current-rate", lookups[c][k].pair, lookups[c][k].rate)))
      BY <2>1 DEF AnswerLookup
    <3>. QED
      BY <1>3, <2>1, <3>1, <3>2, <3>3 DEF Message, Answers, Lookups
  <2>2. CASE lookups[c][k].step = "failed"
    <3>1. [lookups[c][k] EXCEPT !.step = "refused"] \in Lookups
      BY <1>3 DEF Lookups
    <3>2. Message("error", lookups[c][k].pair, 0) \in Messages
      BY <1>3, ConstantsAssumption DEF Lookups, Messages, Message, Events, Answers
    <3>3. /\ lookups' = [lookups EXCEPT ![c][k] = [lookups[c][k] EXCEPT !.step = "refused"]]
          /\ inbox' = Sent(To(c, Message("error", lookups[c][k].pair, 0)))
      BY <2>2 DEF AnswerLookup
    <3>. QED
      BY <1>3, <2>2, <3>1, <3>2, <3>3 DEF Message, Answers, Lookups
  <2>. QED
    BY <2>1, <2>2 DEF AnswerLookup
<1>5. /\ lookups' \in [Clients -> Seq(Lookups)]
      /\ Len(lookups'[c]) = Len(lookups[c])
      /\ DOMAIN lookups'[c] = DOMAIN lookups[c]
      /\ lookups'[c][k] = l
      /\ \A j \in DOMAIN lookups[c] \ {k} : lookups'[c][j] = lookups[c][j]
      /\ \A d \in Clients \ {c} : lookups'[d] = lookups[d]
  BY <1>1, <1>4, Moved
<1>6. /\ inbox' \in [Clients -> Seq(Messages)]
      /\ socket[c] = "open" => Grows(inbox[c], inbox'[c], m)
      /\ socket[c] # "open" => inbox'[c] = inbox[c]
      /\ \A d \in Clients \ {c} : inbox'[d] = inbox[d]
  BY <1>1, <1>4, SentToOne
<1>7. Typed'
  BY <1>1, <1>2, <1>5, <1>6 DEF Typed, Known
<1>8. \A d \in Clients \ {c} : ClientOK(d)'
  BY <1>1, <1>2, <1>5, <1>6, Undisturbed
<1>9. inbox[c] \in Seq(Messages)
  BY <1>1 DEF Typed
<1>10. Counted(c)'
  <2>1. lookups[c] # <<>>
    OBVIOUS
  <2>. QED
    BY <1>1, <1>2, <1>5, <1>6, <2>1 DEF ClientOK, Counted
<1>11. Served(c)'
  <2>1. Over(c)' = Over(c) \cup {k} /\ k \notin Over(c)
    BY <1>4, <1>5 DEF Over
  <2>2. Cardinality(Over(c)') = Cardinality(Over(c)) + 1
    BY <1>1, <2>1, OverFinite, FS_AddElement
  <2>3. socket[c] = "open" =>
          Cardinality(AnswersIn(inbox'[c])) = Cardinality(AnswersIn(inbox[c])) + 1
    BY <1>4, <1>6, <1>9, GrowsAnswers
  <2>. QED
    BY <1>1, <1>2, <2>2, <2>3 DEF ClientOK, Served
<1>12. Informed(c)'
  <2>1. m.event # "rate-update" /\ m.event # "unsubscribed"
    BY <1>4 DEF Answers
  <2>2. UpdatesTold(inbox'[c])
    BY <1>1, <1>6, <1>9, <2>1, GrowsUpdatesTold DEF ClientOK, Informed
  <2>3. socket[c] = "open" => \A q \in clients[c] : Told(inbox'[c], Len(inbox'[c]), q)
    BY <1>1, <1>6, <1>9, <2>1, GrowsTold DEF ClientOK, Informed
  <2>. QED
    BY <1>2, <2>2, <2>3 DEF Informed
<1>13. ASSUME NEW p, socket[c] = "open", Covered(c, p)
       PROVE  Covered(c, p)'
  <2>1. CASE Heard(inbox[c], p, owed[c][p])
    BY <1>2, <1>6, <1>9, <1>13, <2>1, GrowsHeard DEF Covered
  <2>2. ASSUME NEW j \in DOMAIN lookups[c], Promises(lookups[c][j], p, owed[c][p])
        PROVE  Covered(c, p)'
    <3>1. CASE j # k \/ lookups[c][j].step # "found"
      <4>1. Promises(lookups'[c][j], p, owed[c][p])
        BY <1>4, <1>5, <2>2, <3>1 DEF Promises
      <4>. QED
        BY <1>2, <1>5, <4>1 DEF Covered
    <3>2. CASE j = k /\ lookups[c][j].step = "found"
      <4>1. m.pair = p /\ m.event \in {"current-rate", "rate-update"} /\ m.rate >= owed[c][p]
        BY <1>4, <2>2, <3>2 DEF Promises
      <4>2. Heard(inbox'[c], p, owed[c][p])
        BY <1>6, <1>9, <1>13, <4>1, GrowsHeard
      <4>. QED
        BY <1>2, <4>2 DEF Covered
    <3>. QED
      BY <3>1, <3>2
  <2>. QED
    BY <1>13, <2>1, <2>2 DEF Covered
<1>14. UpToDate(c)'
  BY <1>1, <1>2, <1>13 DEF ClientOK, UpToDate
<1>. QED
  BY <1>7, <1>8, <1>10, <1>11, <1>12, <1>14 DEF IInv, ClientOK

-----------------------------------------------------------------------------
(* Updates. *)

LEMMA SetRateInv ==
  ASSUME IInv, NEW p \in Pairs, SetRate(p)
  PROVE  IInv'
<1>1. Typed /\ \A d \in Clients : ClientOK(d)
  BY DEF IInv, ClientOK
<1>2. /\ rate[p] < MaxRate
      /\ rate' = [rate EXCEPT ![p] = rate[p] + 1]
      /\ UNCHANGED <<updates, socket, clients, said, lookups, inbox, owed>>
  BY DEF SetRate
<1>3. rate[p] + 1 \in 0 .. MaxRate
  <2>1. rate[p] \in 0 .. MaxRate
    BY <1>1 DEF Typed
  <2>. QED
    BY <1>2, <2>1, ConstantsAssumption
<1>4. rate' \in [Pairs -> 0 .. MaxRate] /\ \A q \in Pairs : rate'[q] >= rate[q]
  BY <1>1, <1>2, <1>3 DEF Typed
<1>5. \A d \in Clients, q \in Pairs : owed'[d][q] <= rate'[q]
  <2> SUFFICES ASSUME NEW d \in Clients, NEW q \in Pairs PROVE owed[d][q] <= rate'[q]
    BY <1>2
  <2>1. owed[d][q] \in Int /\ rate[q] \in Int /\ rate'[q] \in Int /\ owed[d][q] <= rate[q]
    BY <1>1, <1>4 DEF Typed
  <2>. QED
    BY <1>4, <2>1
<1>6. Typed'
  BY <1>1, <1>2, <1>4, <1>5 DEF Typed, Known
<1>7. \A d \in Clients : ClientOK(d)'
  BY <1>1, <1>2, Undisturbed
<1>. QED
  BY <1>6, <1>7 DEF IInv, ClientOK

\* Every subscriber whose socket is open is sent the update, and nobody else anything.
LEMMA BroadcastInv ==
  ASSUME IInv, NEW p \in Pairs, NEW newRate \in 1 .. rate[p], BroadcastRateUpdate(p, newRate)
  PROVE  IInv'
<1> DEFINE m == Message("rate-update", p, newRate)
<1>1. Typed /\ \A d \in Clients : ClientOK(d)
  BY DEF IInv, ClientOK
<1>2. updates' \in 0 .. MaxUpdates /\ UNCHANGED <<rate, socket, clients, said, lookups>>
  BY <1>1, ConstantsAssumption DEF BroadcastRateUpdate, Typed
<1>3. newRate \in 0 .. MaxRate /\ newRate <= rate[p]
  <2>1. rate[p] \in 0 .. MaxRate
    BY <1>1 DEF Typed
  <2>. QED
    BY <2>1, ConstantsAssumption
<1>a. m \in Messages /\ m.event = "rate-update" /\ m.pair = p /\ m.rate = newRate
  BY <1>3 DEF Message, Messages, Events
<1>4. inbox' = [d \in Clients |->
                 IF socket[d] = "open"
                 THEN inbox[d] \o (IF d \in Subscribers(p) THEN <<m>> ELSE <<>>)
                 ELSE inbox[d]]
  BY DEF BroadcastRateUpdate, Sent
<1> HIDE DEF m
<1>5. ASSUME NEW d \in Clients
      PROVE  /\ inbox[d] \in Seq(Messages)
             /\ inbox[d] \o <<>> = inbox[d]
             /\ Grows(inbox[d], inbox[d] \o <<m>>, m)
  BY <1>1, <1>a, ConcatEmptySeq, AppendGrows DEF Typed
<1>6. ASSUME NEW d \in Clients
      PROVE  /\ inbox'[d] \in Seq(Messages)
             /\ IF socket[d] = "open" /\ p \in clients[d]
                THEN Grows(inbox[d], inbox'[d], m) ELSE inbox'[d] = inbox[d]
  <2>1. socket[d] = "open" => (d \in Subscribers(p) <=> p \in clients[d])
    BY <1>1 DEF Subscribers, Typed
  <2>. QED
    BY <1>4, <1>5, <2>1 DEF Grows
<1>b. ASSUME NEW d \in Clients, NEW q \in Pairs
      PROVE  /\ owed'[d] \in [Pairs -> 0 .. MaxRate]
             /\ owed'[d][q] = owed[d][q] \/ (q = p /\ owed'[d][q] = newRate)
             /\ d \in Known /\ p \notin clients[d] => owed'[d] = owed[d]
  <2>1. owed[d] \in [Pairs -> 0 .. MaxRate]
    BY <1>1 DEF Typed
  <2>2. owed'[d] = IF d \in Known /\ p \in clients[d] /\ owed[d][p] < newRate
                   THEN [owed[d] EXCEPT ![p] = newRate] ELSE owed[d]
    BY DEF BroadcastRateUpdate
  <2>. QED
    BY <1>3, <2>1, <2>2
<1>7. Typed'
  <2>1. inbox' \in [Clients -> Seq(Messages)]
    BY <1>4, <1>6
  <2>2. owed' \in [Clients -> [Pairs -> 0 .. MaxRate]]
    <3>1. \A d \in Clients : owed'[d] \in [Pairs -> 0 .. MaxRate]
      BY <1>b
    <3>2. owed' = [d \in Clients |-> owed'[d]]
      BY DEF BroadcastRateUpdate
    <3>. QED
      BY <3>1, <3>2
  <2>3. \A d \in Clients, q \in Pairs : owed'[d][q] <= rate[q]
    BY <1>1, <1>3, <1>b DEF Typed
  <2>. QED
    BY <1>1, <1>2, <2>1, <2>2, <2>3 DEF Typed, Known
<1>8. ASSUME NEW d \in Clients
      PROVE  ClientOK(d)'
  <2>1. CASE socket[d] = "open" /\ p \in clients[d]
    <3>1. Grows(inbox[d], inbox'[d], m)
      BY <1>6, <2>1
    <3>2. Counted(d)'
      BY <1>1, <1>2, <2>1 DEF ClientOK, Counted
    <3>3. Served(d)'
      <4>1. Cardinality(AnswersIn(inbox'[d])) = Cardinality(AnswersIn(inbox[d])) + 0
        BY <1>5, <1>a, <3>1, GrowsAnswers DEF Answers
      <4>2. Cardinality(AnswersIn(inbox[d])) \in Nat
        BY <1>5, AnswersFinite
      <4>. QED
        BY <1>1, <1>2, <4>1, <4>2 DEF ClientOK, Served, Over
    <3>4. Informed(d)'
      <4>1. UpdatesTold(inbox'[d])
        BY <1>1, <1>5, <1>a, <2>1, <3>1, GrowsUpdatesTold DEF ClientOK, Informed
      <4>2. \A q \in clients[d] : Told(inbox'[d], Len(inbox'[d]), q)
        BY <1>1, <1>5, <1>a, <2>1, <3>1, GrowsTold DEF ClientOK, Informed
      <4>. QED
        BY <1>2, <4>1, <4>2 DEF Informed
    <3>5. ASSUME NEW q \in Pairs, Covered(d, q)
          PROVE  Covered(d, q)'
      <4>1. CASE q = p /\ owed'[d][q] = newRate
        <5>1. newRate >= newRate
          BY <1>3
        <5>2. Heard(inbox'[d], q, owed'[d][q])
          BY <1>5, <1>a, <3>1, <4>1, <5>1, GrowsHeard
        <5>. QED
          BY <1>2, <5>2 DEF Covered
      <4>2. CASE owed'[d][q] = owed[d][q]
        <5>1. Heard(inbox[d], q, owed[d][q]) => Heard(inbox'[d], q, owed[d][q])
          BY <1>5, <3>1, GrowsHeard
        <5>. QED
          BY <1>2, <3>5, <4>2, <5>1 DEF Covered
      <4>. QED
        BY <1>b, <4>1, <4>2
    <3>6. UpToDate(d)'
      <4>1. clients[d] \subseteq Pairs
        BY <1>1, <2>1 DEF Typed
      <4>. QED
        BY <1>1, <1>2, <3>5, <4>1 DEF ClientOK, UpToDate
    <3>. QED
      BY <3>2, <3>3, <3>4, <3>6 DEF ClientOK
  <2>2. CASE ~ (socket[d] = "open" /\ p \in clients[d])
    <3>1. inbox'[d] = inbox[d]
      BY <1>6, <2>2
    <3>2. Counted(d)' /\ Served(d)' /\ Informed(d)'
      BY <1>1, <1>2, <3>1 DEF ClientOK, Counted, Served, Informed, Over
    <3>3. UpToDate(d)'
      <4>1. CASE socket[d] = "open"
        <5>1. d \in Known /\ p \notin clients[d]
          BY <1>1, <2>2, <4>1 DEF Typed
        <5>2. owed'[d] = owed[d]
          BY <1>b, <5>1
        <5>. QED
          BY <1>1, <1>2, <3>1, <5>2 DEF ClientOK, UpToDate, Covered
      <4>2. CASE socket[d] # "open"
        BY <1>2, <4>2 DEF UpToDate
      <4>. QED
        BY <4>1, <4>2
    <3>. QED
      BY <3>2, <3>3 DEF ClientOK
  <2>. QED
    BY <2>1, <2>2
<1>. QED
  BY <1>7, <1>8 DEF IInv, ClientOK

-----------------------------------------------------------------------------
(* The theorems. *)

LEMMA NextInv ==
  ASSUME IInv, [Next]_vars
  PROVE  IInv'
<1>1. CASE UNCHANGED vars
  <2> USE <1>1 DEF vars
  <2>1. Typed'
    BY DEF IInv, Typed, Known
  <2>2. \A c \in Clients : ClientOK(c)'
    BY Undisturbed DEF IInv, ClientOK
  <2>. QED
    BY <2>1, <2>2 DEF IInv, ClientOK
<1>2. CASE Next
  BY <1>2, ConnectionInv, SubscribeInv, UnsubscribeInv, GetRateInv, ReadInv, AnswerInv,
     SetRateInv, BroadcastInv DEF Next, Lookup
<1>. QED
  BY <1>1, <1>2

\* The invariant, on which the theorems below rest, holds in every state.
THEOREM Invariance == Spec => []IInv
BY InitInv, NextInv, PTL DEF Spec

\* Types; the gateway's Map holds exactly the clients whose sockets are open or closing, so
\* that no message finds its client unknown and none leaks.
THEOREM TypeCorrect == Spec => []TypeOK
<1>1. IInv => TypeOK
  <2> SUFFICES ASSUME IInv PROVE TypeOK
    OBVIOUS
  <2>1. ASSUME NEW c \in Clients
        PROVE  said[c] \in 0 .. MaxSaid[c] /\ Len(lookups[c]) <= said[c]
    <3>1. said[c] \in Nat /\ said[c] <= MaxSaid[c] /\ MaxSaid[c] \in Nat
      BY ConstantsAssumption DEF IInv, Typed, Counted
    <3>. QED
      BY <3>1 DEF IInv, Counted
  <2>2. \A c \in Clients : \A k \in DOMAIN lookups[c] : lookups[c][k] \in Lookups
    BY LookupType DEF IInv
  <2>3. ASSUME NEW c \in Clients, NEW i \in DOMAIN inbox[c]
        PROVE  inbox[c][i] \in Messages
    <3>1. inbox[c] \in Seq(Messages) /\ i \in 1 .. Len(inbox[c])
      BY LenProperties DEF IInv, Typed
    <3>. QED
      BY <3>1, ElementOfSeq
  <2>4. \A c \in Clients : \A i \in DOMAIN inbox[c] :
          /\ inbox[c][i].event \in Events
          /\ inbox[c][i].pair \in Pairs
          /\ inbox[c][i].rate \in 0 .. MaxRate
    BY <2>3 DEF Messages
  <2>. QED
    BY <2>1, <2>2, <2>4 DEF IInv, Typed, TypeOK
<1>. QED
  BY Invariance, <1>1, PTL

\* The latest acknowledgement is the one after which there is no other.
LEMMA ToldIsLatest ==
  ASSUME NEW s, NEW n \in Nat, NEW p, Told(s, n, p),
         NEW acks, acks = {j \in 1 .. n : Acks(s[j], p)}
  PROVE  acks # {} /\ s[Max(acks)].event = "subscribed"
<1>1. PICK j \in 1 .. n : /\ s[j].pair = p
                          /\ s[j].event = "subscribed"
                          /\ \A i \in j + 1 .. n : ~ Acks(s[i], p)
  BY DEF Told
<1>2. j \in acks
  BY <1>1 DEF Acks
<1>3. ASSUME NEW i \in acks
      PROVE  j >= i
  BY <1>1
<1>4. Max(acks) \in acks /\ \A i \in acks : Max(acks) >= i
  <2>1. \E x \in acks : \A y \in acks : x >= y
    BY <1>2, <1>3
  <2>. QED
    BY <2>1, Zenon DEF Max
<1>5. Max(acks) = j
  <2>1. Max(acks) \in Int /\ j \in Int
    BY <1>4
  <2>2. Max(acks) >= j /\ j >= Max(acks)
    BY <1>2, <1>3, <1>4
  <2>. QED
    BY <2>1, <2>2
<1>. QED
  BY <1>1, <1>2, <1>5

\* However messages, broadcasts and answers of Redis interleave, and whoever connects or
\* leaves, what a client was told of its subscriptions explains every update it was sent.
THEOREM UpdatesFollowSubscriptions == Spec => []UpdatesOnlyWhileSubscribed
<1>1. IInv => UpdatesOnlyWhileSubscribed
  <2> SUFFICES ASSUME IInv, NEW c \in Clients, NEW i \in DOMAIN inbox[c],
                      inbox[c][i].event = "rate-update",
                      NEW acks,
                      acks = {j \in 1 .. i - 1 :
                                /\ inbox[c][j].pair = inbox[c][i].pair
                                /\ inbox[c][j].event \in {"subscribed", "unsubscribed"}}
               PROVE  acks # {} /\ inbox[c][Max(acks)].event = "subscribed"
    BY DEF UpdatesOnlyWhileSubscribed
  <2>1. i \in 1 .. Len(inbox[c]) /\ Len(inbox[c]) \in Nat
    BY LenProperties DEF IInv, Typed
  <2>2. i - 1 \in Nat /\ Told(inbox[c], i - 1, inbox[c][i].pair)
    BY <2>1 DEF IInv, Informed, UpdatesTold
  <2>3. acks = {j \in 1 .. i - 1 : Acks(inbox[c][j], inbox[c][i].pair)}
    BY DEF Acks
  <2>. QED
    BY <2>2, <2>3, ToldIsLatest
<1>. QED
  BY Invariance, <1>1, PTL

\* No lookup is answered twice or, while its client stays, forgotten: the answers that were
\* sent are as many as the lookups that are over, for any number of both.
THEOREM LookupsAnsweredOnce == Spec => []AnsweredOnce
<1>1. IInv => AnsweredOnce
  BY DEF IInv, Served, AnswersIn, AnsweredOnce
<1>. QED
  BY Invariance, <1>1, PTL

\* Between the subscription and the lookup it starts no rate is lost: a subscriber for whom
\* no lookup is under way was sent a rate as new as the one in Redis when it subscribed, and
\* as any that was broadcast since, whoever broadcasts and when.
THEOREM SubscriptionsLeaveNoGap == Spec => []NoGapAtSubscription
<1>1. IInv => NoGapAtSubscription
  <2> SUFFICES ASSUME IInv, NEW c \in Known, NEW p \in Pairs,
                      socket[c] = "open", p \in clients[c],
                      \A k \in {j \in DOMAIN lookups[c] : lookups[c][j].pair = p} :
                        lookups[c][k].step = "done"
               PROVE  \E i \in {j \in DOMAIN inbox[c] :
                                  /\ inbox[c][j].pair = p
                                  /\ inbox[c][j].event \in {"current-rate", "rate-update"}} :
                        inbox[c][i].rate >= owed[c][p]
    BY DEF NoGapAtSubscription
  <2>1. c \in Clients
    BY DEF IInv, Typed
  <2>2. Covered(c, p)
    BY <2>1 DEF IInv, UpToDate
  <2>3. \A k \in DOMAIN lookups[c] : ~ Promises(lookups[c][k], p, owed[c][p])
    BY DEF Promises
  <2>4. Heard(inbox[c], p, owed[c][p])
    BY <2>2, <2>3 DEF Covered
  <2>5. DOMAIN inbox[c] = 1 .. Len(inbox[c])
    BY <2>1, LenProperties DEF IInv, Typed
  <2>. QED
    BY <2>4, <2>5 DEF Heard
<1>. QED
  BY Invariance, <1>1, PTL
=============================================================================
