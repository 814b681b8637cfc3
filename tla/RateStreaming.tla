---------------------------- MODULE RateStreaming ----------------------------
(***************************************************************************)
(* RateStreamingGateway of the integration micro-service: WebSocket        *)
(* clients, the currency pairs they subscribed to, the rates they ask for  *)
(* and the updates they are sent.                                          *)
(*                                                                         *)
(* The handlers of messages and of connections run to their end without an *)
(* await, but for sendCurrentRate: it asks Redis for the rate and answers  *)
(* when that has come.  A lookup is one run of it; nothing awaits those    *)
(* that handleSubscribe starts.                                            *)
(*                                                                         *)
(* A rate is the number of times it was set, 0 if Redis has none (the      *)
(* client is then sent a rate that is undefined).  A pair of equal         *)
(* currencies, whose rate is always 1, is left out.  ExchangeRateService   *)
(* sets rates in Redis and tells nobody, though the comment on             *)
(* broadcastRateUpdate says it calls that: nothing in the code does.  The  *)
(* method is public, so here someone may call it, or not, with any rate    *)
(* that was set.                                                           *)
(***************************************************************************)
EXTENDS Integers, Sequences, FiniteSetsExt

CONSTANTS
  Clients,    \* the WebSockets that may be opened
  Pairs,      \* the currency pairs (subscription keys)
  MaxSaid,    \* bound: the messages each client sends
  MaxRate,    \* bound: how often a rate is set
  MaxUpdates  \* bound: the calls of broadcastRateUpdate

ASSUME ConstantsAssumption ==
  MaxSaid \in [Clients -> Nat] /\ MaxRate \in Nat /\ MaxUpdates \in Nat

VARIABLES
  rate,        \* the rate of each pair in Redis
  updates,     \* how many updates were broadcast
  socket,      \* the state of each WebSocket
  clients,     \* the gateway's Map: the subscriptions of each client it knows
  said,        \* how many messages each client sent
  lookups,     \* the lookups made for each client
  inbox,       \* what each client was sent, while its socket is open
  owed         \* history: the rate in Redis when each client last subscribed to a
               \* pair, or a newer one broadcast since

vars == <<rate, updates, socket, clients, said, lookups, inbox, owed>>

-----------------------------------------------------------------------------

Lookups == [pair : Pairs, step : {"asked", "found", "failed", "done", "refused"},
            rate : 0 .. MaxRate]
Answers == {"current-rate", "error"}
Events == Answers \cup {"subscribed", "unsubscribed", "rate-update"}
Message(event, p, r) == [event |-> event, pair |-> p, rate |-> r]

Init ==
  /\ rate = [p \in Pairs |-> 0]
  /\ updates = 0
  /\ socket = [c \in Clients |-> "new"]
  /\ clients = <<>>
  /\ said = [c \in Clients |-> 0]
  /\ lookups = [c \in Clients |-> <<>>]
  /\ inbox = [c \in Clients |-> <<>>]
  /\ owed = [c \in Clients |-> [p \in Pairs |-> 0]]

Known == DOMAIN clients

\* What clients receive when each is sent the messages out[c]: a socket that is closing
\* or closed drops them, without an error.
Sent(out) == [c \in Clients |-> IF socket[c] = "open" THEN inbox[c] \o out[c] ELSE inbox[c]]
To(c, m) == [d \in Clients |-> IF d = c THEN <<m>> ELSE <<>>]

-----------------------------------------------------------------------------
(* Connections. *)

\* (The welcome message is left out.)
HandleConnection(c) ==
  /\ socket[c] = "new"
  /\ socket' = [socket EXCEPT ![c] = "open"]
  /\ clients' = [d \in Known \cup {c} |-> IF d = c THEN {} ELSE clients[d]]
  /\ UNCHANGED <<rate, updates, said, lookups, inbox, owed>>

\* The client sends a close frame, or the connection breaks.
StartClosing(c) ==
  /\ socket[c] = "open"
  /\ socket' = [socket EXCEPT ![c] = "closing"]
  /\ inbox' = [inbox EXCEPT ![c] = <<>>]
  /\ UNCHANGED <<rate, updates, clients, said, lookups, owed>>

\* A mutant of HandleDisconnect: the client stays in the Map.
HandleDisconnectMutant(c) ==
  /\ socket[c] = "closing"
  /\ socket' = [socket EXCEPT ![c] = "closed"]
  /\ UNCHANGED <<rate, updates, clients, said, lookups, inbox, owed>>
HandleDisconnect(c) ==
  /\ socket[c] = "closing"
  /\ socket' = [socket EXCEPT ![c] = "closed"]
  /\ clients' = [d \in Known \ {c} |-> clients[d]]
  /\ UNCHANGED <<rate, updates, said, lookups, inbox, owed>>

-----------------------------------------------------------------------------
(* Messages. *)

\* A client sends a message; there are none after its close frame.
Say(c) ==
  /\ socket[c] = "open"
  /\ said[c] < MaxSaid[c]
  /\ said' = [said EXCEPT ![c] = @ + 1]

\* sendCurrentRate up to its await.
StartLookup(c, p) ==
  lookups' = [lookups EXCEPT ![c] = Append(@, [pair |-> p, step |-> "asked", rate |-> 0])]

\* A mutant of HandleSubscribe: no rate is asked for, updates are enough.
HandleSubscribeNoLookup(c, p) ==
  /\ Say(c)
  /\ clients' = [clients EXCEPT ![c] = @ \cup {p}]
  /\ inbox' = Sent(To(c, Message("subscribed", p, 0)))
  /\ owed' = [owed EXCEPT ![c][p] = rate[p]]
  /\ UNCHANGED <<rate, updates, socket, lookups>>
\* "Client not found" cannot happen: the client of an open socket is known.
HandleSubscribe(c, p) ==
  /\ Say(c)
  /\ c \in Known
  /\ clients' = [clients EXCEPT ![c] = @ \cup {p}]
  /\ StartLookup(c, p)
  /\ inbox' = Sent(To(c, Message("subscribed", p, 0)))
  /\ owed' = [owed EXCEPT ![c][p] = rate[p]]
  /\ UNCHANGED <<rate, updates, socket>>

\* A mutant of HandleUnsubscribe: the key is not the one that was added.
HandleUnsubscribeMutant(c, p) ==
  /\ Say(c)
  /\ inbox' = Sent(To(c, Message("unsubscribed", p, 0)))
  /\ UNCHANGED <<rate, updates, socket, clients, lookups, owed>>
HandleUnsubscribe(c, p) ==
  /\ Say(c)
  /\ c \in Known
  /\ clients' = [clients EXCEPT ![c] = @ \ {p}]
  /\ inbox' = Sent(To(c, Message("unsubscribed", p, 0)))
  /\ UNCHANGED <<rate, updates, socket, lookups, owed>>

HandleGetRate(c, p) ==
  /\ Say(c)
  /\ StartLookup(c, p)
  /\ UNCHANGED <<rate, updates, socket, clients, inbox, owed>>

-----------------------------------------------------------------------------
(* sendCurrentRate. *)

\* Redis executes the HGET, or it fails; the answer is on its way.
ReadRate(c, k) ==
  LET l == lookups[c][k]
  IN  /\ l.step = "asked"
      /\ \/ lookups' = [lookups EXCEPT ![c][k] = [l EXCEPT !.step = "found",
                                                          !.rate = rate[l.pair]]]
         \/ lookups' = [lookups EXCEPT ![c][k] = [l EXCEPT !.step = "failed"]]
      /\ UNCHANGED <<rate, updates, socket, clients, said, inbox, owed>>

\* A mutant of AnswerLookup: the catch block only logs.
AnswerLookupMutant(c, k) ==
  LET l == lookups[c][k]
  IN  /\ l.step \in {"found", "failed"}
      /\ lookups' = [lookups EXCEPT ![c][k] =
                    [l EXCEPT !.step = IF @ = "found" THEN "done" ELSE "refused", !.rate = 0]]
      /\ inbox' = IF l.step = "found"
                  THEN Sent(To(c, Message("current-rate", l.pair, l.rate))) ELSE inbox
      /\ UNCHANGED <<rate, updates, socket, clients, said, owed>>
\* Another: an error is thrown to where nobody catches it.
AnswerLookupStuck(c, k) ==
  LET l == lookups[c][k]
  IN  /\ l.step = "found"
      /\ lookups' = [lookups EXCEPT ![c][k] = [l EXCEPT !.step = "done", !.rate = 0]]
      /\ inbox' = Sent(To(c, Message("current-rate", l.pair, l.rate)))
      /\ UNCHANGED <<rate, updates, socket, clients, said, owed>>
\* The await ends, whether the client is still there and subscribed or not.
AnswerLookup(c, k) ==
  LET l == lookups[c][k]
  IN  /\ \/ /\ l.step = "found"
            /\ lookups' = [lookups EXCEPT ![c][k] = [l EXCEPT !.step = "done", !.rate = 0]]
            /\ inbox' = Sent(To(c, Message("current-rate", l.pair, l.rate)))
         \/ /\ l.step = "failed"
            /\ lookups' = [lookups EXCEPT ![c][k] = [l EXCEPT !.step = "refused"]]
            /\ inbox' = Sent(To(c, Message("error", l.pair, 0)))
      /\ UNCHANGED <<rate, updates, socket, clients, said, owed>>

-----------------------------------------------------------------------------
(* Updates. *)

\* A refresh or updateExchangeRate writes the rate to Redis, and that is all.
SetRate(p) ==
  /\ rate[p] < MaxRate
  /\ rate' = [rate EXCEPT ![p] = @ + 1]
  /\ UNCHANGED <<updates, socket, clients, said, lookups, inbox, owed>>

\* A mutant of Subscribers: the loop ends at a client that is going away.
SubscribersMutant(p) ==
  IF \E c \in Known : socket[c] # "open" THEN {} ELSE {c \in Known : p \in clients[c]}
Subscribers(p) == {c \in Known : p \in clients[c]}

\* broadcastRateUpdate: one loop over the Map; a failing send is caught in the loop.
BroadcastRateUpdate(p, newRate) ==
  /\ updates < MaxUpdates
  /\ updates' = updates + 1
  /\ inbox' = Sent([c \in Clients |->
                     IF c \in Subscribers(p)
                     THEN <<Message("rate-update", p, newRate)>> ELSE <<>>])
  /\ owed' = [c \in Clients |->
               IF c \in Known /\ p \in clients[c] /\ owed[c][p] < newRate
               THEN [owed[c] EXCEPT ![p] = newRate] ELSE owed[c]]
  /\ UNCHANGED <<rate, socket, clients, said, lookups>>

-----------------------------------------------------------------------------

Lookup(c, k) == ReadRate(c, k) \/ AnswerLookup(c, k)

Next ==
  \/ \E c \in Clients : HandleConnection(c) \/ StartClosing(c) \/ HandleDisconnect(c)
  \/ \E c \in Clients, p \in Pairs :
       HandleSubscribe(c, p) \/ HandleUnsubscribe(c, p) \/ HandleGetRate(c, p)
  \/ \E c \in Clients : \E k \in DOMAIN lookups[c] : Lookup(c, k)
  \/ \E p \in Pairs : SetRate(p)
  \/ \E p \in Pairs : \E newRate \in 1 .. rate[p] : BroadcastRateUpdate(p, newRate)

\* Redis answers or fails, and the event loop resumes who waits for it.
Fairness ==
  \A c \in Clients : \A k \in 1 .. MaxSaid[c] :
    WF_vars(k \in DOMAIN lookups[c] /\ Lookup(c, k))

Spec == Init /\ [][Next]_vars
FairSpec == Spec /\ Fairness

-----------------------------------------------------------------------------
(* Properties. *)

\* Types, and: the gateway knows the clients whose sockets are open or closing, no more
\* and no fewer, so that no message is handled for an unknown one and none leaks.
TypeOK ==
  /\ rate \in [Pairs -> 0 .. MaxRate]
  /\ updates \in 0 .. MaxUpdates
  /\ socket \in [Clients -> {"new", "open", "closing", "closed"}]
  /\ clients \in [Known -> SUBSET Pairs]
  /\ Known = {c \in Clients : socket[c] \in {"open", "closing"}}
  /\ \A c \in Clients : said[c] \in 0 .. MaxSaid[c]
  /\ \A c \in Clients :
       Len(lookups[c]) <= said[c] /\ \A k \in DOMAIN lookups[c] : lookups[c][k] \in Lookups
  /\ \A c \in Clients : \A i \in DOMAIN inbox[c] :
       /\ inbox[c][i].event \in Events
       /\ inbox[c][i].pair \in Pairs
       /\ inbox[c][i].rate \in 0 .. MaxRate
  /\ owed \in [Clients -> [Pairs -> 0 .. MaxRate]]

\* A client is sent updates of a pair only while it is subscribed as far as it knows: the
\* last acknowledgement before the update, of this pair, is that of a subscription.
UpdatesOnlyWhileSubscribed ==
  \A c \in Clients : \A i \in DOMAIN inbox[c] :
    inbox[c][i].event = "rate-update" =>
      LET acks == {j \in 1 .. i - 1 : /\ inbox[c][j].pair = inbox[c][i].pair
                                      /\ inbox[c][j].event \in {"subscribed", "unsubscribed"}}
      IN  acks # {} /\ inbox[c][Max(acks)].event = "subscribed"

Over(c) == {k \in DOMAIN lookups[c] : lookups[c][k].step \in {"done", "refused"}}

\* While a client stays, every lookup that is over was answered, once: with a rate, or with
\* an error if Redis failed, whatever it subscribed to or unsubscribed from meanwhile.
AnsweredOnce ==
  \A c \in Clients : socket[c] = "open" =>
    Cardinality({i \in DOMAIN inbox[c] : inbox[c][i].event \in Answers})
      = Cardinality(Over(c))

\* No rate falls between a subscription and the lookup it starts: a subscriber none of
\* whose lookups of the pair is under way, or was refused, was sent a rate that is no older
\* than the one in Redis when it subscribed, and than any that was broadcast since.  (Rates
\* that were set since and that nobody broadcast do not reach it, and its last message may
\* be older than another.)
NoGapAtSubscription ==
  \A c \in Known, p \in Pairs :
    LET mine == {k \in DOMAIN lookups[c] : lookups[c][k].pair = p}
        news == {i \in DOMAIN inbox[c] :
                   inbox[c][i].pair = p /\ inbox[c][i].event \in {"current-rate", "rate-update"}}
        quiet == \A k \in mine : lookups[c][k].step = "done"
    IN  socket[c] = "open" /\ p \in clients[c] /\ quiet
          => \E i \in news : inbox[c][i].rate >= owed[c][p]

\* Every lookup ends, though Redis fails or the client leaves.
LookupsEnd ==
  \A c \in Clients : \A k \in 1 .. MaxSaid[c] : k \in DOMAIN lookups[c] ~> k \in Over(c)
=============================================================================
