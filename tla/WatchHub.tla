------------------------------- MODULE WatchHub -------------------------------
(***************************************************************************)
(* The analyzer's decision feed (pkg/analyzer/watch.go): publishers push   *)
(* each decision into the ring buffer of every subscriber, and one handler *)
(* goroutine per subscriber (WatchDecisions) pops and sends.               *)
(*                                                                         *)
(* hub.mu is held for a whole publish; a subscriber's own mutex only for   *)
(* one push or pop.  A push and its wake-up are two steps, so handlers run *)
(* between them.  Decisions are numbered in the order hub.mu admits them.  *)
(***************************************************************************)
EXTENDS Integers, FiniteSets

CONSTANTS
  Publishers,      \* goroutines that publish
  Subscribers,     \* WatchDecisions calls
  MaxSubscribers,  \* -watch-max-subscribers
  BufferSize,      \* bufferSize, the length of a ring
  MaxPublished     \* bound of the model: decisions published

ASSUME SizesAssumption ==
  /\ MaxSubscribers \in Nat \ {0}
  /\ BufferSize \in Nat \ {0}
  /\ MaxPublished \in Nat

VARIABLES
  pub,      \* pub[p]: where publisher p is, and what it still has to push
  mu,       \* holder of hub.mu, as a set of at most one publisher
  subs,     \* hub.subs
  seq,      \* number of the newest decision
  call,     \* call[s]: "idle", "wait", "drain", "send", "leave", "gone"
  ended,    \* ended[s]: the call's context is done
  ring,     \* ring[s][i]: decision in slot i, 0 for nil
  head,     \* head[s]
  n,        \* n[s]
  dropped,  \* dropped[s]
  notify,   \* notify[s]: the channel of capacity 1 holds a token
  hand,     \* hand[s]: decision popped and being sent, 0 for none
  joined,   \* history: joined[s], newest decision when s subscribed
  last,     \* history: last[s], newest decision pushed to s
  sent,     \* history: sent[s], number of decisions s was sent
  latest    \* history: latest[s], newest decision s was sent

ringVars    == <<ring, head, n, dropped>>
historyVars == <<joined, last, sent, latest>>
vars == <<pub, mu, subs, seq, call, ended, ringVars, notify, hand, historyVars>>

Slots == 0..(BufferSize - 1)
Quiet == [pc |-> "idle", todo |-> {}, wake |-> {}]

-----------------------------------------------------------------------------
(* Publishers. *)

\* publish looks at hub.active, without the lock; nobody listening ends it.
CheckActive(p) ==
  /\ pub[p].pc = "idle"
  /\ subs # {}
  /\ pub' = [pub EXCEPT ![p].pc = "lock"]
  /\ UNCHANGED <<mu, subs, seq, call, ended, ringVars, notify, hand, historyVars>>

\* publish takes hub.mu and starts over hub.subs.
publish(p) ==
  /\ pub[p].pc = "lock"
  /\ mu = {}
  /\ seq < MaxPublished
  /\ mu' = {p}
  /\ seq' = seq + 1
  /\ pub' = [pub EXCEPT ![p] = [pc |-> "push", todo |-> subs, wake |-> {}]]
  /\ UNCHANGED <<subs, call, ended, ringVars, notify, hand, historyVars>>

\* push under the subscriber's mutex: a full ring loses its oldest decision.
push(p, s) ==
  LET full == n[s] = BufferSize
      h    == IF full THEN (head[s] + 1) % BufferSize ELSE head[s]
      k    == IF full THEN n[s] - 1 ELSE n[s]
      r    == IF full THEN [ring[s] EXCEPT ![head[s]] = 0] ELSE ring[s]
  IN  /\ pub[p].pc = "push"
      /\ pub[p].wake = {}
      /\ s \in pub[p].todo
      /\ ring' = [ring EXCEPT ![s] = [r EXCEPT ![(h + k) % BufferSize] = seq]]
      /\ head' = [head EXCEPT ![s] = h]
      /\ n' = [n EXCEPT ![s] = k + 1]
      /\ dropped' = [dropped EXCEPT ![s] = IF full THEN @ + 1 ELSE @]
      /\ pub' = [pub EXCEPT ![p].todo = @ \ {s}, ![p].wake = {s}]
      /\ last' = [last EXCEPT ![s] = seq]
      /\ UNCHANGED <<mu, subs, seq, call, ended, notify, hand, joined, sent, latest>>

\* The non-blocking send on notify at the end of push.
wakeUp(p) ==
  /\ pub[p].wake # {}
  /\ notify' = [s \in Subscribers |-> s \in pub[p].wake \/ notify[s]]
  /\ pub' = [pub EXCEPT ![p].wake = {}]
  /\ UNCHANGED <<mu, subs, seq, call, ended, ringVars, hand, historyVars>>

\* The deferred unlock of hub.mu.
publishDone(p) ==
  /\ pub[p].pc = "push"
  /\ pub[p].todo = {}
  /\ pub[p].wake = {}
  /\ pub' = [pub EXCEPT ![p] = Quiet]
  /\ mu' = mu \ {p}
  /\ UNCHANGED <<subs, seq, call, ended, ringVars, notify, hand, historyVars>>

-----------------------------------------------------------------------------
(* Subscribers. *)

\* subscribe, under hub.mu.
subscribe(s) ==
  /\ call[s] = "idle"
  /\ mu = {}
  /\ Cardinality(subs) < MaxSubscribers
  /\ subs' = subs \cup {s}
  /\ call' = [call EXCEPT ![s] = "wait"]
  /\ joined' = [joined EXCEPT ![s] = seq]
  /\ last' = [last EXCEPT ![s] = seq]
  /\ UNCHANGED <<pub, mu, seq, ended, ringVars, notify, hand, sent, latest>>

\* A call beyond the limit is refused.
Refuse(s) ==
  /\ call[s] = "idle"
  /\ mu = {}
  /\ Cardinality(subs) >= MaxSubscribers
  /\ call' = [call EXCEPT ![s] = "gone"]
  /\ UNCHANGED <<pub, mu, subs, seq, ended, ringVars, notify, hand, historyVars>>

\* The controller goes away (or the analyzer shuts down).
EndCall(s) ==
  /\ call[s] \notin {"idle", "gone"}
  /\ ~ended[s]
  /\ ended' = [ended EXCEPT ![s] = TRUE]
  /\ UNCHANGED <<pub, mu, subs, seq, call, ringVars, notify, hand, historyVars>>

\* The select of WatchDecisions: a token, or the end of the context.  With
\* both ready Go picks either.
takeToken(s) ==
  /\ call[s] = "wait"
  /\ notify[s]
  /\ notify' = [notify EXCEPT ![s] = FALSE]
  /\ call' = [call EXCEPT ![s] = "drain"]
  /\ UNCHANGED <<pub, mu, subs, seq, ended, ringVars, hand, historyVars>>

seeEnd(s) ==
  /\ call[s] = "wait"
  /\ ended[s]
  /\ call' = [call EXCEPT ![s] = "leave"]
  /\ UNCHANGED <<pub, mu, subs, seq, ended, ringVars, notify, hand, historyVars>>

\* Mutant of pop: one decision is sent per token.
popOne(s) ==
  /\ call[s] = "drain"
  /\ IF n[s] = 0 \/ sent[s] > 0
     THEN /\ call' = [call EXCEPT ![s] = "wait"]
          /\ UNCHANGED <<ring, head, n, hand>>
     ELSE /\ hand' = [hand EXCEPT ![s] = ring[s][head[s]]]
          /\ ring' = [ring EXCEPT ![s][head[s]] = 0]
          /\ head' = [head EXCEPT ![s] = (@ + 1) % BufferSize]
          /\ n' = [n EXCEPT ![s] = @ - 1]
          /\ call' = [call EXCEPT ![s] = "send"]
  /\ UNCHANGED <<pub, mu, subs, seq, ended, dropped, notify, historyVars>>

\* pop under the subscriber's mutex; an empty ring ends the inner loop.
pop(s) ==
  /\ call[s] = "drain"
  /\ IF n[s] = 0
     THEN /\ call' = [call EXCEPT ![s] = "wait"]
          /\ UNCHANGED <<ring, head, n, hand>>
     ELSE /\ hand' = [hand EXCEPT ![s] = ring[s][head[s]]]
          /\ ring' = [ring EXCEPT ![s][head[s]] = 0]
          /\ head' = [head EXCEPT ![s] = (@ + 1) % BufferSize]
          /\ n' = [n EXCEPT ![s] = @ - 1]
          /\ call' = [call EXCEPT ![s] = "send"]
  /\ UNCHANGED <<pub, mu, subs, seq, ended, dropped, notify, historyVars>>

\* stream.Send; it fails once the context is done, and then the call returns.
Send(s) ==
  /\ call[s] = "send"
  /\ hand' = [hand EXCEPT ![s] = 0]
  /\ IF ended[s]
     THEN /\ call' = [call EXCEPT ![s] = "leave"]
          /\ UNCHANGED <<sent, latest>>
     ELSE /\ call' = [call EXCEPT ![s] = "drain"]
          /\ sent' = [sent EXCEPT ![s] = @ + 1]
          /\ latest' = [latest EXCEPT ![s] = hand[s]]
  /\ UNCHANGED <<pub, mu, subs, seq, ended, ringVars, notify, joined, last>>

\* The deferred unsubscribe, under hub.mu.
unsubscribe(s) ==
  /\ call[s] = "leave"
  /\ mu = {}
  /\ subs' = subs \ {s}
  /\ call' = [call EXCEPT ![s] = "gone"]
  /\ UNCHANGED <<pub, mu, seq, ended, ringVars, notify, hand, historyVars>>

-----------------------------------------------------------------------------

Init ==
  /\ pub = [p \in Publishers |-> Quiet]
  /\ mu = {}
  /\ subs = {}
  /\ seq = 0
  /\ call = [s \in Subscribers |-> "idle"]
  /\ ended = [s \in Subscribers |-> FALSE]
  /\ ring = [s \in Subscribers |-> [i \in Slots |-> 0]]
  /\ head = [s \in Subscribers |-> 0]
  /\ n = [s \in Subscribers |-> 0]
  /\ dropped = [s \in Subscribers |-> 0]
  /\ notify = [s \in Subscribers |-> FALSE]
  /\ hand = [s \in Subscribers |-> 0]
  /\ joined = [s \in Subscribers |-> 0]
  /\ last = [s \in Subscribers |-> 0]
  /\ sent = [s \in Subscribers |-> 0]
  /\ latest = [s \in Subscribers |-> 0]

PublisherStep(p) ==
  \/ publish(p)
  \/ \E s \in Subscribers : push(p, s)
  \/ wakeUp(p)
  \/ publishDone(p)

HandlerStep(s) ==
  \/ takeToken(s)
  \/ seeEnd(s)
  \/ pop(s)
  \/ Send(s)
  \/ unsubscribe(s)

Next ==
  \/ \E p \in Publishers : CheckActive(p) \/ PublisherStep(p)
  \/ \E s \in Subscribers : subscribe(s) \/ Refuse(s) \/ EndCall(s) \/ HandlerStep(s)

Spec == Init /\ [][Next]_vars

\* Every goroutine keeps running; nothing is assumed of controllers.
Fairness ==
  /\ \A p \in Publishers : WF_vars(PublisherStep(p))
  /\ \A s \in Subscribers : WF_vars(HandlerStep(s))

FairSpec == Spec /\ Fairness

-----------------------------------------------------------------------------
(* Properties. *)

\* Type invariant: the values every variable takes.
TypeOK ==
  /\ pub \in [Publishers -> [pc : {"idle", "lock", "push"}, todo : SUBSET Subscribers,
                             wake : SUBSET Subscribers]]
  /\ mu \subseteq Publishers
  /\ subs \subseteq Subscribers
  /\ seq \in 0..MaxPublished
  /\ call \in [Subscribers -> {"idle", "wait", "drain", "send", "leave", "gone"}]
  /\ ended \in [Subscribers -> BOOLEAN]
  /\ ring \in [Subscribers -> [Slots -> Nat]]
  /\ head \in [Subscribers -> Slots]
  /\ n \in [Subscribers -> 0..BufferSize]
  /\ dropped \in [Subscribers -> Nat]
  /\ notify \in [Subscribers -> BOOLEAN]
  /\ hand \in [Subscribers -> Nat]
  /\ joined \in [Subscribers -> Nat]
  /\ last \in [Subscribers -> Nat]
  /\ sent \in [Subscribers -> Nat]
  /\ latest \in [Subscribers -> Nat]

\* No lost wake-up: a waiting handler whose ring holds a decision has a token,
\* or the publisher that pushed is about to leave one.  The handler drains
\* with one token however many pushes it stands for, so this is what keeps a
\* decision from sitting in the ring until the next one comes.
NoLostWakeup ==
  \A s \in Subscribers :
     call[s] = "wait" /\ n[s] > 0
       => notify[s] \/ \E p \in Publishers : s \in pub[p].wake

\* A ring that fell behind keeps the newest decisions, in publication order
\* and without gaps ("a controller that falls behind sees the most recent
\* state"), and every subscriber sees the same order because mu serialises
\* publishers.
RingHoldsNewest ==
  \A s \in Subscribers : \A i \in 0..(n[s] - 1) :
     ring[s][(head[s] + i) % BufferSize] = last[s] - n[s] + 1 + i

\* Every decision pushed to a connected subscriber is sent, dropped and
\* counted, still in the ring, or in the handler's hand.
NothingUnaccounted ==
  \A s \in Subscribers :
     call[s] \in {"wait", "drain", "send"}
       => last[s] - joined[s] = sent[s] + dropped[s] + n[s]
                                  + (IF call[s] = "send" THEN 1 ELSE 0)

\* -watch-max-subscribers bounds the rings that are alive, callers that have
\* not yet unsubscribed included.
SubscribersBounded ==
  /\ Cardinality(subs) <= MaxSubscribers
  /\ \A s \in Subscribers : call[s] \in {"wait", "drain", "send", "leave"} => s \in subs

\* A subscriber is never sent an older decision after a newer one.
SentInOrder ==
  [][\A s \in Subscribers : latest'[s] # latest[s] => latest'[s] > latest[s]]_vars

\* A decision in the ring of a connected subscriber does not wait forever: time
\* and again the ring is empty, unless the call has ended.
RingDrains ==
  \A s \in Subscribers : []<>(n[s] = 0 \/ ended[s])

-----------------------------------------------------------------------------
(***************************************************************************)
(* The inductive invariant behind RingHoldsNewest, NothingUnaccounted and  *)
(* SentInOrder.                                                            *)
(***************************************************************************)

\* hub.mu belongs to the one publisher that is pushing; the others have nothing
\* left to push or to wake.
LockDiscipline ==
  \A p \in Publishers :
     /\ pub[p].pc = "push" => mu = {p}
     /\ pub[p].pc # "push" => pub[p].todo = {} /\ pub[p].wake = {}
     /\ pub[p].todo \subseteq subs

\* hub.subs are the calls between subscribe and unsubscribe.
SubsAreActive ==
  \A s \in Subscribers :
     s \in subs <=> call[s] \in {"wait", "drain", "send", "leave"}

\* A subscriber has been pushed every decision up to the current one, or the
\* publisher still has it on its list.
UpToDate ==
  \A s \in subs :
     last[s] = IF \E p \in Publishers : s \in pub[p].todo THEN seq - 1 ELSE seq

\* A call that has not subscribed has an empty ring.
StartsEmpty ==
  \A s \in Subscribers :
     call[s] = "idle" => n[s] = 0 /\ dropped[s] = 0 /\ sent[s] = 0 /\ latest[s] = 0

\* What is sent, in the hand and in the ring is in this order.
HandInOrder ==
  \A s \in Subscribers :
     /\ latest[s] <= last[s] - n[s]
     /\ call[s] = "send" => latest[s] < hand[s] /\ hand[s] <= last[s] - n[s]

RingInv ==
  /\ TypeOK
  /\ LockDiscipline
  /\ SubsAreActive
  /\ UpToDate
  /\ StartsEmpty
  /\ HandInOrder
  /\ RingHoldsNewest
  /\ NothingUnaccounted

\* What a subscriber of the decision feed can rely on: the newest decisions,
\* in order, each sent or counted as dropped, and no wake-up lost, with the
\* number of subscribers bounded (publish, push, pop, WatchDecisions).
FeedCorrect ==
  /\ [](TypeOK /\ SubscribersBounded)
  /\ [](NoLostWakeup /\ RingHoldsNewest /\ NothingUnaccounted)
  /\ SentInOrder
=============================================================================
