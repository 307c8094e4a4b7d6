--------------------------- MODULE SubscriptionProofs ---------------------------
(***************************************************************************)
(* Proofs about Subscription: when the listener can be called wrongly, and *)
(* what becomes of every message, for all five kinds of subscription, any  *)
(* number of messages and any limits.                                      *)
(***************************************************************************)
EXTENDS Subscription, FiniteSetTheorems, TLAPS

\* Where the object, its listener, the library's subscription and the delivery
\* thread are with respect to each other.
StageInv ==
    /\ app = "none" => thread = Idle /\ state = "none"
    /\ app = "created" => kind = "core"
    /\ kind = "js" /\ app # "none" => listening # {}
    /\ kind = "core" /\ app \notin {"none", "created"} => listening # {}
    /\ state \in {"drained", "max"} => thread = Idle
    /\ thread.at = "taken" /\ kind # "core" => thread.msg > 0

\* Messages are numbered as they arrive, and keep that order: what was handled
\* is older than what the thread has, and that than what is queued.
OrderInv ==
    /\ \A i, j \in DOMAIN handled : i < j => handled[i] < handled[j]
    /\ \A i, j \in DOMAIN queue : i < j => queue[i] < queue[j]
    /\ \A i \in DOMAIN handled, j \in DOMAIN queue : handled[i] < queue[j]
    /\ thread.at = "taken" =>
        /\ thread.msg > 0 => \A i \in DOMAIN handled : handled[i] < thread.msg
        /\ \A j \in DOMAIN queue : thread.msg < queue[j]
    /\ \A j \in DOMAIN queue : queue[j] <= arrived
    /\ \A i \in DOMAIN handled : handled[i] <= arrived
    /\ thread.msg <= arrived

\* The watcher ignored what came before the handler for it was there.
WatchInv ==
    /\ ignored \subseteq 1..arrived
    /\ EventsAfterRegistrationAreSeen

\* Nothing is lost before the subscription ends, and not by a drain without a
\* timeout.
InHand == IF thread.at = "taken" THEN {thread.msg} \ {0} ELSE {}
Accounted == Range(handled) \union Range(queue) \union dropped \union ignored \union InHand
LossInv ==
    /\ timed => asked >= 0
    /\ state = "expired" => asked >= 0
    /\ state \in {"none", "drained"} \union Open =>
        /\ fault = "none" => 1..arrived = Accounted
        /\ delivered + Len(queue) + Cardinality(dropped) = arrived

IInv == TypeOK /\ StageInv /\ OrderInv /\ WatchInv /\ LossInv

USE SubscriptionAssumption
USE DEF object, limits, fates, Gone, Polled, Open

-----------------------------------------------------------------------------
(* Sequences.                                                              *)

LEMMA HeadTail ==
    ASSUME NEW S, NEW s \in Seq(S), s # << >>
    PROVE  /\ Head(s) = s[1] /\ 1 \in DOMAIN s /\ Head(s) \in S
           /\ Tail(s) \in Seq(S) /\ Len(s) = Len(Tail(s)) + 1 /\ Len(Tail(s)) \in Nat
           /\ \A i \in DOMAIN Tail(s) : Tail(s)[i] = s[i + 1] /\ i + 1 \in DOMAIN s /\ 1 < i + 1
           /\ \A i \in DOMAIN Tail(s) : i \in Nat
  OBVIOUS

LEMMA TailRange ==
    ASSUME NEW S, NEW s \in Seq(S), s # << >>
    PROVE  Range(s) = {Head(s)} \union Range(Tail(s))
  <1>1. ASSUME NEW x \in Range(s) PROVE x \in {Head(s)} \union Range(Tail(s))
    <2>1. PICK i \in DOMAIN s : x = s[i]
      BY DEF Range
    <2>2. CASE i = 1
      BY <2>1, <2>2
    <2>3. CASE i # 1
      <3>1. i - 1 \in DOMAIN Tail(s) /\ Tail(s)[i - 1] = s[i]
        BY <2>1, <2>3
      <3> QED
        BY <2>1, <3>1 DEF Range
    <2> QED
      BY <2>2, <2>3
  <1>2. Head(s) \in Range(s) /\ Range(Tail(s)) \subseteq Range(s)
    BY HeadTail DEF Range
  <1> QED
    BY <1>1, <1>2

LEMMA Appended ==
    ASSUME NEW S, NEW s \in Seq(S), NEW e \in S
    PROVE  /\ Append(s, e) \in Seq(S) /\ Len(Append(s, e)) = Len(s) + 1
           /\ DOMAIN Append(s, e) = DOMAIN s \union {Len(s) + 1}
           /\ \A i \in DOMAIN s : Append(s, e)[i] = s[i] /\ i < Len(s) + 1
           /\ Append(s, e)[Len(s) + 1] = e
           /\ Range(Append(s, e)) = Range(s) \union {e}
  <1>1. /\ Append(s, e) \in Seq(S) /\ Len(Append(s, e)) = Len(s) + 1
        /\ DOMAIN Append(s, e) = DOMAIN s \union {Len(s) + 1}
        /\ \A i \in DOMAIN s : Append(s, e)[i] = s[i] /\ i < Len(s) + 1
        /\ Append(s, e)[Len(s) + 1] = e
    OBVIOUS
  <1> QED
    BY <1>1 DEF Range

LEMMA EmptyRange == Range(<< >>) = {}
  BY DEF Range

-----------------------------------------------------------------------------
(* Types and stages.                                                       *)

\* The actions, sorted by what they do to messages.
Opening == SubscribeCore \/ RegisterListener \/ SubscribeJs \/ SubscribeSync \/ Watch
           \/ Updated \/ Removed
Limiting == \E n \in Limits : SetPendingLimits(n) \/ SetAutoUnsubscribe(n)
Draining == Drain(-1) \/ Drain(1)
Closing == Unsubscribe \/ DestroyListener \/ Destroy \/ DrainCompletes \/ DrainExpires
Moving == NextMessage \/ Arrive \/ Take \/ Timeout \/ Callback \/ Return

LEMMA NextSteps ==
    Next => fault = "none" /\ (Opening \/ Limiting \/ Draining \/ Closing \/ Moving)
  <1> SUFFICES ASSUME Next PROVE fault = "none" /\ (Opening \/ Limiting \/ Draining \/ Closing \/ Moving)
    OBVIOUS
  <1>1. Drained => Draining
    BY DEF Drained, Draining
  <1>2. Limited => Limiting
    BY DEF Limited, Limiting
  <1> QED
    BY <1>1, <1>2
    DEF Next, Opening, Closing, Moving, SubscriptionCall, JsSubscriptionCall,
        SyncSubscriptionCall, JsSyncSubscriptionCall, ObjectWatcherCall

LEMMA TypeInit == Init => TypeOK
  <1>1. Init => timed \in BOOLEAN
    BY Zenon DEF Init
  <1> QED
    BY <1>1 DEF Init, TypeOK, Handlers, Idle

LEMMA OpeningTypes == TypeOK /\ Opening => TypeOK'
  <1> SUFFICES ASSUME TypeOK, Opening PROVE TypeOK'
    OBVIOUS
  <1>1. since' \in [Handlers -> 0..MaxMessages] /\ listening' \subseteq Handlers
    <2>1. /\ since \in [Handlers -> 0..MaxMessages] /\ arrived \in 0..MaxMessages
          /\ listening \subseteq Handlers
      BY DEF TypeOK
    <2>2. \/ UNCHANGED <<since, listening>>
          \/ Listen("message") \/ Listen("updated") \/ Listen("removed")
      BY DEF Opening, SubscribeCore, RegisterListener, SubscribeJs, SubscribeSync, Watch,
             Updated, Removed, SetHandler
    <2> QED
      BY <2>1, <2>2 DEF Listen, Handlers
  <1>2. app' \in {"none", "created", "held"} \union Gone /\ state' \in {"none"} \union Open \union Ended
    <2>1. app' \in {app, "created", "held"} /\ state' \in {state, "live"}
      BY DEF Opening, SubscribeCore, RegisterListener, SubscribeJs, SubscribeSync, Watch,
             Updated, Removed, SetHandler
    <2> QED
      BY <2>1 DEF TypeOK
  <1>3. UNCHANGED <<kind, timed, asked, queue, limits, thread, arrived, delivered, fates, fault>>
    BY DEF Opening, SubscribeCore, RegisterListener, SubscribeJs, SubscribeSync, Watch,
           Updated, Removed, SetHandler
  <1> QED
    BY <1>1, <1>2, <1>3 DEF TypeOK

LEMMA LimitingTypes == TypeOK /\ (Limiting \/ Draining) => TypeOK'
  <1> SUFFICES ASSUME TypeOK, Limiting \/ Draining PROVE TypeOK'
    OBVIOUS
  <1>1. CASE Limiting
    BY <1>1 DEF TypeOK, Limiting, SetPendingLimits, SetAutoUnsubscribe
  <1>2. CASE Draining
    <2>1. timed' \in BOOLEAN
      <3>1. timed' = TRUE \/ timed' = FALSE
        BY <1>2 DEF Draining, Drain
      <3> QED
        BY <3>1
    <2> QED
      BY <1>2, <2>1 DEF TypeOK, Draining, Drain
  <1> QED
    BY <1>1, <1>2

LEMMA ClosingTypes == TypeOK /\ Closing => TypeOK'
  <1> SUFFICES ASSUME TypeOK, Closing PROVE TypeOK'
    OBVIOUS
  <1>1. app' \in {app, "freed", "destroyed"} /\ state' \in {state} \union Ended
        /\ queue' \in {queue, << >>}
    BY DEF Closing, Unsubscribe, DestroyListener, Destroy, DrainCompletes, DrainExpires,
           Close, Ended
  <1>2. UNCHANGED <<kind, listening, since, timed, asked, limits, thread, arrived, delivered,
                    fates, fault>>
    BY DEF Closing, Unsubscribe, DestroyListener, Destroy, DrainCompletes, DrainExpires
  <1>3. queue' \in Seq(Messages) /\ app' \in {"none", "created", "held"} \union Gone
        /\ state' \in {"none"} \union Open \union Ended
    <2>1. queue \in Seq(Messages) /\ << >> \in Seq(Messages)
          /\ app \in {"none", "created", "held"} \union Gone
          /\ state \in {"none"} \union Open \union Ended
      BY DEF TypeOK
    <2>2. queue' \in Seq(Messages)
      BY <1>1, <2>1
    <2>3. app' \in {"none", "created", "held"} \union Gone
      BY <1>1, <2>1
    <2>4. state' \in {"none"} \union Open \union Ended
      BY <1>1, <2>1
    <2> QED
      BY <2>2, <2>3, <2>4
  <1> QED
    BY <1>2, <1>3 DEF TypeOK

LEMMA MovingTypes == TypeOK /\ StageInv /\ Moving => TypeOK'
  <1> SUFFICES ASSUME TypeOK, StageInv, Moving PROVE TypeOK'
    OBVIOUS
  <1>0. /\ queue \in Seq(Messages) /\ handled \in Seq(Messages)
        /\ << >> \in Seq(Messages)
        /\ arrived \in 0..MaxMessages /\ delivered \in Nat
        /\ thread \in [at : {"idle", "taken", "calling"}, msg : 0..MaxMessages]
        /\ dropped \subseteq 1..arrived
    BY DEF TypeOK
  <1>1. CASE NextMessage
    <2>1. Head(queue) \in Messages /\ Tail(queue) \in Seq(Messages)
      BY <1>0, <1>1, HeadTail DEF NextMessage
    <2>2. handled' \in Seq(Messages)
      BY <1>0, <1>1, <2>1 DEF NextMessage
    <2>3. queue' \in Seq(Messages) /\ state' \in Open \union Ended
      BY <1>0, <1>1, <2>1 DEF NextMessage, Close, Ended
    <2> QED
      BY <1>0, <1>1, <2>2, <2>3 DEF NextMessage, TypeOK
  <1>2. CASE Arrive
    <2>1. arrived' = arrived + 1 /\ arrived' \in 0..MaxMessages /\ arrived' \in Messages
      BY <1>0, <1>2 DEF Arrive, Messages
    <2>2. queue' = queue \/ queue' = Append(queue, arrived')
      BY <1>2, <2>1 DEF Arrive
    <2>3. queue' \in Seq(Messages)
      <3>1. Append(queue, arrived') \in Seq(Messages)
        BY <1>0, <2>1, Appended
      <3> QED
        BY <1>0, <2>2, <3>1
    <2>4. dropped' = dropped \/ dropped' = dropped \union {arrived'}
      BY <1>2, <2>1 DEF Arrive
    <2>5. dropped' \subseteq 1..arrived'
      <3>1. \A m \in 1..arrived : m \in 1..arrived'
        BY <1>0, <2>1
      <3>2. arrived' \in 1..arrived'
        BY <1>0, <2>1
      <3> QED
        BY <1>0, <2>4, <3>1, <3>2
    <2> QED
      BY <1>2, <2>1, <2>3, <2>5 DEF Arrive, TypeOK
  <1>3. CASE Take
    <2>1. Head(queue) \in Messages /\ Tail(queue) \in Seq(Messages)
      BY <1>0, <1>3, HeadTail DEF Take
    <2>2. thread' = [at |-> "taken", msg |-> Head(queue)] /\ Head(queue) \in 0..MaxMessages
      BY <1>3, <2>1 DEF Take, Messages
    <2>3. thread' \in [at : {"idle", "taken", "calling"}, msg : 0..MaxMessages]
      BY <2>2
    <2> QED
      BY <1>0, <1>3, <2>1, <2>3 DEF Take, TypeOK
  <1>4. CASE Timeout
    BY <1>4 DEF Timeout, TypeOK
  <1>5. CASE Callback
    <2>1. thread' \in [at : {"idle", "taken", "calling"}, msg : 0..MaxMessages]
      BY <1>0, <1>5 DEF Callback
    <2>2. handled' \in Seq(Messages)
      <3>1. handled' = handled \/ (thread.msg > 0 /\ handled' = Append(handled, thread.msg))
        <4>1. CASE app \in Gone \/ (kind # "watch" /\ listening = {})
          BY <1>5, <4>1 DEF Callback
        <4>2. CASE ~(app \in Gone \/ (kind # "watch" /\ listening = {}))
          <5> DEFINE hears == thread.msg > 0 /\ (kind = "watch" => WatcherHears(thread.msg))
          <5>1. handled' = IF hears THEN Append(handled, thread.msg) ELSE handled
            BY <1>5, <4>2 DEF Callback
          <5>2. hears => thread.msg > 0
            OBVIOUS
          <5> HIDE DEF hears
          <5> QED
            BY <5>1, <5>2
        <4> QED
          BY <4>1, <4>2
      <3>2. thread.msg > 0 => thread.msg \in Messages
        BY <1>0 DEF Messages
      <3> QED
        BY <1>0, <3>1, <3>2, Appended
    <2>3. thread.msg \in Messages \/ kind = "core"
      BY <1>0, <1>5 DEF StageInv, Callback, Messages
    <2>4. ignored' \subseteq Messages
      BY <1>5, <2>3 DEF Callback, TypeOK
    <2>5. fault' \in {"none", "empty", "destroyed"}
      BY <1>5 DEF Callback, TypeOK
    <2>6. kind \notin Polled
      BY <1>5 DEF TypeOK, Callback, Idle
    <2> QED
      BY <1>5, <2>1, <2>2, <2>4, <2>5, <2>6 DEF Callback, TypeOK
  <1>6. CASE Return
    <2>1. queue' \in Seq(Messages) /\ state' \in {"none"} \union Open \union Ended
          /\ fault' \in {"none", "empty", "destroyed"}
      BY <1>0, <1>6 DEF Return, TypeOK, Close, Ended
    <2>2. thread' \in [at : {"idle", "taken", "calling"}, msg : 0..MaxMessages] /\ thread' = Idle
      BY <1>6 DEF Return, Idle
    <2> QED
      BY <1>6, <2>1, <2>2 DEF Return, TypeOK
  <1> QED
    BY <1>1, <1>2, <1>3, <1>4, <1>5, <1>6 DEF Moving

LEMMA TypeStep == TypeOK /\ StageInv /\ [Next]_vars => TypeOK'
  <1>1. TypeOK /\ UNCHANGED vars => TypeOK'
    BY DEF TypeOK, vars
  <1> QED
    BY <1>1, NextSteps, OpeningTypes, LimitingTypes, ClosingTypes, MovingTypes

LEMMA StageStep == TypeOK /\ StageInv /\ [Next]_vars => StageInv'
  <1> SUFFICES ASSUME TypeOK, StageInv, [Next]_vars PROVE StageInv'
    OBVIOUS
  <1>1. CASE Opening
    BY <1>1
    DEF TypeOK, StageInv, Opening, SubscribeCore, RegisterListener, SubscribeJs, SubscribeSync,
        Watch, Updated, Removed, SetHandler, Listen
  <1>2. CASE Limiting \/ Draining
    BY <1>2 DEF StageInv, Limiting, Draining, SetPendingLimits, SetAutoUnsubscribe, Drain
  <1>3. CASE Closing
    BY <1>3
    DEF StageInv, Closing, Unsubscribe, DestroyListener, Destroy, DrainCompletes, DrainExpires,
        Close
  <1>4. CASE NextMessage
    BY <1>4 DEF TypeOK, StageInv, NextMessage, Close
  <1>5. CASE Arrive \/ Timeout
    BY <1>5 DEF StageInv, Arrive, Timeout
  <1>6. CASE Take
    <2>1. Head(queue) \in Messages
      BY <1>6, HeadTail DEF Take, TypeOK
    <2> QED
      BY <1>6, <2>1 DEF TypeOK, StageInv, Take, Idle, Messages
  <1>7. CASE Callback
    BY <1>7 DEF TypeOK, StageInv, Callback, Idle
  <1>8. CASE Return
    BY <1>8 DEF TypeOK, StageInv, Return, Close, Idle
  <1>9. CASE UNCHANGED vars
    BY <1>9 DEF vars, StageInv
  <1> QED
    BY <1>1, <1>2, <1>3, <1>4, <1>5, <1>6, <1>7, <1>8, <1>9, NextSteps DEF Moving

-----------------------------------------------------------------------------
(* Order, and the watcher.                                                 *)

LEMMA OrderStep == TypeOK /\ StageInv /\ OrderInv /\ [Next]_vars => OrderInv'
  <1> SUFFICES ASSUME TypeOK, StageInv, OrderInv, [Next]_vars PROVE OrderInv'
    OBVIOUS
  <1>0. /\ queue \in Seq(Messages) /\ handled \in Seq(Messages)
        /\ arrived \in 0..MaxMessages
        /\ thread \in [at : {"idle", "taken", "calling"}, msg : 0..MaxMessages]
        /\ \A i \in DOMAIN queue : queue[i] \in Nat
        /\ \A i \in DOMAIN handled : handled[i] \in Nat
    BY DEF TypeOK, Messages
  <1>1. CASE UNCHANGED <<handled, thread, arrived>> /\ queue' \in {queue, << >>}
    BY <1>1 DEF OrderInv
  <1>2. CASE NextMessage
    <2> DEFINE m == Head(queue)
    <2>1. handled' = Append(handled, m) /\ UNCHANGED <<thread, arrived>>
          /\ queue' \in {Tail(queue), << >>} /\ queue # << >> /\ thread = Idle
      BY <1>2 DEF NextMessage, Close, TypeOK
    <2>2. m \in Messages /\ m = queue[1] /\ 1 \in DOMAIN queue
      BY <1>0, <2>1, HeadTail
    <2>3. \A j \in DOMAIN queue' : /\ queue'[j] = queue[j + 1] /\ j + 1 \in DOMAIN queue
                                   /\ 1 < j + 1 /\ j \in Nat
      <3>1. CASE queue' = << >>
        BY <3>1
      <3>2. CASE queue' = Tail(queue)
        BY <1>0, <2>1, <3>2, HeadTail
      <3> QED
        BY <2>1, <3>1, <3>2
    <2>4. \A i, j \in DOMAIN queue' : i < j => queue'[i] < queue'[j]
      BY <2>3 DEF OrderInv
    <2>5. \A j \in DOMAIN queue' : m < queue'[j] /\ queue'[j] <= arrived
      BY <2>2, <2>3 DEF OrderInv
    <2>6. \A i \in DOMAIN handled : handled[i] < m
      BY <2>2 DEF OrderInv
    <2>7. m <= arrived
      BY <2>2 DEF OrderInv
    <2>8. \A i \in DOMAIN handled' : \/ i \in DOMAIN handled /\ handled'[i] = handled[i]
                                         /\ i < Len(handled) + 1
                                     \/ i = Len(handled) + 1 /\ handled'[i] = m
      BY <1>0, <2>1, <2>2, Appended
    <2>9. \A i, j \in DOMAIN handled' : i < j => handled'[i] < handled'[j]
      <3>1. \A i \in DOMAIN handled : i \in Nat
        BY <1>0
      <3>2. Len(handled) \in Nat
        BY <1>0
      <3> HIDE DEF m
      <3> QED
        BY <2>6, <2>8, <3>1, <3>2 DEF OrderInv
    <2>10. \A i \in DOMAIN handled' : handled'[i] <= arrived
      BY <2>7, <2>8 DEF OrderInv
    <2>11. \A i \in DOMAIN handled', j \in DOMAIN queue' : handled'[i] < queue'[j]
      <3>1. \A i \in DOMAIN handled, j \in DOMAIN queue' : handled[i] < queue'[j]
        BY <2>3 DEF OrderInv
      <3> HIDE DEF m
      <3> QED
        BY <2>5, <2>8, <3>1
    <2> HIDE DEF m
    <2> QED
      BY <2>1, <2>4, <2>5, <2>9, <2>10, <2>11 DEF OrderInv, Idle
  <1>3. CASE Arrive
    <2>1. arrived' = arrived + 1 /\ arrived' \in Messages /\ UNCHANGED <<handled, thread>>
          /\ (queue' = queue \/ queue' = Append(queue, arrived'))
      BY <1>0, <1>3 DEF Arrive, Messages
    <2>2. \A j \in DOMAIN queue' : \/ j \in DOMAIN queue /\ queue'[j] = queue[j] /\ j < Len(queue) + 1
                                   \/ j = Len(queue) + 1 /\ queue'[j] = arrived'
      <3>1. CASE queue' = queue
        BY <1>0, <3>1
      <3>2. CASE queue' = Append(queue, arrived')
        BY <1>0, <2>1, <3>2, Appended
      <3> QED
        BY <2>1, <3>1, <3>2
    <2>3. /\ \A j \in DOMAIN queue : j \in Nat
          /\ Len(queue) \in Nat
      BY <1>0
    <2>4. \A i, j \in DOMAIN queue' : i < j => queue'[i] < queue'[j]
      BY <1>0, <2>1, <2>2, <2>3 DEF OrderInv
    <2>5. \A i \in DOMAIN handled, j \in DOMAIN queue' : handled[i] < queue'[j]
      BY <1>0, <2>1, <2>2 DEF OrderInv
    <2>6. thread.at = "taken" => \A j \in DOMAIN queue' : thread.msg < queue'[j]
      BY <1>0, <2>1, <2>2 DEF OrderInv
    <2>7. /\ \A j \in DOMAIN queue' : queue'[j] <= arrived'
          /\ \A i \in DOMAIN handled : handled[i] <= arrived'
          /\ thread.msg <= arrived'
      BY <1>0, <2>1, <2>2 DEF OrderInv
    <2> QED
      BY <2>1, <2>4, <2>5, <2>6, <2>7 DEF OrderInv
  <1>4. CASE Take
    <2>1. /\ queue # << >> /\ queue' = Tail(queue) /\ UNCHANGED <<handled, arrived>>
          /\ thread' = [at |-> "taken", msg |-> Head(queue)]
      BY <1>4 DEF Take
    <2>2. Head(queue) = queue[1] /\ 1 \in DOMAIN queue
      BY <1>0, <2>1, HeadTail
    <2>3. \A j \in DOMAIN queue' : /\ queue'[j] = queue[j + 1] /\ j + 1 \in DOMAIN queue
                                   /\ 1 < j + 1 /\ j \in Nat
      BY <1>0, <2>1, HeadTail
    <2>4. \A i, j \in DOMAIN queue' : i < j => queue'[i] < queue'[j]
      BY <2>3 DEF OrderInv
    <2>5. \A j \in DOMAIN queue' : queue[1] < queue'[j] /\ queue'[j] <= arrived
      BY <2>2, <2>3 DEF OrderInv
    <2>6. \A i \in DOMAIN handled, j \in DOMAIN queue' : handled[i] < queue'[j]
      BY <2>3 DEF OrderInv
    <2>7. \A i \in DOMAIN handled : handled[i] < queue[1]
      BY <2>2 DEF OrderInv
    <2>8. thread'.at = "taken" /\ thread'.msg = queue[1] /\ queue[1] <= arrived
      BY <2>1, <2>2 DEF OrderInv
    <2> QED
      BY <2>1, <2>4, <2>5, <2>6, <2>7, <2>8 DEF OrderInv
  <1>5. CASE Timeout
    BY <1>0, <1>5 DEF Timeout, OrderInv
  <1>6. CASE Callback
    <2>1. /\ UNCHANGED <<queue, arrived>> /\ thread.at = "taken"
          /\ thread' = [thread EXCEPT !.at = "calling"]
          /\ handled' = handled \/ (thread.msg > 0 /\ handled' = Append(handled, thread.msg))
      BY <1>6 DEF Callback
    <2>2. thread'.at = "calling" /\ thread'.msg = thread.msg
      BY <1>0, <2>1
    <2>3. CASE handled' = handled
      BY <2>1, <2>2, <2>3 DEF OrderInv
    <2>4. CASE thread.msg > 0 /\ handled' = Append(handled, thread.msg)
      <3>1. thread.msg \in Messages
        BY <1>0, <2>4 DEF Messages
      <3>2. \A i \in DOMAIN handled' : \/ i \in DOMAIN handled /\ handled'[i] = handled[i]
                                           /\ i < Len(handled) + 1
                                       \/ i = Len(handled) + 1 /\ handled'[i] = thread.msg
        BY <1>0, <2>4, <3>1, Appended
      <3>3. /\ \A i \in DOMAIN handled : i \in Nat /\ handled[i] < thread.msg
            /\ Len(handled) \in Nat
        BY <1>0, <2>1, <2>4 DEF OrderInv
      <3>4. \A i, j \in DOMAIN handled' : i < j => handled'[i] < handled'[j]
        BY <3>2, <3>3 DEF OrderInv
      <3>5. \A i \in DOMAIN handled', j \in DOMAIN queue : handled'[i] < queue[j]
        BY <2>1, <3>2 DEF OrderInv
      <3>6. \A i \in DOMAIN handled' : handled'[i] <= arrived
        BY <3>2 DEF OrderInv
      <3> QED
        BY <2>1, <2>2, <3>4, <3>5, <3>6 DEF OrderInv
    <2> QED
      BY <2>1, <2>3, <2>4
  <1>7. CASE Return
    <2>1. UNCHANGED <<handled, arrived>> /\ thread' = Idle /\ queue' \in {queue, << >>}
      BY <1>7 DEF Return, Close
    <2> QED
      BY <1>0, <2>1 DEF OrderInv, Idle
  <1>8. CASE Opening \/ Limiting \/ Draining \/ Closing
    BY <1>1, <1>8
    DEF Opening, SubscribeCore, RegisterListener, SubscribeJs, SubscribeSync, Watch,
        Updated, Removed, SetHandler, Limiting, SetPendingLimits, SetAutoUnsubscribe,
        Draining, Drain, Closing, Unsubscribe, DestroyListener, Destroy, DrainCompletes,
        DrainExpires, Close
  <1>9. CASE UNCHANGED vars
    BY <1>1, <1>9 DEF vars
  <1> QED
    BY <1>2, <1>3, <1>4, <1>5, <1>6, <1>7, <1>8, <1>9, NextSteps DEF Moving

LEMMA WatchStep == TypeOK /\ StageInv /\ OrderInv /\ WatchInv /\ [Next]_vars => WatchInv'
  <1> SUFFICES ASSUME TypeOK, StageInv, OrderInv, WatchInv, [Next]_vars PROVE WatchInv'
    OBVIOUS
  <1> USE DEF EventsAfterRegistrationAreSeen
  <1>0. /\ arrived \in 0..MaxMessages
        /\ thread \in [at : {"idle", "taken", "calling"}, msg : 0..MaxMessages]
        /\ since \in [Handlers -> 0..MaxMessages]
    BY DEF TypeOK
  <1>1. \A m \in ignored : m \in 1..arrived
    BY DEF WatchInv
  <1>2. ASSUME NEW h \in Handlers, Listen(h), UNCHANGED <<kind, arrived, ignored>>
        PROVE  WatchInv'
    <2>1. since'[h] = arrived /\ \A g \in Handlers : g # h => since'[g] = since[g]
      BY <1>0, <1>2 DEF Listen
    <2> QED
      BY <1>0, <1>1, <1>2, <2>1 DEF Listen, WatchInv, HandlerOf, Handlers
  <1>3. CASE UNCHANGED <<kind, listening, since, ignored>> /\ (arrived' = arrived \/ arrived' = arrived + 1)
    BY <1>0, <1>3 DEF WatchInv, HandlerOf
  <1>4. CASE Callback
    <2>1. CASE ignored' = ignored
      BY <1>3, <1>4, <2>1 DEF Callback
    <2>2. CASE ignored' # ignored
      <3>1. /\ kind = "watch" /\ HandlerOf(thread.msg) \notin listening
            /\ ignored' = ignored \union {thread.msg}
            /\ UNCHANGED <<kind, listening, since, arrived>> /\ thread.at = "taken"
        BY <1>4, <2>2 DEF Callback, WatcherHears
      <3>2. thread.msg \in 1..arrived
        BY <1>0, <3>1 DEF StageInv, OrderInv
      <3> QED
        BY <3>1, <3>2 DEF WatchInv, HandlerOf
    <2> QED
      BY <2>1, <2>2
  <1>5. CASE Opening
    <2>1. \/ UNCHANGED <<listening, since>>
          \/ Listen("message") \/ Listen("updated") \/ Listen("removed")
      BY <1>5 DEF Opening, SubscribeCore, RegisterListener, SubscribeJs, SubscribeSync, Watch,
             Updated, Removed, SetHandler
    <2>2. UNCHANGED <<kind, arrived, ignored>>
      BY <1>5 DEF Opening, SubscribeCore, RegisterListener, SubscribeJs, SubscribeSync, Watch,
             Updated, Removed, SetHandler
    <2> QED
      BY <1>2, <1>3, <2>1, <2>2 DEF Handlers
  <1>6. CASE Limiting \/ Draining \/ Closing
    BY <1>3, <1>6
    DEF Limiting, SetPendingLimits, SetAutoUnsubscribe,
        Draining, Drain, Closing, Unsubscribe, DestroyListener, Destroy, DrainCompletes,
        DrainExpires, Close
  <1>7. CASE NextMessage \/ Arrive \/ Take \/ Timeout \/ Return
    BY <1>3, <1>7 DEF NextMessage, Arrive, Take, Timeout, Return, Close
  <1>8. CASE UNCHANGED vars
    BY <1>3, <1>8 DEF vars
  <1> QED
    BY <1>4, <1>5, <1>6, <1>7, <1>8, NextSteps DEF Moving

-----------------------------------------------------------------------------
(* Losses.                                                                 *)

Running == {"none", "drained"} \union Open

LEMMA DroppedIsFinite ==
    ASSUME TypeOK
    PROVE  IsFiniteSet(dropped) /\ Cardinality(dropped) \in Nat
  <1>1. arrived \in Int /\ dropped \subseteq 1..arrived
    BY DEF TypeOK
  <1>2. IsFiniteSet(1..arrived)
    BY <1>1, FS_Interval
  <1> QED
    BY <1>1, <1>2, FS_Subset, FS_CardinalityType

\* Nothing that is counted has changed.
LEMMA SameAccounts ==
    ASSUME LossInv,
           UNCHANGED <<timed, asked, queue, delivered, handled, dropped, ignored, arrived>>,
           InHand' = InHand, fault' = "none" => fault = "none",
           state' \in Running => state \in Running,
           state' = "expired" => state = "expired" \/ timed
    PROVE  LossInv'
  BY DEF LossInv, Accounted, Running

\* The subscription has ended otherwise.
LEMMA NoAccounts ==
    ASSUME LossInv, UNCHANGED <<timed, asked>>, state' \notin Running,
           state' = "expired" => timed
    PROVE  LossInv'
  BY DEF LossInv, Running

LEMMA LossStep == TypeOK /\ StageInv /\ OrderInv /\ LossInv /\ [Next]_vars => LossInv'
  <1> SUFFICES ASSUME TypeOK, StageInv, OrderInv, LossInv, [Next]_vars PROVE LossInv'
    OBVIOUS
  <1>0. /\ queue \in Seq(Messages) /\ handled \in Seq(Messages)
        /\ arrived \in 0..MaxMessages /\ delivered \in Nat
        /\ thread \in [at : {"idle", "taken", "calling"}, msg : 0..MaxMessages]
        /\ Len(queue) \in Nat /\ Cardinality(dropped) \in Nat
    BY DroppedIsFinite DEF TypeOK
  <1>1. CASE Opening
    <2>1. UNCHANGED <<timed, asked, queue, delivered, thread, fates, arrived, fault>>
      BY <1>1 DEF Opening, SubscribeCore, RegisterListener, SubscribeJs, SubscribeSync, Watch,
             Updated, Removed, SetHandler
    <2>2. state' = state \/ state = "none"
      BY <1>1 DEF StageInv, Opening, SubscribeCore, RegisterListener, SubscribeJs,
             SubscribeSync, Watch, Updated, Removed, SetHandler
    <2>3. state' \in {state, "live"}
      BY <1>1 DEF Opening, SubscribeCore, RegisterListener, SubscribeJs, SubscribeSync, Watch,
             Updated, Removed, SetHandler
    <2>4. /\ InHand' = InHand
          /\ state' \in Running => state \in Running
          /\ state' = "expired" => state = "expired"
      BY <2>1, <2>2, <2>3 DEF InHand, Running
    <2> QED
      BY <2>1, <2>4, SameAccounts
  <1>2. CASE Limiting
    <2>1. UNCHANGED <<state, timed, asked, queue, delivered, thread, fates, arrived, fault>>
      BY <1>2 DEF Limiting, SetPendingLimits, SetAutoUnsubscribe
    <2> QED
      BY <2>1, SameAccounts DEF InHand
  <1>3. CASE Draining
    <2>1. /\ UNCHANGED <<queue, delivered, thread, fates, arrived, fault>>
          /\ state = "live" /\ state' = "draining"
          /\ timed' => asked' >= 0
      BY <1>3 DEF Draining, Drain
    <2> QED
      BY <2>1 DEF LossInv, Accounted, InHand
  <1>4. CASE Closing
    <2>1. CASE DestroyListener \/ DrainCompletes \/ (Destroy /\ UNCHANGED <<state, queue>>)
      <3>1. /\ UNCHANGED <<timed, asked, queue, delivered, thread, fates, arrived, fault>>
            /\ state' \in Running => state \in Running
            /\ state' = "expired" => state = "expired"
        BY <2>1 DEF DestroyListener, DrainCompletes, Destroy, Running
      <3> QED
        BY <3>1, SameAccounts DEF InHand
    <2>2. CASE Unsubscribe \/ DrainExpires \/ (Destroy /\ Close("destroyed"))
      <3>1. /\ UNCHANGED <<timed, asked>>
            /\ state' \notin Running
            /\ state' = "expired" => timed
        BY <2>2 DEF Unsubscribe, DrainExpires, Destroy, Close, Running
      <3> QED
        BY <3>1, NoAccounts
    <2> QED
      BY <1>4, <2>1, <2>2 DEF Closing, Destroy
  <1>5. CASE NextMessage
    <2>1. CASE Close("max")
      BY <1>5, <2>1, NoAccounts DEF NextMessage, Close, Running
    <2>2. CASE queue' = Tail(queue) /\ UNCHANGED state
      <3>1. /\ queue # << >> /\ state = "live" /\ delivered' = delivered + 1
            /\ handled' = Append(handled, Head(queue))
            /\ UNCHANGED <<timed, asked, thread, arrived, dropped, ignored, fault>>
        BY <1>5 DEF NextMessage
      <3>2. Range(handled') = Range(handled) \union {Head(queue)}
        BY <1>0, <3>1, HeadTail, Appended
      <3>3. Range(queue) = {Head(queue)} \union Range(queue')
            /\ Len(queue) = Len(queue') + 1 /\ Len(queue') \in Nat
        BY <1>0, <2>2, <3>1, TailRange, HeadTail
      <3>4. Accounted' = Accounted
        BY <3>1, <3>2, <3>3 DEF Accounted, InHand
      <3>5. delivered' + Len(queue') + Cardinality(dropped') = delivered + Len(queue) + Cardinality(dropped)
        BY <1>0, <3>1, <3>3
      <3> QED
        BY <2>2, <3>1, <3>4, <3>5 DEF LossInv
    <2> QED
      BY <1>5, <2>1, <2>2 DEF NextMessage
  <1>6. CASE Arrive
    <2>1. /\ state = "live" /\ state' = "live" /\ arrived' = arrived + 1 /\ arrived' \in Messages
          /\ UNCHANGED <<timed, asked, thread, delivered, handled, ignored, fault>>
      BY <1>0, <1>6 DEF Arrive, Messages
    <2>2. 1..arrived' = 1..arrived \union {arrived'} /\ arrived' \notin 1..arrived
      BY <1>0, <2>1
    <2>3. CASE dropped' = dropped \union {arrived'} /\ UNCHANGED queue
      <3>1. arrived' \notin dropped
        BY <2>2 DEF TypeOK
      <3>2. Cardinality(dropped') = Cardinality(dropped) + 1
        BY <2>3, <3>1, DroppedIsFinite, FS_AddElement
      <3>3. Accounted' = Accounted \union {arrived'}
        BY <2>1, <2>3 DEF Accounted, InHand
      <3>4. delivered' + Len(queue') + Cardinality(dropped')
              = delivered + Len(queue) + Cardinality(dropped) + 1
        BY <1>0, <2>1, <2>3, <3>2
      <3> QED
        BY <1>0, <2>1, <2>2, <3>3, <3>4 DEF LossInv
    <2>4. CASE queue' = Append(queue, arrived') /\ UNCHANGED dropped
      <3>1. Range(queue') = Range(queue) \union {arrived'} /\ Len(queue') = Len(queue) + 1
        BY <1>0, <2>1, <2>4, Appended
      <3>2. Accounted' = Accounted \union {arrived'}
        BY <2>1, <2>4, <3>1 DEF Accounted, InHand
      <3>3. delivered' + Len(queue') + Cardinality(dropped')
              = delivered + Len(queue) + Cardinality(dropped) + 1
        BY <1>0, <2>1, <2>4, <3>1
      <3> QED
        BY <1>0, <2>1, <2>2, <3>2, <3>3 DEF LossInv
    <2> QED
      BY <1>6, <2>1, <2>3, <2>4 DEF Arrive
  <1>7. CASE Take
    <2>1. /\ queue # << >> /\ queue' = Tail(queue) /\ delivered' = delivered + 1
          /\ thread = Idle /\ thread' = [at |-> "taken", msg |-> Head(queue)]
          /\ UNCHANGED <<state, timed, asked, arrived, fates, fault>>
      BY <1>7 DEF Take
    <2>2. Head(queue) \in Messages /\ Len(queue) = Len(queue') + 1 /\ Len(queue') \in Nat
          /\ Range(queue) = {Head(queue)} \union Range(queue')
      BY <1>0, <2>1, TailRange, HeadTail
    <2>3. InHand = {} /\ InHand' = {Head(queue)}
      BY <2>1, <2>2 DEF InHand, Idle, Messages
    <2>4. Accounted' = Accounted
      BY <2>1, <2>2, <2>3 DEF Accounted
    <2>5. delivered' + Len(queue') + Cardinality(dropped') = delivered + Len(queue) + Cardinality(dropped)
      BY <1>0, <2>1, <2>2
    <2> QED
      BY <2>1, <2>4, <2>5 DEF LossInv
  <1>8. CASE Timeout
    <2>1. /\ UNCHANGED <<state, timed, asked, queue, delivered, fates, arrived, fault>>
          /\ InHand = {} /\ InHand' = {}
      BY <1>8 DEF Timeout, InHand, Idle
    <2> QED
      BY <2>1, SameAccounts
  <1>9. CASE fault = "none" /\ Callback
    <2>1. /\ UNCHANGED <<state, timed, asked, queue, delivered, arrived, dropped>>
          /\ thread.at = "taken" /\ thread' = [thread EXCEPT !.at = "calling"]
      BY <1>9 DEF Callback
    <2>2. InHand = {thread.msg} \ {0} /\ InHand' = {}
      BY <1>0, <2>1 DEF InHand
    <2>3. fault' = "none" => Accounted' = Accounted
      <3>1. SUFFICES ASSUME fault' = "none" PROVE Accounted' = Accounted
        OBVIOUS
      <3>2. /\ handled' = IF thread.msg > 0 /\ (kind = "watch" => WatcherHears(thread.msg))
                          THEN Append(handled, thread.msg) ELSE handled
            /\ ignored' = IF kind = "watch" /\ ~WatcherHears(thread.msg)
                          THEN ignored \union {thread.msg} ELSE ignored
        BY <1>9, <3>1 DEF Callback
      <3>3. thread.msg \in Messages \/ (thread.msg = 0 /\ kind = "core")
        <4>1. thread.msg \in 0..MaxMessages /\ (thread.msg > 0 \/ kind = "core")
          BY <1>0, <2>1 DEF StageInv
        <4>2. CASE thread.msg = 0
          BY <4>1, <4>2
        <4>3. CASE thread.msg # 0
          <5>1. thread.msg \in 1..MaxMessages
            BY <4>1, <4>3
          <5> QED
            BY <5>1 DEF Messages
        <4> QED
          BY <4>2, <4>3
      <3>4. CASE thread.msg = 0 /\ kind = "core"
        BY <2>1, <2>2, <3>2, <3>4 DEF Accounted
      <3>5. CASE thread.msg \in Messages
        <4>1. \/ Range(handled') = Range(handled) \union {thread.msg} /\ ignored' = ignored
              \/ handled' = handled /\ ignored' = ignored \union {thread.msg}
          <5>1. thread.msg > 0
            BY <3>5 DEF Messages
          <5>2. CASE kind = "watch" /\ ~WatcherHears(thread.msg)
            BY <3>2, <5>2
          <5>3. CASE ~(kind = "watch" /\ ~WatcherHears(thread.msg))
            <6>1. handled' = Append(handled, thread.msg) /\ ignored' = ignored
              BY <3>2, <5>1, <5>3 DEF WatcherHears
            <6> QED
              BY <1>0, <3>5, <6>1, Appended
          <5> QED
            BY <5>2, <5>3
        <4>2. InHand = {thread.msg}
          BY <2>2, <3>5 DEF Messages
        <4> QED
          BY <2>1, <2>2, <4>1, <4>2 DEF Accounted
      <3> QED
        BY <3>3, <3>4, <3>5
    <2>4. fault = "none"
      BY <1>9
    <2> QED
      BY <2>1, <2>3, <2>4 DEF LossInv
  <1>10. CASE Return
    <2>1. /\ thread' = Idle /\ thread.at = "calling"
          /\ UNCHANGED <<timed, asked, arrived, delivered, fates>>
      BY <1>10 DEF Return
    <2>2. InHand' = InHand
      BY <2>1 DEF InHand, Idle
    <2>3. CASE UNCHANGED <<state, queue>>
      <3>1. fault' = "none" => fault = "none"
        BY <1>10 DEF Return
      <3> QED
        BY <2>1, <2>2, <2>3, <3>1, SameAccounts
    <2>4. CASE Close("max")
      BY <2>1, <2>4, NoAccounts DEF Close, Running
    <2> QED
      BY <1>10, <2>3, <2>4 DEF Return
  <1>11. CASE UNCHANGED vars
    BY <1>11, SameAccounts DEF vars, InHand
  <1> QED
    BY <1>1, <1>2, <1>3, <1>4, <1>5, <1>6, <1>7, <1>8, <1>9, <1>10, <1>11, NextSteps DEF Moving

-----------------------------------------------------------------------------
(* Theorems.                                                               *)

LEMMA InitHolds == Init => IInv
  <1> SUFFICES ASSUME Init PROVE IInv
    OBVIOUS
  <1>1. StageInv /\ OrderInv /\ WatchInv
    BY DEF Init, StageInv, OrderInv, WatchInv, EventsAfterRegistrationAreSeen, Idle
  <1>2. LossInv
    <2>1. /\ queue = << >> /\ handled = << >> /\ dropped = {} /\ ignored = {}
          /\ arrived = 0 /\ delivered = 0 /\ thread = Idle /\ timed = FALSE
          /\ state = "none"
      BY DEF Init
    <2>2. Cardinality(dropped) = 0 /\ Len(queue) = 0 /\ 1..arrived = {}
      BY <2>1, FS_EmptySet
    <2>3. Accounted = {}
      BY <2>1, EmptyRange DEF Accounted, InHand, Idle
    <2> QED
      BY <2>1, <2>2, <2>3 DEF LossInv
  <1> QED
    BY <1>1, <1>2, TypeInit DEF IInv

\* The object, its listener, the delivery thread and the messages fit together
\* in every state.
THEOREM Invariance == Spec => []IInv
  <1>1. IInv /\ [Next]_vars => IInv'
    BY TypeStep, StageStep, OrderStep, WatchStep, LossStep DEF IInv
  <1> QED
    BY <1>1, InitHolds, PTL DEF Spec

\* Every variable keeps its type, and a polled subscription no delivery thread.
THEOREM TypeCorrect == Spec => []TypeOK
  <1>1. IInv => TypeOK
    BY DEF IInv
  <1> QED
    BY <1>1, Invariance, PTL

LEMMA FaultStep == IInv /\ FaultsHaveACause /\ [Next]_vars => FaultsHaveACause'
  <1> SUFFICES ASSUME IInv, FaultsHaveACause, [Next]_vars PROVE FaultsHaveACause'
    OBVIOUS
  <1>0. TypeOK /\ StageInv
    BY DEF IInv
  <1>1. CASE Callback
    BY <1>0, <1>1 DEF FaultsHaveACause, Callback, StageInv, TypeOK, Idle
  <1>2. CASE Return
    BY <1>0, <1>2 DEF FaultsHaveACause, Return, StageInv, TypeOK, Idle
  <1>3. CASE UNCHANGED vars
    BY <1>3 DEF vars, FaultsHaveACause
  <1>4. CASE fault = "none" /\ UNCHANGED fault
    BY <1>4 DEF FaultsHaveACause
  <1> QED
    BY <1>1, <1>2, <1>3, <1>4, NextSteps
    DEF Opening, SubscribeCore, RegisterListener, SubscribeJs, SubscribeSync, Watch,
        Updated, Removed, SetHandler, Limiting, SetPendingLimits, SetAutoUnsubscribe,
        Draining, Drain, Closing, Unsubscribe, DestroyListener, Destroy, DrainCompletes,
        DrainExpires, Close, Moving, NextMessage, Arrive, Take, Timeout

\* A listener is called empty only before registerListener has set it, and after
\* its destruction only if the subscription was not drained or seen to its end.
THEOREM FaultsAreExplained == Spec => []FaultsHaveACause
  <1>1. Init => FaultsHaveACause
    BY DEF Init, FaultsHaveACause
  <1> QED
    BY <1>1, FaultStep, Invariance, PTL DEF Spec

\* Every message that arrives while the subscription is open, or before a drain
\* without a timeout, is handled once and in order, or is in the queue or the
\* thread's hand, or was over the limit, or had no handler of the watcher.
THEOREM NothingIsLost == Spec => []EachOnceInOrder
  <1>1. IInv => EachOnceInOrder
    <2> SUFFICES ASSUME IInv PROVE EachOnceInOrder
      OBVIOUS
    <2>1. Lossless => state \in {"none", "drained"} \union Open
      BY DEF IInv, LossInv, Lossless, TypeOK
    <2>2. Len(queue) \in Nat /\ Cardinality(dropped) \in Nat /\ delivered \in Nat
      BY DroppedIsFinite DEF IInv, TypeOK
    <2>3. Lossless => Statistics.deliveredMsgs + Statistics.pendingMsgs + Statistics.droppedMsgs = arrived
      BY <2>1, <2>2 DEF IInv, LossInv, Statistics
    <2>4. Lossless /\ fault = "none" => 1..arrived = Accounted
      BY <2>1 DEF IInv, LossInv
    <2> QED
      BY <2>3, <2>4 DEF EachOnceInOrder, IInv, OrderInv, Accounted, InHand
  <1> QED
    BY <1>1, Invariance, PTL

\* The watcher overlooks no event that arrives when its handler is set.
THEOREM WatcherSeesAll == Spec => []EventsAfterRegistrationAreSeen
  <1>1. IInv => EventsAfterRegistrationAreSeen
    BY DEF IInv, WatchInv
  <1> QED
    BY <1>1, Invariance, PTL
=============================================================================
