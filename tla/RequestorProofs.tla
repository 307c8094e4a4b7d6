---------------------------- MODULE RequestorProofs ----------------------------
(***************************************************************************)
(* Proofs about Requestor: who owns the promise of a request, for any      *)
(* number of requests and replies.                                         *)
(***************************************************************************)
EXTENDS Requestor, TLAPS

\* A request whose caller has its future, or will have it, without a fault.
Waiting(r) ==
    /\ promise[r] = "live" /\ outcome[r] = "none" /\ r \notin faults
    /\ sub[r] \in {"open", "limited", "lost"}
Answered(r) ==
    /\ promise[r] = "freed" /\ outcome[r] # "none" /\ r \notin faults
    /\ sub[r] = "destroyed"

\* Where the promise and the subscription of a request are, for each line its
\* caller may have come to.
RInv(r) ==
    /\ pc[r] = "idle" =>
        /\ promise[r] = "none" /\ sub[r] = "none" /\ outcome[r] = "none"
        /\ r \notin early /\ r \notin faults
    /\ pc[r] = "subscribe" =>
        /\ promise[r] = "live" /\ sub[r] = "none" /\ outcome[r] = "none"
        /\ r \notin early /\ r \notin faults
    /\ InArequest(r) =>
        IF r \in early THEN promise[r] = "freed" /\ sub[r] = "destroyed"
        ELSE Waiting(r)
    /\ pc[r] = "returned" /\ r \notin early =>
        \/ Waiting(r) \/ Answered(r)
        \/ promise[r] = "none" /\ sub[r] = "none" /\ r \notin faults
    /\ pc[r] = "returned" /\ r \in early => promise[r] = "freed" /\ sub[r] = "destroyed"
    /\ pc[r] = "thrown" =>
        /\ promise[r] # "live"
        /\ promise[r] = "none" => sub[r] = "none"
        /\ sub[r] = "none" /\ promise[r] = "freed" => r \notin faults
        /\ r \in early => sub[r] # "none"
    /\ promise[r] = "live" => outcome[r] = "none"

OwnerInv == \A r \in Requests : RInv(r)

Inv == TypeOK /\ OwnerInv

-----------------------------------------------------------------------------
\* One step of one request; Close is the only step of several.
StepOf(r) ==
    \/ ARequest(r) \/ Caller(r)
    \/ Request(r) \/ RequestRefused(r)
    \/ Arrive(r) \/ DeliveryThread(r)

USE DEF shared, history, At, Goto, NoFault

LEMMA EmptyInboxes == [r \in Requests |-> << >>] \in [Requests -> Seq(Answers)]
  OBVIOUS

LEMMA TypeInit == Init => TypeOK
  <1> DEFINE none == [r \in Requests |-> << >>]
  <1>1. none \in [Requests -> Seq(Answers)]
    BY EmptyInboxes
  <1>2. Init => inbox = none
    BY DEF Init
  <1>3. Init => connected \in BOOLEAN /\ crashed \in BOOLEAN
                /\ published \in [Requests -> BOOLEAN]
    BY Zenon DEF Init
  <1>4. Init => arrived \in [Requests -> Nat]
    BY DEF Init
  <1>5. Init =>
        /\ pc \in [Requests -> {"idle", "subscribe", "limit", "publish", "future",
                                "returned", "thrown"}]
        /\ promise \in [Requests -> {"none", "live", "freed"}]
        /\ sub \in [Requests -> {"none", "open", "limited", "lost", "destroyed"}]
        /\ outcome \in [Requests -> Answers \cup {"none", "timeout"}]
        /\ early \subseteq Requests /\ faults \subseteq Requests
    BY DEF Init
  <1> HIDE DEF none
  <1> QED
    BY <1>1, <1>2, <1>3, <1>4, <1>5 DEF TypeOK

LEMMA TypeStep == TypeOK /\ [Next]_vars => TypeOK'
  <1> SUFFICES ASSUME TypeOK, [Next]_vars PROVE TypeOK'
    OBVIOUS
  <1> USE DEF TypeOK
  <1>1. ASSUME NEW r \in Requests, ARequest(r) PROVE TypeOK'
    BY <1>1 DEF ARequest
  <1>2. ASSUME NEW r \in Requests, Throw(r) PROVE TypeOK'
    BY <1>2 DEF Throw, FreePromise, Fault
  <1>3. ASSUME NEW r \in Requests, Caller(r) PROVE TypeOK'
    <2>1. CASE Subscribe(r)
      BY <2>1 DEF Subscribe
    <2>2. CASE SubscribeFails(r) \/ LimitFails(r) \/ PublishFails(r)
      BY <1>2, <2>2 DEF SubscribeFails, LimitFails, PublishFails
    <2>3. CASE Limit(r)
      BY <2>3 DEF Limit
    <2>4. CASE LimitDestroyed(r)
      BY <2>4 DEF LimitDestroyed, Fault
    <2>5. CASE Publish(r)
      BY <2>5 DEF Publish
    <2>6. CASE GetFuture(r)
      BY <2>6 DEF GetFuture
    <2>7. CASE GetFutureFreed(r)
      BY <2>7 DEF GetFutureFreed, Fault
    <2> QED
      BY <1>3, <2>1, <2>2, <2>3, <2>4, <2>5, <2>6, <2>7 DEF Caller
  <1>4. ASSUME NEW r \in Requests, Request(r) PROVE TypeOK'
    BY <1>4 DEF Request, Answers
  <1>5. ASSUME NEW r \in Requests, RequestRefused(r) PROVE TypeOK'
    BY <1>5 DEF RequestRefused, Fault
  <1>6. ASSUME NEW r \in Requests, Arrive(r) PROVE TypeOK'
    <2>1. PICK a \in Answers : inbox' = [inbox EXCEPT ![r] = Append(inbox[r], a)]
      BY <1>6 DEF Arrive
    <2>2. inbox' \in [Requests -> Seq(Answers)]
      BY <2>1
    <2> QED
      BY <1>6, <2>2 DEF Arrive
  <1>7. ASSUME NEW r \in Requests, NEW a \in Answers \cup {"timeout"},
               AsyncRequestCallback(r, a), inbox' \in [Requests -> Seq(Answers)]
        PROVE  TypeOK'
    BY <1>7 DEF AsyncRequestCallback, FreePromise, Fault
  <1>8. ASSUME NEW r \in Requests, Deliver(r) PROVE TypeOK'
    <2>1. /\ Head(inbox[r]) \in Answers
          /\ Tail(inbox[r]) \in Seq(Answers)
          /\ inbox' = [inbox EXCEPT ![r] = Tail(inbox[r])]
      BY <1>8 DEF Deliver
    <2>2. AsyncRequestCallback(r, Head(inbox[r]))
      BY <1>8 DEF Deliver
    <2> QED
      BY <1>7, <2>1, <2>2
  <1>9. ASSUME NEW r \in Requests, Expire(r) PROVE TypeOK'
    BY <1>7, <1>9 DEF Expire
  <1>10. ASSUME Close PROVE TypeOK'
    <2>1. inbox' \in [Requests -> Seq(Answers)]
      BY <1>10, EmptyInboxes DEF Close
    <2>2. sub' \in [Requests -> {"none", "open", "limited", "lost", "destroyed"}]
      BY <1>10 DEF Close, Listening
    <2> QED
      BY <1>10, <2>1, <2>2 DEF Close
  <1>11. ASSUME UNCHANGED vars PROVE TypeOK'
    BY <1>11 DEF vars
  <1> QED
    BY <1>1, <1>3, <1>4, <1>5, <1>6, <1>8, <1>9, <1>10, <1>11 DEF Next, DeliveryThread

\* A step of one request leaves the others alone.
LEMMA OthersKeep ==
    ASSUME TypeOK, NEW r \in Requests, StepOf(r), NEW q \in Requests, q # r, RInv(q)
    PROVE  RInv(q)'
  <1>1. /\ pc'[q] = pc[q] /\ promise'[q] = promise[q] /\ sub'[q] = sub[q]
        /\ outcome'[q] = outcome[q]
        /\ q \in early' <=> q \in early
        /\ q \in faults' <=> q \in faults
    <2> USE DEF TypeOK
    <2>1. CASE ARequest(r) \/ Request(r) \/ RequestRefused(r) \/ Arrive(r)
      BY <2>1 DEF ARequest, Request, RequestRefused, Arrive, Fault
    <2>2. CASE Caller(r)
      BY <2>2 DEF Caller, Subscribe, SubscribeFails, Limit, LimitFails, LimitDestroyed,
                  Publish, PublishFails, GetFuture, GetFutureFreed, Throw,
                  FreePromise, Fault
    <2>3. CASE DeliveryThread(r)
      BY <2>3 DEF DeliveryThread, Deliver, Expire, AsyncRequestCallback,
                  FreePromise, Fault
    <2> QED
      BY <2>1, <2>2, <2>3 DEF StepOf
  <1> QED
    BY <1>1 DEF RInv, InArequest, Waiting, Answered

\* A step of a request keeps its own promise in order.
LEMMA OwnKeeps ==
    ASSUME TypeOK, NEW r \in Requests, StepOf(r), RInv(r)
    PROVE  RInv(r)'
  <1> USE DEF TypeOK, RInv, InArequest, Waiting, Answered
  <1>1. CASE ARequest(r)
    BY <1>1 DEF ARequest
  <1>2. CASE Subscribe(r)
    BY <1>2 DEF Subscribe
  <1>3. CASE SubscribeFails(r)
    BY <1>3 DEF SubscribeFails, Throw, FreePromise
  <1>4. CASE LimitFails(r) \/ PublishFails(r)
    BY <1>4 DEF LimitFails, PublishFails, Throw, FreePromise, Fault
  <1>5. CASE Limit(r)
    BY <1>5 DEF Limit
  <1>6. CASE LimitDestroyed(r)
    BY <1>6 DEF LimitDestroyed, Fault
  <1>7. CASE Publish(r)
    BY <1>7 DEF Publish
  <1>8. CASE GetFuture(r) \/ GetFutureFreed(r)
    BY <1>8 DEF GetFuture, GetFutureFreed, Fault
  <1>9. CASE Request(r) \/ RequestRefused(r)
    BY <1>9 DEF Request, RequestRefused, Fault
  <1>10. CASE Arrive(r)
    BY <1>10 DEF Arrive
  <1>11. ASSUME NEW a \in Answers \cup {"timeout"}, Listening(r),
                AsyncRequestCallback(r, a)
         PROVE  RInv(r)'
    BY <1>11 DEF AsyncRequestCallback, FreePromise, Fault, Listening, Answers
  <1>12. CASE Deliver(r)
    <2>1. Head(inbox[r]) \in Answers
      BY <1>12 DEF Deliver
    <2> QED
      BY <1>11, <1>12, <2>1 DEF Deliver
  <1>13. CASE Expire(r)
    BY <1>11, <1>13 DEF Expire
  <1> QED
    BY <1>1, <1>2, <1>3, <1>4, <1>5, <1>6, <1>7, <1>8, <1>9, <1>10, <1>12, <1>13
    DEF StepOf, Caller, DeliveryThread

LEMMA OwnerStep ==
    ASSUME TypeOK, OwnerInv, [Next]_vars
    PROVE  OwnerInv'
  <1> SUFFICES ASSUME NEW q \in Requests PROVE RInv(q)'
    BY DEF OwnerInv
  <1>0. RInv(q)
    BY DEF OwnerInv
  <1>1. ASSUME NEW r \in Requests, StepOf(r) PROVE RInv(q)'
    BY <1>0, <1>1, OthersKeep, OwnKeeps
  <1>2. ASSUME Close PROVE RInv(q)'
    BY <1>0, <1>2 DEF Close, TypeOK, RInv, InArequest, Waiting, Answered, Listening
  <1>3. ASSUME UNCHANGED vars PROVE RInv(q)'
    BY <1>0, <1>3 DEF vars, RInv, InArequest, Waiting, Answered
  <1> QED
    BY <1>1, <1>2, <1>3 DEF Next, StepOf

\* The promise of every request has the owner RInv says it has.
THEOREM OwnerInvariant == Spec => []Inv
  <1>1. Init => Inv
    BY TypeInit DEF Init, Inv, OwnerInv, RInv, InArequest
  <1>2. Inv /\ [Next]_vars => Inv'
    BY TypeStep, OwnerStep DEF Inv
  <1> QED
    BY <1>1, <1>2, PTL DEF Spec

\* A request, its promise and its inbox are in one of the states the lines of
\* request and arequest leave them in.
THEOREM RequestTypes == Spec => []TypeOK
  <1>1. Inv => TypeOK
    BY DEF Inv
  <1> QED
    BY <1>1, OwnerInvariant, PTL

\* Memory is misused only after a callback that overtook its caller, after an
\* exception behind the subscription, or by a refused request.
THEOREM FaultsAreExplained == Spec => []FaultsHaveACause
  <1>1. Inv => FaultsHaveACause
    BY DEF Inv, TypeOK, OwnerInv, RInv, InArequest, Waiting, Answered,
           FaultsHaveACause, ThrewAfterSubscribing, RefusedRequest
  <1> QED
    BY <1>1, OwnerInvariant, PTL

\* A future handed out in time has a promise until it has an answer.
THEOREM PromiseIsKept == Spec => []PromiseWaitsForAnswer
  <1>1. Inv => PromiseWaitsForAnswer
    BY DEF Inv, OwnerInv, RInv, Waiting, Answered, PromiseWaitsForAnswer
  <1> QED
    BY <1>1, OwnerInvariant, PTL

\* No answer is ever replaced by another.
THEOREM AnswersStay == Spec => AnsweredOnce
  <1> DEFINE A == \A r \in Requests : outcome[r] # "none" => outcome'[r] = outcome[r]
  <1>1. Inv /\ [Next]_vars => [A]_vars
    <2> SUFFICES ASSUME Inv, NEW q \in Requests, outcome[q] # "none", Next
                 PROVE  outcome'[q] = outcome[q]
      OBVIOUS
    <2>1. TypeOK /\ RInv(q)
      BY DEF Inv, OwnerInv
    <2>2. pc[q] # "idle" /\ promise[q] # "live"
      BY <2>1 DEF RInv
    <2>3. ASSUME NEW r \in Requests, StepOf(r) PROVE outcome'[q] = outcome[q]
      <3>1. CASE Request(r)
        BY <2>1, <2>2, <3>1 DEF Request, TypeOK
      <3>2. CASE DeliveryThread(r)
        BY <2>1, <2>2, <3>2 DEF DeliveryThread, Deliver, Expire, AsyncRequestCallback, TypeOK
      <3>3. CASE ARequest(r) \/ RequestRefused(r) \/ Arrive(r)
        BY <3>3 DEF ARequest, RequestRefused, Arrive
      <3>4. CASE Caller(r)
        BY <3>4 DEF Caller, Subscribe, SubscribeFails, Limit, LimitFails, LimitDestroyed,
                    Publish, PublishFails, GetFuture, GetFutureFreed, Throw
      <3> QED
        BY <2>3, <3>1, <3>2, <3>3, <3>4 DEF StepOf
    <2>4. ASSUME Close PROVE outcome'[q] = outcome[q]
      BY <2>4 DEF Close
    <2> QED
      BY <2>3, <2>4 DEF Next, StepOf
  <1> QED
    BY <1>1, OwnerInvariant, PTL DEF Spec, AnsweredOnce
=============================================================================
