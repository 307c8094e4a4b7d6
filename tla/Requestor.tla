------------------------------- MODULE Requestor -------------------------------
(***************************************************************************)
(* Requests of NatsMq::Client (src/src/core/Requestor.cpp).                *)
(*                                                                         *)
(* arequest subscribes to an inbox of its own with a timeout, limits the   *)
(* subscription to one message, publishes the request and returns the      *)
(* future of a promise.  The library calls asyncRequestCallback on the     *)
(* subscription's delivery thread, with a message or, after the timeout,   *)
(* with none.  Until arequest has come to release(), a unique_ptr of the   *)
(* caller and the callback both own the promise, so which thread is faster *)
(* matters, and so does every call that throws in between.                 *)
(*                                                                         *)
(* A use of freed memory is a fault: the process may crash, or go on as if *)
(* the memory were still good, or see a value that makes the call fail.    *)
(***************************************************************************)
EXTENDS Naturals, Sequences

CONSTANTS
    Requests,     \* calls of arequest and request
    MaxReplies    \* bound: messages sent to one inbox

ASSUME MaxRepliesAssumption == MaxReplies \in Nat

VARIABLES
    connected,    \* the connection is open, reconnecting included
    pc,           \* request -> the line its caller has come to
    promise,      \* request -> "none", "live", "freed"
    sub,          \* request -> its inbox subscription
    published,    \* request -> whether it went out
    arrived,      \* request -> messages that reached its inbox
    inbox,        \* request -> those not delivered yet
    outcome,      \* request -> what its promise was given
    early,        \* history: answered before the caller had the future
    faults,       \* history: requests that used freed or unset memory
    crashed       \* the process is gone

shared == <<promise, sub, published, arrived, inbox, outcome>>
history == <<early, faults, crashed>>
vars == <<connected, pc, shared, history>>

Answers == {"reply", "noresponders"}

Init ==
    /\ connected = TRUE
    /\ pc = [r \in Requests |-> "idle"]
    /\ promise = [r \in Requests |-> "none"]
    /\ sub = [r \in Requests |-> "none"]
    /\ published = [r \in Requests |-> FALSE]
    /\ arrived = [r \in Requests |-> 0]
    /\ inbox = [r \in Requests |-> << >>]
    /\ outcome = [r \in Requests |-> "none"]
    /\ early = {} /\ faults = {} /\ crashed = FALSE

At(r, line) == ~crashed /\ pc[r] = line
Goto(r, line) == pc' = [pc EXCEPT ![r] = line]

Fault(r) ==
    /\ faults' = faults \cup {r}
    /\ crashed' \in BOOLEAN
NoFault == UNCHANGED <<faults, crashed>>

\* A unique_ptr lets its promise go; the second one to do so frees it twice.
FreePromise(r) ==
    /\ promise' = [promise EXCEPT ![r] = "freed"]
    /\ IF promise[r] = "live" THEN NoFault ELSE Fault(r)

-----------------------------------------------------------------------------
(* arequest, line by line. *)

ARequest(r) ==
    /\ At(r, "idle")
    /\ Goto(r, "subscribe")
    /\ promise' = [promise EXCEPT ![r] = "live"]
    /\ UNCHANGED <<connected, sub, published, arrived, inbox, outcome, history>>

Subscribe(r) ==
    /\ At(r, "subscribe")
    /\ connected
    /\ Goto(r, "limit")
    /\ sub' = [sub EXCEPT ![r] = "open"]
    /\ UNCHANGED <<connected, promise, published, arrived, inbox, outcome, history>>

\* A failed call throws, and the unwinding frees the promise, but nobody
\* unsubscribes.
Throw(r) ==
    /\ Goto(r, "thrown")
    /\ FreePromise(r)
    /\ UNCHANGED <<connected, sub, published, arrived, inbox, outcome, early>>

SubscribeFails(r) == At(r, "subscribe") /\ Throw(r)

Limit(r) ==
    /\ At(r, "limit")
    /\ sub[r] = "open"
    /\ Goto(r, "publish")
    /\ sub' = [sub EXCEPT ![r] = "limited"]
    /\ UNCHANGED <<connected, promise, published, arrived, inbox, outcome, history>>

LimitFails(r) == At(r, "limit") /\ sub[r] = "lost" /\ Throw(r)

\* The callback has destroyed the subscription: AutoUnsubscribe reads freed
\* memory, and what it finds there makes it succeed or fail.
LimitDestroyed(r) ==
    /\ At(r, "limit")
    /\ sub[r] = "destroyed"
    /\ Fault(r)
    /\ \/ Goto(r, "publish") /\ UNCHANGED promise
       \/ Goto(r, "thrown") /\ promise' = [promise EXCEPT ![r] = "freed"]
    /\ UNCHANGED <<connected, sub, published, arrived, inbox, outcome, early>>

Publish(r) ==
    /\ At(r, "publish")
    /\ connected
    /\ Goto(r, "future")
    /\ published' = [published EXCEPT ![r] = TRUE]
    /\ UNCHANGED <<connected, promise, sub, arrived, inbox, outcome, history>>

\* The connection is closed, or the subject or the size is not acceptable.
PublishFails(r) == At(r, "publish") /\ Throw(r)

\* Mutant of GetFuture: the promise stays with the unique_ptr.
GetFutureUnreleased(r) ==
    /\ At(r, "future")
    /\ promise[r] = "live"
    /\ Goto(r, "returned")
    /\ promise' = [promise EXCEPT ![r] = "freed"]
    /\ UNCHANGED <<connected, sub, published, arrived, inbox, outcome, history>>

GetFuture(r) ==
    /\ At(r, "future")
    /\ promise[r] = "live"
    /\ Goto(r, "returned")
    /\ UNCHANGED <<connected, shared, history>>

\* The callback has freed the promise: get_future throws, or by luck finds the
\* state as the callback left it.
GetFutureFreed(r) ==
    /\ At(r, "future")
    /\ promise[r] = "freed"
    /\ Fault(r)
    /\ Goto(r, "returned") \/ Goto(r, "thrown")
    /\ UNCHANGED <<connected, shared, early>>

-----------------------------------------------------------------------------
(* request: the library waits for the answer. *)

Request(r) ==
    /\ At(r, "idle")
    /\ connected
    /\ \E a \in Answers \cup {"timeout"} :
        /\ outcome' = [outcome EXCEPT ![r] = a]
        /\ Goto(r, IF a = "reply" THEN "returned" ELSE "thrown")
    /\ UNCHANGED <<connected, promise, sub, published, arrived, inbox, history>>

\* The library refuses its arguments and leaves replyMsg unset; its destructor
\* runs before the status is looked at.
RequestRefused(r) ==
    /\ At(r, "idle")
    /\ Goto(r, "thrown")
    /\ Fault(r)
    /\ UNCHANGED <<connected, shared, early>>

-----------------------------------------------------------------------------
(* The library and the server. *)

Listening(r) == sub[r] \in {"open", "limited"}

\* The server sends at most one message to a limited subscription.
Arrive(r) ==
    /\ ~crashed
    /\ published[r] /\ Listening(r)
    /\ arrived[r] < MaxReplies
    /\ sub[r] = "limited" => arrived[r] = 0
    /\ arrived' = [arrived EXCEPT ![r] = @ + 1]
    /\ \E a \in Answers : inbox' = [inbox EXCEPT ![r] = Append(@, a)]
    /\ UNCHANGED <<connected, pc, promise, sub, published, outcome, history>>

InArequest(r) == pc[r] \in {"limit", "publish", "future"}

\* Mutants of AsyncRequestCallback: the null message is not looked for; nothing
\* owns what the callback gets; the subscription is not destroyed.
CallbackWithoutCheck(r, a) ==
    /\ FreePromise(r)
    /\ outcome' = [outcome EXCEPT ![r] = IF a = "timeout" THEN "null" ELSE a]
    /\ sub' = [sub EXCEPT ![r] = "destroyed"]
    /\ UNCHANGED <<connected, pc, published, arrived, early>>
CallbackFreesNothing(r, a) ==
    /\ outcome' = [outcome EXCEPT ![r] = a]
    /\ UNCHANGED <<connected, pc, promise, sub, published, arrived, history>>
CallbackKeepsSub(r, a) ==
    /\ FreePromise(r)
    /\ outcome' = IF promise[r] = "live" THEN [outcome EXCEPT ![r] = a] ELSE outcome
    /\ early' = IF InArequest(r) THEN early \cup {r} ELSE early
    /\ UNCHANGED <<connected, pc, sub, published, arrived>>

AsyncRequestCallback(r, a) ==
    /\ FreePromise(r)
    /\ outcome' = IF promise[r] = "live" THEN [outcome EXCEPT ![r] = a] ELSE outcome
    /\ sub' = [sub EXCEPT ![r] = "destroyed"]
    /\ early' = IF InArequest(r) THEN early \cup {r} ELSE early
    /\ UNCHANGED <<connected, pc, published, arrived>>

Deliver(r) ==
    /\ ~crashed
    /\ Listening(r)
    /\ inbox[r] # << >>
    /\ inbox' = [inbox EXCEPT ![r] = Tail(@)]
    /\ AsyncRequestCallback(r, Head(inbox[r]))

\* Mutant of Expire: the subscription has no timeout.
NeverExpire(r) == FALSE /\ UNCHANGED vars

\* No message within timeoutMs: the callback gets a null message.
Expire(r) ==
    /\ ~crashed
    /\ Listening(r)
    /\ inbox[r] = << >>
    /\ AsyncRequestCallback(r, "timeout")
    /\ UNCHANGED inbox

\* The connection closes, by disconnect or because no server is left to try:
\* its subscriptions end, what they hold is dropped, and no callback runs.
Close ==
    /\ ~crashed
    /\ connected
    /\ connected' = FALSE
    /\ sub' = [r \in Requests |-> IF Listening(r) THEN "lost" ELSE sub[r]]
    /\ inbox' = [r \in Requests |-> << >>]
    /\ UNCHANGED <<pc, promise, published, arrived, outcome, history>>

-----------------------------------------------------------------------------
Caller(r) ==
    \/ Subscribe(r) \/ SubscribeFails(r)
    \/ Limit(r) \/ LimitFails(r) \/ LimitDestroyed(r)
    \/ Publish(r) \/ PublishFails(r)
    \/ GetFuture(r) \/ GetFutureFreed(r)

DeliveryThread(r) == Deliver(r) \/ Expire(r)

Next ==
    \/ \E r \in Requests :
        \/ ARequest(r) \/ Caller(r)
        \/ Request(r) \/ RequestRefused(r)
        \/ Arrive(r) \/ DeliveryThread(r)
    \/ Close

Spec == Init /\ [][Next]_vars

\* A caller inside arequest runs on, and a delivery thread that has a message or
\* whose timeout has passed calls back.
FairSpec ==
    /\ Spec
    /\ \A r \in Requests : WF_vars(Caller(r)) /\ WF_vars(DeliveryThread(r))

-----------------------------------------------------------------------------
(* Properties *)

TypeOK ==
    /\ connected \in BOOLEAN /\ crashed \in BOOLEAN
    /\ pc \in [Requests -> {"idle", "subscribe", "limit", "publish", "future",
                            "returned", "thrown"}]
    /\ promise \in [Requests -> {"none", "live", "freed"}]
    /\ sub \in [Requests -> {"none", "open", "limited", "lost", "destroyed"}]
    /\ published \in [Requests -> BOOLEAN]
    /\ arrived \in [Requests -> Nat]
    /\ inbox \in [Requests -> Seq(Answers)]
    /\ outcome \in [Requests -> Answers \cup {"none", "timeout"}]
    /\ early \subseteq Requests /\ faults \subseteq Requests

\* arequest left the promise to a subscription that is still there.
ThrewAfterSubscribing(r) == pc[r] = "thrown" /\ sub[r] # "none"
RefusedRequest(r) == pc[r] = "thrown" /\ promise[r] = "none"

\* Memory is misused in three ways only: a callback before its caller has the
\* future, an exception of arequest after it has subscribed, and a request whose
\* arguments the library refuses.  Replies that come twice or late, timeouts
\* racing replies, and a connection that closes at any moment do no harm.
FaultsHaveACause ==
    \A r \in faults : r \in early \/ ThrewAfterSubscribing(r) \/ RefusedRequest(r)

\* While a future that was handed out in time has no answer its promise is
\* there for the callback, and with the answer the promise is gone.
PromiseWaitsForAnswer ==
    \A r \in Requests \ early :
        pc[r] = "returned" /\ sub[r] # "none" =>
            IF outcome[r] = "none" THEN promise[r] = "live" ELSE promise[r] = "freed"

\* A request is answered once: no later message or timeout changes the answer.
AnsweredOnce ==
    [][\A r \in Requests : outcome[r] # "none" => outcome'[r] = outcome[r]]_vars

\* README.md:157, "wait std::future result or exception": every future gets one,
\* unless the connection closes first, and then it never does.
FutureResolves ==
    \A r \in Requests :
        pc[r] = "returned" ~> outcome[r] # "none" \/ ~connected \/ crashed

\* No call leaves a subscription to its inbox behind.
SubscriptionEnds ==
    \A r \in Requests :
        pc[r] \in {"returned", "thrown"} ~> ~Listening(r) \/ crashed

\* README.md:146, "An asynchronous request will return an std::future object,
\* from which you can request data when they are needed": a request that went out
\* comes back with a future.
PublishedGetsFuture ==
    \A r \in Requests : published[r] => pc[r] # "thrown"

=============================================================================
