---------------------------- MODULE Subscription ----------------------------
(***************************************************************************)
(* A subscription and its listener (src/src/core/SubscriptionPrivate.cpp,  *)
(* SyncSubscriptionPrivate.cpp, src/src/private/SubscriptionBasePrivate.h, *)
(* src/src/js/SubscriptionPrivate.cpp, ObjectWatcherPrivate.cpp).          *)
(*                                                                         *)
(* The library queues what arrives and calls the listener on a delivery    *)
(* thread of its own, while the application's thread sets the listener,    *)
(* limits, drains, unsubscribes and destroys.  Nothing makes one wait for  *)
(* the other.  A call of an empty listener or of a destroyed one is a      *)
(* fault, after which nothing is said about the process.                   *)
(*                                                                         *)
(* There are five kinds of subscription: "core" sets its listener when it  *)
(* is already subscribed, "js" before; "watch" is a js one whose two       *)
(* handlers come later still; "sync" and "jssync" have no thread, the      *)
(* application polls.                                                      *)
(***************************************************************************)
EXTENDS Integers, Sequences, FiniteSets, Functions

CONSTANTS
    Kinds,        \* the kinds of subscription of this instance
    MaxMessages,  \* bound: messages that arrive
    Limits,       \* numbers setAutoUnsubscribe and setPendingLimits are called with
    Deletions     \* the messages that are metadata of a removed object

ASSUME SubscriptionAssumption ==
    /\ Kinds \subseteq {"core", "js", "watch", "sync", "jssync"}
    /\ MaxMessages \in Nat /\ Limits \subseteq Nat \ {0}
    /\ Deletions \subseteq 1..MaxMessages

VARIABLES
    kind,
    app,        \* the object: none, created, held, freed (its listener is), destroyed
    listening,  \* the handlers that are set
    state,      \* the library's subscription, and how it ended
    timed,      \* it is drained with a timeout
    asked,      \* history: the timeout that drain was called with, 0 before
    queue,      \* messages that have arrived and are not delivered
    max, limit, \* of messages delivered, of messages queued; 0 for none
    thread,     \* the delivery thread; message 0 is the empty one of a timeout
    arrived, delivered,
    handled, dropped, ignored,  \* what became of messages
    since,      \* history: handler -> messages that had arrived when it was set
    fault

vars == <<kind, app, listening, state, timed, asked, queue, max, limit, thread, arrived, delivered,
          handled, dropped, ignored, since, fault>>

object == <<kind, app, listening, since>>
limits == <<max, limit>>
fates == <<handled, dropped, ignored>>

Polled == {"sync", "jssync"}
Handlers == {"message", "updated", "removed"}
Open == {"live", "draining"}
Ended == {"unsubscribed", "drained", "expired", "max", "destroyed"}
Gone == {"freed", "destroyed"}
Idle == [at |-> "idle", msg |-> 0]

\* The handler a message is for.
HandlerOf(m) ==
    IF kind # "watch" THEN "message" ELSE IF m \in Deletions THEN "removed" ELSE "updated"

\* SubscriptionStatistic, as the library counts.
Statistics == [pendingMsgs |-> Len(queue), deliveredMsgs |-> delivered,
               droppedMsgs |-> Cardinality(dropped)]

Init ==
    /\ kind \in Kinds
    /\ app = "none" /\ state = "none"
    /\ listening = {} /\ since = [h \in Handlers |-> 0]
    /\ timed = FALSE /\ asked = 0
    /\ queue = << >> /\ max = 0 /\ limit = 0
    /\ thread = Idle
    /\ arrived = 0 /\ delivered = 0
    /\ handled = << >> /\ dropped = {} /\ ignored = {}
    /\ fault = "none"

-----------------------------------------------------------------------------
(* The application's thread.                                               *)

Listen(h) ==
    /\ listening' = listening \union {h}
    /\ since' = [since EXCEPT ![h] = arrived]

\* The constructors.  A core subscription is live before its listener is set.
SubscribeCore ==
    /\ app = "none" /\ kind = "core"
    /\ app' = "created" /\ state' = "live"
    /\ UNCHANGED <<kind, listening, since, timed, asked, queue, limits, thread, arrived, delivered, fates, fault>>

RegisterListener ==
    /\ app = "created"
    /\ app' = "held"
    /\ Listen("message")
    /\ UNCHANGED <<kind, state, timed, asked, queue, limits, thread, arrived, delivered, fates, fault>>

\* Mutant: the listener is moved in when the subscription is already there.
SubscribeJsLate ==
    /\ app = "none" /\ kind = "js"
    /\ app' = "held" /\ state' = "live"
    /\ UNCHANGED <<kind, listening, since, timed, asked, queue, limits, thread, arrived, delivered, fates, fault>>
\* Js registerListener sets the listener and then subscribes.
SubscribeJs ==
    /\ app = "none" /\ kind = "js"
    /\ app' = "held" /\ state' = "live"
    /\ Listen("message")
    /\ UNCHANGED <<kind, timed, asked, queue, limits, thread, arrived, delivered, fates, fault>>

SubscribeSync ==
    /\ app = "none" /\ kind \in Polled
    /\ app' = "held" /\ state' = "live"
    /\ UNCHANGED <<kind, listening, since, timed, asked, queue, limits, thread, arrived, delivered, fates, fault>>

Watch ==
    /\ app = "none" /\ kind = "watch"
    /\ app' = "held" /\ state' = "live"
    /\ UNCHANGED <<kind, listening, since, timed, asked, queue, limits, thread, arrived, delivered, fates, fault>>

SetHandler(h) ==
    /\ kind = "watch" /\ app = "held" /\ h \notin listening
    /\ Listen(h)
    /\ UNCHANGED <<kind, app, state, timed, asked, queue, limits, thread, arrived, delivered, fates, fault>>
Updated == SetHandler("updated")
Removed == SetHandler("removed")

SetPendingLimits(n) ==
    /\ app = "held" /\ state = "live"
    /\ limit' = n
    /\ UNCHANGED <<object, state, timed, asked, queue, max, thread, arrived, delivered, fates, fault>>

\* Called with more than has been delivered.
SetAutoUnsubscribe(n) ==
    /\ app = "held" /\ state = "live" /\ n > delivered
    /\ max' = n
    /\ UNCHANGED <<object, state, timed, asked, queue, limit, thread, arrived, delivered, fates, fault>>

\* Mutant: the two cases of the timeout exchanged.
DrainSwapped(timeout) ==
    /\ app = "held" /\ state = "live"
    /\ state' = "draining" /\ timed' = (timeout < 0) /\ asked' = timeout
    /\ UNCHANGED <<object, queue, limits, thread, arrived, delivered, fates, fault>>
\* Interest is removed; what has arrived is still delivered.
Drain(timeout) ==
    /\ app = "held" /\ state = "live"
    /\ state' = "draining" /\ timed' = (timeout >= 0) /\ asked' = timeout
    /\ UNCHANGED <<object, queue, limits, thread, arrived, delivered, fates, fault>>

Close(how) == state' = how /\ queue' = << >>

Unsubscribe ==
    /\ app = "held" /\ state \in Open
    /\ Close("unsubscribed")
    /\ UNCHANGED <<object, timed, asked, limits, thread, arrived, delivered, fates, fault>>

\* The destructor: the listener goes first, the subscription with its base class.
DestroyListener ==
    /\ app = "held"
    /\ app' = "freed"
    /\ UNCHANGED <<kind, listening, since, state, timed, asked, queue, limits, thread, arrived, delivered, fates, fault>>

Destroy ==
    /\ app = "freed"
    /\ app' = "destroyed"
    /\ IF state \in Open THEN Close("destroyed") ELSE UNCHANGED <<state, queue>>
    /\ UNCHANGED <<kind, listening, since, timed, asked, limits, thread, arrived, delivered, fates, fault>>

\* Mutant: the status is not looked at.
NextMessageUnchecked ==
    /\ kind \in Polled /\ app = "held" /\ state = "live"
    /\ IF queue = << >>
       THEN handled' = Append(handled, 0) /\ UNCHANGED <<delivered, queue>>
       ELSE handled' = Append(handled, Head(queue)) /\ delivered' = delivered + 1 /\ queue' = Tail(queue)
    /\ UNCHANGED <<object, state, timed, asked, limits, thread, arrived, dropped, ignored, fault>>
\* A poll: the oldest message, if there is one; otherwise it times out and throws.
NextMessage ==
    /\ kind \in Polled /\ app = "held" /\ state = "live" /\ queue # << >>
    /\ delivered' = delivered + 1
    /\ handled' = Append(handled, Head(queue))
    /\ IF delivered + 1 = max THEN Close("max") ELSE queue' = Tail(queue) /\ UNCHANGED state
    /\ UNCHANGED <<object, timed, asked, limits, thread, arrived, dropped, ignored, fault>>

-----------------------------------------------------------------------------
(* The library.                                                            *)

Arrive ==
    /\ state = "live" /\ arrived < MaxMessages /\ (max > 0 => arrived < max)
    /\ arrived' = arrived + 1
    /\ IF limit > 0 /\ Len(queue) >= limit
       THEN dropped' = dropped \union {arrived + 1} /\ UNCHANGED queue
       ELSE queue' = Append(queue, arrived + 1) /\ UNCHANGED dropped
    /\ UNCHANGED <<object, state, timed, asked, limits, thread, delivered, handled, ignored, fault>>

Take ==
    /\ kind \notin Polled /\ state \in Open /\ thread = Idle /\ queue # << >>
    /\ thread' = [at |-> "taken", msg |-> Head(queue)]
    /\ queue' = Tail(queue)
    /\ delivered' = delivered + 1
    /\ UNCHANGED <<object, state, timed, asked, limits, arrived, fates, fault>>

\* Nothing arrived for the time a core subscription was made with.
Timeout ==
    /\ kind = "core" /\ state = "live" /\ thread = Idle /\ queue = << >>
    /\ thread' = [at |-> "taken", msg |-> 0]
    /\ UNCHANGED <<object, state, timed, asked, queue, limits, arrived, delivered, fates, fault>>

\* What the watcher's listener does with a message: it looks for the one
\* handler the message is for, after a look whether there is any.
\* Mutant: both have to be there.
WatcherHearsBoth(m) == {"updated", "removed"} \subseteq listening
WatcherHears(m) == HandlerOf(m) \in listening

\* subscriptionCallback, on the delivery thread.
Callback ==
    /\ thread.at = "taken"
    /\ LET m == thread.msg IN
       IF app \in Gone \/ (kind # "watch" /\ listening = {})
       THEN /\ fault' = IF app \in Gone THEN "destroyed" ELSE "empty"
            /\ UNCHANGED <<handled, ignored>>
       ELSE /\ handled' = IF m > 0 /\ (kind = "watch" => WatcherHears(m)) THEN Append(handled, m) ELSE handled
            /\ ignored' = IF kind = "watch" /\ ~WatcherHears(m) THEN ignored \union {m} ELSE ignored
            /\ UNCHANGED fault
    /\ thread' = [thread EXCEPT !.at = "calling"]
    /\ UNCHANGED <<object, state, timed, asked, queue, limits, arrived, delivered, dropped>>

\* The listener returns; when the last message was delivered the library unsubscribes.
Return ==
    /\ thread.at = "calling"
    /\ thread' = Idle
    /\ IF app \in Gone
       THEN fault' = "destroyed" /\ UNCHANGED <<state, queue>>
       ELSE /\ UNCHANGED fault
            /\ IF max > 0 /\ delivered >= max /\ state \in Open THEN Close("max") ELSE UNCHANGED <<state, queue>>
    /\ UNCHANGED <<object, timed, asked, limits, arrived, delivered, fates>>

DrainCompletes ==
    /\ state = "draining" /\ queue = << >> /\ thread = Idle
    /\ state' = "drained"
    /\ UNCHANGED <<object, timed, asked, queue, limits, thread, arrived, delivered, fates, fault>>

DrainExpires ==
    /\ state = "draining" /\ timed
    /\ Close("expired")
    /\ UNCHANGED <<object, timed, asked, limits, thread, arrived, delivered, fates, fault>>

-----------------------------------------------------------------------------

Limited == \E n \in Limits : SetPendingLimits(n) \/ SetAutoUnsubscribe(n)
Drained == \E timeout \in {-1, 1} : Drain(timeout)

\* What each class offers of it to the application.
SubscriptionCall == kind = "core" /\ (Limited \/ Drained \/ Unsubscribe)
JsSubscriptionCall == kind = "js" /\ (Limited \/ Drained \/ Unsubscribe)
SyncSubscriptionCall == kind = "sync" /\ (Limited \/ NextMessage \/ Unsubscribe)
JsSyncSubscriptionCall == kind = "jssync" /\ (Limited \/ NextMessage \/ Unsubscribe)
ObjectWatcherCall == kind = "watch" /\ (Updated \/ Removed \/ Unsubscribe)

Next ==
    /\ fault = "none"
    /\ \/ SubscribeCore \/ RegisterListener \/ SubscribeJs \/ SubscribeSync \/ Watch
       \/ SubscriptionCall \/ JsSubscriptionCall \/ SyncSubscriptionCall
       \/ JsSyncSubscriptionCall \/ ObjectWatcherCall
       \/ DestroyListener \/ Destroy
       \/ Arrive \/ Take \/ Timeout \/ Callback \/ Return \/ DrainCompletes \/ DrainExpires

Spec == Init /\ [][Next]_vars

-----------------------------------------------------------------------------
(* Properties.                                                             *)

Messages == 1..MaxMessages

\* The thread of a sync subscription never runs, and what was counted as
\* delivered, pending and dropped has arrived.
TypeOK ==
    /\ kind \in Kinds
    /\ app \in {"none", "created", "held"} \union Gone
    /\ listening \subseteq Handlers /\ since \in [Handlers -> 0..MaxMessages]
    /\ state \in {"none"} \union Open \union Ended
    /\ timed \in BOOLEAN /\ asked \in {-1, 0, 1}
    /\ queue \in Seq(Messages) /\ handled \in Seq(Messages)
    /\ max \in {0} \union Limits /\ limit \in {0} \union Limits
    /\ thread \in [at : {"idle", "taken", "calling"}, msg : 0..MaxMessages]
    /\ arrived \in 0..MaxMessages /\ delivered \in Nat
    /\ dropped \subseteq 1..arrived /\ ignored \subseteq Messages
    /\ fault \in {"none", "empty", "destroyed"}
    /\ kind \in Polled => thread = Idle

\* The listener is called empty only by a message (or the timeout) that a core
\* subscription delivers before registerListener, and called when destroyed only
\* if the application destroyed a subscription it had neither drained to the end
\* nor seen through to its last message.
FaultsHaveACause ==
    /\ fault = "empty" => kind = "core" /\ app = "created"
    /\ fault = "destroyed" => app \in Gone /\ state \notin {"drained", "max"}

\* While it is open, and after a drain without a timeout, everything that has
\* arrived was handled once, in order, or is on its way, unless the queue was at
\* its limit or no handler was set for it.
Lossless == state \in Open \union {"drained"} \/ (state = "expired" /\ asked < 0)
EachOnceInOrder ==
    /\ \A i, j \in DOMAIN handled : i < j => handled[i] < handled[j]
    /\ Lossless /\ fault = "none" =>
          1..arrived = Range(handled) \union Range(queue) \union dropped \union ignored
                        \union IF thread.at = "taken" THEN {thread.msg} \ {0} ELSE {}
    /\ Lossless =>
          Statistics.deliveredMsgs + Statistics.pendingMsgs + Statistics.droppedMsgs = arrived

\* The watcher ignores no event that arrives after the handler for it was set.
EventsAfterRegistrationAreSeen ==
    \A m \in ignored : HandlerOf(m) \in listening => m <= since[HandlerOf(m)]
=============================================================================
