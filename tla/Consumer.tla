-------------------------------- MODULE Consumer --------------------------------
(***************************************************************************)
(* A consumer of a stream and the subscription an application reads it     *)
(* with (src/src/js/SubscriptionPrivate.cpp, SyncSubscriptionPrivate.cpp,  *)
(* PullSubscriptionPrivate.cpp, SubscriptionBaseTemplate.cpp,              *)
(* MessagePrivate.cpp, src/src/private/utils.cpp, defines.h).              *)
(*                                                                         *)
(* The server delivers each message and waits for its acknowledgement; it  *)
(* delivers it again when none comes in time or the application refuses    *)
(* it.  Deliveries and acknowledgements may be lost, and the process of   *)
(* the subscription may end.  Time is left out: an acknowledgement may be  *)
(* overdue at any moment, so inProgress, which asks for more time, changes *)
(* nothing.                                                                *)
(***************************************************************************)
EXTENDS StreamLog

CONSTANTS
    Subscriptions,  \* the kinds and options callers subscribe with
    Batches,        \* the sizes of a fetch
    MaxInbox,       \* bound: deliveries not yet taken
    MaxAcks         \* bound: acknowledgements under way

VARIABLES
    consumer,  \* the consumer at the server
    sub,       \* the subscription: none, or its kind, options and state
    inbox,     \* deliveries on their way to the application
    hand,      \* messages the application holds and has not acknowledged
    acks,      \* acknowledgements on their way to the server, in order
    settled,   \* history: payloads of this consumer whose ack() returned
    resent     \* history: payloads delivered after that

consumerVars == <<consumer, sub, inbox, hand, acks, settled, resent>>

ConsumerConfig == [durable : BOOLEAN, ackPolicy : {"NotSet", "Explicit", "None"}]
SubscriptionOptions == [manualAck : BOOLEAN, config : ConsumerConfig]

ASSUME ConsumerAssumption ==
    /\ Subscriptions \subseteq [kind : {"push", "sync", "pull"}, options : SubscriptionOptions]
    /\ Batches \subseteq Nat \ {0}
    /\ MaxInbox \in Nat \ {0} /\ MaxAcks \in Nat \ {0}

ToJsConsumerConfig(config) == [Durable |-> config.durable, AckPolicy |-> config.ackPolicy]
\* Mutant: the library's default, as long as nobody asks for another.
ToJsCnatsSubOptionsInit(options) ==
    [ManualAck |-> TRUE, Config |-> ToJsConsumerConfig(options.config)]
ToJsCnatsSubOptions(options) ==
    [ManualAck |-> options.manualAck, Config |-> ToJsConsumerConfig(options.config)]

NoConsumer == [exists |-> FALSE, durable |-> FALSE, acked |-> TRUE, next |-> 1,
               unacked |-> {}, again |-> {}]
NoSub == [kind |-> "none", manual |-> TRUE, auto |-> FALSE, owner |-> FALSE, wanted |-> 0, running |-> 0]

\* What consumerInfo tells of it.
ConsumerInfo ==
    [delivered |-> consumer.next - 1,
     ackFloor |-> CHOOSE n \in 0..(consumer.next - 1) :
                    /\ \A m \in 1..n : m \notin consumer.unacked \union consumer.again
                    /\ n + 1 \in consumer.unacked \union consumer.again \union {consumer.next},
     ackPendingCount |-> Cardinality(consumer.unacked \union consumer.again),
     pendingCount |-> Len(stream) - (consumer.next - 1)]

ConsumerInit ==
    /\ consumer = NoConsumer /\ sub = NoSub
    /\ inbox = << >> /\ hand = {} /\ acks = << >>
    /\ settled = {} /\ resent = {}

-----------------------------------------------------------------------------
(* The application's calls.                                                *)

\* A subscription that finds no consumer of its durable name makes one and owns it;
\* one that finds it with another configuration throws.
Subscribe(s) ==
    /\ sub = NoSub
    /\ LET opts == ToJsCnatsSubOptions(s.options)
           acked == opts.Config.AckPolicy # "None"
       IN  /\ sub' = [kind |-> s.kind, manual |-> s.options.manualAck,
                      auto |-> s.kind = "push" /\ ~opts.ManualAck /\ acked,
                      owner |-> ~consumer.exists, wanted |-> 0, running |-> 0]
           /\ IF consumer.exists
              THEN opts.Config.Durable /\ consumer.acked = acked /\ UNCHANGED consumer
              ELSE consumer' = [NoConsumer EXCEPT !.exists = TRUE, !.acked = acked,
                                                  !.durable = opts.Config.Durable]
    /\ UNCHANGED <<inbox, hand, acks, settled, resent, stream, lost>>

EndSubscription == sub # NoSub /\ sub' = NoSub /\ inbox' = << >> /\ hand' = {}

\* The consumer goes; an acknowledgement to one without a name finds no other.
DeleteConsumer ==
    /\ consumer' = NoConsumer /\ settled' = {} /\ resent' = {}
    /\ acks' = IF consumer.durable THEN acks ELSE << >>
KeepConsumer == UNCHANGED <<consumer, settled, resent, acks>>

\* Mutant: the subscription's memory is freed, and that is all.
JsSubDeleterDestroyOnly ==
    EndSubscription /\ KeepConsumer /\ UNCHANGED <<stream, lost>>
\* Unsubscribing deletes the consumer that the subscription made.
JsSubDeleter ==
    /\ EndSubscription
    /\ IF sub.owner THEN DeleteConsumer ELSE KeepConsumer
    /\ UNCHANGED <<stream, lost>>

\* The process ends: a consumer without a name goes in time, a durable one stays.
Crash ==
    /\ EndSubscription /\ Lose
    /\ IF consumer.durable THEN KeepConsumer ELSE DeleteConsumer
    /\ UNCHANGED stream

Take(ms) == hand' = hand \union ms
Rest(n) == inbox' = SubSeq(inbox, n + 1, Len(inbox))

\* The delivery thread of a push subscription runs one callback at a time.
Callback ==
    /\ sub.kind = "push" /\ sub.running = 0 /\ inbox # << >>
    /\ Take({Head(inbox)}) /\ Rest(1)
    /\ sub' = [sub EXCEPT !.running = Head(inbox)]
    /\ UNCHANGED <<consumer, acks, settled, resent, stream, lost>>

NextMessage ==
    /\ sub.kind = "sync" /\ inbox # << >>
    /\ Take({Head(inbox)}) /\ Rest(1)
    /\ UNCHANGED <<consumer, sub, acks, settled, resent, stream, lost>>

\* A fetch asks for a batch, and returns what came of it, or throws if nothing did.
Fetch(batch) ==
    /\ sub.kind = "pull" /\ sub.wanted = 0
    /\ sub' = [sub EXCEPT !.wanted = batch]
    /\ UNCHANGED <<consumer, inbox, hand, acks, settled, resent, stream, lost>>
FetchReturns ==
    /\ sub.kind = "pull" /\ inbox # << >>
    /\ \E n \in 1..Len(inbox) : Take({inbox[i] : i \in 1..n}) /\ Rest(n)
    /\ sub' = [sub EXCEPT !.wanted = 0]
    /\ UNCHANGED <<consumer, acks, settled, resent, stream, lost>>

Send(m, what) == Len(acks) < MaxAcks /\ acks' = Append(acks, [msg |-> m, what |-> what])
Gone(m) == [consumer EXCEPT !.unacked = @ \ {m}, !.again = @ \ {m}]

\* Mutant: the acknowledgement is sent and not waited for.
AckWithoutAnswer(m) ==
    /\ Send(m, "ack") /\ hand' = hand \ {m}
    /\ settled' = settled \union {stream[m].payload}
    /\ UNCHANGED <<consumer, sub, inbox, resent, stream, lost>>
\* natsMsg_AckSync waits for the answer: what is in front of it has arrived then.
Ack(m) ==
    /\ hand' = hand \ {m}
    /\ \/ /\ acks = << >> /\ consumer.exists
          /\ consumer' = Gone(m)
          /\ settled' = settled \union {stream[m].payload}
          /\ UNCHANGED <<acks, lost>>
       \/ Send(m, "ack") /\ UNCHANGED <<consumer, settled, lost>>
       \/ Lose /\ UNCHANGED <<consumer, settled, acks>>
    /\ UNCHANGED <<sub, inbox, resent, stream>>

Nak(m) ==
    /\ Send(m, "nak") /\ hand' = hand \ {m}
    /\ UNCHANGED <<consumer, sub, inbox, settled, resent, stream, lost>>

Terminate(m) ==
    /\ Send(m, "term") /\ hand' = hand \ {m}
    /\ UNCHANGED <<consumer, sub, inbox, settled, resent, stream, lost>>

\* A callback returns: without manualAck the library acknowledges, whatever
\* the application has called.
Return ==
    /\ sub.running # 0
    /\ sub' = [sub EXCEPT !.running = 0] /\ hand' = {}
    /\ IF sub.auto THEN Send(sub.running, "ack") ELSE UNCHANGED acks
    /\ UNCHANGED <<consumer, inbox, settled, resent, stream, lost>>

IncomingMessageCall(m) == Ack(m) \/ Nak(m) \/ Terminate(m)

-----------------------------------------------------------------------------
(* The server.                                                             *)

Deliverable == consumer.again \union (Stored \intersect {consumer.next})

Deliver(m) ==
    /\ consumer.exists /\ sub # NoSub /\ Len(inbox) < MaxInbox /\ m \in Deliverable
    /\ sub.kind = "pull" => sub.wanted > 0
    /\ consumer' = [consumer EXCEPT !.next = IF m = @ THEN @ + 1 ELSE @,
                                    !.again = @ \ {m},
                                    !.unacked = IF consumer.acked THEN @ \union {m} ELSE @]
    /\ sub' = IF sub.kind = "pull" THEN [sub EXCEPT !.wanted = @ - 1] ELSE sub
    /\ resent' = IF stream[m].payload \in settled THEN resent \union {stream[m].payload} ELSE resent
    /\ \/ inbox' = Append(inbox, m) /\ UNCHANGED lost
       \/ UNCHANGED inbox /\ Lose
    /\ UNCHANGED <<hand, acks, settled, stream>>

AckArrives ==
    /\ acks # << >>
    /\ acks' = Tail(acks)
    /\ LET a == Head(acks) IN
       consumer' = IF ~consumer.exists THEN consumer
                   ELSE IF a.what # "nak" THEN Gone(a.msg)
                   ELSE IF a.msg \in consumer.unacked
                        THEN [Gone(a.msg) EXCEPT !.again = @ \union {a.msg}]
                        ELSE consumer
    /\ UNCHANGED <<sub, inbox, hand, settled, resent, stream, lost>>

AckLost ==
    /\ acks # << >> /\ Lose
    /\ acks' = Tail(acks)
    /\ UNCHANGED <<consumer, sub, inbox, hand, settled, resent, stream>>

\* ackWait has passed.
Overdue(m) ==
    /\ m \in consumer.unacked
    /\ consumer' = [Gone(m) EXCEPT !.again = @ \union {m}]
    /\ UNCHANGED <<sub, inbox, hand, acks, settled, resent, stream, lost>>

-----------------------------------------------------------------------------

PullSubscriptionCall == (\E batch \in Batches : Fetch(batch)) \/ FetchReturns
JetStreamSubscribe == \E s \in Subscriptions : Subscribe(s)

ConsumerNext ==
    \/ JetStreamSubscribe \/ JsSubDeleter \/ Crash
    \/ Callback \/ NextMessage \/ PullSubscriptionCall
    \/ \E m \in hand : IncomingMessageCall(m)
    \/ Return
    \/ \E m \in Stored : Deliver(m) \/ Overdue(m)
    \/ AckArrives \/ AckLost
=============================================================================
