----------------------------- MODULE JetStreamFlow -----------------------------
(***************************************************************************)
(* From one application to another: what is published to a stream, and the *)
(* consumer that reads it.  The two processes share the stream and nothing *)
(* else.                                                                   *)
(***************************************************************************)
EXTENDS AsyncPublish, Consumer

vars == <<stream, lost, publishVars, consumerVars>>

Init == stream = << >> /\ lost = 0 /\ PublishInit /\ ConsumerInit

\* Bound: what a consumer reads is published synchronously, with answers that may be
\* late and are not lost.  Of any other publish it would see the same, the stream.
Plain ==
    ~handler /\ context = "open" /\ \A i \in Attempts : sent[i].fate \in {"calling", "acked", "thrown"}
Idle == consumer = NoConsumer /\ acks = << >>

Next ==
    \/ PublishNext /\ (Idle \/ (Plain' /\ UNCHANGED lost)) /\ UNCHANGED consumerVars
    \/ ConsumerNext /\ Plain /\ UNCHANGED publishVars

\* The delivery thread of the subscription runs, callbacks return, the server
\* delivers, takes what arrives and notices what is overdue.  Nothing is asked of
\* the publishing application.
Scheduled ==
    /\ WF_vars((Callback \/ Return) /\ UNCHANGED publishVars)
    /\ WF_vars(AckArrives /\ UNCHANGED publishVars)
    /\ WF_vars((\E m \in Stored : Deliver(m)) /\ UNCHANGED publishVars)
    /\ WF_vars((\E m \in Stored : Overdue(m)) /\ UNCHANGED publishVars)

Spec == Init /\ [][Next]_vars /\ Scheduled

-----------------------------------------------------------------------------
(* Properties.                                                             *)

Messages == [payload : Payloads, id : Payloads \union {""}]
Sent == 1..(consumer.next - 1)

\* The variables have their types; a subscription has a consumer, and a consumer
\* without a name has a subscription: what js/SubscriptionBaseTemplate and
\* private/defines.h unsubscribe for.
FlowTypeOK ==
    /\ PublishTypeOK
    /\ stream \in Seq(Messages) /\ lost \in 0..MaxLost
    /\ consumer \in [exists : BOOLEAN, durable : BOOLEAN, acked : BOOLEAN, next : 1..(Len(stream) + 1),
                     unacked : SUBSET Sent, again : SUBSET Sent]
    /\ consumer.unacked \intersect consumer.again = {}
    /\ ConsumerInfo.ackFloor <= ConsumerInfo.delivered
    /\ (\E batch \in Batches \union {0} : sub.wanted \in 0..batch)
    /\ (sub.running # 0 => sub.kind = "push" /\ hand \subseteq {sub.running})
    /\ \A i \in DOMAIN inbox : inbox[i] \in Sent
    /\ hand \subseteq Sent
    /\ acks \in Seq([msg : Stored, what : {"ack", "nak", "term"}])
    /\ IF sub = NoSub THEN consumer.exists => consumer.durable ELSE consumer.exists

\* A payload that was published with an id, however often, is not delivered again
\* once the ack() of a delivery of it has returned.
AcknowledgedIsNotSentAgain == resent \intersect Identified = {}

\* A callback subscription without manual acknowledgement gets each message that is
\* stored, and the server its acknowledgement, unless the subscription ends:
\* deliveries and acknowledgements that are lost are repeated.
Automatic == sub.kind = "push" /\ ~sub.manual /\ consumer.acked
EachStoredIsSettled ==
    \A m \in 1..MaxAttempts :
        (m \in Stored /\ Automatic) ~> (ConsumerInfo.ackFloor >= m \/ ~Automatic)
=============================================================================
