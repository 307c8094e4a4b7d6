-------------------------- MODULE JetStreamFlowProofs --------------------------
(***************************************************************************)
(* Proofs about JetStreamFlow: what a publisher may conclude from the end  *)
(* of a publish and a consumer from that of an acknowledgement, for any    *)
(* payloads, subscriptions, batches and limits.                            *)
(***************************************************************************)
EXTENDS JetStreamFlow, SequenceTheorems, FiniteSetTheorems, WellFoundedInduction, TLAPS

-----------------------------------------------------------------------------
(* Sequences.                                                              *)

LEMMA FunctionIsSequence ==
    ASSUME NEW S, NEW n \in Nat, NEW f \in [1..n -> S]
    PROVE  f \in Seq(S) /\ Len(f) = n
  OBVIOUS

LEMMA Appending ==
    ASSUME NEW S, NEW s \in Seq(S), NEW e \in S
    PROVE  /\ Append(s, e) \in Seq(S)
           /\ Len(Append(s, e)) = Len(s) + 1
           /\ Append(s, e)[Len(s) + 1] = e
           /\ \A i \in 1..Len(s) : Append(s, e)[i] = s[i]
  OBVIOUS

LEMMA Replacing ==
    ASSUME NEW S, NEW s \in Seq(S), NEW i \in 1..Len(s), NEW e \in S
    PROVE  /\ [s EXCEPT ![i] = e] \in Seq(S)
           /\ Len([s EXCEPT ![i] = e]) = Len(s)
           /\ [s EXCEPT ![i] = e][i] = e
           /\ \A j \in 1..Len(s) : j # i => [s EXCEPT ![i] = e][j] = s[j]
  OBVIOUS

LEMMA Taking ==
    ASSUME NEW S, NEW s \in Seq(S), NEW n \in 0..Len(s)
    PROVE  /\ SubSeq(s, n + 1, Len(s)) \in Seq(S)
           /\ \A i \in DOMAIN SubSeq(s, n + 1, Len(s)) :
                 \E j \in DOMAIN s : SubSeq(s, n + 1, Len(s))[i] = s[j]
  OBVIOUS

LEMMA Dropping ==
    ASSUME NEW S, NEW s \in Seq(S), s # << >>
    PROVE  /\ Tail(s) \in Seq(S) /\ Head(s) \in S /\ Head(s) = s[1] /\ 1 \in DOMAIN s
           /\ \A i \in DOMAIN Tail(s) : \E j \in DOMAIN s : Tail(s)[i] = s[j]
  OBVIOUS

-----------------------------------------------------------------------------
(* The invariant: the stream.                                              *)

\* An id is the payload it was published with, and is stored once.
Named(m) == (m.id # "" => m.id = m.payload) /\ (m.payload \in Identified => m.id = m.payload)
StreamInv ==
    /\ stream \in Seq(Messages) /\ lost \in 0..MaxLost
    /\ \A k \in Stored : Named(stream[k])
    /\ \A j, k \in Stored : stream[j].id = stream[k].id /\ stream[j].id # "" => j = k

(* The publishers. *)

WireAcks == [Sequence : Nat \ {0}, Duplicate : BOOLEAN]
SentRecord == [payload : Payloads, fate : Fates, ack : SUBSET PublishAck, handled : BOOLEAN]
WireRecord == [at : {"request", "ack", "error", "none"}, ack : SUBSET WireAcks]

PublishTypes ==
    /\ sent \in Seq(SentRecord)
    /\ wire \in Seq(WireRecord) /\ Len(wire) = Len(sent)
    /\ handler \in BOOLEAN /\ context \in {"open", "destroyed"}

\* What the library keeps is what is open.
PendingIsOpen ==
    /\ pending = {i \in Attempts : sent[i].fate = "open"}
    /\ Cardinality(pending) <= MaxPending

\* An answer is on its way to those who wait, and only an answer of the server
\* says what was stored.
WireInv ==
    \A i \in Attempts :
        /\ wire[i].at \in {"ack", "error"} => i \in Waiting
        /\ wire[i].at # "ack" => wire[i].ack = {}
        /\ wire[i].at = "ack" \/ sent[i].fate = "acked" =>
              \E k \in Stored : stream[k].payload = sent[i].payload

\* What is stored was published, by a request that has arrived.
StoredWasPublished ==
    \A k \in Stored :
        \E i \in Attempts : sent[i].payload = stream[k].payload /\ wire[i].at # "request"

Handlers == \A i \in Attempts : /\ sent[i].handled => handler
                                /\ sent[i].fate = "unheard" => ~sent[i].handled

\* The answers to a publish, those on their way among them.
Acks(i) == sent[i].ack \union {ToPublishAck(a) : a \in wire[i].ack}

AnswersInv ==
    \A i \in Attempts : \A a \in Acks(i) :
        /\ a.sequence \in Stored
        /\ stream[a.sequence].payload = sent[i].payload
        /\ a.duplicate => \E j \in Attempts \ {i} : sent[j].payload = sent[i].payload
        /\ ~a.duplicate => \A j \in Attempts \ {i} :
                              \A b \in Acks(j) : b.sequence = a.sequence => b.duplicate

PublishInv ==
    /\ PublishTypes /\ PendingIsOpen /\ WireInv /\ StoredWasPublished /\ Handlers
    /\ AnswersInv

(* The consumer. *)

ConsumerRecord ==
    [exists : BOOLEAN, durable : BOOLEAN, acked : BOOLEAN, next : Nat \ {0},
     unacked : SUBSET Nat, again : SUBSET Nat]
SubRecord ==
    [kind : {"none", "push", "sync", "pull"}, manual : BOOLEAN, auto : BOOLEAN,
     owner : BOOLEAN, wanted : Nat, running : Nat]
AckRecord == [msg : Nat, what : {"ack", "nak", "term"}]

\* A consumer of a stream of so many messages.
Reads(c, length) ==
    /\ c \in ConsumerRecord
    /\ c.next <= length + 1
    /\ c.unacked \subseteq 1..(c.next - 1) /\ c.again \subseteq 1..(c.next - 1)
    /\ c.unacked \intersect c.again = {}

ConsumerTypes ==
    /\ Reads(consumer, Len(stream))
    /\ sub \in SubRecord
    /\ \E batch \in Batches \union {0} : sub.wanted <= batch
    /\ inbox \in Seq(Nat) /\ (\A i \in DOMAIN inbox : inbox[i] \in Sent)
    /\ hand \subseteq Sent
    /\ acks \in Seq(AckRecord) /\ \A i \in DOMAIN acks : acks[i].msg \in Stored

\* A subscription has a consumer, and one without a name has its subscription.
SubInv ==
    /\ sub.kind = "none" => sub = NoSub
    /\ sub = NoSub => inbox = << >> /\ hand = {} /\ (consumer.exists => consumer.durable)
    /\ sub # NoSub => consumer.exists /\ (~sub.owner => consumer.durable)
    /\ sub.running # 0 => sub.kind = "push" /\ sub.running \in Sent /\ hand \subseteq {sub.running}
    /\ sub.kind = "push" /\ sub.running = 0 => hand = {}

\* What was acknowledged for good is behind the consumer.
Behind(c, ps) ==
    \A k \in Stored : stream[k].payload \in ps \intersect Identified =>
        k < c.next /\ k \notin c.unacked \union c.again

SettledInv ==
    /\ ~consumer.exists => settled = {} /\ resent = {}
    /\ \A p \in settled : \E k \in Stored : stream[k].payload = p
    /\ Behind(consumer, settled)
    /\ resent \intersect Identified = {}

ConsumerInv == ConsumerTypes /\ SubInv /\ SettledInv

IInv == StreamInv /\ PublishInv /\ ConsumerInv

-----------------------------------------------------------------------------
(* The consumer's steps.                                                   *)

LEMMA StreamLen ==
    ASSUME StreamInv
    PROVE  Len(stream) \in Nat /\ stream \in [Stored -> Messages]
  <1>1. stream \in Seq(Messages)
    BY DEF StreamInv
  <1> QED
    BY <1>1, LenProperties DEF Stored

LEMMA GoneReads ==
    ASSUME StreamInv, ConsumerTypes, NEW m
    PROVE  /\ Reads(Gone(m), Len(stream))
           /\ Gone(m).next = consumer.next /\ Gone(m).exists = consumer.exists
           /\ Gone(m).durable = consumer.durable
           /\ Gone(m).unacked = consumer.unacked \ {m} /\ Gone(m).again = consumer.again \ {m}
  BY DEF Reads, ConsumerTypes, ConsumerRecord, Gone

\* A message that is to be delivered again.
LEMMA AgainReads ==
    ASSUME StreamInv, ConsumerTypes, NEW m \in consumer.unacked
    PROVE  LET c == [Gone(m) EXCEPT !.again = @ \union {m}]
           IN  /\ Reads(c, Len(stream))
               /\ c.next = consumer.next /\ c.exists = consumer.exists
               /\ c.durable = consumer.durable
               /\ c.unacked = consumer.unacked \ {m} /\ c.again = consumer.again \union {m}
  BY DEF Reads, ConsumerTypes, ConsumerRecord, Gone

LEMMA NoConsumerReads ==
    ASSUME StreamInv
    PROVE  Reads(NoConsumer, Len(stream)) /\ Behind(NoConsumer, {})
  <1>1. NoConsumer \in ConsumerRecord
    BY DEF ConsumerRecord, NoConsumer
  <1>2. Reads(NoConsumer, Len(stream))
    BY <1>1, StreamLen DEF Reads, NoConsumer
  <1> QED
    BY <1>2 DEF Behind

LEMMA SubscribeInv ==
    ASSUME StreamInv, ConsumerInv, NEW s \in Subscriptions, Subscribe(s)
    PROVE  ConsumerInv'
  <1> DEFINE opts == ToJsCnatsSubOptions(s.options)
             acked == opts.Config.AckPolicy # "None"
  <1>1. /\ sub = NoSub /\ UNCHANGED <<inbox, hand, acks, settled, resent, stream, lost>>
        /\ sub' = [kind |-> s.kind, manual |-> s.options.manualAck,
                   auto |-> s.kind = "push" /\ ~opts.ManualAck /\ acked,
                   owner |-> ~consumer.exists, wanted |-> 0, running |-> 0]
        /\ IF consumer.exists
           THEN opts.Config.Durable /\ consumer.acked = acked /\ UNCHANGED consumer
           ELSE consumer' = [NoConsumer EXCEPT !.exists = TRUE, !.acked = acked,
                                               !.durable = opts.Config.Durable]
    BY DEF Subscribe
  <1>2. /\ s.kind \in {"push", "sync", "pull"} /\ s.options.manualAck \in BOOLEAN
        /\ opts.Config.Durable \in BOOLEAN /\ opts.Config.AckPolicy \in {"NotSet", "Explicit", "None"}
    <2>1. s \in [kind : {"push", "sync", "pull"}, options : SubscriptionOptions]
      BY ConsumerAssumption
    <2> QED
      BY <2>1 DEF SubscriptionOptions, ConsumerConfig, ToJsCnatsSubOptions, ToJsConsumerConfig
  <1> HIDE DEF opts
  <1>3. acked \in BOOLEAN /\ (s.kind = "push" /\ ~opts.ManualAck /\ acked) \in BOOLEAN
        /\ (~consumer.exists) \in BOOLEAN
    OBVIOUS
  <1> HIDE DEF acked
  <1>4. sub' \in SubRecord /\ sub'.kind # "none" /\ sub' # NoSub /\ sub'.running = 0 /\ sub'.wanted = 0
        /\ sub'.owner = ~consumer.exists
    BY <1>1, <1>2, <1>3 DEF SubRecord, NoSub
  <1>5. inbox = << >> /\ hand = {} /\ (consumer.exists => consumer.durable)
    BY <1>1 DEF ConsumerInv, SubInv
  <1>6. consumer'.exists /\ (consumer.exists => consumer' = consumer)
        /\ (~consumer.exists => /\ consumer'.next = 1 /\ consumer'.unacked = {} /\ consumer'.again = {}
                                /\ consumer' \in ConsumerRecord)
    <2>1. CASE consumer.exists
      BY <1>1, <2>1
    <2>2. CASE ~consumer.exists
      <3>1. consumer' = [exists |-> TRUE, durable |-> opts.Config.Durable, acked |-> acked,
                         next |-> 1, unacked |-> {}, again |-> {}]
        BY <1>1, <2>2 DEF NoConsumer
      <3> QED
        BY <1>2, <1>3, <2>2, <3>1 DEF ConsumerRecord
    <2> QED
      BY <2>1, <2>2
  <1>7. Reads(consumer', Len(stream))
    <2>1. CASE consumer.exists
      BY <1>6, <2>1 DEF ConsumerInv, ConsumerTypes
    <2>2. CASE ~consumer.exists
      BY <1>6, <2>2, StreamLen DEF Reads
    <2> QED
      BY <2>1, <2>2
  <1>8. ConsumerTypes'
    BY <1>1, <1>4, <1>5, <1>7 DEF ConsumerInv, ConsumerTypes, Sent, Stored
  <1>9. SubInv'
    BY <1>1, <1>4, <1>5, <1>6 DEF SubInv
  <1>10. SettledInv'
    <2>1. ~consumer.exists => settled = {}
      BY DEF ConsumerInv, SettledInv
    <2> QED
      BY <1>1, <1>6, <2>1 DEF ConsumerInv, SettledInv, Behind, Stored
  <1> QED
    BY <1>8, <1>9, <1>10 DEF ConsumerInv

LEMMA EndInv ==
    ASSUME StreamInv, ConsumerInv, JsSubDeleter \/ Crash
    PROVE  ConsumerInv'
  <1>1. sub # NoSub /\ sub' = NoSub /\ inbox' = << >> /\ hand' = {} /\ UNCHANGED stream
    BY DEF JsSubDeleter, Crash, EndSubscription
  <1>2. \/ DeleteConsumer
        \/ KeepConsumer /\ consumer.durable
    BY <1>1 DEF JsSubDeleter, Crash, ConsumerInv, SubInv
  <1>3. Reads(consumer', Len(stream)) /\ (consumer'.exists => consumer'.durable)
    <2>1. CASE DeleteConsumer
      BY <2>1, NoConsumerReads DEF DeleteConsumer, NoConsumer
    <2>2. CASE KeepConsumer /\ consumer.durable
      BY <2>2 DEF KeepConsumer, ConsumerInv, ConsumerTypes
    <2> QED
      BY <1>2, <2>1, <2>2
  <1>4. acks' \in Seq(AckRecord) /\ \A i \in DOMAIN acks' : acks'[i].msg \in Stored
    <2>1. acks' = acks \/ acks' = << >>
      BY <1>2 DEF DeleteConsumer, KeepConsumer
    <2>2. CASE acks' = acks
      BY <2>2 DEF ConsumerInv, ConsumerTypes
    <2>3. CASE acks' = << >>
      BY <2>3
    <2> QED
      BY <2>1, <2>2, <2>3
  <1>5. sub' \in SubRecord /\ sub'.kind = "none" /\ sub'.running = 0 /\ sub'.wanted = 0
    BY <1>1 DEF NoSub, SubRecord
  <1>6. ConsumerTypes'
    <2>1. inbox' \in Seq(Nat) /\ \A i \in DOMAIN inbox' : inbox'[i] \in Sent'
      BY <1>1
    <2>2. \E batch \in Batches \union {0} : sub'.wanted <= batch
      BY <1>5
    <2>3. Reads(consumer', Len(stream')) /\ hand' \subseteq Sent'
      BY <1>1, <1>3
    <2>4. acks' \in Seq(AckRecord) /\ \A i \in DOMAIN acks' : acks'[i].msg \in Stored'
      BY <1>1, <1>4 DEF Stored
    <2> QED
      BY <1>5, <2>1, <2>2, <2>3, <2>4 DEF ConsumerTypes
  <1>7. SubInv'
    BY <1>1, <1>3, <1>5 DEF SubInv
  <1>8. SettledInv'
    BY <1>1, <1>2, NoConsumerReads
    DEF DeleteConsumer, KeepConsumer, NoConsumer, ConsumerInv, SettledInv, Behind, Stored
  <1> QED
    BY <1>6, <1>7, <1>8 DEF ConsumerInv

\* What the application takes from the inbox was delivered.
LEMMA TakeInv ==
    ASSUME StreamInv, ConsumerInv, Callback \/ NextMessage \/ FetchReturns
    PROVE  ConsumerInv'
  <1>0. ConsumerTypes /\ SubInv /\ SettledInv
    BY DEF ConsumerInv
  <1>1. /\ UNCHANGED <<consumer, acks, settled, resent, stream>> /\ inbox # << >>
        /\ sub.kind \in {"push", "sync", "pull"}
    BY DEF Callback, NextMessage, FetchReturns
  <1>2. inbox \in Seq(Nat) /\ Len(inbox) \in Nat /\ Len(inbox) >= 1 /\ DOMAIN inbox = 1..Len(inbox)
    <2>1. inbox \in Seq(Nat)
      BY <1>0 DEF ConsumerTypes
    <2> QED
      BY <1>1, <2>1
  <1>3. PICK n \in 1..Len(inbox) : hand' = hand \union {inbox[i] : i \in 1..n} /\ Rest(n)
    <2>1. CASE Callback \/ NextMessage
      <3>1. hand' = hand \union {Head(inbox)} /\ Rest(1)
        BY <2>1 DEF Callback, NextMessage, Take
      <3>2. {Head(inbox)} = {inbox[i] : i \in 1..1}
        BY <1>2
      <3> QED
        BY <1>2, <3>1, <3>2
    <2>2. CASE FetchReturns
      BY <2>2 DEF FetchReturns, Take
    <2> QED
      BY <2>1, <2>2
  <1>4. inbox' \in Seq(Nat) /\ \A i \in DOMAIN inbox' : \E j \in DOMAIN inbox : inbox'[i] = inbox[j]
    <2>1. n \in 0..Len(inbox) /\ inbox' = SubSeq(inbox, n + 1, Len(inbox))
      BY <1>2, <1>3 DEF Rest
    <2> QED
      BY <1>2, <2>1, Taking
  <1>5. hand' \subseteq Sent /\ \A i \in DOMAIN inbox' : inbox'[i] \in Sent
    <2>1. hand \subseteq Sent /\ \A i \in DOMAIN inbox : inbox[i] \in Sent
      BY <1>0 DEF ConsumerTypes
    <2>2. \A i \in 1..n : i \in DOMAIN inbox
      BY <1>2
    <2>3. \A i \in 1..n : inbox[i] \in Sent
      BY <2>1, <2>2
    <2> QED
      BY <1>3, <1>4, <2>1, <2>3
  <1>6. sub \in SubRecord /\ consumer.next \in Nat /\ sub # NoSub
    BY <1>0, <1>1 DEF ConsumerTypes, Reads, ConsumerRecord, NoSub
  <1>7. /\ sub' \in SubRecord /\ sub'.kind = sub.kind /\ sub'.owner = sub.owner
        /\ sub'.wanted \in {0, sub.wanted}
    <2>1. CASE Callback
      <3>1. sub' = [sub EXCEPT !.running = Head(inbox)] /\ Head(inbox) \in Nat
        BY <1>2, <2>1 DEF Callback
      <3> QED
        BY <1>6, <3>1 DEF SubRecord
    <2>2. CASE NextMessage
      BY <1>6, <2>2 DEF NextMessage
    <2>3. CASE FetchReturns
      BY <1>6, <2>3 DEF FetchReturns, SubRecord
    <2> QED
      BY <2>1, <2>2, <2>3
  <1>8. ConsumerTypes'
    <2>1. \E batch \in Batches \union {0} : sub'.wanted <= batch
      <3>1. CASE sub'.wanted = 0
        BY <3>1
      <3>2. CASE sub'.wanted = sub.wanted
        BY <1>0, <3>2 DEF ConsumerTypes
      <3> QED
        BY <1>7, <3>1, <3>2
    <2>2. Sent' = Sent /\ Stored' = Stored
      BY <1>1 DEF Sent, Stored
    <2>3. Reads(consumer, Len(stream))' /\ acks' \in Seq(AckRecord)
          /\ \A i \in DOMAIN acks' : acks'[i].msg \in Stored'
      BY <1>0, <1>1, <2>2 DEF ConsumerTypes
    <2> QED
      BY <1>4, <1>5, <1>7, <2>1, <2>2, <2>3 DEF ConsumerTypes
  <1>9. SubInv'
    <2>1. Sent' = Sent
      BY <1>1 DEF Sent
    <2>2. sub'.kind # "none" /\ sub' # NoSub
      BY <1>1, <1>7 DEF NoSub
    <2>3. consumer'.exists /\ (~sub'.owner => consumer'.durable)
      BY <1>0, <1>1, <1>6, <1>7 DEF SubInv
    <2>4. CASE Callback
      <3>1. sub.kind = "push" /\ sub.running = 0 /\ sub' = [sub EXCEPT !.running = Head(inbox)]
            /\ hand' = hand \union {Head(inbox)}
        BY <2>4 DEF Callback, Take
      <3>2. hand = {}
        BY <1>0, <3>1 DEF SubInv
      <3>3. sub'.running = Head(inbox)
        BY <1>6, <3>1 DEF SubRecord
      <3>4. Head(inbox) \in Sent /\ Head(inbox) # 0
        <4>1. Head(inbox) = inbox[1] /\ 1 \in DOMAIN inbox
          BY <1>2
        <4>2. inbox[1] \in Sent
          BY <1>0, <4>1 DEF ConsumerTypes
        <4>3. Head(inbox) \in Sent
          BY <4>1, <4>2
        <4> QED
          BY <1>6, <4>3 DEF Sent
      <3> QED
        BY <1>7, <2>1, <2>2, <2>3, <3>1, <3>2, <3>3, <3>4 DEF SubInv
    <2>5. CASE NextMessage \/ FetchReturns
      <3>1. sub.kind # "push" /\ sub'.running = sub.running
        BY <1>6, <2>5 DEF NextMessage, FetchReturns, SubRecord
      <3>2. sub.running = 0
        BY <1>0, <3>1 DEF SubInv
      <3> QED
        BY <1>7, <2>2, <2>3, <3>1, <3>2 DEF SubInv
    <2> QED
      BY <2>4, <2>5
  <1>10. SettledInv'
    BY <1>0, <1>1 DEF SettledInv, Behind, Stored
  <1> QED
    BY <1>8, <1>9, <1>10 DEF ConsumerInv

LEMMA FetchInv ==
    ASSUME StreamInv, ConsumerInv, NEW batch \in Batches, Fetch(batch)
    PROVE  ConsumerInv'
  <1>0. ConsumerTypes /\ SubInv /\ SettledInv
    BY DEF ConsumerInv
  <1>1. /\ UNCHANGED <<consumer, inbox, hand, acks, settled, resent, stream>>
        /\ sub.kind = "pull" /\ sub' = [sub EXCEPT !.wanted = batch]
    BY DEF Fetch
  <1>2. sub \in SubRecord /\ batch \in Nat
    BY <1>0, ConsumerAssumption DEF ConsumerTypes
  <1>3. sub' \in SubRecord /\ sub'.kind = "pull" /\ sub'.owner = sub.owner /\ sub'.running = sub.running
        /\ sub'.wanted = batch
    BY <1>1, <1>2 DEF SubRecord
  <1>4. ConsumerTypes'
    BY <1>0, <1>1, <1>2, <1>3 DEF ConsumerTypes, Sent, Stored
  <1>5. SubInv'
    BY <1>0, <1>1, <1>3 DEF SubInv, NoSub
  <1>6. SettledInv'
    BY <1>0, <1>1 DEF SettledInv, Behind, Stored
  <1> QED
    BY <1>4, <1>5, <1>6 DEF ConsumerInv

\* Steps that leave the subscription as it is and the consumer where it is.
LEMMA StandsStill ==
    ASSUME StreamInv, ConsumerInv, UNCHANGED <<stream, sub, inbox>>,
           Reads(consumer', Len(stream)), consumer'.next = consumer.next,
           consumer'.exists = consumer.exists, consumer'.durable = consumer.durable,
           hand' \subseteq hand,
           acks' \in Seq(AckRecord), \A i \in DOMAIN acks' : acks'[i].msg \in Stored
    PROVE  ConsumerTypes' /\ SubInv'
  <1>0. ConsumerTypes /\ SubInv
    BY DEF ConsumerInv
  <1>1. Sent' = Sent /\ Stored' = Stored
    BY DEF Sent, Stored
  <1>2. ConsumerTypes'
    BY <1>0, <1>1 DEF ConsumerTypes
  <1>3. SubInv'
    BY <1>0, <1>1 DEF SubInv
  <1> QED
    BY <1>2, <1>3

LEMMA SentIsStored ==
    ASSUME StreamInv, ConsumerTypes
    PROVE  Sent \subseteq Stored /\ Sent \subseteq Nat
  <1>1. consumer.next \in Nat /\ consumer.next <= Len(stream) + 1 /\ Len(stream) \in Nat
    BY StreamLen DEF ConsumerTypes, Reads, ConsumerRecord
  <1> QED
    BY <1>1 DEF Sent, Stored

LEMMA SendTypes ==
    ASSUME StreamInv, ConsumerTypes, NEW m \in Sent, NEW what \in {"ack", "nak", "term"},
           Send(m, what)
    PROVE  acks' \in Seq(AckRecord) /\ \A i \in DOMAIN acks' : acks'[i].msg \in Stored
  <1> DEFINE a == [msg |-> m, what |-> what]
  <1>1. acks' = Append(acks, a) /\ acks \in Seq(AckRecord) /\ \A i \in DOMAIN acks : acks[i].msg \in Stored
    BY DEF Send, ConsumerTypes
  <1>2. a \in AckRecord /\ a.msg \in Stored
    BY SentIsStored DEF AckRecord
  <1> HIDE DEF a
  <1>3. /\ acks' \in Seq(AckRecord) /\ Len(acks') = Len(acks) + 1 /\ acks'[Len(acks) + 1] = a
        /\ \A i \in 1..Len(acks) : acks'[i] = acks[i]
    BY <1>1, <1>2, Appending
  <1>4. DOMAIN acks = 1..Len(acks) /\ DOMAIN acks' = 1..Len(acks) + 1 /\ Len(acks) \in Nat
    BY <1>1, <1>3
  <1>5. \A i \in DOMAIN acks' : i \in DOMAIN acks \/ i = Len(acks) + 1
    BY <1>4
  <1> QED
    BY <1>1, <1>2, <1>3, <1>4, <1>5

\* One that takes nothing back from behind the consumer.
LEMMA StaysBehind ==
    ASSUME ConsumerInv, NEW c,
           c.next = consumer.next,
           c.unacked \union c.again \subseteq consumer.unacked \union consumer.again
    PROVE  Behind(c, settled)
  BY DEF ConsumerInv, SettledInv, Behind

LEMMA AckInv ==
    ASSUME StreamInv, ConsumerInv, NEW m \in hand, Ack(m)
    PROVE  ConsumerInv'
  <1>0. ConsumerTypes /\ SubInv /\ SettledInv
    BY DEF ConsumerInv
  <1>1. UNCHANGED <<sub, inbox, resent, stream>> /\ hand' = hand \ {m} /\ m \in Sent /\ m \in Stored
    BY <1>0, SentIsStored DEF Ack, ConsumerTypes
  <1>2. CASE acks = << >> /\ consumer.exists /\ consumer' = Gone(m)
             /\ settled' = settled \union {stream[m].payload} /\ UNCHANGED acks
    <2>1. ConsumerTypes' /\ SubInv'
      <3>1. acks' \in Seq(AckRecord) /\ \A i \in DOMAIN acks' : acks'[i].msg \in Stored
        BY <1>0, <1>2 DEF ConsumerTypes
      <3> QED
        BY <1>0, <1>1, <1>2, <3>1, GoneReads, StandsStill
    <2>2. Behind(Gone(m), settled')
      <3> SUFFICES ASSUME NEW k \in Stored, stream[k].payload \in settled' \intersect Identified
                   PROVE  k < Gone(m).next /\ k \notin Gone(m).unacked \union Gone(m).again
        BY DEF Behind
      <3>1. CASE stream[k].payload = stream[m].payload
        <4>1. stream[k].id = stream[k].payload /\ stream[m].id = stream[m].payload
          BY <1>1, <3>1 DEF StreamInv, Named
        <4>2. stream[k].id # ""
          BY <4>1, PublishAssumption
        <4>3. k = m
          BY <1>1, <3>1, <4>1, <4>2 DEF StreamInv
        <4>4. m < consumer.next
          BY <1>0, <1>1 DEF Sent, ConsumerTypes, Reads, ConsumerRecord
        <4> QED
          BY <1>0, <4>3, <4>4, GoneReads
      <3>2. CASE stream[k].payload # stream[m].payload
        <4>1. stream[k].payload \in settled \intersect Identified
          BY <1>2, <3>2
        <4> QED
          BY <1>0, <4>1, GoneReads DEF SettledInv, Behind
      <3> QED
        BY <3>1, <3>2
    <2>3. SettledInv'
      <3>1. consumer'.exists
        BY <1>0, <1>2, GoneReads
      <3>2. \A p \in settled' : \E k \in Stored : stream[k].payload = p
        BY <1>0, <1>1, <1>2 DEF SettledInv
      <3> QED
        BY <1>0, <1>1, <1>2, <2>2, <3>1, <3>2 DEF SettledInv, Behind, Stored
    <2> QED
      BY <2>1, <2>3 DEF ConsumerInv
  <1>3. CASE UNCHANGED <<consumer, settled>> /\ (Send(m, "ack") \/ UNCHANGED acks)
    <2>1. acks' \in Seq(AckRecord) /\ \A i \in DOMAIN acks' : acks'[i].msg \in Stored
      BY <1>0, <1>1, <1>3, SendTypes DEF ConsumerTypes
    <2>2. ConsumerTypes' /\ SubInv'
      BY <1>0, <1>1, <1>3, <2>1, StandsStill DEF ConsumerTypes
    <2>3. SettledInv'
      BY <1>0, <1>1, <1>3 DEF SettledInv, Behind, Stored
    <2> QED
      BY <2>2, <2>3 DEF ConsumerInv
  <1> QED
    BY <1>2, <1>3 DEF Ack

LEMMA RefuseInv ==
    ASSUME StreamInv, ConsumerInv, NEW m \in hand, Nak(m) \/ Terminate(m)
    PROVE  ConsumerInv'
  <1>0. ConsumerTypes /\ SubInv /\ SettledInv
    BY DEF ConsumerInv
  <1>1. UNCHANGED <<consumer, sub, inbox, settled, resent, stream>> /\ hand' = hand \ {m} /\ m \in Sent
        /\ \E what \in {"ack", "nak", "term"} : Send(m, what)
    BY <1>0 DEF Nak, Terminate, ConsumerTypes
  <1>2. acks' \in Seq(AckRecord) /\ \A i \in DOMAIN acks' : acks'[i].msg \in Stored
    BY <1>0, <1>1, SendTypes
  <1>3. ConsumerTypes' /\ SubInv'
    BY <1>0, <1>1, <1>2, StandsStill DEF ConsumerTypes
  <1>4. SettledInv'
    BY <1>0, <1>1 DEF SettledInv, Behind, Stored
  <1> QED
    BY <1>3, <1>4 DEF ConsumerInv

LEMMA ReturnInv ==
    ASSUME StreamInv, ConsumerInv, Return
    PROVE  ConsumerInv'
  <1>0. ConsumerTypes /\ SubInv /\ SettledInv
    BY DEF ConsumerInv
  <1>1. /\ UNCHANGED <<consumer, inbox, settled, resent, stream>> /\ hand' = {}
        /\ sub' = [sub EXCEPT !.running = 0] /\ sub.running # 0
        /\ Send(sub.running, "ack") \/ UNCHANGED acks
    BY DEF Return
  <1>2. sub.kind = "push" /\ sub.running \in Sent /\ sub \in SubRecord
    BY <1>0, <1>1 DEF SubInv, ConsumerTypes
  <1>3. /\ sub' \in SubRecord /\ sub'.kind = "push" /\ sub'.owner = sub.owner
        /\ sub'.running = 0 /\ sub'.wanted = sub.wanted
    BY <1>1, <1>2 DEF SubRecord
  <1>4. acks' \in Seq(AckRecord) /\ \A i \in DOMAIN acks' : acks'[i].msg \in Stored
    BY <1>0, <1>1, <1>2, SendTypes DEF ConsumerTypes
  <1>5. ConsumerTypes'
    <2>1. Sent' = Sent /\ Stored' = Stored
      BY <1>1 DEF Sent, Stored
    <2> QED
      BY <1>0, <1>1, <1>3, <1>4, <2>1 DEF ConsumerTypes
  <1>6. SubInv'
    BY <1>0, <1>1, <1>2, <1>3 DEF SubInv, NoSub
  <1>7. SettledInv'
    BY <1>0, <1>1 DEF SettledInv, Behind, Stored
  <1> QED
    BY <1>5, <1>6, <1>7 DEF ConsumerInv

LEMMA AckArrivesInv ==
    ASSUME StreamInv, ConsumerInv, AckArrives \/ AckLost
    PROVE  ConsumerInv'
  <1>0. ConsumerTypes /\ SubInv /\ SettledInv
    BY DEF ConsumerInv
  <1>1. UNCHANGED <<sub, inbox, hand, settled, resent, stream>> /\ acks # << >> /\ acks' = Tail(acks)
    BY DEF AckArrives, AckLost
  <1>2. acks' \in Seq(AckRecord) /\ \A i \in DOMAIN acks' : acks'[i].msg \in Stored
    <2>1. acks \in Seq(AckRecord) /\ \A i \in DOMAIN acks : acks[i].msg \in Stored
      BY <1>0 DEF ConsumerTypes
    <2>2. Tail(acks) \in Seq(AckRecord)
          /\ \A i \in DOMAIN Tail(acks) : \E j \in DOMAIN acks : Tail(acks)[i] = acks[j]
      BY <1>1, <2>1, Dropping
    <2> QED
      BY <1>1, <2>1, <2>2
  <1>3. \/ consumer' = consumer
        \/ \E m : consumer' = Gone(m)
        \/ \E m \in consumer.unacked : consumer' = [Gone(m) EXCEPT !.again = @ \union {m}]
    BY DEF AckArrives, AckLost
  <1>4. /\ Reads(consumer', Len(stream)) /\ consumer'.next = consumer.next
        /\ consumer'.exists = consumer.exists /\ consumer'.durable = consumer.durable
        /\ consumer'.unacked \union consumer'.again \subseteq consumer.unacked \union consumer.again
    <2>1. CASE consumer' = consumer
      BY <1>0, <2>1 DEF ConsumerTypes
    <2>2. ASSUME NEW m, consumer' = Gone(m) PROVE <1>4!:
      BY <1>0, <2>2, GoneReads
    <2>3. ASSUME NEW m \in consumer.unacked, consumer' = [Gone(m) EXCEPT !.again = @ \union {m}]
          PROVE <1>4!:
      BY <1>0, <2>3, AgainReads
    <2> QED
      BY <1>3, <2>1, <2>2, <2>3
  <1>5. ConsumerTypes' /\ SubInv'
    BY <1>1, <1>2, <1>4, StandsStill
  <1>6. SettledInv'
    BY <1>0, <1>1, <1>4, StaysBehind DEF SettledInv, Behind, Stored
  <1> QED
    BY <1>5, <1>6 DEF ConsumerInv

LEMMA OverdueInv ==
    ASSUME StreamInv, ConsumerInv, NEW m, Overdue(m)
    PROVE  ConsumerInv'
  <1>0. ConsumerTypes /\ SubInv /\ SettledInv
    BY DEF ConsumerInv
  <1>1. /\ UNCHANGED <<sub, inbox, hand, acks, settled, resent, stream>>
        /\ m \in consumer.unacked /\ consumer' = [Gone(m) EXCEPT !.again = @ \union {m}]
    BY DEF Overdue
  <1>2. /\ Reads(consumer', Len(stream)) /\ consumer'.next = consumer.next
        /\ consumer'.exists = consumer.exists /\ consumer'.durable = consumer.durable
        /\ consumer'.unacked \union consumer'.again \subseteq consumer.unacked \union consumer.again
    BY <1>0, <1>1, AgainReads
  <1>3. acks' \in Seq(AckRecord) /\ \A i \in DOMAIN acks' : acks'[i].msg \in Stored
    BY <1>0, <1>1 DEF ConsumerTypes
  <1>4. ConsumerTypes' /\ SubInv'
    BY <1>1, <1>2, <1>3, StandsStill
  <1>5. SettledInv'
    BY <1>0, <1>1, <1>2, StaysBehind DEF SettledInv, Behind, Stored
  <1> QED
    BY <1>4, <1>5 DEF ConsumerInv

\* A delivery, new or again, is of nothing that is settled.
LEMMA DeliverInv ==
    ASSUME StreamInv, ConsumerInv, NEW m \in Stored, Deliver(m)
    PROVE  ConsumerInv'
  <1>0. ConsumerTypes /\ SubInv /\ SettledInv
    BY DEF ConsumerInv
  <1>1. /\ UNCHANGED <<hand, acks, settled, stream>>
        /\ consumer.exists /\ sub # NoSub
        /\ m \in consumer.again \union (Stored \intersect {consumer.next})
        /\ sub.kind = "pull" => sub.wanted > 0
        /\ consumer' = [consumer EXCEPT !.next = IF m = @ THEN @ + 1 ELSE @,
                                        !.again = @ \ {m},
                                        !.unacked = IF consumer.acked THEN @ \union {m} ELSE @]
        /\ sub' = IF sub.kind = "pull" THEN [sub EXCEPT !.wanted = @ - 1] ELSE sub
        /\ resent' = IF stream[m].payload \in settled THEN resent \union {stream[m].payload} ELSE resent
        /\ inbox' = Append(inbox, m) \/ inbox' = inbox
    BY DEF Deliver, Deliverable
  <1>2. /\ consumer \in ConsumerRecord /\ sub \in SubRecord /\ Len(stream) \in Nat /\ m \in 1..Len(stream)
        /\ consumer.next <= Len(stream) + 1
        /\ consumer.unacked \subseteq 1..(consumer.next - 1)
        /\ consumer.again \subseteq 1..(consumer.next - 1)
        /\ consumer.unacked \intersect consumer.again = {}
    BY <1>0, StreamLen DEF ConsumerTypes, Reads, Stored
  <1>3. /\ consumer' \in ConsumerRecord
        /\ consumer'.next = (IF m = consumer.next THEN consumer.next + 1 ELSE consumer.next)
        /\ consumer'.again = consumer.again \ {m}
        /\ consumer'.unacked = (IF consumer.acked THEN consumer.unacked \union {m} ELSE consumer.unacked)
        /\ consumer'.exists = consumer.exists /\ consumer'.durable = consumer.durable
    <2> DEFINE next == IF m = consumer.next THEN consumer.next + 1 ELSE consumer.next
               again == consumer.again \ {m}
               unacked == IF consumer.acked THEN consumer.unacked \union {m} ELSE consumer.unacked
    <2>1. /\ consumer.exists \in BOOLEAN /\ consumer.durable \in BOOLEAN /\ consumer.acked \in BOOLEAN
          /\ consumer.next \in Nat \ {0} /\ consumer.unacked \subseteq Nat /\ consumer.again \subseteq Nat
          /\ m \in Nat
      BY <1>2 DEF ConsumerRecord
    <2>2. next \in Nat \ {0} /\ again \in SUBSET Nat /\ unacked \in SUBSET Nat
      BY <2>1
    <2>3. consumer' = [consumer EXCEPT !.next = next, !.again = again, !.unacked = unacked]
      BY <1>1
    <2> HIDE DEF next, again, unacked
    <2>4. /\ consumer' \in ConsumerRecord /\ consumer'.next = next /\ consumer'.again = again
          /\ consumer'.unacked = unacked
          /\ consumer'.exists = consumer.exists /\ consumer'.durable = consumer.durable
      BY <1>2, <2>1, <2>2, <2>3 DEF ConsumerRecord
    <2> QED
      BY <2>4 DEF next, again, unacked
  <1>4. consumer.next \in Nat \ {0} /\ m < consumer'.next /\ consumer.next <= consumer'.next
    BY <1>1, <1>2, <1>3 DEF ConsumerRecord
  <1>5. consumer'.next <= Len(stream) + 1
    BY <1>2, <1>3
  <1>6. Reads(consumer', Len(stream))
    <2>1. consumer'.unacked \subseteq 1..(consumer'.next - 1)
      BY <1>2, <1>3, <1>4
    <2>2. consumer'.again \subseteq 1..(consumer'.next - 1)
      BY <1>2, <1>3, <1>4
    <2>3. consumer'.unacked \intersect consumer'.again = {}
      BY <1>2, <1>3
    <2> QED
      BY <1>3, <1>5, <2>1, <2>2, <2>3 DEF Reads
  <1>7. Sent \subseteq Sent' /\ m \in Sent' /\ m \in Nat /\ Stored' = Stored
    BY <1>1, <1>2, <1>3, <1>4 DEF Sent, Stored
  <1>8. inbox' \in Seq(Nat) /\ \A i \in DOMAIN inbox' : inbox'[i] \in Sent'
    <2>1. inbox \in Seq(Nat) /\ \A i \in DOMAIN inbox : inbox[i] \in Sent
      BY <1>0 DEF ConsumerTypes
    <2>2. CASE inbox' = inbox
      BY <1>7, <2>1, <2>2
    <2>3. CASE inbox' = Append(inbox, m)
      <3>1. /\ inbox' \in Seq(Nat) /\ Len(inbox') = Len(inbox) + 1 /\ inbox'[Len(inbox) + 1] = m
            /\ \A i \in 1..Len(inbox) : inbox'[i] = inbox[i]
        BY <1>7, <2>1, <2>3, Appending
      <3>2. DOMAIN inbox = 1..Len(inbox) /\ DOMAIN inbox' = 1..Len(inbox) + 1 /\ Len(inbox) \in Nat
        BY <2>1, <3>1
      <3>3. \A i \in DOMAIN inbox' : i \in DOMAIN inbox \/ i = Len(inbox) + 1
        BY <3>2
      <3> QED
        BY <1>7, <2>1, <3>1, <3>2, <3>3
    <2> QED
      BY <1>1, <2>2, <2>3
  <1>9. /\ sub' \in SubRecord /\ sub'.kind = sub.kind /\ sub'.owner = sub.owner
        /\ sub'.running = sub.running /\ sub'.wanted <= sub.wanted
    BY <1>1, <1>2 DEF SubRecord
  <1>10. ConsumerTypes'
    <2>1. \E batch \in Batches \union {0} : sub'.wanted <= batch
      <3>1. PICK batch \in Batches \union {0} : sub.wanted <= batch
        BY <1>0 DEF ConsumerTypes
      <3>2. batch \in Nat /\ sub.wanted \in Nat /\ sub'.wanted \in Nat
        BY <1>2, <1>9, ConsumerAssumption DEF SubRecord
      <3> QED
        BY <1>9, <3>1, <3>2
    <2>2. hand' \subseteq Sent'
      BY <1>0, <1>1, <1>7 DEF ConsumerTypes
    <2>3. acks' \in Seq(AckRecord) /\ \A i \in DOMAIN acks' : acks'[i].msg \in Stored'
      BY <1>0, <1>1, <1>7 DEF ConsumerTypes
    <2> QED
      BY <1>1, <1>6, <1>8, <1>9, <2>1, <2>2, <2>3 DEF ConsumerTypes
  <1>11. SubInv'
    <2>1. sub.kind # "none" /\ sub' # NoSub
      BY <1>0, <1>1, <1>9 DEF SubInv, NoSub
    <2> QED
      BY <1>0, <1>1, <1>3, <1>7, <1>9, <2>1 DEF SubInv
  <1>12. stream[m].payload \notin settled \intersect Identified
    BY <1>0, <1>1, <1>2 DEF SettledInv, Behind, ConsumerRecord
  <1>13. Behind(consumer', settled)
    <2> SUFFICES ASSUME NEW k \in Stored, stream[k].payload \in settled \intersect Identified
                 PROVE  k < consumer'.next /\ k \notin consumer'.unacked \union consumer'.again
      BY DEF Behind
    <2>1. k # m /\ k < consumer.next /\ k \notin consumer.unacked \union consumer.again
      BY <1>0, <1>12 DEF SettledInv, Behind
    <2>2. k \in Nat
      BY DEF Stored
    <2>3. k < consumer'.next
      BY <1>2, <1>3, <2>1, <2>2 DEF ConsumerRecord
    <2> QED
      BY <1>3, <2>1, <2>3
  <1>14. SettledInv'
    BY <1>0, <1>1, <1>3, <1>7, <1>12, <1>13 DEF SettledInv, Behind
  <1> QED
    BY <1>10, <1>11, <1>14 DEF ConsumerInv

\* What the publishers rest on besides the stream is theirs.
LEMMA PublishersRest ==
    ASSUME PublishInv, UNCHANGED <<publishVars, stream>>
    PROVE  PublishInv'
  <1>1. UNCHANGED <<sent, wire, pending, handler, context, Attempts, Waiting, Stored>>
    BY DEF publishVars, Attempts, Waiting, Stored
  <1>2. \A i : Acks(i)' = Acks(i)
    BY <1>1 DEF Acks
  <1>3. PublishTypes' /\ PendingIsOpen' /\ Handlers'
    BY <1>1 DEF PublishInv, PublishTypes, PendingIsOpen, Handlers
  <1>4. WireInv' /\ StoredWasPublished'
    BY <1>1 DEF PublishInv, WireInv, StoredWasPublished
  <1>5. AnswersInv'
    BY <1>1, <1>2 DEF PublishInv, AnswersInv
  <1> QED
    BY <1>3, <1>4, <1>5 DEF PublishInv

LEMMA LostBounded ==
    ASSUME lost \in 0..MaxLost, UNCHANGED lost \/ Lose
    PROVE  lost' \in 0..MaxLost
  <1>1. MaxLost \in Nat
    BY PublishAssumption
  <1>2. CASE UNCHANGED lost
    BY <1>2
  <1>3. CASE Lose
    BY <1>1, <1>3 DEF Lose
  <1> QED
    BY <1>2, <1>3

LEMMA ConsumerStep ==
    ASSUME IInv, ConsumerNext, UNCHANGED publishVars
    PROVE  IInv'
  <1>0. StreamInv /\ PublishInv /\ ConsumerInv
    BY DEF IInv
  <1>1. ConsumerInv' /\ UNCHANGED stream /\ (UNCHANGED lost \/ Lose)
    <2>1. CASE JetStreamSubscribe
      BY <1>0, <2>1, SubscribeInv DEF JetStreamSubscribe, Subscribe
    <2>2. CASE JsSubDeleter \/ Crash
      BY <1>0, <2>2, EndInv DEF JsSubDeleter, Crash
    <2>3. CASE Callback \/ NextMessage \/ FetchReturns
      BY <1>0, <2>3, TakeInv DEF Callback, NextMessage, FetchReturns
    <2>4. ASSUME NEW batch \in Batches, Fetch(batch) PROVE <1>1!:
      BY <1>0, <2>4, FetchInv DEF Fetch
    <2>5. ASSUME NEW m \in hand, Ack(m) PROVE <1>1!:
      BY <1>0, <2>5, AckInv DEF Ack
    <2>6. ASSUME NEW m \in hand, Nak(m) \/ Terminate(m) PROVE <1>1!:
      BY <1>0, <2>6, RefuseInv DEF Nak, Terminate
    <2>7. CASE Return
      BY <1>0, <2>7, ReturnInv DEF Return
    <2>8. ASSUME NEW m \in Stored, Deliver(m) PROVE <1>1!:
      BY <1>0, <2>8, DeliverInv DEF Deliver
    <2>9. ASSUME NEW m \in Stored, Overdue(m) PROVE <1>1!:
      BY <1>0, <2>9, OverdueInv DEF Overdue
    <2>10. CASE AckArrives \/ AckLost
      BY <1>0, <2>10, AckArrivesInv DEF AckArrives, AckLost
    <2> QED
      BY <2>1, <2>2, <2>3, <2>4, <2>5, <2>6, <2>7, <2>8, <2>9, <2>10
      DEF ConsumerNext, PullSubscriptionCall, IncomingMessageCall
  <1>2. StreamInv'
    BY <1>0, <1>1, LostBounded DEF StreamInv, Stored
  <1>3. PublishInv'
    BY <1>0, <1>1, PublishersRest
  <1> QED
    BY <1>1, <1>2, <1>3 DEF IInv

-----------------------------------------------------------------------------
(* The publishers' steps.                                                  *)

LEMMA Typed ==
    ASSUME PublishTypes
    PROVE  /\ Len(sent) \in Nat /\ Len(wire) = Len(sent) /\ Attempts = DOMAIN sent /\ Attempts = DOMAIN wire
           /\ \A i \in Attempts : sent[i] \in SentRecord /\ wire[i] \in WireRecord
           /\ IsFiniteSet(Attempts)
  <1>1. sent \in Seq(SentRecord) /\ wire \in Seq(WireRecord) /\ Len(wire) = Len(sent)
    BY DEF PublishTypes
  <1>2. Len(sent) \in Nat /\ DOMAIN sent = 1..Len(sent) /\ DOMAIN wire = 1..Len(wire)
    BY <1>1
  <1>3. Attempts = DOMAIN sent /\ Attempts = DOMAIN wire
    BY <1>1, <1>2 DEF Attempts
  <1>4. \A i \in Attempts : sent[i] \in SentRecord /\ wire[i] \in WireRecord
    BY <1>1, <1>3
  <1>5. IsFiniteSet(1..Len(sent))
    BY <1>2, FS_Interval
  <1> QED
    BY <1>1, <1>2, <1>3, <1>4, <1>5 DEF Attempts

LEMMA NothingUnderWay == Nothing \in WireRecord /\ Nothing.at = "none" /\ Nothing.ack = {}
  BY DEF Nothing, WireRecord

\* A step of the publishers that adds no answer to a publish and stores nothing.
LEMMA PublishersGoOn ==
    ASSUME StreamInv, PublishInv, UNCHANGED stream, PublishTypes', PendingIsOpen', Handlers',
           Attempts \subseteq Attempts',
           \A i \in Attempts :
              /\ sent'[i].payload = sent[i].payload /\ Acks(i)' \subseteq Acks(i)
              /\ wire[i].at # "request" => wire'[i].at # "request"
              /\ wire'[i].at # "ack" => wire'[i].ack = {}
              /\ wire'[i].at = "ack" => wire[i].at = "ack"
              /\ wire'[i].at \in {"ack", "error"} => i \in Waiting'
              /\ sent'[i].fate = "acked" => sent[i].fate = "acked" \/ wire[i].at = "ack",
           \A i \in Attempts' \ Attempts :
              /\ Acks(i)' = {} /\ wire'[i].ack = {} /\ wire'[i].at \in {"request", "none"}
              /\ sent'[i].fate # "acked"
    PROVE  PublishInv'
  <1>0. WireInv /\ StoredWasPublished /\ AnswersInv /\ Stored' = Stored
    BY DEF PublishInv, Stored
  <1>1. WireInv'
    BY <1>0 DEF WireInv
  <1>2. StoredWasPublished'
    BY <1>0 DEF StoredWasPublished
  <1>3. AnswersInv'
    <2> SUFFICES ASSUME NEW i \in Attempts', NEW a \in Acks(i)'
                 PROVE  /\ a.sequence \in Stored
                        /\ stream[a.sequence].payload = sent'[i].payload
                        /\ a.duplicate => \E j \in Attempts' \ {i} : sent'[j].payload = sent'[i].payload
                        /\ ~a.duplicate => \A j \in Attempts' \ {i} :
                              \A b \in Acks(j)' : b.sequence = a.sequence => b.duplicate
      BY <1>0 DEF AnswersInv
    <2>1. i \in Attempts /\ a \in Acks(i) /\ sent'[i].payload = sent[i].payload
      OBVIOUS
    <2>2. a.sequence \in Stored /\ stream[a.sequence].payload = sent'[i].payload
      BY <1>0, <2>1 DEF AnswersInv
    <2>3. a.duplicate => \E j \in Attempts' \ {i} : sent'[j].payload = sent'[i].payload
      <3>1. a.duplicate => \E j \in Attempts \ {i} : sent[j].payload = sent[i].payload
        BY <1>0, <2>1 DEF AnswersInv
      <3> QED
        BY <2>1, <3>1
    <2>4. ASSUME ~a.duplicate, NEW j \in Attempts' \ {i}, NEW b \in Acks(j)', b.sequence = a.sequence
          PROVE  b.duplicate
      <3>1. j \in Attempts /\ b \in Acks(j)
        BY <2>4
      <3> QED
        BY <1>0, <2>1, <2>4, <3>1 DEF AnswersInv
    <2> QED
      BY <2>2, <2>3, <2>4
  <1> QED
    BY <1>1, <1>2, <1>3 DEF PublishInv

LEMMA WireTypes ==
    ASSUME PublishTypes, NEW i \in Attempts, NEW answer \in WireRecord, OnWire(i, answer)
    PROVE  /\ wire' \in Seq(WireRecord) /\ Len(wire') = Len(wire)
           /\ wire'[i] = (IF i \in Waiting THEN answer ELSE Nothing)
           /\ \A j \in Attempts : j # i => wire'[j] = wire[j]
  <1> DEFINE w == IF i \in Waiting THEN answer ELSE Nothing
  <1>1. w \in WireRecord /\ wire' = [wire EXCEPT ![i] = w]
    BY NothingUnderWay DEF OnWire
  <1>2. wire \in Seq(WireRecord) /\ i \in 1..Len(wire) /\ Attempts = 1..Len(wire)
    BY DEF PublishTypes, Attempts
  <1> HIDE DEF w
  <1>3. /\ wire' \in Seq(WireRecord) /\ Len(wire') = Len(wire) /\ wire'[i] = w
        /\ \A j \in 1..Len(wire) : j # i => wire'[j] = wire[j]
    BY <1>1, <1>2, Replacing
  <1> QED
    BY <1>2, <1>3 DEF w

LEMMA DecidedType ==
    ASSUME PublishTypes, NEW i \in Attempts, NEW fate \in Fates
    PROVE  /\ Decided(i, fate) \in SentRecord
           /\ Decided(i, fate).payload = sent[i].payload /\ Decided(i, fate).ack = sent[i].ack
           /\ Decided(i, fate).fate = fate
           /\ Decided(i, fate).handled <=> sent[i].handled /\ fate = "unheard"
  <1>1. sent[i] \in SentRecord
    BY Typed
  <1> DEFINE h == sent[i].handled /\ fate = "unheard"
  <1>2. h \in BOOLEAN
    OBVIOUS
  <1>3. Decided(i, fate) = [sent[i] EXCEPT !.fate = fate, !.handled = h]
    BY DEF Decided
  <1>4. h <=> sent[i].handled /\ fate = "unheard"
    OBVIOUS
  <1> HIDE DEF h
  <1>5. /\ Decided(i, fate) \in SentRecord
        /\ Decided(i, fate).payload = sent[i].payload /\ Decided(i, fate).ack = sent[i].ack
        /\ Decided(i, fate).fate = fate /\ Decided(i, fate).handled = h
    BY <1>1, <1>2, <1>3 DEF SentRecord
  <1> QED
    BY <1>4, <1>5

LEMMA FewerPending ==
    ASSUME PublishTypes, PendingIsOpen, pending' \subseteq pending
    PROVE  Cardinality(pending') <= MaxPending
  <1>1. IsFiniteSet(pending) /\ Cardinality(pending) <= MaxPending /\ MaxPending \in Nat
    BY Typed, FS_Subset, PublishAssumption DEF PendingIsOpen
  <1>2. /\ Cardinality(pending') <= Cardinality(pending)
        /\ Cardinality(pending') \in Nat /\ Cardinality(pending) \in Nat
    BY <1>1, FS_Subset, FS_CardinalityType
  <1> QED
    BY <1>1, <1>2

\* One publish is decided.
LEMMA DecideOne ==
    ASSUME PublishTypes, PendingIsOpen, NEW i \in Attempts, NEW d \in SentRecord,
           d.fate # "open", sent' = [sent EXCEPT ![i] = d], pending' = pending \ {i}
    PROVE  /\ sent' \in Seq(SentRecord) /\ Len(sent') = Len(sent) /\ Attempts' = Attempts
           /\ sent'[i] = d /\ \A j \in Attempts : j # i => sent'[j] = sent[j]
           /\ PendingIsOpen'
  <1>1. sent \in Seq(SentRecord) /\ i \in 1..Len(sent) /\ Attempts = 1..Len(sent)
    BY DEF PublishTypes, Attempts
  <1>2. /\ sent' \in Seq(SentRecord) /\ Len(sent') = Len(sent) /\ sent'[i] = d
        /\ \A j \in 1..Len(sent) : j # i => sent'[j] = sent[j]
    BY <1>1, Replacing
  <1>3. Attempts' = Attempts
    BY <1>2 DEF Attempts
  <1>4. Cardinality(pending') <= MaxPending
    BY FewerPending
  <1>5. pending' = {j \in Attempts : sent'[j].fate = "open"}
    BY <1>1, <1>2 DEF PendingIsOpen
  <1> QED
    BY <1>1, <1>2, <1>3, <1>4, <1>5 DEF PendingIsOpen

\* An error, or a timeout.
LEMMA FailsInv ==
    ASSUME StreamInv, PublishInv, NEW i \in Attempts, ErrorArrives(i) \/ PublishTimeout(i)
    PROVE  PublishInv'
  <1>0. PublishTypes /\ PendingIsOpen /\ WireInv /\ Handlers
    BY DEF PublishInv
  <1>1. UNCHANGED <<handler, context, stream>> /\ Fails(i) /\ i \in Waiting
    BY <1>0 DEF ErrorArrives, PublishTimeout, WireInv
  <1>2. PICK fate \in {"thrown", "reported", "unheard"} :
           /\ Decide(i, fate) /\ (fate = "unheard" => ~handler)
    BY <1>1 DEF Fails, AsyncPublishErrorHandler
  <1> DEFINE d == Decided(i, fate)
  <1>3. /\ d \in SentRecord /\ d.payload = sent[i].payload /\ d.ack = sent[i].ack
        /\ d.fate = fate /\ (d.handled <=> sent[i].handled /\ fate = "unheard")
    <2>1. fate \in Fates
      BY DEF Fates
    <2> QED
      BY <1>0, <2>1, DecidedType
  <1>4. sent' = [sent EXCEPT ![i] = d] /\ pending' = pending \ {i}
    BY <1>2 DEF Decide
  <1> HIDE DEF d
  <1>5. /\ sent' \in Seq(SentRecord) /\ Len(sent') = Len(sent) /\ Attempts' = Attempts
        /\ sent'[i] = d /\ \A j \in Attempts : j # i => sent'[j] = sent[j]
        /\ PendingIsOpen'
    BY <1>0, <1>3, <1>4, DecideOne
  <1>6. /\ wire' \in Seq(WireRecord) /\ Len(wire') = Len(wire)
        /\ wire'[i] = (IF wire[i].at = "request" THEN wire[i] ELSE Nothing)
        /\ \A j \in Attempts : j # i => wire'[j] = wire[j]
    <2>1. CASE ErrorArrives(i)
      <3>1. OnWire(i, Nothing) /\ wire[i].at = "error"
        BY <2>1 DEF ErrorArrives
      <3> QED
        BY <1>0, <3>1, WireTypes, NothingUnderWay
    <2>2. CASE PublishTimeout(i) /\ wire[i].at = "request"
      BY <1>0, <2>2 DEF PublishTimeout, PublishTypes
    <2>3. CASE PublishTimeout(i) /\ wire[i].at # "request"
      <3>1. wire' = [wire EXCEPT ![i] = Nothing]
        BY <2>3 DEF PublishTimeout
      <3>2. wire \in Seq(WireRecord) /\ i \in 1..Len(wire) /\ Attempts = 1..Len(wire)
        BY <1>0 DEF PublishTypes, Attempts
      <3> QED
        BY <2>3, <3>1, <3>2, Replacing, NothingUnderWay
    <2> QED
      BY <1>1, <2>1, <2>2, <2>3
  <1>7. PublishTypes'
    BY <1>0, <1>1, <1>5, <1>6 DEF PublishTypes
  <1>8. Handlers'
    BY <1>0, <1>1, <1>2, <1>3, <1>5 DEF Handlers
  <1>9. ASSUME NEW j \in Attempts
        PROVE  /\ sent'[j].payload = sent[j].payload /\ sent'[j].ack = sent[j].ack
               /\ wire'[j] = wire[j] \/ (wire'[j] = Nothing /\ wire[j].at # "request")
               /\ sent'[j].fate = "acked" => sent[j].fate = "acked"
               /\ wire'[j].at \in {"ack", "error"} => j \in Waiting'
    <2>1. CASE j = i
      BY <1>2, <1>3, <1>5, <1>6, <2>1, NothingUnderWay
    <2>2. CASE j # i
      BY <1>0, <1>5, <1>6, <2>2 DEF WireInv, Waiting
    <2> QED
      BY <2>1, <2>2
  <1>10. \A j \in Attempts : Acks(j)' \subseteq Acks(j) /\ (wire'[j].at # "ack" => wire'[j].ack = {})
                             /\ (wire'[j].at = "ack" => wire[j].at = "ack")
    BY <1>0, <1>9, NothingUnderWay DEF Acks, WireInv
  <1>11. \A j \in Attempts : wire[j].at # "request" => wire'[j].at # "request"
    BY <1>9, NothingUnderWay
  <1> QED
    BY <1>1, <1>5, <1>7, <1>8, <1>9, <1>10, <1>11, PublishersGoOn

LEMMA PubAckArrivesInv ==
    ASSUME StreamInv, PublishInv, NEW i \in Attempts, PubAckArrives(i)
    PROVE  PublishInv'
  <1>0. PublishTypes /\ PendingIsOpen /\ WireInv /\ Handlers
    BY DEF PublishInv
  <1> DEFINE answers == IF sent[i].fate = "calling" THEN wire[i].ack ELSE {}
             ack == {ToPublishAck(a) : a \in answers}
             d == [Decided(i, "acked") EXCEPT !.ack = ack]
  <1>1. /\ UNCHANGED <<handler, context, stream>> /\ wire[i].at = "ack" /\ OnWire(i, Nothing)
        /\ sent' = [sent EXCEPT ![i] = d] /\ pending' = pending \ {i}
    BY DEF PubAckArrives
  <1>2. ack \subseteq PublishAck /\ ack \subseteq Acks(i)
    <2>1. wire[i].ack \subseteq WireAcks
      BY <1>0, Typed DEF WireRecord
    <2>2. \A a \in WireAcks : ToPublishAck(a) \in PublishAck
      BY DEF WireAcks, ToPublishAck, PublishAck
    <2> QED
      BY <2>1, <2>2 DEF Acks
  <1> HIDE DEF answers, ack
  <1>3. /\ d \in SentRecord /\ d.payload = sent[i].payload /\ d.ack = ack
        /\ d.fate = "acked" /\ ~d.handled
    <2>1. "acked" \in Fates
      BY DEF Fates
    <2>2. /\ Decided(i, "acked") \in SentRecord /\ Decided(i, "acked").payload = sent[i].payload
          /\ Decided(i, "acked").fate = "acked" /\ ~Decided(i, "acked").handled
      BY <1>0, <2>1, DecidedType
    <2> QED
      BY <1>2, <2>2 DEF SentRecord
  <1> HIDE DEF d
  <1>4. /\ sent' \in Seq(SentRecord) /\ Len(sent') = Len(sent) /\ Attempts' = Attempts
        /\ sent'[i] = d /\ \A j \in Attempts : j # i => sent'[j] = sent[j]
        /\ PendingIsOpen'
    BY <1>0, <1>1, <1>3, DecideOne
  <1>5. /\ wire' \in Seq(WireRecord) /\ Len(wire') = Len(wire) /\ wire'[i] = Nothing
        /\ \A j \in Attempts : j # i => wire'[j] = wire[j]
    BY <1>0, <1>1, WireTypes, NothingUnderWay
  <1>6. PublishTypes' /\ Handlers'
    BY <1>0, <1>1, <1>3, <1>4, <1>5 DEF PublishTypes, Handlers
  <1>7. ASSUME NEW j \in Attempts
        PROVE  /\ sent'[j].payload = sent[j].payload /\ Acks(j)' \subseteq Acks(j)
               /\ wire[j].at # "request" => wire'[j].at # "request"
               /\ wire'[j].at # "ack" => wire'[j].ack = {}
               /\ wire'[j].at = "ack" => wire[j].at = "ack"
               /\ wire'[j].at \in {"ack", "error"} => j \in Waiting'
               /\ sent'[j].fate = "acked" => sent[j].fate = "acked" \/ wire[j].at = "ack"
    <2>1. CASE j = i
      <3>1. Acks(j)' \subseteq Acks(j)
        BY <1>2, <1>3, <1>4, <1>5, <2>1, NothingUnderWay DEF Acks
      <3> QED
        BY <1>1, <1>3, <1>4, <1>5, <2>1, <3>1, NothingUnderWay
    <2>2. CASE j # i
      BY <1>0, <1>4, <1>5, <2>2 DEF WireInv, Waiting, Acks
    <2> QED
      BY <2>1, <2>2
  <1> QED
    BY <1>1, <1>4, <1>6, <1>7, PublishersGoOn

\* What is on the wire is refused, or lost.
LEMMA WireStepInv ==
    ASSUME StreamInv, PublishInv, NEW i \in Attempts, ServerRefuses(i) \/ LostOnWire(i)
    PROVE  PublishInv'
  <1>0. PublishTypes /\ PendingIsOpen /\ WireInv /\ Handlers
    BY DEF PublishInv
  <1>1. UNCHANGED <<sent, pending, handler, context, stream>>
    BY DEF ServerRefuses, LostOnWire
  <1>2. PICK answer \in {Nothing, [at |-> "error", ack |-> {}]} : OnWire(i, answer)
    BY DEF ServerRefuses, LostOnWire
  <1>3. answer \in WireRecord /\ answer.at \in {"none", "error"} /\ answer.ack = {}
    BY <1>2, NothingUnderWay DEF WireRecord
  <1>4. /\ wire' \in Seq(WireRecord) /\ Len(wire') = Len(wire)
        /\ wire'[i] = (IF i \in Waiting THEN answer ELSE Nothing)
        /\ \A j \in Attempts : j # i => wire'[j] = wire[j]
    BY <1>0, <1>2, <1>3, WireTypes
  <1>5. Attempts' = Attempts /\ Waiting' = Waiting
    BY <1>1 DEF Attempts, Waiting
  <1>6. PublishTypes' /\ Handlers' /\ PendingIsOpen'
    BY <1>0, <1>1, <1>4, <1>5 DEF PublishTypes, Handlers, PendingIsOpen
  <1>7. ASSUME NEW j \in Attempts
        PROVE  /\ sent'[j].payload = sent[j].payload /\ Acks(j)' \subseteq Acks(j)
               /\ wire[j].at # "request" => wire'[j].at # "request"
               /\ wire'[j].at # "ack" => wire'[j].ack = {}
               /\ wire'[j].at = "ack" => wire[j].at = "ack"
               /\ wire'[j].at \in {"ack", "error"} => j \in Waiting'
               /\ sent'[j].fate = "acked" => sent[j].fate = "acked" \/ wire[j].at = "ack"
    <2>1. CASE j = i
      <3>1. wire'[j].at \in {"none", "error"} /\ wire'[j].ack = {}
            /\ (wire'[j].at = "error" => j \in Waiting)
        BY <1>3, <1>4, <2>1, NothingUnderWay
      <3>2. Acks(j)' \subseteq Acks(j)
        BY <1>1, <3>1 DEF Acks
      <3> QED
        BY <1>1, <1>5, <3>1, <3>2
    <2>2. CASE j # i
      BY <1>0, <1>1, <1>4, <1>5, <2>2 DEF WireInv, Acks
    <2> QED
      BY <2>1, <2>2
  <1> QED
    BY <1>1, <1>5, <1>6, <1>7, PublishersGoOn

\* The application takes what is open back, or destroys the context.
LEMMA DecideAllInv ==
    ASSUME StreamInv, PublishInv, AsyncPendingMessages \/ DestroyContext
    PROVE  PublishInv'
  <1>0. PublishTypes /\ PendingIsOpen /\ WireInv /\ Handlers
    BY DEF PublishInv
  <1>1. UNCHANGED <<handler, stream>> /\ context' \in {context, "destroyed"}
    BY DEF AsyncPendingMessages, DestroyContext
  <1>2. PICK fate \in {"returned", "abandoned"} : DecideAll(fate)
    BY DEF AsyncPendingMessages, DestroyContext
  <1> DEFINE d(j) == IF j \in pending THEN Decided(j, fate) ELSE sent[j]
             w(j) == IF j \in pending /\ wire[j].at # "request" THEN Nothing ELSE wire[j]
  <1>3. /\ sent' = [j \in Attempts |-> d(j)] /\ wire' = [j \in Attempts |-> w(j)] /\ pending' = {}
    BY <1>2 DEF DecideAll
  <1>4. ASSUME NEW j \in Attempts
        PROVE  /\ d(j) \in SentRecord /\ d(j).payload = sent[j].payload /\ d(j).ack = sent[j].ack
               /\ d(j).fate = (IF j \in pending THEN fate ELSE sent[j].fate)
               /\ d(j).handled => sent[j].handled
    <2>1. CASE j \in pending
      <3>1. fate \in Fates
        BY DEF Fates
      <3> QED
        BY <1>0, <2>1, <3>1, DecidedType
    <2>2. CASE j \notin pending
      BY <1>0, <2>2, Typed
    <2> QED
      BY <2>1, <2>2
  <1>5. \A j \in Attempts : w(j) \in WireRecord
    BY <1>0, Typed, NothingUnderWay
  <1> HIDE DEF d, w
  <1>6. /\ sent' \in Seq(SentRecord) /\ Len(sent') = Len(sent)
        /\ wire' \in Seq(WireRecord) /\ Len(wire') = Len(sent) /\ Attempts' = Attempts
        /\ \A j \in Attempts : sent'[j] = d(j) /\ wire'[j] = w(j)
    <2>1. Len(sent) \in Nat /\ Attempts = 1..Len(sent)
      BY <1>0, Typed DEF Attempts
    <2>2. sent' \in [1..Len(sent) -> SentRecord]
      BY <1>3, <1>4, <2>1
    <2>3. wire' \in [1..Len(sent) -> WireRecord]
      BY <1>3, <1>5, <2>1
    <2>4. sent' \in Seq(SentRecord) /\ Len(sent') = Len(sent)
      BY <2>1, <2>2, FunctionIsSequence
    <2>5. wire' \in Seq(WireRecord) /\ Len(wire') = Len(sent)
      BY <2>1, <2>3, FunctionIsSequence
    <2> QED
      BY <1>3, <2>1, <2>4, <2>5 DEF Attempts
  <1>7. PublishTypes'
    BY <1>0, <1>1, <1>6 DEF PublishTypes
  <1>8. PendingIsOpen'
    <2>1. \A j \in Attempts : sent'[j].fate # "open"
      BY <1>0, <1>4, <1>6 DEF PendingIsOpen
    <2>2. Cardinality(pending') <= MaxPending
      BY <1>0, <1>3, FewerPending
    <2> QED
      BY <1>3, <1>6, <2>1, <2>2 DEF PendingIsOpen
  <1>9. Handlers'
    BY <1>0, <1>1, <1>4, <1>6 DEF Handlers
  <1>10. ASSUME NEW j \in Attempts
         PROVE  /\ sent'[j].payload = sent[j].payload /\ Acks(j)' \subseteq Acks(j)
                /\ wire[j].at # "request" => wire'[j].at # "request"
                /\ wire'[j].at # "ack" => wire'[j].ack = {}
                /\ wire'[j].at = "ack" => wire[j].at = "ack"
                /\ wire'[j].at \in {"ack", "error"} => j \in Waiting'
                /\ sent'[j].fate = "acked" => sent[j].fate = "acked" \/ wire[j].at = "ack"
    <2>1. wire'[j] = wire[j] \/ (wire'[j] = Nothing /\ wire[j].at # "request")
      BY <1>6 DEF w
    <2>2. Acks(j)' \subseteq Acks(j) /\ (wire'[j].at # "ack" => wire'[j].ack = {})
      BY <1>0, <1>4, <1>6, <2>1, NothingUnderWay DEF Acks, WireInv
    <2>3. wire'[j].at \in {"ack", "error"} => j \in Waiting'
      <3> SUFFICES ASSUME wire'[j].at \in {"ack", "error"} PROVE j \in Waiting'
        OBVIOUS
      <3>1. wire'[j] = wire[j] /\ j \notin pending
        BY <1>6, <2>1, NothingUnderWay DEF w
      <3>2. j \in Waiting
        BY <1>0, <3>1 DEF WireInv
      <3>3. sent'[j].fate = sent[j].fate
        BY <1>4, <1>6, <3>1
      <3> QED
        BY <1>6, <3>2, <3>3 DEF Waiting
    <2> QED
      BY <1>4, <1>6, <2>1, <2>2, <2>3, NothingUnderWay
  <1> QED
    BY <1>1, <1>6, <1>7, <1>8, <1>9, <1>10, PublishersGoOn

LEMMA RegisterInv ==
    ASSUME StreamInv, PublishInv, RegisterAsyncPublishErrorHandler
    PROVE  PublishInv'
  <1>0. PublishTypes /\ PendingIsOpen /\ WireInv /\ Handlers
    BY DEF PublishInv
  <1>1. UNCHANGED <<sent, wire, pending, context, stream, Attempts, Waiting>> /\ handler' = TRUE
    BY DEF RegisterAsyncPublishErrorHandler, Attempts, Waiting
  <1>2. PublishTypes' /\ PendingIsOpen' /\ Handlers'
    BY <1>0, <1>1 DEF PublishTypes, PendingIsOpen, Handlers
  <1>3. \A j \in Attempts : Acks(j)' = Acks(j)
    BY <1>1 DEF Acks
  <1> QED
    BY <1>0, <1>1, <1>2, <1>3, PublishersGoOn DEF WireInv

\* A new publish: it stalls while as much is pending as the options allow.
LEMMA AttemptInv ==
    ASSUME StreamInv, PublishInv, NEW p \in Payloads, Publish(p) \/ MakeAsyncPublish(p)
    PROVE  PublishInv'
  <1>0. PublishTypes /\ PendingIsOpen /\ WireInv /\ Handlers
    BY DEF PublishInv
  <1> DEFINE n == Len(sent) + 1
  <1>1. PICK fate \in {"calling", "open", "thrown"} :
           /\ Attempt(p, fate)
           /\ fate = "open" => ~Full /\ pending' = pending \union {n}
           /\ fate # "open" => pending' = pending
    BY DEF Publish, MakeAsyncPublish
  <1> DEFINE h == handler /\ fate = "open"
             s == [payload |-> p, fate |-> fate, ack |-> {}, handled |-> h]
             w == IF fate = "thrown" THEN Nothing ELSE [at |-> "request", ack |-> {}]
  <1>2. /\ sent' = Append(sent, s) /\ wire' = Append(wire, w)
        /\ UNCHANGED <<handler, context, stream>>
    BY <1>1 DEF Attempt
  <1>3. h \in BOOLEAN /\ (h => handler) /\ (fate = "unheard" => ~h)
    OBVIOUS
  <1> HIDE DEF h
  <1>4. s \in SentRecord /\ s.fate = fate /\ s.ack = {} /\ s.handled = h
    BY <1>3 DEF SentRecord, Fates
  <1>5. w \in WireRecord /\ w.at \in {"request", "none"} /\ w.ack = {}
    BY NothingUnderWay DEF WireRecord
  <1> HIDE DEF s, w
  <1>6. sent \in Seq(SentRecord) /\ wire \in Seq(WireRecord) /\ Len(wire) = Len(sent)
    BY <1>0 DEF PublishTypes
  <1>7. /\ sent' \in Seq(SentRecord) /\ Len(sent') = n /\ sent'[n] = s
        /\ \A j \in 1..Len(sent) : sent'[j] = sent[j]
    BY <1>2, <1>4, <1>6, Appending
  <1>8. /\ wire' \in Seq(WireRecord) /\ Len(wire') = n /\ wire'[n] = w
        /\ \A j \in 1..Len(sent) : wire'[j] = wire[j]
    BY <1>2, <1>5, <1>6, Appending
  <1>9. Attempts' = Attempts \union {n} /\ n \notin Attempts
    BY <1>6, <1>7 DEF Attempts
  <1>10. \A j \in Attempts : sent'[j] = sent[j] /\ wire'[j] = wire[j]
    BY <1>7, <1>8 DEF Attempts
  <1> HIDE DEF n
  <1>11. PublishTypes'
    BY <1>0, <1>2, <1>7, <1>8 DEF PublishTypes
  <1>12. PendingIsOpen'
    <2>1. pending' = {j \in Attempts' : sent'[j].fate = "open"}
      BY <1>0, <1>1, <1>4, <1>7, <1>9, <1>10 DEF PendingIsOpen
    <2>2. Cardinality(pending') <= MaxPending
      <3>1. CASE fate # "open"
        BY <1>0, <1>1, <3>1 DEF PendingIsOpen
      <3>2. CASE fate = "open"
        <4>1. pending' = pending \union {n} /\ ~(Cardinality(pending) >= MaxPending)
          BY <1>1, <3>2 DEF Full, JsOptions, ToCnatsJsOptions
        <4>2. IsFiniteSet(pending) /\ n \notin pending
          BY <1>0, <1>9, Typed, FS_Subset DEF PendingIsOpen
        <4>3. Cardinality(pending') = Cardinality(pending) + 1 /\ Cardinality(pending) \in Nat
          BY <4>1, <4>2, FS_AddElement, FS_CardinalityType
        <4>4. MaxPending \in Nat
          BY PublishAssumption
        <4> QED
          BY <4>1, <4>3, <4>4
      <3> QED
        BY <3>1, <3>2
    <2> QED
      BY <2>1, <2>2 DEF PendingIsOpen
  <1>13. Handlers'
    <2>1. sent'[n].handled => handler' /\ fate # "unheard"
      BY <1>2, <1>3, <1>4, <1>7
    <2>2. sent'[n].fate = fate
      BY <1>4, <1>7
    <2>3. \A j \in Attempts : /\ sent'[j].handled => handler'
                              /\ sent'[j].fate = "unheard" => ~sent'[j].handled
      BY <1>0, <1>2, <1>10 DEF Handlers
    <2>4. fate # "unheard"
      BY <1>1
    <2> QED
      <3> SUFFICES ASSUME NEW j \in Attempts'
                   PROVE  /\ sent'[j].handled => handler'
                          /\ sent'[j].fate = "unheard" => ~sent'[j].handled
        BY DEF Handlers
      <3>1. CASE j \in Attempts
        BY <2>3, <3>1
      <3>2. CASE j = n
        <4>1. sent'[j] = sent'[n]
          BY <3>2
        <4> QED
          BY <2>1, <2>2, <2>4, <4>1
      <3> QED
        BY <1>9, <3>1, <3>2
  <1>14. ASSUME NEW j \in Attempts
         PROVE  /\ sent'[j].payload = sent[j].payload /\ Acks(j)' \subseteq Acks(j)
                /\ wire[j].at # "request" => wire'[j].at # "request"
                /\ wire'[j].at # "ack" => wire'[j].ack = {}
                /\ wire'[j].at = "ack" => wire[j].at = "ack"
                /\ wire'[j].at \in {"ack", "error"} => j \in Waiting'
                /\ sent'[j].fate = "acked" => sent[j].fate = "acked" \/ wire[j].at = "ack"
    BY <1>0, <1>9, <1>10 DEF WireInv, Waiting, Acks
  <1>15. \A j \in Attempts' \ Attempts :
            /\ Acks(j)' = {} /\ wire'[j].ack = {} /\ wire'[j].at \in {"request", "none"}
            /\ sent'[j].fate # "acked"
    BY <1>4, <1>5, <1>7, <1>8, <1>9 DEF Acks
  <1> QED
    BY <1>2, <1>9, <1>11, <1>12, <1>13, <1>14, <1>15, PublishersGoOn

-----------------------------------------------------------------------------
(* The stream grows.                                                       *)

LEMMA Grows ==
    ASSUME StreamInv, NEW m \in Messages, Named(m), Append1(m), UNCHANGED lost
    PROVE  /\ StreamInv'
           /\ \A k \in Stored : k \in Stored' /\ stream'[k] = stream[k]
           /\ Duplicate(m) => Stored' = Stored
           /\ ~Duplicate(m) => /\ Stored' = Stored \union {Len(stream) + 1}
                               /\ stream'[Len(stream) + 1] = m
           /\ Len(stream') \in Nat /\ Len(stream) <= Len(stream')
  <1>1. stream \in Seq(Messages) /\ Len(stream) \in Nat /\ Stored = 1..Len(stream)
    BY StreamLen DEF StreamInv, Stored
  <1>2. CASE Duplicate(m)
    <2>1. stream' = stream /\ Stored' = Stored
      BY <1>2 DEF Append1, Stored
    <2>2. StreamInv'
      BY <2>1 DEF StreamInv
    <2> QED
      BY <1>1, <1>2, <2>1, <2>2
  <1>3. CASE ~Duplicate(m)
    <2> DEFINE n == Len(stream) + 1
    <2>1. stream' = Append(stream, m)
      BY <1>3 DEF Append1
    <2>2. /\ stream' \in Seq(Messages) /\ Len(stream') = n /\ stream'[n] = m
          /\ \A k \in 1..Len(stream) : stream'[k] = stream[k]
      BY <1>1, <2>1, Appending
    <2>3. Stored' = Stored \union {n} /\ n \notin Stored /\ n \in Nat /\ Len(stream) <= n
      BY <1>1, <2>2 DEF Stored
    <2> HIDE DEF n
    <2>4. \A k \in Stored : m.id # "" => stream[k].id # m.id
      BY <1>3 DEF Duplicate
    <2>5. \A k \in Stored' : k = n \/ (k \in Stored /\ stream'[k] = stream[k])
      BY <1>1, <2>2, <2>3
    <2>6. \A k \in Stored' : Named(stream'[k])
      BY <2>2, <2>5 DEF StreamInv
    <2>7. ASSUME NEW j \in Stored', NEW k \in Stored', stream'[j].id = stream'[k].id, stream'[j].id # ""
          PROVE  j = k
      <3>1. CASE j \in Stored /\ k \in Stored
        <4>1. stream'[j] = stream[j] /\ stream'[k] = stream[k]
          BY <2>3, <2>5, <3>1
        <4> QED
          BY <2>7, <3>1, <4>1 DEF StreamInv
      <3>2. CASE j \in Stored /\ k = n
        BY <2>2, <2>3, <2>4, <2>5, <2>7, <3>2
      <3>3. CASE j = n /\ k \in Stored
        BY <2>2, <2>3, <2>4, <2>5, <2>7, <3>3
      <3> QED
        BY <2>5, <3>1, <3>2, <3>3
    <2>8. lost' \in 0..MaxLost
      BY DEF StreamInv
    <2>9. StreamInv'
      BY <2>2, <2>6, <2>7, <2>8 DEF StreamInv
    <2> QED
      BY <1>1, <1>3, <2>2, <2>3, <2>5, <2>9 DEF n
  <1> QED
    BY <1>2, <1>3

\* What the server answers names the message it has stored.
LEMMA AnswerNamesStored ==
    ASSUME StreamInv, NEW m \in Messages, Named(m), Append1(m), UNCHANGED lost
    PROVE  /\ PubAck(m) \in WireAcks /\ PubAck(m).Sequence \in Stored'
           /\ stream'[PubAck(m).Sequence].payload = m.payload
           /\ PubAck(m).Duplicate => PubAck(m).Sequence \in Stored
           /\ ~PubAck(m).Duplicate => PubAck(m).Sequence \notin Stored
  <1> DEFINE d == Duplicate(m)
             sequence == IF d THEN CHOOSE i \in Stored : stream[i].id = m.id ELSE Len(stream) + 1
  <1>1. d \in BOOLEAN
    BY DEF Duplicate
  <1>2. PubAck(m) = [Sequence |-> sequence, Duplicate |-> d]
    BY DEF PubAck
  <1>3. Len(stream) \in Nat /\ Stored = 1..Len(stream)
    BY StreamLen DEF Stored
  <1>4. CASE d
    <2>1. m.id # "" /\ \E i \in Stored : stream[i].id = m.id
      BY <1>4 DEF Duplicate
    <2>2. sequence \in Stored /\ stream[sequence].id = m.id
      BY <1>4, <2>1
    <2> HIDE DEF sequence, d
    <2>3. stream[sequence].payload = m.payload
      BY <2>1, <2>2 DEF StreamInv, Named
    <2>4. sequence \in Stored' /\ stream'[sequence] = stream[sequence]
      BY <2>2, Grows
    <2>5. sequence \in Nat \ {0}
      BY <1>3, <2>2
    <2> QED
      BY <1>1, <1>2, <1>4, <2>2, <2>3, <2>4, <2>5 DEF WireAcks
  <1>5. CASE ~d
    <2>1. sequence = Len(stream) + 1
      BY <1>5
    <2>2. sequence \in Stored' /\ stream'[sequence] = m
      BY <1>5, <2>1, Grows
    <2>3. sequence \in Nat \ {0} /\ sequence \notin Stored
      <3> HIDE DEF sequence
      <3> QED
        BY <1>3, <2>1
    <2> HIDE DEF sequence, d
    <2> QED
      BY <1>1, <1>2, <1>5, <2>2, <2>3 DEF WireAcks
  <1> QED
    BY <1>4, <1>5

\* What is stored under an id that was settled is not stored again.
LEMMA ConsumerSeesMore ==
    ASSUME StreamInv, ConsumerInv, NEW m \in Messages, Named(m), Append1(m), UNCHANGED lost,
           UNCHANGED consumerVars
    PROVE  ConsumerInv'
  <1>0. ConsumerTypes /\ SubInv /\ SettledInv
    BY DEF ConsumerInv
  <1>1. UNCHANGED <<consumer, sub, inbox, hand, acks, settled, resent>>
    BY DEF consumerVars
  <1>2. /\ \A k \in Stored : k \in Stored' /\ stream'[k] = stream[k]
        /\ Len(stream') \in Nat /\ Len(stream) \in Nat /\ Len(stream) <= Len(stream')
    BY Grows, StreamLen
  <1>3. ConsumerTypes'
    <2>1. Sent' = Sent
      BY <1>1 DEF Sent
    <2>2. Reads(consumer, Len(stream'))
      <3>1. consumer \in ConsumerRecord /\ consumer.next <= Len(stream) + 1
        BY <1>0 DEF ConsumerTypes, Reads
      <3>2. consumer.next <= Len(stream') + 1
        BY <1>2, <3>1 DEF ConsumerRecord
      <3> QED
        BY <1>0, <3>2 DEF ConsumerTypes, Reads
    <2> QED
      BY <1>0, <1>1, <1>2, <2>1, <2>2 DEF ConsumerTypes
  <1>4. SubInv'
    BY <1>0, <1>1 DEF SubInv, Sent
  <1>5. Behind(consumer, settled)'
    <2> SUFFICES ASSUME NEW k \in Stored', stream'[k].payload \in settled \intersect Identified
                 PROVE  k < consumer.next /\ k \notin consumer.unacked \union consumer.again
      BY <1>1 DEF Behind
    <2>1. CASE k \in Stored
      BY <1>0, <1>2, <2>1 DEF SettledInv, Behind
    <2>2. CASE k \notin Stored
      <3>1. ~Duplicate(m) /\ stream'[k] = m
        BY <2>2, Grows
      <3>2. PICK j \in Stored : stream[j].payload = m.payload
        BY <1>0, <3>1 DEF SettledInv
      <3>3. m.id = m.payload /\ m.id # ""
        BY <3>1, PublishAssumption DEF Named
      <3>4. stream[j].id = stream[j].payload
        BY <3>1, <3>2 DEF StreamInv, Named
      <3> QED
        BY <3>1, <3>2, <3>3, <3>4 DEF Duplicate
    <2> QED
      BY <2>1, <2>2
  <1>6. SettledInv'
    BY <1>0, <1>1, <1>2, <1>5 DEF SettledInv
  <1> QED
    BY <1>3, <1>4, <1>6 DEF ConsumerInv

LEMMA ServerStoresInv ==
    ASSUME IInv, NEW i \in Attempts, ServerStores(i), UNCHANGED consumerVars
    PROVE  IInv'
  <1>0. /\ StreamInv /\ PublishInv /\ ConsumerInv
        /\ PublishTypes /\ PendingIsOpen /\ WireInv /\ StoredWasPublished /\ Handlers /\ AnswersInv
    BY DEF IInv, PublishInv
  <1> DEFINE p == sent[i].payload
             id == IF p \in Identified THEN p ELSE ""
             m == [payload |-> p, id |-> id]
             a == PubAck(m)
             answer == [at |-> "ack", ack |-> {a}]
  <1>1. /\ wire[i].at = "request" /\ Append1(m) /\ OnWire(i, answer)
        /\ UNCHANGED <<sent, pending, handler, context, lost, Attempts, Waiting>>
    BY DEF ServerStores, ToCnatsPublishOptions, PublishOptions, Attempts, Waiting
  <1>2. m \in Messages /\ Named(m) /\ m.payload = p
    <2>1. p \in Payloads
      BY <1>0, Typed DEF SentRecord
    <2>2. id \in Payloads \union {""} /\ (id # "" => id = p) /\ (p \in Identified => id = p)
      BY <2>1
    <2> HIDE DEF p, id
    <2> QED
      BY <2>1, <2>2 DEF Messages, Named
  <1> HIDE DEF m
  <1>3. /\ a \in WireAcks /\ a.Sequence \in Stored' /\ stream'[a.Sequence].payload = p
        /\ a.Duplicate => a.Sequence \in Stored
        /\ ~a.Duplicate => a.Sequence \notin Stored
    BY <1>0, <1>1, <1>2, AnswerNamesStored
  <1>4. /\ StreamInv'
        /\ \A k \in Stored : k \in Stored' /\ stream'[k] = stream[k]
        /\ \A k \in Stored' : k \in Stored \/ stream'[k].payload = p
    BY <1>0, <1>1, <1>2, Grows
  <1> HIDE DEF p, a
  <1> DEFINE b == ToPublishAck(a)
  <1>5. b \in PublishAck /\ b.sequence = a.Sequence /\ b.duplicate = a.Duplicate
    BY <1>3 DEF WireAcks, PublishAck, ToPublishAck
  <1>6. answer \in WireRecord /\ answer.at = "ack" /\ answer.ack = {a}
    BY <1>3 DEF WireRecord
  <1> HIDE DEF answer
  <1>7. /\ wire' \in Seq(WireRecord) /\ Len(wire') = Len(wire)
        /\ wire'[i] = (IF i \in Waiting THEN answer ELSE Nothing)
        /\ \A j \in Attempts : j # i => wire'[j] = wire[j]
    BY <1>0, <1>1, <1>6, WireTypes
  <1>8. wire'[i].at \in {"ack", "none"} /\ (wire'[i].at = "ack" => i \in Waiting)
        /\ (wire'[i].at # "ack" => wire'[i].ack = {}) /\ wire'[i].ack \subseteq {a}
    BY <1>6, <1>7, NothingUnderWay
  <1>9. Acks(i)' \subseteq Acks(i) \union {b} /\ \A j \in Attempts : j # i => Acks(j)' = Acks(j)
    BY <1>1, <1>7, <1>8 DEF Acks
  <1> HIDE DEF b
  <1>10. PublishTypes' /\ PendingIsOpen' /\ Handlers'
    BY <1>0, <1>1, <1>7 DEF PublishTypes, PendingIsOpen, Handlers
  <1>11. WireInv'
    <2> SUFFICES ASSUME NEW j \in Attempts
                 PROVE  /\ wire'[j].at \in {"ack", "error"} => j \in Waiting
                        /\ wire'[j].at # "ack" => wire'[j].ack = {}
                        /\ wire'[j].at = "ack" \/ sent[j].fate = "acked" =>
                              \E k \in Stored' : stream'[k].payload = sent[j].payload
      BY <1>1 DEF WireInv
    <2>1. CASE j = i
      BY <1>3, <1>8, <2>1 DEF p
    <2>2. CASE j # i
      BY <1>0, <1>4, <1>7, <2>2 DEF WireInv
    <2> QED
      BY <2>1, <2>2
  <1>12. StoredWasPublished'
    <2> SUFFICES ASSUME NEW k \in Stored'
                 PROVE  \E j \in Attempts : sent[j].payload = stream'[k].payload /\ wire'[j].at # "request"
      BY <1>1 DEF StoredWasPublished
    <2>1. CASE k \in Stored
      <3>1. PICK j \in Attempts : sent[j].payload = stream[k].payload /\ wire[j].at # "request"
        BY <1>0, <2>1 DEF StoredWasPublished
      <3> QED
        BY <1>1, <1>4, <1>7, <2>1, <3>1
    <2>2. CASE k \notin Stored
      BY <1>4, <1>8, <2>2 DEF p
    <2> QED
      BY <2>1, <2>2
  <1>13. AnswersInv'
    <2> SUFFICES ASSUME NEW j \in Attempts, NEW c \in Acks(j)'
                 PROVE  /\ c.sequence \in Stored'
                        /\ stream'[c.sequence].payload = sent[j].payload
                        /\ c.duplicate => \E l \in Attempts \ {j} : sent[l].payload = sent[j].payload
                        /\ ~c.duplicate => \A l \in Attempts \ {j} :
                              \A e \in Acks(l)' : e.sequence = c.sequence => e.duplicate
      BY <1>1 DEF AnswersInv
    <2>1. CASE c \in Acks(j)
      <3>1. c.sequence \in Stored /\ stream[c.sequence].payload = sent[j].payload
            /\ (c.duplicate => \E l \in Attempts \ {j} : sent[l].payload = sent[j].payload)
        BY <1>0, <2>1 DEF AnswersInv
      <3>2. ASSUME ~c.duplicate, NEW l \in Attempts \ {j}, NEW e \in Acks(l)', e.sequence = c.sequence
            PROVE  e.duplicate
        <4>1. CASE e \in Acks(l)
          BY <1>0, <2>1, <3>2, <4>1 DEF AnswersInv
        <4>2. CASE e = b
          BY <1>3, <1>5, <3>1, <3>2, <4>2
        <4> QED
          BY <1>9, <3>2, <4>1, <4>2
      <3> QED
        BY <1>4, <3>1, <3>2
    <2>2. CASE c \notin Acks(j)
      <3>1. j = i /\ c = b
        BY <1>9, <2>2
      <3>2. c.sequence \in Stored' /\ stream'[c.sequence].payload = sent[j].payload
        BY <1>3, <1>5, <3>1 DEF p
      <3>3. ASSUME c.duplicate PROVE \E l \in Attempts \ {j} : sent[l].payload = sent[j].payload
        <4>1. a.Sequence \in Stored /\ stream[a.Sequence].payload = p
          BY <1>3, <1>4, <1>5, <3>1, <3>3
        <4>2. PICK l \in Attempts : sent[l].payload = p /\ wire[l].at # "request"
          BY <1>0, <4>1 DEF StoredWasPublished
        <4> QED
          BY <1>1, <3>1, <4>2 DEF p
      <3>4. ASSUME ~c.duplicate, NEW l \in Attempts \ {j}, NEW e \in Acks(l)', e.sequence = c.sequence
            PROVE  e.duplicate
        <4>1. e \in Acks(l)
          BY <1>9, <3>1, <3>4
        <4>2. e.sequence \in Stored
          BY <1>0, <3>4, <4>1 DEF AnswersInv
        <4> QED
          BY <1>3, <1>5, <3>1, <3>4, <4>2
      <3> QED
        BY <3>2, <3>3, <3>4
    <2> QED
      BY <2>1, <2>2
  <1>14. ConsumerInv'
    BY <1>0, <1>1, <1>2, ConsumerSeesMore
  <1> QED
    BY <1>4, <1>10, <1>11, <1>12, <1>13, <1>14 DEF IInv, PublishInv

LEMMA PublishStep ==
    ASSUME IInv, PublishNext, UNCHANGED consumerVars
    PROVE  IInv'
  <1>0. StreamInv /\ PublishInv /\ ConsumerInv
    BY DEF IInv
  <1>1. CASE \E i \in Attempts : ServerStores(i)
    BY <1>1, ServerStoresInv
  <1>2. CASE ~\E i \in Attempts : ServerStores(i)
    <2>1. PublishInv' /\ UNCHANGED stream /\ (UNCHANGED lost \/ Lose)
      <3>1. ASSUME NEW p \in Payloads, Publish(p) \/ MakeAsyncPublish(p) PROVE <2>1!:
        BY <1>0, <3>1, AttemptInv DEF Publish, MakeAsyncPublish, Attempt
      <3>2. CASE RegisterAsyncPublishErrorHandler
        BY <1>0, <3>2, RegisterInv DEF RegisterAsyncPublishErrorHandler
      <3>3. CASE AsyncPendingMessages \/ DestroyContext
        BY <1>0, <3>3, DecideAllInv DEF AsyncPendingMessages, DestroyContext
      <3>4. ASSUME NEW i \in Attempts, ServerRefuses(i) \/ LostOnWire(i) PROVE <2>1!:
        BY <1>0, <3>4, WireStepInv DEF ServerRefuses, LostOnWire
      <3>5. ASSUME NEW i \in Attempts, PubAckArrives(i) PROVE <2>1!:
        BY <1>0, <3>5, PubAckArrivesInv DEF PubAckArrives
      <3>6. ASSUME NEW i \in Attempts, ErrorArrives(i) \/ PublishTimeout(i) PROVE <2>1!:
        BY <1>0, <3>6, FailsInv DEF ErrorArrives, PublishTimeout
      <3> QED
        BY <1>2, <3>1, <3>2, <3>3, <3>4, <3>5, <3>6 DEF PublishNext, JetStreamPublish
    <2>2. StreamInv'
      BY <1>0, <2>1, LostBounded DEF StreamInv, Stored
    <2>3. ConsumerInv'
      <3>1. UNCHANGED <<consumer, sub, inbox, hand, acks, settled, resent, Sent, Stored>>
        BY <2>1 DEF consumerVars, Sent, Stored
      <3> QED
        BY <1>0, <2>1, <3>1 DEF ConsumerInv, ConsumerTypes, SubInv, SettledInv, Behind
    <2> QED
      BY <2>1, <2>2, <2>3 DEF IInv
  <1> QED
    BY <1>1, <1>2

-----------------------------------------------------------------------------

LEMMA InitInv ==
    ASSUME Init
    PROVE  IInv
  <1>1. /\ stream = << >> /\ lost = 0 /\ sent = << >> /\ wire = << >> /\ pending = {}
        /\ handler = FALSE /\ context = "open"
        /\ consumer = NoConsumer /\ sub = NoSub /\ inbox = << >> /\ hand = {} /\ acks = << >>
        /\ settled = {} /\ resent = {}
    BY DEF Init, PublishInit, ConsumerInit
  <1>2. Stored = {} /\ Attempts = {} /\ Len(stream) = 0
    BY <1>1 DEF Stored, Attempts
  <1>3. StreamInv
    <2>1. MaxLost \in Nat
      BY PublishAssumption
    <2>2. stream \in Seq(Messages) /\ lost \in 0..MaxLost
      BY <1>1, <2>1
    <2> QED
      BY <1>2, <2>2 DEF StreamInv
  <1>4. PublishInv
    <2>1. sent \in Seq(SentRecord) /\ wire \in Seq(WireRecord) /\ Len(wire) = Len(sent)
      BY <1>1
    <2>2. PublishTypes
      BY <1>1, <2>1 DEF PublishTypes
    <2>3. PendingIsOpen
      <3>1. Cardinality(pending) = 0 /\ MaxPending \in Nat
        BY <1>1, FS_EmptySet, PublishAssumption
      <3> QED
        BY <1>1, <1>2, <3>1 DEF PendingIsOpen
    <2> QED
      BY <1>2, <2>2, <2>3 DEF PublishInv, WireInv, StoredWasPublished, Handlers, AnswersInv
  <1>5. ConsumerInv
    <2>1. Reads(consumer, Len(stream)) /\ Behind(consumer, {})
      BY <1>1, <1>3, NoConsumerReads
    <2>2. sub \in SubRecord /\ sub.wanted = 0 /\ sub.running = 0
      BY <1>1 DEF NoSub, SubRecord
    <2>3. \E batch \in Batches \union {0} : sub.wanted <= batch
      BY <2>2
    <2>4. inbox \in Seq(Nat) /\ (\A i \in DOMAIN inbox : inbox[i] \in Sent)
          /\ acks \in Seq(AckRecord) /\ (\A i \in DOMAIN acks : acks[i].msg \in Stored)
      BY <1>1
    <2>5. ConsumerTypes
      BY <1>1, <2>1, <2>2, <2>3, <2>4 DEF ConsumerTypes
    <2>6. SubInv
      BY <1>1, <2>2 DEF SubInv, NoConsumer
    <2>7. SettledInv
      BY <1>1, <2>1 DEF SettledInv
    <2> QED
      BY <2>5, <2>6, <2>7 DEF ConsumerInv
  <1> QED
    BY <1>3, <1>4, <1>5 DEF IInv

LEMMA Invariance == Spec => []IInv
  <1>1. Init => IInv
    BY InitInv
  <1>2. IInv /\ [Next]_vars => IInv'
    <2> SUFFICES ASSUME IInv, [Next]_vars PROVE IInv'
      OBVIOUS
    <2>1. CASE PublishNext /\ UNCHANGED consumerVars
      BY <2>1, PublishStep
    <2>2. CASE ConsumerNext /\ UNCHANGED publishVars
      BY <2>2, ConsumerStep
    <2>3. CASE UNCHANGED vars
      <3>1. UNCHANGED <<stream, lost, publishVars, consumerVars>>
        BY <2>3 DEF vars
      <3>2. PublishInv'
        BY <3>1, PublishersRest DEF IInv
      <3>3. StreamInv'
        BY <3>1 DEF IInv, StreamInv, Stored
      <3>4. UNCHANGED <<consumer, sub, inbox, hand, acks, settled, resent, Sent, Stored>>
        BY <3>1 DEF consumerVars, Sent, Stored
      <3>5. ConsumerInv'
        BY <3>1, <3>4 DEF IInv, ConsumerInv, ConsumerTypes, SubInv, SettledInv, Behind
      <3> QED
        BY <3>2, <3>3, <3>5 DEF IInv
    <2> QED
      BY <2>1, <2>2, <2>3 DEF Next
  <1> QED
    BY <1>1, <1>2, PTL DEF Spec

\* What is settled is behind the consumer, which delivers what it has not delivered
\* and what was not acknowledged; a message of the same id is not stored again.
THEOREM NothingSettledIsSentAgain == Spec => []AcknowledgedIsNotSentAgain
  <1>1. IInv => AcknowledgedIsNotSentAgain
    BY DEF IInv, ConsumerInv, SettledInv, AcknowledgedIsNotSentAgain
  <1> QED
    BY <1>1, Invariance, PTL

\* Every publish ends as the application is told: what is acknowledged is stored,
\* the answer names the message, and nothing that is open is forgotten.
THEOREM PublishesAreAccountedFor == Spec => []PublishedIsAccountedFor
  <1>1. IInv => PublishedIsAccountedFor
    <2> SUFFICES ASSUME IInv PROVE PublishedIsAccountedFor
      OBVIOUS
    <2>0. WireInv /\ Handlers /\ AnswersInv /\ PendingIsOpen
      BY DEF IInv, PublishInv
    <2>1. ASSUME NEW i \in Attempts, sent[i].fate = "acked"
          PROVE  \E j \in Stored : stream[j].payload = sent[i].payload
      BY <2>0, <2>1 DEF WireInv
    <2>2. ASSUME NEW i \in Attempts, NEW a \in sent[i].ack
          PROVE  /\ stream[a.sequence].payload = sent[i].payload
                 /\ a.duplicate => \E j \in Attempts \ {i} : sent[j].payload = sent[i].payload
                 /\ ~a.duplicate => \A j \in Attempts \ {i} :
                                       \A b \in sent[j].ack : b.sequence = a.sequence => b.duplicate
      <3>1. \A j \in Attempts : sent[j].ack \subseteq Acks(j)
        BY DEF Acks
      <3> QED
        BY <2>0, <2>2, <3>1 DEF AnswersInv
    <2>3. PublishComplete => \A i \in Attempts : sent[i].fate # "open"
      BY <2>0 DEF PendingIsOpen, PublishComplete
    <2> QED
      BY <2>0, <2>1, <2>2, <2>3 DEF PublishedIsAccountedFor, Handlers
  <1> QED
    BY <1>1, Invariance, PTL

\* The first number that is still to be settled, or to be delivered, is there: the
\* acknowledgement floor is below it.
LEMMA FloorIsThere ==
    ASSUME Reads(consumer, Len(stream))
    PROVE  ConsumerInfo.ackFloor <= ConsumerInfo.delivered
  <1> DEFINE next == consumer.next
             waits == consumer.unacked \union consumer.again
             floor(n) == /\ \A m \in 1..n : m \notin waits
                         /\ n + 1 \in waits \union {next}
  <1>1. next \in Nat /\ next >= 1 /\ waits \subseteq 1..(next - 1)
    BY DEF Reads, ConsumerRecord
  <1>2. PICK k \in waits \union {next} : \A j \in waits \union {next} : ~(j < k)
    <2> DEFINE T == waits \union {next}
    <2>1. T \subseteq Nat /\ T # {}
      BY <1>1
    <2> HIDE DEF T
    <2>2. \E k \in T : \A j \in T : ~(<<j, k>> \in OpToRel(<, Nat))
      BY <2>1, NatLessThanWellFounded, WFMin
    <2>3. PICK k \in T : \A j \in T : ~(<<j, k>> \in OpToRel(<, Nat))
      BY <2>2
    <2>4. \A j \in T : j < k => <<j, k>> \in OpToRel(<, Nat)
      BY <2>1, <2>3 DEF OpToRel
    <2> QED
      BY <2>3, <2>4 DEF T
  <1> HIDE DEF waits, next
  <1>3. k - 1 \in 0..(next - 1) /\ k - 1 + 1 = k
    BY <1>1, <1>2
  <1>4. \A m \in 1..(k - 1) : m \notin waits
    BY <1>1, <1>2
  <1>5. \E n \in 0..(next - 1) : floor(n)
    BY <1>2, <1>3, <1>4
  <1>6. (CHOOSE n \in 0..(next - 1) : floor(n)) \in 0..(next - 1)
    BY <1>5
  <1>7. /\ ConsumerInfo.ackFloor = CHOOSE n \in 0..(next - 1) : floor(n)
        /\ ConsumerInfo.delivered = next - 1
    BY DEF ConsumerInfo, waits, next
  <1> HIDE DEF floor
  <1> QED
    BY <1>1, <1>6, <1>7

\* The variables have their types, and a consumer without a name its subscription.
THEOREM FlowIsTyped == Spec => []FlowTypeOK
  <1>1. IInv => FlowTypeOK
    <2> SUFFICES ASSUME IInv PROVE FlowTypeOK
      OBVIOUS
    <2>0. StreamInv /\ PublishTypes /\ PendingIsOpen /\ ConsumerTypes /\ SubInv
      BY DEF IInv, PublishInv, ConsumerInv
    <2>1. PublishTypeOK
      BY <2>0, Typed DEF PublishTypeOK, PendingIsOpen, SentRecord, WireRecord
    <2>2. stream \in Seq(Messages) /\ lost \in 0..MaxLost
      BY <2>0 DEF StreamInv
    <2>3. /\ consumer \in ConsumerRecord /\ consumer.next \in Nat \ {0} /\ consumer.next <= Len(stream) + 1
          /\ consumer.unacked \subseteq Sent /\ consumer.again \subseteq Sent
          /\ consumer.unacked \intersect consumer.again = {}
      BY <2>0 DEF ConsumerTypes, Reads, ConsumerRecord, Sent
    <2>4. consumer \in [exists : BOOLEAN, durable : BOOLEAN, acked : BOOLEAN, next : 1..(Len(stream) + 1),
                        unacked : SUBSET Sent, again : SUBSET Sent]
      <3>1. consumer.next \in 1..(Len(stream) + 1)
        BY <2>0, <2>3, StreamLen
      <3> QED
        BY <2>3, <3>1 DEF ConsumerRecord
    <2>5. ConsumerInfo.ackFloor <= ConsumerInfo.delivered
      BY <2>0, FloorIsThere DEF ConsumerTypes
    <2>6. \E batch \in Batches \union {0} : sub.wanted \in 0..batch
      <3>1. PICK batch \in Batches \union {0} : sub.wanted <= batch
        BY <2>0 DEF ConsumerTypes
      <3>2. batch \in Nat /\ sub.wanted \in Nat
        BY <2>0, ConsumerAssumption DEF ConsumerTypes, SubRecord
      <3> QED
        BY <3>1, <3>2
    <2>7. sub.running # 0 => sub.kind = "push" /\ hand \subseteq {sub.running}
      BY <2>0 DEF SubInv
    <2>8. (\A i \in DOMAIN inbox : inbox[i] \in Sent) /\ hand \subseteq Sent
      BY <2>0 DEF ConsumerTypes
    <2>9. acks \in Seq([msg : Stored, what : {"ack", "nak", "term"}])
      <3>1. acks \in Seq(AckRecord) /\ \A i \in DOMAIN acks : acks[i].msg \in Stored
        BY <2>0 DEF ConsumerTypes
      <3>2. acks \in [1..Len(acks) -> AckRecord] /\ Len(acks) \in Nat
        BY <3>1
      <3>3. acks \in [1..Len(acks) -> [msg : Stored, what : {"ack", "nak", "term"}]]
        BY <3>1, <3>2 DEF AckRecord
      <3> QED
        BY <3>2, <3>3, FunctionIsSequence
    <2>10. IF sub = NoSub THEN consumer.exists => consumer.durable ELSE consumer.exists
      BY <2>0 DEF SubInv
    <2> QED
      BY <2>1, <2>2, <2>3, <2>4, <2>5, <2>6, <2>7, <2>8, <2>9, <2>10 DEF FlowTypeOK
  <1> QED
    BY <1>1, Invariance, PTL
=============================================================================
