---------------------------- MODULE StreamsProofs ----------------------------
(***************************************************************************)
(* Proofs about Streams: what a look-up may say and create while others    *)
(* create and delete, and which message a sequence number names, for any   *)
(* clients, subjects, configurations and losses.                           *)
(***************************************************************************)
EXTENDS Streams, FiniteSetTheorems, TLAPS

Wire == [Subjects : SUBSET Subjects, DenyDelete : BOOLEAN, DenyPurge : BOOLEAN,
         MaxAge : Int, RePublish : SUBSET Republish]
Message == [seq : Nat, subject : Subjects, inc : Nat]
StreamType == [exists : BOOLEAN, config : SUBSET Wire, msgs : SUBSET Message, last : Nat, inc : Nat]
Ops == {"none", "exists", "getStream", "getOrCreateStream", "getObjectStore", "getOrCreateObjectStore"}
CallType == [op : Ops, stage : {"none", "look", "construct", "create"},
             config : SUBSET StreamConfig, seen : SUBSET BOOLEAN]

TypeInv ==
    /\ stream \in StreamType
    /\ call \in [Clients -> CallType]
    /\ held \in [Clients -> SUBSET Message]
    /\ calls \in 0..MaxCalls /\ lost \in 0..MaxLost

\* What a client in a look-up has seen includes what holds now, and what took
\* it to the line it is at.
Creating == {"getOrCreateStream", "getObjectStore", "getOrCreateObjectStore"}
Look(r, exists) ==
    /\ exists \in r.seen
    /\ r.stage = "construct" => r.op = "getObjectStore"
    /\ r.stage = "create" => FALSE \in r.seen /\ r.op \in Creating
    /\ r.op = "getObjectStore" /\ r.stage # "look" => TRUE \in r.seen
    /\ r.op \in Creating => r.config # {}

LookInv == \A c \in Clients : call[c] # NoCall => Look(call[c], stream.exists)

\* A number names one message of a stream; the stream may be another by now
\* than the one it was read in.
MessageInv ==
    /\ stream.last \in 0..MaxMessages
    /\ ~stream.exists => stream.msgs = {}
    /\ \A m \in stream.msgs : m.seq \in 1..stream.last /\ m.inc = stream.inc
    /\ \A m, n \in stream.msgs : m.seq = n.seq => m = n
    /\ \A c \in Clients : \A h \in held[c] :
          /\ h.inc <= stream.inc
          /\ stream.exists /\ h.inc = stream.inc => h.seq <= stream.last
          /\ \A m \in stream.msgs : h.inc = m.inc /\ h.seq = m.seq => h = m

AnswerOK ==
    /\ answer.op \in Ops \union {"update", "remove", "purge", "info", "storeConfig", "infos",
            "names", "getMessage", "getLastMessage", "deleteMessage", "eraseMessage"}
    /\ answer.result \in {"none", "ok", "found", "notFound", "created", "thrown"}
    /\ answer.seen \in SUBSET BOOLEAN
    /\ LookUpIsTrue
    /\ LookUpCreatesOnlyWhatWasDeleted

IInv == TypeInv /\ LookInv /\ MessageInv /\ AnswerOK

USE BoundsAssumption
USE DEF Look, Creating

-----------------------------------------------------------------------------
(* Configurations.                                                         *)

LEMMA WireType == ASSUME NEW f \in StreamConfig PROVE ToCNatsConfig(f) \in Wire
  <1>1. /\ f.subjects \in SUBSET Subjects /\ f.denyDelete \in BOOLEAN /\ f.denyPurge \in BOOLEAN
        /\ f.maxAge \in Int /\ f.republish \in Republish
    BY DEF StreamConfig
  <1>2. f.maxAge * NsPerSecond + MaxInt + 1 \in Int /\ 2 * MaxInt + 2 \in Nat \ {0}
    BY <1>1
  <1>3. Wrap(f.maxAge * NsPerSecond) \in Int
    BY <1>1, <1>2 DEF Wrap
  <1>4. {r \in {ToJsRepublish(f)} : r.destination # ""} \in SUBSET Republish
    BY <1>1 DEF ToJsRepublish
  <1> HIDE DEF Wrap
  <1> QED
    BY <1>1, <1>3, <1>4 DEF ToCNatsConfig, Wire

LEMMA StoreConfigType ==
    ASSUME NEW f \in ObjectStoreConfig
    PROVE  CreateStreamConfig(f) \in StreamConfig
  <1>1. NoRepublish \in Republish
    BY DEF NoRepublish, Republish
  <1>2. f.maxAge \in Int
    BY DEF ObjectStoreConfig
  <1>3. FALSE \in BOOLEAN /\ Subjects \in SUBSET Subjects
    OBVIOUS
  <1> QED
    BY <1>1, <1>2, <1>3 DEF CreateStreamConfig, StreamConfig

LEMMA DefaultConfigType == DefaultStoreConfig \in ObjectStoreConfig
  BY DEF DefaultStoreConfig, ObjectStoreConfig

LEMMA CallShape ==
    ASSUME TypeInv, NEW c \in Clients
    PROVE  /\ call[c] \in CallType
           /\ call[c].stage # "none" => call[c] # NoCall
           /\ NoCall \in CallType
  BY DEF TypeInv, NoCall, CallType, Ops

-----------------------------------------------------------------------------
(* What the steps do to look-ups.                                          *)

\* A look-up begins.
Begins(c) ==
    \E op \in Ops \ {"none"}, config \in SUBSET StreamConfig :
        /\ Begin(c, op, config)
        /\ op \in Creating => config # {}

LEMMA LookUpsBegin ==
    ASSUME TypeInv, NEW c \in Clients, JetStreamCall(c) \/ StreamExists(c)
    PROVE  Begins(c) \/ Infos(c) \/ Names(c)
  <1>1. CASE GetOrCreateStream(c)
    <2>1. PICK f \in StreamConfigs : Begin(c, "getOrCreateStream", {f})
      BY <1>1 DEF GetOrCreateStream
    <2>2. f \in StreamConfig
      BY ConfigAssumption, Zenon
    <2> QED
      BY <2>1, <2>2 DEF Begins, Ops
  <1>2. CASE GetStream(c) \/ StreamExists(c)
    BY <1>2 DEF GetStream, StreamExists, Begins, Ops
  <1>3. CASE GetOrCreateObjectStore(c)
    <2>1. PICK f \in StoreConfigs : Begin(c, "getOrCreateObjectStore", {CreateStreamConfig(f)})
      BY <1>3 DEF GetOrCreateObjectStore
    <2>2. CreateStreamConfig(f) \in StreamConfig
      BY ConfigAssumption, StoreConfigType
    <2> QED
      BY <2>1, <2>2 DEF Begins, Ops
  <1>4. CASE GetObjectStore(c)
    <2>1. CreateStreamConfig(DefaultStoreConfig) \in StreamConfig
      BY DefaultConfigType, StoreConfigType
    <2> QED
      BY <1>4, <2>1 DEF GetObjectStore, Begins, Ops
  <1> QED
    BY <1>1, <1>2, <1>3, <1>4 DEF JetStreamCall

LEMMA BeginTypes ==
    ASSUME TypeInv, NEW c \in Clients, Begins(c)
    PROVE  /\ UNCHANGED <<stream, held, lost>> /\ calls' \in 0..MaxCalls
           /\ call[c] = NoCall /\ answer' = NoAnswer
           /\ call' \in [Clients -> CallType]
           /\ \A d \in Clients : d # c => call'[d] = call[d]
           /\ call'[c].stage = "look" /\ call'[c].seen = {stream.exists}
           /\ call'[c].op \in Creating
                => call'[c].config # {}
  <1>1. PICK op \in Ops \ {"none"}, config \in SUBSET StreamConfig :
            /\ Begin(c, op, config)
            /\ op \in Creating => config # {}
    BY DEF Begins
  <1> DEFINE r == [op |-> op, stage |-> "look", config |-> config, seen |-> {stream.exists}]
  <1>2. /\ call' = [call EXCEPT ![c] = r]
        /\ UNCHANGED <<stream, held, lost>> /\ call[c] = NoCall /\ answer' = NoAnswer
        /\ calls < MaxCalls /\ calls' = calls + 1
    BY <1>1 DEF Begin, BeginAt, Begun, Idle, Silent
  <1>3. stream.exists \in BOOLEAN
    BY DEF TypeInv, StreamType
  <1>4. r \in CallType
    BY <1>3 DEF CallType
  <1>5. r.stage = "look" /\ r.seen = {stream.exists} /\ r.op = op /\ r.config = config
    OBVIOUS
  <1>6. call'[c] = r /\ call' \in [Clients -> CallType] /\ \A d \in Clients : d # c => call'[d] = call[d]
    <2> HIDE DEF r
    <2> QED
      BY <1>2, <1>4 DEF TypeInv
  <1>7. calls' \in 0..MaxCalls
    BY <1>2 DEF TypeInv
  <1> HIDE DEF r
  <1> QED
    BY <1>1, <1>2, <1>5, <1>6, <1>7

LEMMA AnswerOf ==
    ASSUME NEW op, NEW result, NEW seen, NEW info, Answer(op, result, seen, info)
    PROVE  answer'.op = op /\ answer'.result = result /\ answer'.seen = seen
  BY DEF Answer

\* A look-up ends with what its client has seen.
LEMMA FinishOK ==
    ASSUME TypeInv, LookInv, NEW c \in Clients, NEW result, Finish(c, result),
           call[c] # NoCall, UNCHANGED stream,
           result \in {"found", "notFound", "thrown"},
           result = "found" => stream.exists,
           result = "notFound" => FALSE \in call[c].seen
    PROVE  call' \in [Clients -> CallType] /\ LookInv' /\ AnswerOK'
  <1>1. call' = [call EXCEPT ![c] = NoCall] /\ answer'.op = call[c].op
        /\ answer'.result = result /\ answer'.seen = call[c].seen
    BY AnswerOf DEF Finish
  <1>2. call' \in [Clients -> CallType]
    BY <1>1, CallShape DEF TypeInv
  <1>3. LookInv'
    BY <1>1 DEF LookInv, TypeInv
  <1>4. call[c].op \in Ops /\ call[c].seen \in SUBSET BOOLEAN
    BY CallShape DEF CallType
  <1>5. result = "found" => TRUE \in call[c].seen
    BY DEF LookInv, TypeInv, StreamType
  <1> QED
    BY <1>1, <1>2, <1>3, <1>4, <1>5
    DEF AnswerOK, LookUpIsTrue, LookUpCreatesOnlyWhatWasDeleted

LEMMA ToStageOK ==
    ASSUME TypeInv, LookInv, NEW c \in Clients, NEW stage \in {"construct", "create"},
           ToStage(c, stage), call[c] # NoCall, UNCHANGED stream,
           stage = "construct" => call[c].op = "getObjectStore" /\ stream.exists,
           stage = "create" => ~stream.exists,
           stage = "create" => call[c].stage = "construct"
                               \/ call[c].op \in {"getOrCreateStream", "getOrCreateObjectStore"}
    PROVE  call' \in [Clients -> CallType] /\ LookInv' /\ AnswerOK'
  <1> DEFINE r == [call[c] EXCEPT !.stage = stage]
  <1>0. call' = [call EXCEPT ![c] = r] /\ answer' = NoAnswer
    BY DEF ToStage, Silent
  <1>1. call[c] \in CallType
    BY CallShape
  <1>2. r \in CallType /\ r.stage = stage /\ r.op = call[c].op /\ r.config = call[c].config
        /\ r.seen = call[c].seen
    BY <1>1 DEF CallType
  <1>3. stream.exists \in BOOLEAN /\ stream.exists \in call[c].seen
    BY DEF LookInv, TypeInv, StreamType
  <1>4. /\ call[c].stage = "construct" => call[c].op = "getObjectStore" /\ TRUE \in call[c].seen
        /\ call[c].op \in Creating
              => call[c].config # {}
    BY DEF LookInv
  <1>5. /\ r.stage = "construct" => r.op = "getObjectStore" /\ TRUE \in r.seen
        /\ r.stage = "create" => FALSE \in r.seen
        /\ r.op = "getObjectStore" => TRUE \in r.seen
        /\ r.op \in Creating
              => r.config # {}
        /\ r.stage = "create"
              => r.op \in Creating
    <2>1. stage = "construct" => call[c].op = "getObjectStore" /\ TRUE \in call[c].seen
      BY <1>3
    <2>2. stage = "create" => FALSE \in call[c].seen
      BY <1>3
    <2>3. call[c].op = "getObjectStore" => TRUE \in call[c].seen
      BY DEF LookInv
    <2>4. stage = "create" => call[c].op \in Creating
      BY <1>4 DEF LookInv, Creating
    <2> QED
      BY <1>2, <1>4, <2>1, <2>2, <2>3, <2>4
  <1> HIDE DEF r
  <1>6. call' \in [Clients -> CallType] /\ call'[c] = r /\ \A d \in Clients : d # c => call'[d] = call[d]
    BY <1>0, <1>2 DEF TypeInv
  <1>7. LookInv'
    <2>1. Look(r, stream.exists)
      BY <1>2, <1>3, <1>5 DEF Look
    <2>2. \A d \in Clients : call'[d] # NoCall => Look(call'[d], stream.exists)
      BY <1>6, <2>1 DEF LookInv
    <2> QED
      BY <2>2 DEF LookInv
  <1>8. AnswerOK'
    BY <1>0 DEF AnswerOK, NoAnswer, Ops, LookUpIsTrue, LookUpCreatesOnlyWhatWasDeleted
  <1> QED
    BY <1>6, <1>7, <1>8

LEMMA ExistsOK ==
    ASSUME TypeInv, LookInv, NEW c \in Clients, Exists(c)
    PROVE  call' \in [Clients -> CallType] /\ LookInv' /\ AnswerOK'
  <1>1. /\ call[c].stage \in {"look", "construct"} /\ call[c] # NoCall
        /\ UNCHANGED stream
    BY CallShape DEF Exists
  <1>2. stream.exists \in BOOLEAN /\ stream.exists \in call[c].seen
    BY <1>1 DEF LookInv, TypeInv, StreamType
  <1>3. CASE stream.exists
    <2>1. \/ call[c].op = "getObjectStore" /\ ToStage(c, "construct")
          \/ Finish(c, "found")
      BY <1>3 DEF Exists
    <2> QED
      BY <1>1, <1>3, <2>1, FinishOK, ToStageOK
  <1>4. CASE ~stream.exists
    <2>1. \/ /\ call[c].op \in {"getOrCreateStream", "getOrCreateObjectStore"} \/ call[c].stage = "construct"
             /\ ToStage(c, "create")
          \/ Finish(c, "notFound")
      BY <1>4 DEF Exists
    <2>2. FALSE \in call[c].seen
      BY <1>2, <1>4
    <2> QED
      BY <1>1, <1>4, <2>1, <2>2, FinishOK, ToStageOK
  <1> QED
    BY <1>2, <1>3, <1>4

LEMMA RequestFailsOK ==
    ASSUME TypeInv, LookInv, NEW c \in Clients, RequestFails(c)
    PROVE  call' \in [Clients -> CallType] /\ LookInv' /\ AnswerOK'
  BY FinishOK DEF RequestFails, Idle

\* Everybody in a look-up sees a stream come or go.
Seen(b) == [d \in Clients |-> IF call[d] = NoCall THEN NoCall
                               ELSE [call[d] EXCEPT !.seen = @ \union {b}]]

LEMMA SeeingOK ==
    ASSUME TypeInv, LookInv, NEW b \in BOOLEAN
    PROVE  /\ Seen(b) \in [Clients -> CallType]
           /\ \A d \in Clients :
                /\ call[d] = NoCall => Seen(b)[d] = NoCall
                /\ call[d] # NoCall =>
                     /\ Seen(b)[d].op = call[d].op
                     /\ Seen(b)[d].stage = call[d].stage
                     /\ Seen(b)[d].config = call[d].config
                     /\ Seen(b)[d].seen = call[d].seen \union {b}
  <1> SUFFICES ASSUME NEW d \in Clients
               PROVE  /\ Seen(b)[d] \in CallType
                      /\ call[d] = NoCall => Seen(b)[d] = NoCall
                      /\ call[d] # NoCall =>
                           /\ Seen(b)[d].op = call[d].op
                           /\ Seen(b)[d].stage = call[d].stage
                           /\ Seen(b)[d].config = call[d].config
                           /\ Seen(b)[d].seen = call[d].seen \union {b}
    BY DEF Seen
  <1> DEFINE r == [call[d] EXCEPT !.seen = @ \union {b}]
  <1>1. Seen(b)[d] = IF call[d] = NoCall THEN NoCall ELSE r
    BY DEF Seen
  <1>2. call[d] \in CallType /\ NoCall \in CallType
    BY CallShape
  <1>3. r \in CallType /\ r.op = call[d].op /\ r.stage = call[d].stage
        /\ r.config = call[d].config /\ r.seen = call[d].seen \union {b}
    BY <1>2 DEF CallType
  <1> HIDE DEF r
  <1> QED
    BY <1>1, <1>2, <1>3

\* One who is still in its look-up has seen more, and all else is as it was.
LEMMA SeenKeepsLook ==
    ASSUME TypeInv, LookInv, NEW b \in BOOLEAN, NEW d \in Clients, Seen(b)[d] # NoCall
    PROVE  Look(Seen(b)[d], b)
  <1>1. call[d] # NoCall
    BY SeeingOK
  <1>2. Look(call[d], stream.exists)
    BY <1>1 DEF LookInv
  <1>3. /\ Seen(b)[d].op = call[d].op /\ Seen(b)[d].stage = call[d].stage
        /\ Seen(b)[d].config = call[d].config /\ Seen(b)[d].seen = call[d].seen \union {b}
    BY <1>1, SeeingOK
  <1> QED
    BY <1>2, <1>3 DEF LookInv

\* The wire configuration of the look-up c is about to create with.
Requested(c) == ToCNatsConfig(CHOOSE g \in call[c].config : TRUE)

LEMMA RequestedType ==
    ASSUME TypeInv, LookInv, NEW c \in Clients, call[c].stage = "create"
    PROVE  (CHOOSE g \in call[c].config : TRUE) \in StreamConfig /\ Requested(c) \in Wire
  <1>1. call[c] # NoCall /\ call[c].config # {} /\ call[c].config \subseteq StreamConfig
    <2>1. call[c] # NoCall /\ call[c] \in CallType
      BY CallShape
    <2> QED
      BY <2>1 DEF LookInv, CallType
  <1>2. (CHOOSE g \in call[c].config : TRUE) \in StreamConfig
    BY <1>1
  <1> QED
    BY <1>2, WireType DEF Requested

LEMMA CreateSteps ==
    ASSUME NEW c \in Clients, Create(c)
    PROVE  /\ call[c].stage = "create" /\ UNCHANGED <<held, calls>>
           /\ \/ /\ ~stream.exists /\ stream' = AddStream(Requested(c))
                 /\ answer'.op = call[c].op /\ answer'.seen = call[c].seen
                 /\ answer'.result \in {"created", "thrown"}
                 /\ lost' = lost \/ (lost < MaxLost /\ lost' = lost + 1)
                 /\ call' = [Seen(TRUE) EXCEPT ![c] = NoCall]
              \/ /\ UNCHANGED <<stream, lost>>
                 /\ (Finish(c, "found") /\ stream.exists) \/ Finish(c, "thrown")
  <1> DEFINE w == Requested(c)
  <1>1. call[c].stage = "create" /\ UNCHANGED <<held, calls>>
    BY DEF Create
  <1>2. CASE Creatable
    <2>1. /\ stream' = AddStream(w)
          /\ call' = [Seen(stream'.exists) EXCEPT ![c] = NoCall]
          /\ \E answered \in {a \in BOOLEAN : a \/ lost < MaxLost} :
                /\ Answer(call[c].op, IF answered THEN "created" ELSE "thrown", call[c].seen, {})
                /\ lost' = IF answered THEN lost ELSE lost + 1
      BY <1>2 DEF Create, Requested, Seeing, Seen
    <2>2. PICK answered \in {a \in BOOLEAN : a \/ lost < MaxLost} :
                /\ Answer(call[c].op, IF answered THEN "created" ELSE "thrown", call[c].seen, {})
                /\ lost' = IF answered THEN lost ELSE lost + 1
      BY <2>1
    <2>3. /\ answer'.op = call[c].op /\ answer'.seen = call[c].seen
          /\ answer'.result = IF answered THEN "created" ELSE "thrown"
      BY <2>2 DEF Answer
    <2>4. lost' = lost \/ (lost < MaxLost /\ lost' = lost + 1)
      BY <2>2
    <2> QED
      BY <1>1, <1>2, <2>1, <2>3, <2>4 DEF Creatable, AddStream
  <1>3. CASE ~Creatable
    <2>1. Finish(c, IF Configured(w) THEN "found" ELSE "thrown") /\ UNCHANGED <<stream, lost>>
      BY <1>3 DEF Create, Requested
    <2> QED
      BY <1>1, <2>1 DEF Configured
  <1> QED
    BY <1>2, <1>3

LEMMA CreateOK ==
    ASSUME TypeInv, LookInv, NEW c \in Clients, Create(c)
    PROVE  call' \in [Clients -> CallType] /\ LookInv' /\ AnswerOK'
  <1>0. call[c].stage = "create" /\ call[c] # NoCall /\ call[c] \in CallType
    BY CreateSteps, CallShape
  <1>1. CASE ~stream.exists /\ stream' = AddStream(Requested(c))
             /\ answer'.op = call[c].op /\ answer'.seen = call[c].seen
             /\ answer'.result \in {"created", "thrown"}
             /\ call' = [Seen(TRUE) EXCEPT ![c] = NoCall]
    <2>1. stream'.exists = TRUE
      BY <1>1 DEF AddStream
    <2>2. Seen(TRUE) \in [Clients -> CallType] /\ NoCall \in CallType
      BY SeeingOK, CallShape
    <2>3. /\ call' \in [Clients -> CallType] /\ call'[c] = NoCall
          /\ \A d \in Clients : d # c => call'[d] = Seen(TRUE)[d]
      BY <1>1, <2>2
    <2>4. \A d \in Clients : call'[d] # NoCall => Look(call'[d], TRUE)
      BY <2>3, SeenKeepsLook
    <2>5. LookInv'
      BY <2>1, <2>4 DEF LookInv
    <2>6. AnswerOK'
      BY <1>0, <1>1 DEF AnswerOK, CallType, LookUpIsTrue, LookUpCreatesOnlyWhatWasDeleted, LookInv
    <2> QED
      BY <2>3, <2>5, <2>6
  <1>2. CASE UNCHANGED <<stream, lost>> /\ ((Finish(c, "found") /\ stream.exists) \/ Finish(c, "thrown"))
    BY <1>0, <1>2, FinishOK
  <1> QED
    BY <1>1, <1>2, CreateSteps

-----------------------------------------------------------------------------
(* Operations of one request.                                              *)

PlainOps == {"update", "purge", "info", "storeConfig", "infos", "names", "getMessage",
             "getLastMessage", "deleteMessage", "eraseMessage", "remove"}

LEMMA Tells ==
    ASSUME NEW op \in PlainOps, NEW refused, NEW info,
           NotExecuted(op, refused) \/ Executed(op, info)
    PROVE  answer'.op = op /\ answer'.result \in {"ok", "thrown"} /\ answer'.seen = {}
           /\ (lost' = lost \/ (lost < MaxLost /\ lost' = lost + 1))
  BY DEF NotExecuted, Executed, Answer

LEMMA PlainOK ==
    ASSUME TypeInv, LookInv, UNCHANGED call, stream'.exists = stream.exists,
           answer'.op \in PlainOps \union {"none"}, answer'.result \in {"none", "ok", "thrown"},
           answer'.seen = {}
    PROVE  call' \in [Clients -> CallType] /\ LookInv' /\ AnswerOK'
  <1>1. LookInv'
    BY DEF LookInv
  <1>2. AnswerOK'
    BY DEF AnswerOK, LookUpIsTrue, LookUpCreatesOnlyWhatWasDeleted, PlainOps, Ops
  <1> QED
    BY <1>1, <1>2 DEF TypeInv

LEMMA RemoveOK ==
    ASSUME TypeInv, LookInv, NEW c \in Clients, Remove(c)
    PROVE  call' \in [Clients -> CallType] /\ LookInv' /\ AnswerOK'
  <1>1. CASE stream' = DeletedStream /\ call' = Seeing(call, DeletedStream) /\ Executed("remove", {})
    <2>1. DeletedStream.exists = FALSE
      BY DEF DeletedStream, NoStream
    <2>a. call' = Seen(FALSE)
      BY <1>1, <2>1 DEF Seeing, Seen
    <2>2. LookInv'
      <3>1. \A d \in Clients : call'[d] # NoCall => Look(call'[d], FALSE)
        BY <2>a, SeenKeepsLook
      <3>2. stream'.exists = FALSE
        BY <1>1, <2>1
      <3> QED
        BY <3>1, <3>2 DEF LookInv
    <2>3. answer'.op = "remove" /\ answer'.result \in {"ok", "thrown"} /\ answer'.seen = {}
      BY <1>1, Tells DEF PlainOps
    <2>4. AnswerOK'
      BY <2>3 DEF AnswerOK, LookUpIsTrue, LookUpCreatesOnlyWhatWasDeleted
    <2>5. call' \in [Clients -> CallType]
      BY <2>a, SeeingOK
    <2> QED
      BY <2>2, <2>4, <2>5
  <1>2. CASE NotExecuted("remove", ~stream.exists)
    <2>1. answer'.op = "remove" /\ answer'.result \in {"ok", "thrown"} /\ answer'.seen = {}
      BY <1>2, Tells DEF PlainOps
    <2> QED
      BY <1>2, <2>1, PlainOK DEF NotExecuted, PlainOps
  <1> QED
    BY <1>1, <1>2 DEF Remove

-----------------------------------------------------------------------------
(* What the steps do to messages.                                          *)

\* The parts of IInv about the stream and what was read of it.
StreamOK == stream \in StreamType /\ held \in [Clients -> SUBSET Message] /\ MessageInv

LEMMA StreamFields ==
    ASSUME stream \in StreamType
    PROVE  /\ stream.exists \in BOOLEAN /\ stream.config \in SUBSET Wire
           /\ stream.msgs \in SUBSET Message /\ stream.last \in Nat /\ stream.inc \in Nat
  BY DEF StreamType

LEMMA FewerMessages ==
    ASSUME StreamOK, NEW X, stream' = [stream EXCEPT !.msgs = @ \ X], UNCHANGED held
    PROVE  StreamOK' /\ stream'.exists = stream.exists
  <1>1. /\ stream' \in StreamType /\ stream'.exists = stream.exists /\ stream'.last = stream.last
        /\ stream'.inc = stream.inc /\ stream'.msgs = stream.msgs \ X
    BY DEF StreamOK, StreamType
  <1> QED
    BY <1>1 DEF StreamOK, MessageInv

LEMMA OtherConfig ==
    ASSUME StreamOK, NEW w \in Wire, stream' = [stream EXCEPT !.config = {w}], UNCHANGED held
    PROVE  StreamOK' /\ stream'.exists = stream.exists
  <1>1. /\ stream' \in StreamType /\ stream'.exists = stream.exists /\ stream'.last = stream.last
        /\ stream'.inc = stream.inc /\ stream'.msgs = stream.msgs
    BY DEF StreamOK, StreamType
  <1> QED
    BY <1>1 DEF StreamOK, MessageInv

LEMMA ReadKeeps ==
    ASSUME StreamOK, NEW c \in Clients, NEW m \in stream.msgs,
           held' = [held EXCEPT ![c] = {m}], UNCHANGED stream
    PROVE  StreamOK'
  <1>1. m \in Message /\ m.inc = stream.inc /\ m.seq \in 1..stream.last
    BY DEF StreamOK, MessageInv, StreamType
  <1>2. /\ held' \in [Clients -> SUBSET Message]
        /\ \A d \in Clients : held'[d] = {m} \/ held'[d] = held[d]
    BY <1>1 DEF StreamOK
  <1>3. \A n \in stream.msgs : m.inc = n.inc /\ m.seq = n.seq => m = n
    BY DEF StreamOK, MessageInv
  <1>4. m.inc <= stream.inc /\ m.seq <= stream.last
    BY <1>1 DEF Message
  <1>5. ASSUME NEW d \in Clients, NEW h \in held'[d]
        PROVE  /\ h.inc <= stream.inc
               /\ stream.exists /\ h.inc = stream.inc => h.seq <= stream.last
               /\ \A n \in stream.msgs : h.inc = n.inc /\ h.seq = n.seq => h = n
    <2>1. CASE held'[d] = {m}
      BY <1>3, <1>4, <1>5, <2>1
    <2>2. CASE held'[d] = held[d]
      BY <1>5, <2>2 DEF StreamOK, MessageInv
    <2> QED
      BY <1>2, <2>1, <2>2
  <1> QED
    BY <1>2, <1>5 DEF StreamOK, MessageInv

LEMMA PublishKeeps ==
    ASSUME StreamOK, NEW subject \in Subjects, Publish(subject)
    PROVE  StreamOK' /\ stream'.exists = stream.exists
  <1> DEFINE m == [seq |-> stream.last + 1, subject |-> subject, inc |-> stream.inc]
  <1>1. /\ stream.exists /\ stream.last < MaxMessages /\ UNCHANGED held
        /\ stream' = [stream EXCEPT !.msgs = @ \union {m}, !.last = @ + 1]
    BY DEF Publish
  <1>2. stream.inc \in Nat /\ stream.last \in 0..MaxMessages /\ stream.msgs \in SUBSET Message
    BY DEF StreamOK, StreamType, MessageInv
  <1>3. m \in Message /\ m.seq = stream.last + 1 /\ m.inc = stream.inc
    BY <1>2 DEF Message
  <1> HIDE DEF m
  <1>4. /\ stream' \in StreamType /\ stream'.exists = stream.exists /\ stream'.last = stream.last + 1
        /\ stream'.inc = stream.inc /\ stream'.msgs = stream.msgs \union {m}
    <2> DEFINE msgs == stream.msgs \union {m}
               last == stream.last + 1
               first == [stream EXCEPT !.msgs = msgs]
    <2>1. msgs \in SUBSET Message /\ last \in Nat
      BY <1>2, <1>3
    <2>2. stream' = [first EXCEPT !.last = last]
      BY <1>1
    <2> HIDE DEF msgs, last
    <2>3. first \in StreamType /\ first.exists = stream.exists /\ first.inc = stream.inc
          /\ first.msgs = msgs
      BY <2>1 DEF StreamOK, StreamType
    <2> HIDE DEF first
    <2>4. stream' \in StreamType /\ stream'.exists = first.exists /\ stream'.inc = first.inc
          /\ stream'.msgs = first.msgs /\ stream'.last = last
      BY <2>1, <2>2, <2>3 DEF StreamType
    <2> QED
      BY <2>3, <2>4 DEF msgs, last
  <1>5. \A n \in stream.msgs : n.seq \in 1..stream.last /\ n.seq \in Nat /\ n.inc = stream.inc
    BY <1>2 DEF StreamOK, MessageInv, Message
  <1>6. /\ stream'.last \in 0..MaxMessages
        /\ \A n \in stream'.msgs : n.seq \in 1..stream'.last /\ n.inc = stream'.inc
        /\ \A n, k \in stream'.msgs : n.seq = k.seq => n = k
    <2>1. stream'.last \in 0..MaxMessages
      BY <1>1, <1>2, <1>4
    <2>2. \A n \in stream'.msgs : n.seq \in 1..stream'.last /\ n.inc = stream'.inc
      BY <1>2, <1>3, <1>4, <1>5
    <2>3. \A n \in stream.msgs : n.seq # m.seq
      BY <1>2, <1>3, <1>5
    <2>4. \A n, k \in stream'.msgs : n.seq = k.seq => n = k
      BY <1>4, <2>3 DEF StreamOK, MessageInv
    <2> QED
      BY <2>1, <2>2, <2>4
  <1>7. ASSUME NEW d \in Clients, NEW h \in held[d]
        PROVE  /\ h.inc <= stream'.inc
               /\ stream'.exists /\ h.inc = stream'.inc => h.seq <= stream'.last
               /\ \A n \in stream'.msgs : h.inc = n.inc /\ h.seq = n.seq => h = n
    <2>1. /\ h.inc <= stream.inc
          /\ h.inc = stream.inc => h.seq <= stream.last
          /\ \A n \in stream.msgs : h.inc = n.inc /\ h.seq = n.seq => h = n
          /\ h.inc \in Nat /\ h.seq \in Nat
      BY <1>1 DEF StreamOK, MessageInv, Message
    <2>2. ~(h.inc = m.inc /\ h.seq = m.seq)
      BY <1>2, <1>3, <2>1
    <2>3. stream'.exists /\ h.inc = stream'.inc => h.seq <= stream'.last
      BY <1>2, <1>4, <2>1
    <2> QED
      BY <1>4, <2>1, <2>2, <2>3
  <1>8. stream'.exists
    BY <1>1, <1>4
  <1> QED
    BY <1>1, <1>4, <1>6, <1>7, <1>8 DEF StreamOK, MessageInv

\* A new stream, or none: no number names a message yet.
LEMMA EmptyStream ==
    ASSUME StreamOK, UNCHANGED held, stream' \in StreamType, stream'.msgs = {}, stream'.last = 0,
           stream'.inc >= stream.inc, stream'.exists => stream'.inc = stream.inc + 1
    PROVE  StreamOK'
  <1>1. stream.inc \in Nat /\ stream'.inc \in Nat
    BY DEF StreamOK, StreamType
  <1>2. ASSUME NEW d \in Clients, NEW h \in held[d]
        PROVE  h.inc <= stream'.inc /\ (stream'.exists => h.inc # stream'.inc)
    <2>1. h.inc <= stream.inc /\ h.inc \in Nat
      BY DEF StreamOK, MessageInv, Message
    <2> QED
      BY <1>1, <2>1
  <1> QED
    BY <1>2 DEF StreamOK, MessageInv

-----------------------------------------------------------------------------
(* The invariant.                                                          *)

\* An operation of one request: what it may do to the stream.
PlainStep ==
    /\ UNCHANGED call
    /\ answer'.op \in PlainOps \union {"none"} /\ answer'.result \in {"none", "ok", "thrown"}
    /\ answer'.seen = {}
    /\ lost' = lost \/ (lost < MaxLost /\ lost' = lost + 1)
    /\ calls' = calls \/ (calls < MaxCalls /\ calls' = calls + 1)
    /\ stream'.exists = stream.exists
    /\ StreamOK'

LEMMA RefusedIsPlain ==
    ASSUME StreamOK, NEW op \in PlainOps, NEW refused, NotExecuted(op, refused),
           calls' = calls \/ (calls < MaxCalls /\ calls' = calls + 1)
    PROVE  PlainStep
  <1>1. UNCHANGED <<stream, call, held>>
    BY DEF NotExecuted
  <1>2. StreamOK'
    BY <1>1 DEF StreamOK, MessageInv
  <1> QED
    BY <1>1, <1>2, Tells DEF PlainStep

LEMMA ExecutedIsPlain ==
    ASSUME NEW op \in PlainOps, NEW info, Executed(op, info), UNCHANGED call,
           calls' = calls \/ (calls < MaxCalls /\ calls' = calls + 1),
           stream'.exists = stream.exists, StreamOK'
    PROVE  PlainStep
  BY Tells DEF PlainStep

LEMMA UpdatePlain == ASSUME StreamOK, NEW c \in Clients, Update(c) PROVE PlainStep
  <1>1. CASE NotExecuted("update", ~stream.exists)
    BY <1>1, RefusedIsPlain DEF Update, Begun, PlainOps
  <1>2. CASE \E f \in StreamConfigs :
                /\ stream' = [stream EXCEPT !.config = {ToCNatsConfig(f)}]
                /\ Executed("update", {}) /\ UNCHANGED <<call, held>>
    <2>1. PICK f \in StreamConfigs :
                /\ stream' = [stream EXCEPT !.config = {ToCNatsConfig(f)}]
                /\ Executed("update", {}) /\ UNCHANGED <<call, held>>
      BY <1>2
    <2>2. f \in StreamConfig
      BY ConfigAssumption, Zenon
    <2>3. ToCNatsConfig(f) \in Wire
      BY <2>2, WireType
    <2>4. StreamOK' /\ stream'.exists = stream.exists
      BY <2>1, <2>3, OtherConfig
    <2> QED
      BY <2>1, <2>4, ExecutedIsPlain DEF Update, Begun, PlainOps
  <1> QED
    BY <1>1, <1>2 DEF Update

LEMMA PurgePlain ==
    ASSUME StreamOK, NEW c \in Clients, NEW o, Purge(c, o)
    PROVE  PlainStep
  <1>1. CASE \E refused : NotExecuted("purge", refused)
    BY <1>1, RefusedIsPlain DEF Purge, Begun, PlainOps
  <1>2. CASE /\ stream' = [stream EXCEPT !.msgs = @ \ Purged(ToJsOptions(o))]
             /\ Executed("purge", {o}) /\ UNCHANGED <<call, held>>
    <2>1. StreamOK' /\ stream'.exists = stream.exists
      BY <1>2, FewerMessages
    <2> QED
      BY <1>2, <2>1, ExecutedIsPlain DEF Purge, Begun, PlainOps
  <1> QED
    BY <1>1, <1>2 DEF Purge

LEMMA DeletePlain ==
    ASSUME StreamOK, NEW c \in Clients, NEW op \in {"deleteMessage", "eraseMessage"}, NEW sequence,
           DeleteOne(c, op, sequence)
    PROVE  PlainStep
  <1>1. CASE \E refused : NotExecuted(op, refused)
    BY <1>1, RefusedIsPlain DEF DeleteOne, Begun, PlainOps
  <1>2. CASE /\ stream' = [stream EXCEPT !.msgs = @ \ Deletable(sequence)]
             /\ Executed(op, {}) /\ UNCHANGED <<call, held>>
    <2>1. StreamOK' /\ stream'.exists = stream.exists
      BY <1>2, FewerMessages
    <2> QED
      BY <1>2, <2>1, ExecutedIsPlain DEF DeleteOne, Begun, PlainOps
  <1> QED
    BY <1>1, <1>2 DEF DeleteOne

LEMMA QueryPlain ==
    ASSUME StreamOK, NEW c \in Clients, Info(c) \/ StoreConfig(c) \/ Infos(c) \/ Names(c)
    PROVE  PlainStep
  <1>1. PICK op \in {"info", "storeConfig", "infos", "names"} :
            \/ \E refused : NotExecuted(op, refused)
            \/ UNCHANGED <<stream, call, held>> /\ \E info : Executed(op, info)
    BY DEF Info, StoreConfig, Infos, Names
  <1>2. calls' = calls \/ (calls < MaxCalls /\ calls' = calls + 1)
    BY DEF Info, StoreConfig, Infos, Names, Begun
  <1>3. UNCHANGED <<stream, held>> => StreamOK'
    BY DEF StreamOK, MessageInv
  <1> QED
    BY <1>1, <1>2, <1>3, RefusedIsPlain, ExecutedIsPlain DEF PlainOps

LEMMA ReadPlain ==
    ASSUME StreamOK, NEW c \in Clients, NEW op \in {"getMessage", "getLastMessage"},
           NEW found \in SUBSET stream.msgs, Begun(c), Read(c, op, found)
    PROVE  PlainStep
  <1>1. calls' = calls \/ (calls < MaxCalls /\ calls' = calls + 1)
    BY DEF Begun
  <1>2. CASE NotExecuted(op, found = {})
    BY <1>1, <1>2, RefusedIsPlain DEF PlainOps
  <1>3. CASE \E m \in found :
                /\ \/ Answer(op, "ok", {}, {}) /\ held' = [held EXCEPT ![c] = {m}] /\ UNCHANGED lost
                   \/ /\ lost < MaxLost /\ lost' = lost + 1
                      /\ Answer(op, "thrown", {}, {}) /\ UNCHANGED held
                /\ UNCHANGED <<stream, call, asked>>
    <2>1. PICK m \in found :
                /\ \/ Answer(op, "ok", {}, {}) /\ held' = [held EXCEPT ![c] = {m}] /\ UNCHANGED lost
                   \/ /\ lost < MaxLost /\ lost' = lost + 1
                      /\ Answer(op, "thrown", {}, {}) /\ UNCHANGED held
                /\ UNCHANGED <<stream, call, asked>>
      BY <1>3
    <2>2. m \in stream.msgs
      OBVIOUS
    <2>3. StreamOK'
      <3>1. CASE held' = [held EXCEPT ![c] = {m}]
        BY <2>1, <2>2, <3>1, ReadKeeps
      <3>2. CASE UNCHANGED held
        BY <2>1, <3>2 DEF StreamOK, MessageInv
      <3> QED
        BY <2>1, <3>1, <3>2
    <2>4. answer'.op = op /\ answer'.result \in {"ok", "thrown"} /\ answer'.seen = {}
      BY <2>1 DEF Answer
    <2> QED
      BY <1>1, <2>1, <2>3, <2>4 DEF PlainStep, PlainOps
  <1> QED
    BY <1>2, <1>3 DEF Read

LEMMA ManagerPlain ==
    ASSUME StreamOK, NEW c \in Clients, MessageManagerCall(c)
    PROVE  PlainStep
  <1>1. ASSUME NEW s, GetMessage(c, s) PROVE PlainStep
    BY <1>1, ReadPlain DEF GetMessage
  <1>2. ASSUME NEW subject, GetLastMessage(c, subject) PROVE PlainStep
    BY <1>2, ReadPlain DEF GetLastMessage
  <1>3. ASSUME NEW s, DeleteMessage(c, s) \/ EraseMessage(c, s) PROVE PlainStep
    BY <1>3, DeletePlain DEF DeleteMessage, EraseMessage
  <1> QED
    BY <1>1, <1>2, <1>3 DEF MessageManagerCall

LEMMA PublishPlain ==
    ASSUME StreamOK, NEW subject \in Subjects, Publish(subject)
    PROVE  PlainStep
  <1>1. StreamOK' /\ stream'.exists = stream.exists
    BY PublishKeeps
  <1> QED
    BY <1>1 DEF Publish, Silent, NoAnswer, PlainStep

\* The steps of Next, sorted.
LEMMA NextSteps ==
    ASSUME TypeInv, StreamOK, Next
    PROVE  \/ PlainStep
           \/ \E c \in Clients : Begins(c) \/ Exists(c) \/ Create(c) \/ RequestFails(c) \/ Remove(c)
  <1>1. ASSUME NEW c \in Clients,
               JetStreamCall(c) \/ LookUpStep(c) \/ StreamCall(c) \/ ObjectStoreCall(c)
               \/ MessageManagerCall(c)
        PROVE  PlainStep \/ Begins(c) \/ Exists(c) \/ Create(c) \/ RequestFails(c) \/ Remove(c)
    <2>1. CASE JetStreamCall(c) \/ StreamExists(c)
      BY <2>1, LookUpsBegin, QueryPlain
    <2>2. CASE LookUpStep(c)
      BY <2>2 DEF LookUpStep
    <2>3. CASE StreamCall(c)
      BY <2>1, <2>3, UpdatePlain, PurgePlain, QueryPlain DEF StreamCall
    <2>4. CASE ObjectStoreCall(c)
      BY <2>1, <2>4, QueryPlain DEF ObjectStoreCall, StoreExists, DeleteStore
    <2>5. CASE MessageManagerCall(c)
      BY <2>5, ManagerPlain
    <2> QED
      BY <1>1, <2>1, <2>2, <2>3, <2>4, <2>5
  <1> QED
    BY <1>1, PublishPlain DEF Next

LEMMA BeginOK ==
    ASSUME TypeInv, LookInv, NEW c \in Clients, Begins(c)
    PROVE  call' \in [Clients -> CallType] /\ LookInv' /\ AnswerOK'
  <1>1. LookInv'
    <2> SUFFICES ASSUME NEW d \in Clients, call'[d] # NoCall
                 PROVE  Look(call'[d], stream.exists)
      BY BeginTypes DEF LookInv
    <2>1. CASE d = c
      BY <2>1, BeginTypes
    <2>2. CASE d # c
      <3>1. call'[d] = call[d]
        BY <2>2, BeginTypes
      <3> QED
        BY <3>1 DEF LookInv
    <2> QED
      BY <2>1, <2>2
  <1>2. answer' = NoAnswer
    BY BeginTypes
  <1>3. AnswerOK'
    BY <1>2 DEF AnswerOK, NoAnswer, Ops, LookUpIsTrue, LookUpCreatesOnlyWhatWasDeleted
  <1> QED
    BY <1>1, <1>3, BeginTypes

\* Making the stream and deleting it.
LEMMA AddStreamOK ==
    ASSUME StreamOK, NEW w \in Wire, stream' = AddStream(w), UNCHANGED held
    PROVE  StreamOK'
  <1>1. stream.inc + 1 \in Nat /\ stream.inc + 1 >= stream.inc
    BY DEF StreamOK, StreamType
  <1>2. /\ stream' \in StreamType /\ stream'.msgs = {} /\ stream'.last = 0
        /\ stream'.inc = stream.inc + 1
    BY <1>1 DEF AddStream, StreamType
  <1> QED
    BY <1>1, <1>2, EmptyStream

LEMMA DeletedStreamOK ==
    ASSUME StreamOK, stream' = DeletedStream, UNCHANGED held
    PROVE  StreamOK'
  <1>1. stream.inc \in Nat
    BY DEF StreamOK, StreamType
  <1>2. /\ stream' \in StreamType /\ stream'.msgs = {} /\ stream'.last = 0
        /\ stream'.inc = stream.inc /\ stream'.exists = FALSE
    BY <1>1 DEF DeletedStream, NoStream, StreamType
  <1> QED
    BY <1>1, <1>2, EmptyStream

\* A counter stays below its bound, a step at a time.
LEMMA CounterType ==
    ASSUME NEW n, NEW n1, NEW N \in Nat, n \in 0..N, n1 = n \/ (n < N /\ n1 = n + 1)
    PROVE  n1 \in 0..N
  OBVIOUS

LEMMA InitHolds == Init => IInv
  <1> SUFFICES ASSUME Init PROVE IInv
    OBVIOUS
  <1>1. stream \in StreamType
    BY DEF Init, NoStream, StreamType
  <1>2. call \in [Clients -> CallType] /\ \A c \in Clients : call[c] = NoCall
    BY DEF Init, NoCall, CallType, Ops
  <1>3. TypeInv
    BY <1>1, <1>2 DEF Init, TypeInv
  <1>4. LookInv
    BY <1>2 DEF LookInv
  <1>5. MessageInv
    BY DEF Init, NoStream, MessageInv
  <1>6. AnswerOK
    BY DEF Init, AnswerOK, NoAnswer, Ops, LookUpIsTrue, LookUpCreatesOnlyWhatWasDeleted
  <1> QED
    BY <1>3, <1>4, <1>5, <1>6 DEF IInv

\* What a look-up's own steps do to everything but the look-ups.
LEMMA LookUpKeeps ==
    ASSUME IInv, NEW c \in Clients,
           Begins(c) \/ Exists(c) \/ Create(c) \/ RequestFails(c) \/ Remove(c)
    PROVE  StreamOK' /\ calls' \in 0..MaxCalls /\ lost' \in 0..MaxLost
  <1>1. TypeInv /\ LookInv /\ StreamOK
    BY DEF IInv, TypeInv, StreamOK
  <1>2. calls \in 0..MaxCalls /\ lost \in 0..MaxLost
    BY <1>1 DEF TypeInv
  <1>3. UNCHANGED <<stream, held>> => StreamOK'
    BY <1>1 DEF StreamOK, MessageInv
  <1>4. CASE Begins(c)
    BY <1>1, <1>2, <1>3, <1>4, BeginTypes
  <1>5. CASE Exists(c)
    BY <1>2, <1>3, <1>5 DEF Exists
  <1>6. CASE RequestFails(c)
    <2>1. UNCHANGED <<stream, held, calls>> /\ lost < MaxLost /\ lost' = lost + 1
      BY <1>6 DEF RequestFails
    <2> QED
      BY <1>2, <1>3, <2>1, CounterType
  <1>7. CASE Create(c)
    <2>1. Requested(c) \in Wire
      BY <1>1, <1>7, CreateSteps, RequestedType
    <2>2. StreamOK'
      BY <1>1, <1>3, <1>7, <2>1, CreateSteps, AddStreamOK
    <2>3. calls' = calls /\ (lost' = lost \/ (lost < MaxLost /\ lost' = lost + 1))
      BY <1>7, CreateSteps
    <2> QED
      BY <1>2, <2>2, <2>3, CounterType
  <1>8. CASE Remove(c)
    <2>1. calls < MaxCalls /\ calls' = calls + 1
      BY <1>8 DEF Remove, Begun
    <2>2. \/ stream' = DeletedStream /\ UNCHANGED held /\ Executed("remove", {})
          \/ UNCHANGED <<stream, held>> /\ NotExecuted("remove", ~stream.exists)
      BY <1>8 DEF Remove, NotExecuted
    <2>3. StreamOK'
      BY <1>1, <1>3, <2>2, DeletedStreamOK
    <2>4. lost' = lost \/ (lost < MaxLost /\ lost' = lost + 1)
      BY <2>2, Tells DEF PlainOps
    <2> QED
      BY <1>2, <2>1, <2>3, <2>4, CounterType
  <1> QED
    BY <1>4, <1>5, <1>6, <1>7, <1>8

LEMMA NextHolds == ASSUME IInv, Next PROVE IInv'
  <1>1. TypeInv /\ LookInv /\ StreamOK /\ calls \in 0..MaxCalls /\ lost \in 0..MaxLost
    BY DEF IInv, TypeInv, StreamOK
  <1>2. CASE PlainStep
    <2>1. StreamOK' /\ calls' \in 0..MaxCalls /\ lost' \in 0..MaxLost
      BY <1>1, <1>2, CounterType DEF PlainStep
    <2>2. call' \in [Clients -> CallType] /\ LookInv' /\ AnswerOK'
      BY <1>1, <1>2, PlainOK DEF PlainStep
    <2> QED
      BY <2>1, <2>2 DEF IInv, TypeInv, StreamOK
  <1>3. ASSUME NEW c \in Clients,
               Begins(c) \/ Exists(c) \/ Create(c) \/ RequestFails(c) \/ Remove(c)
        PROVE  IInv'
    <2>1. StreamOK' /\ calls' \in 0..MaxCalls /\ lost' \in 0..MaxLost
      BY <1>3, LookUpKeeps
    <2>2. call' \in [Clients -> CallType] /\ LookInv' /\ AnswerOK'
      BY <1>1, <1>3, BeginOK, ExistsOK, CreateOK, RequestFailsOK, RemoveOK
    <2> QED
      BY <2>1, <2>2 DEF IInv, TypeInv, StreamOK
  <1> QED
    BY <1>1, <1>2, <1>3, NextSteps

LEMMA StutterHolds == ASSUME IInv, UNCHANGED vars PROVE IInv'
  <1>1. TypeInv'
    BY DEF IInv, TypeInv, vars
  <1>2. LookInv'
    BY DEF IInv, LookInv, vars
  <1>3. MessageInv'
    BY DEF IInv, MessageInv, vars
  <1>4. AnswerOK'
    BY DEF IInv, AnswerOK, LookUpIsTrue, LookUpCreatesOnlyWhatWasDeleted, vars
  <1> QED
    BY <1>1, <1>2, <1>3, <1>4 DEF IInv

\* The parts of IInv hold of every reachable state, for any clients, losses
\* and configurations: each look-up knows what it has seen, and each sequence
\* number names one message.
THEOREM Invariance == Spec => []IInv
  <1>1. IInv /\ [Next]_vars => IInv'
    BY NextHolds, StutterHolds
  <1> QED
    BY <1>1, InitHolds, PTL DEF Spec

\* What exists, getStream, getOrCreateStream and getObjectStore answer was so
\* at some moment of the call, whatever other clients do between its requests.
THEOREM LookUpsTellTheTruth == Spec => []LookUpIsTrue
  <1>1. IInv => LookUpIsTrue
    BY DEF IInv, AnswerOK
  <1> QED
    BY <1>1, Invariance, PTL

\* getObjectStore makes a store only when another client deletes it between the
\* look-up and the constructor's.
THEOREM NothingIsCreatedByLooking == Spec => []LookUpCreatesOnlyWhatWasDeleted
  <1>1. IInv => LookUpCreatesOnlyWhatWasDeleted
    BY DEF IInv, AnswerOK
  <1> QED
    BY <1>1, Invariance, PTL

\* The types of all variables, the bounds of the counters, and that a stream
\* has messages only while it exists and only of this creation of it.
THEOREM TypeCorrect == Spec => []TypeOK
  <1>1. ASSUME IInv PROVE TypeOK
    <2>1. /\ stream.exists \in BOOLEAN /\ stream.inc \in Nat /\ stream.last \in 0..MaxMessages
          /\ ~stream.exists => stream.msgs = {}
          /\ calls \in 0..MaxCalls /\ lost \in 0..MaxLost
      BY <1>1 DEF IInv, TypeInv, StreamType, MessageInv
    <2>2. stream.msgs \subseteq [seq : 1..stream.last, subject : Subjects, inc : {stream.inc}]
      <3>1. \A m \in stream.msgs : m \in Message /\ m.seq \in 1..stream.last /\ m.inc = stream.inc
        BY <1>1 DEF IInv, TypeInv, StreamType, MessageInv
      <3>2. \A m \in Message : m.seq \in 1..stream.last /\ m.inc = stream.inc
                => m \in [seq : 1..stream.last, subject : Subjects, inc : {stream.inc}]
        BY DEF Message
      <3> QED
        BY <3>1, <3>2
    <2>3. [op |-> answer.op, result |-> answer.result, seen |-> answer.seen] \in Answers
      BY <1>1 DEF IInv, AnswerOK, Answers, Ops
    <2>4. ASSUME NEW c \in Clients
          PROVE  /\ call[c].stage \in {"none", "look", "construct", "create"}
                 /\ call[c].seen \subseteq BOOLEAN
                 /\ call[c].stage = "create" => call[c].config # {}
      <3>1. call[c] \in CallType /\ (call[c].stage # "none" => call[c] # NoCall)
        BY <1>1, CallShape DEF IInv
      <3>2. call[c] # NoCall => Look(call[c], stream.exists)
        BY <1>1 DEF IInv, LookInv
      <3> QED
        BY <3>1, <3>2 DEF CallType
    <2> QED
      BY <2>1, <2>2, <2>3, <2>4 DEF TypeOK
  <1> QED
    BY <1>1, Invariance, PTL

\* A step that keeps the invariant and is one of Next, for the action properties.
LEMMA Steps == Spec => [][IInv /\ IInv' /\ Next]_vars
  <1>1. IInv /\ IInv' /\ [Next]_vars => [IInv /\ IInv' /\ Next]_vars
    OBVIOUS
  <1> QED
    BY <1>1, Invariance, PTL DEF Spec

\* deleteMessage and eraseMessage take the message whose number the client has
\* read and no other, unless the stream was deleted and made again since.
THEOREM DeletesWhatWasRead == Spec => DeleteTakesWhatWasRead
  <1>1. ASSUME IInv, NEW c \in Clients, NEW h \in held[c], NEW m \in stream.msgs \ stream'.msgs,
               DeleteMessage(c, h.seq) \/ EraseMessage(c, h.seq)
        PROVE  m = h \/ h.inc < stream.inc
    <2>1. m.seq = h.seq
      <3>1. stream'.msgs = stream.msgs \/ stream'.msgs = stream.msgs \ Deletable(h.seq)
        BY <1>1 DEF DeleteMessage, EraseMessage, DeleteOne, NotExecuted, IInv, TypeInv, StreamType
      <3> QED
        BY <3>1 DEF Deletable
    <2>2. h.inc <= stream.inc /\ m.inc = stream.inc /\ (h.inc = m.inc /\ h.seq = m.seq => h = m)
      BY <1>1 DEF IInv, MessageInv
    <2>3. h.inc \in Nat /\ stream.inc \in Nat
      BY <1>1 DEF IInv, TypeInv, StreamType, Message
    <2> QED
      BY <2>1, <2>2, <2>3
  <1>2. IInv => (\A c \in Clients : \A h \in held[c] :
            stream'.msgs # stream.msgs /\ (DeleteMessage(c, h.seq) \/ EraseMessage(c, h.seq)) =>
                \A m \in stream.msgs \ stream'.msgs : m = h \/ h.inc < stream.inc)
    BY <1>1
  <1> QED
    BY <1>2, Steps, PTL DEF DeleteTakesWhatWasRead

-----------------------------------------------------------------------------
(* The stream's configuration.                                             *)

\* Who changes the configuration, and what is remembered as asked for.
SameConfig == stream'.config = stream.config /\ stream'.exists = stream.exists /\ asked' = asked
Reconfigures(c) ==
    Update(c) /\ \E f \in StreamConfig : stream'.config = {ToCNatsConfig(f)} /\ asked' = {f}
Makes ==
    ~stream.exists /\ \E f \in StreamConfig : stream'.config = {ToCNatsConfig(f)} /\ asked' = {f}

LEMMA ConfigSteps ==
    ASSUME IInv, Next
    PROVE  SameConfig \/ ~stream'.exists \/ Makes \/ \E c \in Clients : Reconfigures(c)
  <1>1. UNCHANGED <<stream, asked>> => SameConfig
    BY DEF SameConfig
  <1>2. \A X : stream' = [stream EXCEPT !.msgs = X] /\ UNCHANGED asked => SameConfig
    BY DEF IInv, TypeInv, StreamType, SameConfig
  <1>3. ASSUME NEW c \in Clients,
               JetStreamCall(c) \/ LookUpStep(c) \/ StreamCall(c) \/ ObjectStoreCall(c)
               \/ MessageManagerCall(c)
        PROVE  SameConfig \/ ~stream'.exists \/ Makes \/ Reconfigures(c)
    <2>1. CASE JetStreamCall(c) \/ StreamExists(c)
      <3>1. Begins(c) \/ Infos(c) \/ Names(c)
        BY <2>1, LookUpsBegin DEF IInv
      <3>2. UNCHANGED <<stream, asked>>
        BY <3>1 DEF Begins, Begin, BeginAt, Infos, Names, NotExecuted
      <3> QED
        BY <1>1, <3>2
    <2>2. CASE Exists(c) \/ RequestFails(c)
      BY <1>1, <2>2 DEF Exists, RequestFails
    <2>3. CASE Create(c)
      <3> DEFINE f == CHOOSE g \in call[c].config : TRUE
      <3>1. f \in StreamConfig
        BY <2>3, RequestedType, CreateSteps DEF IInv
      <3>2. CASE Creatable
        <4>1. ~stream.exists /\ stream' = AddStream(ToCNatsConfig(f)) /\ asked' = {f}
          BY <2>3, <3>2 DEF Create, Creatable
        <4> HIDE DEF f
        <4> QED
          BY <3>1, <4>1 DEF AddStream, Makes
      <3>3. CASE ~Creatable
        <4>1. UNCHANGED <<stream, asked>>
          BY <2>3, <3>3 DEF Create
        <4> QED
          BY <1>1, <4>1
      <3> QED
        BY <3>2, <3>3
    <2>4. CASE Remove(c)
      BY <1>1, <2>4 DEF Remove, NotExecuted, DeletedStream, NoStream
    <2>5. CASE Update(c)
      <3>1. UNCHANGED <<stream, asked>>
            \/ \E f \in StreamConfigs :
                   stream' = [stream EXCEPT !.config = {ToCNatsConfig(f)}] /\ asked' = {f}
        BY <2>5 DEF Update, NotExecuted
      <3>2. \A f \in StreamConfigs : f \in StreamConfig
        BY ConfigAssumption, Zenon
      <3>3. \A w : stream' = [stream EXCEPT !.config = {w}] => stream'.config = {w}
        BY DEF IInv, TypeInv, StreamType
      <3> QED
        BY <1>1, <2>5, <3>1, <3>2, <3>3 DEF Reconfigures
    <2>6. ASSUME NEW o \in PurgeOptions, Purge(c, o) PROVE SameConfig
      BY <1>1, <1>2, <2>6 DEF Purge, NotExecuted
    <2>7. CASE Info(c) \/ StoreConfig(c)
      BY <1>1, <2>7 DEF Info, StoreConfig, NotExecuted
    <2>8. CASE MessageManagerCall(c)
      <3>1. ASSUME NEW s, NEW op, DeleteOne(c, op, s) PROVE SameConfig
        BY <1>1, <1>2, <3>1 DEF DeleteOne, NotExecuted
      <3>2. ASSUME NEW found, NEW op, Read(c, op, found) PROVE SameConfig
        BY <1>1, <3>2 DEF Read, NotExecuted
      <3> QED
        BY <2>8, <3>1, <3>2
        DEF MessageManagerCall, GetMessage, GetLastMessage, DeleteMessage, EraseMessage
    <2> QED
      BY <1>3, <2>1, <2>2, <2>3, <2>4, <2>5, <2>6, <2>7, <2>8
      DEF LookUpStep, StreamCall, ObjectStoreCall, StoreExists, DeleteStore
  <1>4. ASSUME NEW subject \in Subjects, Publish(subject) PROVE SameConfig
    BY <1>4 DEF Publish, IInv, TypeInv, StreamType, SameConfig
  <1> QED
    BY <1>3, <1>4 DEF Next

\* While a stream exists, only an update gives it another configuration: two
\* clients that create it do not overwrite each other's.
THEOREM CreateOverwritesNothing == Spec => OnlyUpdateReconfigures
  <1>1. IInv /\ Next =>
          (stream.exists /\ stream'.exists /\ stream'.config # stream.config
              => \E c \in Clients : Update(c))
    BY ConfigSteps DEF SameConfig, Makes, Reconfigures
  <1> QED
    BY <1>1, Steps, PTL DEF OnlyUpdateReconfigures

\* The server has what was last asked for, as the conversion wrote it.
AskedInv ==
    stream.exists => \E f \in StreamConfig : stream.config = {ToCNatsConfig(f)} /\ asked = {f}

LEMMA AskedHolds == Spec => []AskedInv
  <1>1. Init => AskedInv
    BY DEF Init, NoStream, AskedInv
  <1>2. AskedInv /\ [IInv /\ IInv' /\ Next]_vars => AskedInv'
    <2>1. ASSUME AskedInv, IInv, Next PROVE AskedInv'
      BY <2>1, ConfigSteps DEF SameConfig, Makes, Reconfigures, AskedInv
    <2>2. ASSUME AskedInv, UNCHANGED vars PROVE AskedInv'
      BY <2>2 DEF AskedInv, vars
    <2> QED
      BY <2>1, <2>2
  <1> QED
    BY <1>1, <1>2, Steps, PTL DEF Spec

\* Numbers the width of int64_t are unchanged by it, and an age in nanoseconds
\* is read back in seconds.
LEMMA WrapFits == ASSUME NEW n \in (-MaxInt - 1)..MaxInt PROVE Wrap(n) = n
  <1>1. n + MaxInt + 1 \in 0..((2 * MaxInt + 2) - 1) /\ 2 * MaxInt + 2 \in Nat \ {0}
    OBVIOUS
  <1>2. \A d \in Nat \ {0} : \A x \in 0..(d - 1) : x % d = x
    OBVIOUS
  <1>3. (n + MaxInt + 1) % (2 * MaxInt + 2) = n + MaxInt + 1
    BY <1>1, <1>2
  <1> QED
    BY <1>3 DEF Wrap

LEMMA QuotientOfProduct ==
    ASSUME NEW a \in Int, NEW d \in Nat \ {0}
    PROVE  Quotient(a * d, d) = a
  <1>1. \A x \in Nat : (x * d) \div d = x
    OBVIOUS
  <1>2. a >= 0 => a * d >= 0
    OBVIOUS
  <1>3. a < 0 => a * d < 0 /\ -(a * d) = (-a) * d
    OBVIOUS
  <1>4. CASE a >= 0
    BY <1>1, <1>2, <1>4 DEF Quotient
  <1>5. CASE a < 0
    <2>1. -a \in Nat /\ ~(a * d >= 0)
      BY <1>3, <1>5
    <2>2. (-(a * d)) \div d = -a
      BY <1>1, <1>3, <1>5, <2>1
    <2> QED
      BY <2>1, <2>2 DEF Quotient
  <1> QED
    BY <1>4, <1>5

\* What fits survives both conversions.
LEMMA RoundTrip ==
    ASSUME NEW f \in StreamConfig, Fits(f)
    PROVE  FromCNatsConfig(ToCNatsConfig(f)) = f
  <1> DEFINE w == ToCNatsConfig(f)
             r == IF w.RePublish = {} THEN NoRepublish ELSE CHOOSE x \in w.RePublish : TRUE
             age == Quotient(w.MaxAge, NsPerSecond)
  <1>1. /\ w.Subjects = f.subjects /\ w.DenyDelete = f.denyDelete /\ w.DenyPurge = f.denyPurge
        /\ w.MaxAge = Wrap(f.maxAge * NsPerSecond)
        /\ w.RePublish = {x \in {f.republish} : x.destination # ""}
    BY DEF ToCNatsConfig, ToJsRepublish
  <1>2. f.maxAge \in Int
    BY DEF StreamConfig
  <1>3. age = f.maxAge
    <2>1. Wrap(f.maxAge * NsPerSecond) = f.maxAge * NsPerSecond
      BY WrapFits DEF Fits
    <2>2. Quotient(f.maxAge * NsPerSecond, NsPerSecond) = f.maxAge
      BY <1>2, QuotientOfProduct
    <2> HIDE DEF w
    <2> QED
      BY <1>1, <2>1, <2>2
  <1>4. r = f.republish
    <2>1. CASE f.republish.destination = ""
      BY <1>1, <2>1 DEF Fits
    <2>2. CASE f.republish.destination # ""
      <3>1. w.RePublish = {f.republish}
        BY <1>1, <2>2
      <3> QED
        BY <3>1
    <2> QED
      BY <2>1, <2>2
  <1>5. FromCNatsConfig(w) = [subjects |-> w.Subjects, denyDelete |-> w.DenyDelete,
                              denyPurge |-> w.DenyPurge, maxAge |-> age, republish |-> r]
    BY DEF FromCNatsConfig
  <1> HIDE DEF w, r, age
  <1>6. f = [subjects |-> f.subjects, denyDelete |-> f.denyDelete, denyPurge |-> f.denyPurge,
             maxAge |-> f.maxAge, republish |-> f.republish]
    BY DEF StreamConfig
  <1>7. FromCNatsConfig(w) = f
    BY <1>1, <1>3, <1>4, <1>5, <1>6
  <1> QED
    BY <1>7 DEF w

\* The last step answered a call of info from the stream as it was and is.
LEMMA InfoSteps ==
    ASSUME IInv, Next, answer'.op = "info"
    PROVE  /\ answer'.info = {} \/ (stream.exists /\ answer'.info = {FromCNatsInfo(stream)})
           /\ SameConfig
  <1>1. ASSUME NEW c \in Clients, Info(c)
        PROVE  /\ answer'.info = {} \/ (stream.exists /\ answer'.info = {FromCNatsInfo(stream)})
               /\ SameConfig
    BY <1>1 DEF Info, Executed, NotExecuted, Answer, SameConfig
  <1>2. ASSUME NEW op, NEW refused, NEW info, NotExecuted(op, refused) \/ Executed(op, info)
        PROVE  answer'.op = op
    BY <1>2 DEF NotExecuted, Executed, Answer
  <1>3. ASSUME NEW c \in Clients,
               JetStreamCall(c) \/ LookUpStep(c) \/ StreamCall(c) \/ ObjectStoreCall(c)
               \/ MessageManagerCall(c),
               ~Info(c)
        PROVE  FALSE
    <2>1. CASE Infos(c) \/ Names(c) \/ StoreConfig(c) \/ Update(c) \/ Remove(c)
      BY <1>2, <2>1 DEF Infos, Names, StoreConfig, Update, Remove
    <2>2. CASE Begins(c)
      BY <2>2, BeginTypes DEF IInv, NoAnswer
    <2>3. CASE JetStreamCall(c) \/ StreamExists(c)
      BY <2>1, <2>2, <2>3, LookUpsBegin DEF IInv
    <2>4. CASE LookUpStep(c)
      <3>1. call[c].op # "info"
        BY CallShape DEF IInv, CallType, Ops
      <3>2. \A result : Finish(c, result) => answer'.op = call[c].op
        BY AnswerOf DEF Finish
      <3>3. CASE Create(c)
        BY <3>1, <3>2, <3>3, <1>3, CreateSteps
      <3>4. CASE Exists(c)
        <4>1. answer' = NoAnswer \/ \E result : Finish(c, result)
          BY <3>4 DEF Exists, ToStage, Silent
        <4> QED
          BY <1>3, <3>1, <3>2, <4>1 DEF NoAnswer
      <3>5. CASE RequestFails(c)
        BY <1>3, <3>1, <3>2, <3>5 DEF RequestFails
      <3> QED
        BY <2>4, <3>3, <3>4, <3>5 DEF LookUpStep
    <2>5. ASSUME NEW o, Purge(c, o) PROVE FALSE
      BY <1>2, <2>5 DEF Purge
    <2>6. CASE MessageManagerCall(c)
      <3>1. ASSUME NEW s, NEW op \in {"deleteMessage", "eraseMessage"}, DeleteOne(c, op, s) PROVE FALSE
        BY <1>2, <3>1 DEF DeleteOne
      <3>2. ASSUME NEW found, NEW op \in {"getMessage", "getLastMessage"}, Read(c, op, found) PROVE FALSE
        BY <1>2, <3>2 DEF Read, Answer
      <3> QED
        BY <2>6, <3>1, <3>2
        DEF MessageManagerCall, GetMessage, GetLastMessage, DeleteMessage, EraseMessage
    <2> QED
      BY <1>3, <2>1, <2>3, <2>4, <2>5, <2>6 DEF StreamCall, ObjectStoreCall, StoreExists, DeleteStore
  <1>4. ASSUME NEW subject \in Subjects, Publish(subject) PROVE FALSE
    BY <1>4 DEF Publish, Silent, NoAnswer
  <1> QED
    BY <1>1, <1>3, <1>4 DEF Next

\* What info returns of the configuration is what the last accepted create or
\* update was given, for every configuration that fits and any loss of answers.
THEOREM InfoIsWhatWasAsked == Spec => InfoTellsTheConfig
  <1>1. ASSUME IInv, AskedInv, Next, answer'.op = "info",
               NEW i \in answer'.info, NEW f \in asked, Fits(f)
        PROVE  i.config = f
    <2>1. stream.exists /\ i = FromCNatsInfo(stream)
      BY <1>1, InfoSteps
    <2>2. f \in StreamConfig /\ stream.config = {ToCNatsConfig(f)}
      BY <1>1, <2>1 DEF AskedInv
    <2>3. i.config = FromCNatsConfig(ToCNatsConfig(f))
      <3>1. (CHOOSE w \in stream.config : TRUE) = ToCNatsConfig(f)
        BY <2>2
      <3> QED
        BY <2>1, <3>1 DEF FromCNatsInfo
    <2> QED
      BY <1>1, <2>2, <2>3, RoundTrip
  <1>2. IInv /\ AskedInv /\ Next =>
          (answer'.op = "info" => \A i \in answer'.info, f \in asked : Fits(f) => i.config = f)
    BY <1>1
  <1> QED
    BY <1>2, Steps, AskedHolds, PTL DEF InfoTellsTheConfig

-----------------------------------------------------------------------------
(* Purges.                                                                 *)

LEMMA MessagesFinite == ASSUME IInv PROVE IsFiniteSet(stream.msgs)
  <1> DEFINE f == [m \in stream.msgs |-> m.seq]
  <1>1. stream.last \in Nat
    BY DEF IInv, TypeInv, StreamType
  <1>2. f \in Injection(stream.msgs, 1..stream.last)
    BY DEF IInv, MessageInv, Injection, IsInjective
  <1>3. IsFiniteSet(1..stream.last)
    BY <1>1, FS_Interval
  <1> QED
    BY <1>2, <1>3, FS_Injection

LEMMA PurgeNumbers ==
    ASSUME NEW o \in PurgeOptions
    PROVE  o.keep \in Nat /\ o.sequence \in Nat
  <1>1. o.keep \in 0..MaxMessages /\ o.sequence \in 0..MaxMessages
    BY DEF PurgeOptions
  <1> QED
    BY <1>1

\* A purge of one subject, of all below a sequence number or of all but the
\* last few, removes no message that its options spare.
THEOREM PurgeSpares == Spec => PurgeTakesOnlyWhatItNames
  <1>1. ASSUME IInv, NEW c \in Clients, NEW o \in PurgeOptions, Purge(c, o),
               NEW m \in stream.msgs \ stream'.msgs
        PROVE  Named(o, m)
    <2> DEFINE O == ToJsOptions(o)
               matching == {n \in stream.msgs : o.subject \in {"", n.subject}}
               later == {n \in stream.msgs : n.seq > m.seq /\ o.subject \in {"", n.subject}}
    <2>1. O.Subject = {o.subject} \ {""} /\ O.Keep = o.keep /\ O.Sequence = o.sequence
      BY DEF ToJsOptions
    <2>2. o.keep \in Nat /\ o.sequence \in Nat
      BY PurgeNumbers
    <2>3. m \in Purged(O) /\ ~(o.sequence > 0 /\ o.keep > 0)
      <3>1. CASE \E refused : NotExecuted("purge", refused)
        BY <1>1, <3>1 DEF NotExecuted
      <3>2. CASE ~InvalidPurge(o) /\ stream' = [stream EXCEPT !.msgs = @ \ Purged(O)]
        <4>1. stream'.msgs = stream.msgs \ Purged(O)
          BY <1>1, <3>2 DEF IInv, TypeInv, StreamType
        <4> QED
          BY <1>1, <3>2, <4>1 DEF InvalidPurge
      <3> QED
        BY <1>1, <3>1, <3>2 DEF Purge
    <2>4. matching = {n \in stream.msgs : O.Subject = {} \/ n.subject \in O.Subject}
      BY <2>1
    <2>5. \/ O.Sequence > 0 /\ m \in matching /\ m.seq < O.Sequence
          \/ /\ ~(O.Sequence > 0) /\ m \in matching
             /\ Cardinality({n \in matching : n.seq >= m.seq}) > O.Keep
      BY <2>3, <2>4 DEF Purged
    <2> HIDE DEF O
    <2>6. IsFiniteSet(later) /\ Cardinality(later) \in Nat
      <3>1. later \in SUBSET stream.msgs
        OBVIOUS
      <3>2. IsFiniteSet(later)
        BY <1>1, <3>1, MessagesFinite, FS_Subset
      <3> QED
        BY <3>2, FS_CardinalityType
    <2>7. ASSUME m \in matching
          PROVE  Cardinality({n \in matching : n.seq >= m.seq}) = Cardinality(later) + 1
      <3>1. \A n \in stream.msgs : n.seq \in Nat /\ (n.seq = m.seq => n = m)
        BY <1>1 DEF IInv, TypeInv, StreamType, Message, MessageInv
      <3>2. \A n \in stream.msgs : n.seq >= m.seq <=> n.seq > m.seq \/ n = m
        BY <1>1, <3>1
      <3>3. m \notin later
        <4>1. m.seq \in Nat
          BY <1>1, <3>1
        <4>2. ~(m.seq > m.seq)
          BY <4>1
        <4> QED
          BY <4>2
      <3>4. {n \in matching : n.seq >= m.seq} = later \union {m}
        BY <2>7, <3>2
      <3> QED
        BY <2>6, <3>3, <3>4, FS_AddElement
    <2>8. Cardinality(later) >= o.keep
      <3>1. ASSUME NEW count \in Nat PROVE o.sequence > 0 => count >= o.keep
        BY <2>2, <2>3
      <3>2. ASSUME NEW count \in Nat, count + 1 > o.keep PROVE count >= o.keep
        BY <2>2, <3>2
      <3>3. o.sequence > 0 \/ Cardinality(later) + 1 > o.keep
        BY <2>1, <2>5, <2>7
      <3> HIDE DEF matching, later
      <3> QED
        BY <2>6, <3>1, <3>2, <3>3
    <2>9. o.subject \in {"", m.subject} /\ (o.sequence > 0 => m.seq < o.sequence)
      BY <2>1, <2>5
    <2> QED
      BY <2>8, <2>9 DEF Named
  <1>2. IInv /\ Next =>
          (stream'.msgs # stream.msgs =>
              \A c \in Clients, o \in PurgeOptions : (Purge(c, o) =>
                  \A m \in stream.msgs \ stream'.msgs : Named(o, m)))
    BY <1>1
  <1> QED
    BY <1>2, Steps, PTL DEF PurgeTakesOnlyWhatItNames
=============================================================================
