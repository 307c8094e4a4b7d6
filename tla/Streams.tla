------------------------------- MODULE Streams -------------------------------
(***************************************************************************)
(* Streams and object stores as resources: looked up, created, updated,    *)
(* purged and deleted, and their messages read and deleted one by one      *)
(* (src/src/js/JetStream.cpp, StreamPrivate.cpp, ObjectStorePrivate.cpp,   *)
(* MessageManagerPrivate.cpp).                                             *)
(*                                                                         *)
(* Several clients work on one stream of the server, as a stream or, when  *)
(* its name is that of a bucket, as an object store.  A look-up that may   *)
(* create is two or three requests with other clients' requests between    *)
(* them.  Every other operation is one request, executed or not, whose     *)
(* answer may be lost: the caller then gets an exception.                  *)
(***************************************************************************)
EXTENDS Integers, FiniteSets, FiniteSetsExt

CONSTANTS
    Clients,
    Subjects,
    Destinations,   \* subjects messages may be republished to
    StreamConfigs,  \* the configurations callers pass for a stream
    StoreConfigs,   \* and those they pass for an object store
    NsPerSecond,    \* nanoseconds in a second
    MaxInt,         \* the largest int64_t
    MaxCalls,       \* bound: calls made
    MaxMessages,    \* bound: sequence numbers used in one stream
    MaxLost         \* bound: requests or answers lost

NoRepublish == [source |-> "", destination |-> "", headersOnly |-> FALSE]
Republish == [source : Subjects \union {""}, destination : Destinations \union {""},
              headersOnly : BOOLEAN]
StreamConfig == [subjects : SUBSET Subjects, denyDelete : BOOLEAN, denyPurge : BOOLEAN,
                 maxAge : Int, republish : Republish]
ObjectStoreConfig == [maxAge : Int]
PurgeOptions == [subject : Subjects \union {""}, sequence : 0..MaxMessages, keep : 0..MaxMessages]

ASSUME ConfigAssumption ==
    /\ StreamConfigs \subseteq StreamConfig
    /\ StoreConfigs \subseteq ObjectStoreConfig
    /\ "" \notin Subjects
ASSUME BoundsAssumption ==
    /\ NsPerSecond \in Nat \ {0} /\ MaxInt \in Nat \ {0}
    /\ MaxCalls \in Nat /\ MaxMessages \in Nat /\ MaxLost \in Nat

VARIABLES
    stream,   \* the stream at the server; inc numbers its creations
    call,     \* client -> the look-up it is in
    answer,   \* what the call that ended in the last step returned or threw
    held,     \* client -> the message it read last and may delete
    calls, lost,
    asked     \* history: the configuration the stream was last given

vars == <<stream, call, answer, held, calls, lost, asked>>

-----------------------------------------------------------------------------
(* Configurations on their way to the library and back.                    *)

Wrap(n) == ((n + MaxInt + 1) % (2 * MaxInt + 2)) - MaxInt - 1
Quotient(a, b) == IF a >= 0 THEN a \div b ELSE -((-a) \div b)

ToJsRepublish(config) == config.republish

\* The library leaves a republish without a destination out of its request.
ToCNatsConfig(config) ==
    [Subjects |-> config.subjects, DenyDelete |-> config.denyDelete,
     DenyPurge |-> config.denyPurge, MaxAge |-> Wrap(config.maxAge * NsPerSecond),
     RePublish |-> {r \in {ToJsRepublish(config)} : r.destination # ""}]

\* Mutant: the age is left in nanoseconds.
FromCNatsConfigInNs(w) ==
    [subjects |-> w.Subjects, denyDelete |-> w.DenyDelete, denyPurge |-> w.DenyPurge,
     maxAge |-> w.MaxAge,
     republish |-> IF w.RePublish = {} THEN NoRepublish ELSE CHOOSE r \in w.RePublish : TRUE]
FromCNatsConfig(w) ==
    [subjects |-> w.Subjects, denyDelete |-> w.DenyDelete, denyPurge |-> w.DenyPurge,
     maxAge |-> Quotient(w.MaxAge, NsPerSecond),
     republish |-> IF w.RePublish = {} THEN NoRepublish ELSE CHOOSE r \in w.RePublish : TRUE]

CreateStreamConfig(config) ==
    [subjects |-> Subjects, denyDelete |-> FALSE, denyPurge |-> FALSE,
     maxAge |-> config.maxAge, republish |-> NoRepublish]

StreamInfoToConfig(info) == [maxAge |-> info.config.maxAge]

\* What getObjectStore asks for when it has to name a configuration.
DefaultStoreConfig == [maxAge |-> -1]

-----------------------------------------------------------------------------
(* The server's side.                                                      *)

Seqs(S) == {m.seq : m \in S}
StreamState(s) ==
    [messages |-> Cardinality(s.msgs), lastSequence |-> s.last,
     firstSequence |-> IF s.msgs = {} THEN s.last + 1 ELSE Min(Seqs(s.msgs))]

NoStream == [exists |-> FALSE, config |-> {}, msgs |-> {}, last |-> 0, inc |-> 0]
AddStream(w) == [exists |-> TRUE, config |-> {w}, msgs |-> {}, last |-> 0, inc |-> stream.inc + 1]
DeletedStream == [NoStream EXCEPT !.inc = stream.inc]
Configured(w) == stream.exists /\ stream.config = {w}

\* js_PurgeStream: what a purge with these options removes.
Purged(o) ==
    LET matching == {m \in stream.msgs : o.Subject = {} \/ m.subject \in o.Subject}
    IN  IF o.Sequence > 0 THEN {m \in matching : m.seq < o.Sequence}
        ELSE {m \in matching : Cardinality({n \in matching : n.seq >= m.seq}) > o.Keep}

-----------------------------------------------------------------------------
(* Calls and answers.  A look-up remembers whether the stream existed, at  *)
(* some moment since it began, and whether it did not.                     *)

NoCall == [op |-> "none", stage |-> "none", config |-> {}, seen |-> {}]
Idle(c) == call[c] = NoCall

Begun(c) == Idle(c) /\ calls < MaxCalls /\ calls' = calls + 1

Answer(op, result, seen, info) ==
    answer' = [op |-> op, result |-> result, seen |-> seen, info |-> info]
NoAnswer == [op |-> "none", result |-> "none", seen |-> {}, info |-> {}]
Silent == answer' = NoAnswer

\* What every client in a look-up has seen once the stream is s.
Seeing(calls0, s) ==
    [c \in Clients |-> IF calls0[c] = NoCall THEN NoCall
                       ELSE [calls0[c] EXCEPT !.seen = @ \union {s.exists}]]

Init ==
    /\ stream = NoStream
    /\ call = [c \in Clients |-> NoCall]
    /\ answer = NoAnswer
    /\ held = [c \in Clients |-> {}]
    /\ calls = 0 /\ lost = 0
    /\ asked = {}

BeginAt(c, op, stage, config) ==
    /\ Begun(c)
    /\ call' = [call EXCEPT ![c] = [op |-> op, stage |-> stage, config |-> config,
                                    seen |-> {stream.exists}]]
    /\ Silent
    /\ UNCHANGED <<stream, held, lost, asked>>
Begin(c, op, config) == BeginAt(c, op, "look", config)

GetOrCreateStream(c) == \E f \in StreamConfigs : Begin(c, "getOrCreateStream", {f})
GetStream(c) == Begin(c, "getStream", {})
\* The constructor of the store looks up; getObjectStore has looked up before.
GetOrCreateObjectStore(c) ==
    \E f \in StoreConfigs : Begin(c, "getOrCreateObjectStore", {CreateStreamConfig(f)})
\* Mutants: the look-up goes straight to the constructor; its configuration is lost.
GetObjectStoreUnchecked(c) ==
    BeginAt(c, "getObjectStore", "construct", {CreateStreamConfig(DefaultStoreConfig)})
GetObjectStoreUnnamed(c) == Begin(c, "getObjectStore", {})
GetObjectStore(c) == Begin(c, "getObjectStore", {CreateStreamConfig(DefaultStoreConfig)})
StreamExists(c) == Begin(c, "exists", {})

Finish(c, result) ==
    /\ Answer(call[c].op, result, call[c].seen, {})
    /\ call' = [call EXCEPT ![c] = NoCall]

ToStage(c, stage) ==
    /\ call' = [call EXCEPT ![c].stage = stage]
    /\ Silent

\* StreamPrivate::exists, and what its caller goes on with.
Exists(c) ==
    /\ call[c].stage \in {"look", "construct"}
    /\ LET op == call[c].op IN
       \/ /\ stream.exists
          /\ IF op = "getObjectStore" /\ call[c].stage = "look"
             THEN ToStage(c, "construct")
             ELSE Finish(c, "found")
       \/ /\ ~stream.exists
          /\ IF op \in {"getOrCreateStream", "getOrCreateObjectStore"} \/ call[c].stage = "construct"
             THEN ToStage(c, "create")
             ELSE Finish(c, "notFound")
    /\ UNCHANGED <<stream, held, calls, lost, asked>>

\* Mutant: js_UpdateStream where js_AddStream is meant.
CreatableAlways == TRUE
Creatable == ~stream.exists

\* js_AddStream refuses a stream that exists with another configuration.
Create(c) ==
    /\ call[c].stage = "create"
    /\ LET f == CHOOSE g \in call[c].config : TRUE
           w == ToCNatsConfig(f)
       IN  \/ /\ Creatable
              /\ stream' = AddStream(w)
              /\ asked' = {f}
              /\ \E answered \in {a \in BOOLEAN : a \/ lost < MaxLost} :
                    /\ Answer(call[c].op, IF answered THEN "created" ELSE "thrown",
                              call[c].seen, {})
                    /\ lost' = IF answered THEN lost ELSE lost + 1
              /\ call' = [Seeing(call, stream') EXCEPT ![c] = NoCall]
           \/ /\ ~Creatable
              /\ Finish(c, IF Configured(w) THEN "found" ELSE "thrown")
              /\ UNCHANGED <<stream, lost, asked>>
    /\ UNCHANGED <<held, calls>>

\* Mutant: any status but Ok taken for NotFound.
RequestFailsAsNotFound(c) ==
    /\ ~Idle(c) /\ lost < MaxLost
    /\ lost' = lost + 1
    /\ Finish(c, "notFound")
    /\ UNCHANGED <<stream, held, calls, asked>>
\* A request of a look-up that is not executed, or an answer of exists lost.
RequestFails(c) ==
    /\ ~Idle(c) /\ lost < MaxLost
    /\ lost' = lost + 1
    /\ Finish(c, "thrown")
    /\ UNCHANGED <<stream, held, calls, asked>>

-----------------------------------------------------------------------------
(* Operations of one request.                                              *)

\* The request of op is refused or lost before it is executed.
NotExecuted(op, refused) ==
    /\ \/ refused /\ UNCHANGED lost
       \/ lost < MaxLost /\ lost' = lost + 1
    /\ Answer(op, "thrown", {}, {})
    /\ UNCHANGED <<stream, call, held, asked>>

\* It is executed; its answer arrives with this information, or is lost.
Executed(op, info) ==
    \/ Answer(op, "ok", {}, info) /\ UNCHANGED lost
    \/ lost < MaxLost /\ lost' = lost + 1 /\ Answer(op, "thrown", {}, {})

Update(c) ==
    /\ Begun(c)
    /\ \/ \E f \in StreamConfigs :
            /\ stream.exists
            /\ stream' = [stream EXCEPT !.config = {ToCNatsConfig(f)}]
            /\ asked' = {f}
            /\ Executed("update", {})
            /\ UNCHANGED <<call, held>>
       \/ NotExecuted("update", ~stream.exists)

Remove(c) ==
    /\ Begun(c)
    /\ \/ /\ stream.exists
          /\ stream' = DeletedStream
          /\ call' = Seeing(call, DeletedStream)
          /\ asked' = {}
          /\ Executed("remove", {})
          /\ UNCHANGED held
       \/ NotExecuted("remove", ~stream.exists)

\* Mutant: the two numbers swapped.
ToJsOptionsSwapped(o) ==
    [Subject |-> {o.subject} \ {""}, Keep |-> o.sequence, Sequence |-> o.keep]
\* An empty subject is all of them.
ToJsOptions(o) ==
    [Subject |-> {o.subject} \ {""}, Keep |-> o.keep, Sequence |-> o.sequence]
InvalidPurge(o) == o.sequence > 0 /\ o.keep > 0

DenyPurge == \E w \in stream.config : w.DenyPurge
DenyDelete == \E w \in stream.config : w.DenyDelete

Purge(c, o) ==
    /\ Begun(c)
    /\ \/ InvalidPurge(o) /\ NotExecuted("purge", TRUE)
       \/ /\ ~InvalidPurge(o)
          /\ \/ /\ stream.exists /\ ~DenyPurge
                /\ stream' = [stream EXCEPT !.msgs = @ \ Purged(ToJsOptions(o))]
                /\ Executed("purge", {o})
                /\ UNCHANGED <<call, held, asked>>
             \/ NotExecuted("purge", ~stream.exists \/ DenyPurge)

\* fromCnatsInfo.  createdNs is not read from the answer and is left out here.
FromCNatsInfo(s) ==
    [config |-> FromCNatsConfig(CHOOSE w \in s.config : TRUE), state |-> StreamState(s)]

Info(c) ==
    /\ Begun(c)
    /\ \/ /\ stream.exists
          /\ Executed("info", {FromCNatsInfo(stream)})
          /\ UNCHANGED <<stream, call, held, asked>>
       \/ NotExecuted("info", ~stream.exists)

\* Of an object store.
StoreExists(c) == StreamExists(c)
DeleteStore(c) == Remove(c)

StoreConfig(c) ==
    /\ Begun(c)
    /\ \/ /\ stream.exists
          /\ Executed("storeConfig", {StreamInfoToConfig(FromCNatsInfo(stream))})
          /\ UNCHANGED <<stream, call, held, asked>>
       \/ NotExecuted("storeConfig", ~stream.exists)

\* The streams of the server: this one, when it is there.
Infos(c) ==
    /\ Begun(c)
    /\ \/ /\ Executed("infos", IF stream.exists THEN {FromCNatsInfo(stream)} ELSE {})
          /\ UNCHANGED <<stream, call, held, asked>>
       \/ NotExecuted("infos", FALSE)

Names(c) ==
    /\ Begun(c)
    /\ \/ /\ Executed("names", {})
          /\ UNCHANGED <<stream, call, held, asked>>
       \/ NotExecuted("names", FALSE)

\* Reading a message; its sequence number is what deleting it takes.
Read(c, op, found) ==
    \/ \E m \in found :
          /\ \/ Answer(op, "ok", {}, {}) /\ held' = [held EXCEPT ![c] = {m}] /\ UNCHANGED lost
             \/ /\ lost < MaxLost /\ lost' = lost + 1
                /\ Answer(op, "thrown", {}, {}) /\ UNCHANGED held
          /\ UNCHANGED <<stream, call, asked>>
    \/ NotExecuted(op, found = {})

GetMessage(c, sequence) ==
    Begun(c) /\ Read(c, "getMessage", {m \in stream.msgs : m.seq = sequence})

GetLastMessage(c, subject) ==
    LET on == {m \in stream.msgs : m.subject = subject}
    IN  Begun(c) /\ Read(c, "getLastMessage", {m \in on : m.seq = Max(Seqs(on))})

Deletable(sequence) == {m \in stream.msgs : m.seq = sequence}

DeleteOne(c, op, sequence) ==
    /\ Begun(c)
    /\ \/ /\ Deletable(sequence) # {} /\ ~DenyDelete
          /\ stream' = [stream EXCEPT !.msgs = @ \ Deletable(sequence)]
          /\ Executed(op, {})
          /\ UNCHANGED <<call, held, asked>>
       \/ NotExecuted(op, Deletable(sequence) = {} \/ DenyDelete)

\* Mutant: counted from zero.
DeleteMessageBefore(c, sequence) == DeleteOne(c, "deleteMessage", sequence - 1)
DeleteMessage(c, sequence) == DeleteOne(c, "deleteMessage", sequence)
EraseMessage(c, sequence) == DeleteOne(c, "eraseMessage", sequence)

\* Somebody publishes.
Publish(subject) ==
    /\ stream.exists /\ stream.last < MaxMessages
    /\ stream' = [stream EXCEPT
                    !.msgs = @ \union {[seq |-> stream.last + 1, subject |-> subject, inc |-> stream.inc]},
                    !.last = @ + 1]
    /\ Silent
    /\ UNCHANGED <<call, held, calls, lost, asked>>

-----------------------------------------------------------------------------

JetStreamCall(c) ==
    \/ GetOrCreateStream(c) \/ GetStream(c)
    \/ GetOrCreateObjectStore(c) \/ GetObjectStore(c)
    \/ Infos(c) \/ Names(c)

ObjectStoreCall(c) == StoreExists(c) \/ DeleteStore(c) \/ StoreConfig(c)

LookUpStep(c) == Exists(c) \/ Create(c) \/ RequestFails(c)

StreamCall(c) ==
    \/ Update(c) \/ Remove(c) \/ StreamExists(c) \/ Info(c)
    \/ \E o \in PurgeOptions : Purge(c, o)

\* A client deletes what it has read.
MessageManagerCall(c) ==
    \/ \E s \in 1..MaxMessages : GetMessage(c, s)
    \/ \E subject \in Subjects : GetLastMessage(c, subject)
    \/ \E m \in held[c] : DeleteMessage(c, m.seq) \/ EraseMessage(c, m.seq)

Next ==
    \/ \E c \in Clients : JetStreamCall(c) \/ LookUpStep(c) \/ StreamCall(c)
                          \/ ObjectStoreCall(c) \/ MessageManagerCall(c)
    \/ \E subject \in Subjects : Publish(subject)

Spec == Init /\ [][Next]_vars

-----------------------------------------------------------------------------
(* Properties.                                                             *)

Fits(config) ==
    /\ config.maxAge * NsPerSecond \in (-MaxInt - 1)..MaxInt
    /\ config.republish.destination = "" => config.republish = NoRepublish

Answers ==
    [op : {"none", "exists", "getStream", "getOrCreateStream", "getObjectStore", "getOrCreateObjectStore",
           "update", "remove", "purge", "info", "storeConfig", "infos", "names",
           "getMessage", "getLastMessage", "deleteMessage", "eraseMessage"},
     result : {"none", "ok", "found", "notFound", "created", "thrown"},
     seen : SUBSET BOOLEAN]

\* The stream has a configuration and messages while it exists, and only then;
\* its messages were stored in it and not in one of its name deleted since.
TypeOK ==
    /\ stream.exists \in BOOLEAN
    /\ stream.inc \in Nat /\ stream.last \in 0..MaxMessages
    /\ stream.msgs \subseteq [seq : 1..stream.last, subject : Subjects, inc : {stream.inc}]
    /\ ~stream.exists => stream.msgs = {}
    /\ [op |-> answer.op, result |-> answer.result, seen |-> answer.seen] \in Answers
    /\ \A c \in Clients :
          /\ call[c].stage \in {"none", "look", "construct", "create"}
          /\ call[c].seen \subseteq BOOLEAN
          /\ call[c].stage = "create" => call[c].config # {}
    /\ calls \in 0..MaxCalls /\ lost \in 0..MaxLost

\* A look-up by one client while others create and delete (getStream,
\* getOrCreateStream, getObjectStore, exists) tells the truth about some moment
\* of the call: what it returns existed, and what it says is not found did not.
LookUpIsTrue ==
    /\ answer.result = "found" => TRUE \in answer.seen
    /\ answer.result \in {"notFound", "created"} => FALSE \in answer.seen

\* getObjectStore, which ends in the constructor that creates what is missing,
\* creates a store only when one was deleted during the call: include/JetStream.h
\* promises an exception for a store that does not exist.
LookUpCreatesOnlyWhatWasDeleted ==
    answer.op = "getObjectStore" /\ answer.result = "created" => answer.seen = BOOLEAN

\* Two clients that create the same stream with different configurations do not
\* overwrite each other's: a stream keeps the configuration it was created with
\* until an update or its deletion.
OnlyUpdateReconfigures ==
    [][ stream.exists /\ stream'.exists /\ stream'.config # stream.config
            => \E c \in Clients : Update(c) ]_vars

\* What info returns of the configuration, after both conversions, is what the
\* last accepted create or update was given, if its age in nanoseconds is an
\* int64_t and a republish, if there is one, names a destination.
InfoTellsTheConfig ==
    [][ answer'.op = "info" =>
            \A i \in answer'.info, f \in asked : Fits(f) => i.config = f ]_vars

\* A purge removes only messages of the subject asked for, only below the
\* sequence and never one of the last it was to keep.
Named(o, m) ==
    /\ o.subject \in {"", m.subject}
    /\ o.sequence > 0 => m.seq < o.sequence
    /\ Cardinality({n \in stream.msgs : n.seq > m.seq /\ o.subject \in {"", n.subject}}) >= o.keep
PurgeTakesOnlyWhatItNames ==
    [][ stream'.msgs # stream.msgs =>
            \A c \in Clients, o \in PurgeOptions : (Purge(c, o) =>
                \A m \in stream.msgs \ stream'.msgs : Named(o, m)) ]_vars

\* deleteMessage and eraseMessage with the sequence number of a message the
\* client has read take that message and no other, unless the stream was
\* deleted and made again since: sequence numbers then start over.
DeleteTakesWhatWasRead ==
    [][ \A c \in Clients : \A h \in held[c] :
            stream'.msgs # stream.msgs /\ (DeleteMessage(c, h.seq) \/ EraseMessage(c, h.seq)) =>
                \A m \in stream.msgs \ stream'.msgs : m = h \/ h.inc < stream.inc ]_vars
=============================================================================
