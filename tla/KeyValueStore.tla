----------------------------- MODULE KeyValueStore -----------------------------
(***************************************************************************)
(* A key-value bucket and the clients that share it                        *)
(* (src/src/js/KeyValueStorePrivate.cpp, KeyValueStore.cpp, JetStream.cpp).*)
(*                                                                         *)
(* An operation is one request, except for create and the look-ups, whose  *)
(* requests others' requests come between.  A request of which the caller  *)
(* hears nothing throws; it may have been executed, or may be later.       *)
(* Every write carries the number of its call as its value.                *)
(***************************************************************************)
EXTENDS Integers, FiniteSets, FiniteSetsExt

CONSTANTS
    Clients,
    Keys,
    Histories,  \* the history callers ask for; 0 leaves it to the library
    MaxCalls,   \* bound: calls made
    MaxLost     \* bound: requests or answers lost

ASSUME KeyValueAssumption ==
    /\ Histories \subseteq 0..64
    /\ MaxCalls \in Nat /\ MaxLost \in Nat

VARIABLES
    bucket,  \* the bucket at the server; inc numbers its creations
    stores,  \* the clients that hold a KeyValueStore
    call,    \* client -> the look-up or create it is in
    answer,  \* what the call that ended in the last step returned or threw
    read,    \* client -> the element it last read, and of which bucket
    late,    \* writes their callers gave up, that may still be executed
    calls, lost,
    asked,   \* history: the configuration the bucket was created with
    writes,  \* history: the writes executed
    acked    \* history: the calls that were told so

vars == <<bucket, stores, call, answer, read, late, calls, lost, asked, writes, acked>>
counters == <<calls, lost>>
history == <<writes, acked>>

-----------------------------------------------------------------------------
(* The bucket.                                                             *)

Config == [bucket : {"bucket"}, history : 0..64]
Element == [key : Keys, value : 1..MaxCalls, revision : Nat \ {0}, op : {"put", "purge"}]
DefaultConfig == [bucket |-> "bucket", history |-> 0]

\* Mutant: the history is left at the library's.
ToCnatsKVConfigInit(config) == [Bucket |-> config.bucket, History |-> 0]
ToCnatsKVConfig(config) == [Bucket |-> config.bucket, History |-> config.history]

\* js_CreateKeyValue keeps at least one value of a key.
HistoryOf(cfg) == IF cfg.History = 0 THEN 1 ELSE cfg.History

NoBucket == [exists |-> FALSE, history |-> 0, log |-> {}, last |-> 0, inc |-> 0]
NewBucket(cfg) == [exists |-> TRUE, history |-> HistoryOf(cfg), log |-> {}, last |-> 0,
                   inc |-> bucket.inc + 1]

Of(k) == {e \in bucket.log : e.key = k}
LastRevision(k) == Max({0} \union {e.revision : e \in Of(k)})
Latest(k) == {e \in Of(k) : e.revision = LastRevision(k)}
HasValue(k) == \E e \in Latest(k) : e.op = "put"

\* A purge rolls the key up; otherwise the newest `history' values of it stay.
Retained(old, e) ==
    IF e.op = "purge" THEN {e}
    ELSE {d \in old \union {e} : Cardinality({x \in old \union {e} : x.revision > d.revision}) < bucket.history}

\* A write: expected is the last revision of the key it is for, -1 for any.
Refused(w) == ~bucket.exists \/ (w.expected >= 0 /\ w.expected # LastRevision(w.key))
Store(w) ==
    LET e == [key |-> w.key, value |-> w.id, revision |-> bucket.last + 1,
              op |-> IF w.op = "purge" THEN "purge" ELSE "put"]
    IN  /\ ~Refused(w)
        /\ bucket' = [bucket EXCEPT !.last = @ + 1,
                                    !.log = (@ \ Of(w.key)) \union Retained(Of(w.key), e)]
        /\ writes' = writes \union {[by |-> w, revision |-> bucket.last + 1, inc |-> bucket.inc,
                                     found |-> HasValue(w.key)]}

-----------------------------------------------------------------------------
(* Calls.  A look-up remembers whether the bucket existed at some moment   *)
(* since it began, and whether it did not.                                 *)

NoCall == [op |-> "none", stage |-> "none", config |-> {}, write |-> {}, seen |-> {}]
Idle(c) == call[c] = NoCall
Begun(c) == Idle(c) /\ calls < MaxCalls /\ calls' = calls + 1
Held(c) == c \in stores /\ Begun(c)

Answer(op, result, seen, info) ==
    answer' = [op |-> op, result |-> result, seen |-> seen, info |-> info]
NoAnswer == [op |-> "none", result |-> "none", seen |-> {}, info |-> {}]
Silent == answer' = NoAnswer

Seeing(s) == [c \in Clients |-> IF Idle(c) THEN NoCall
                                ELSE [call[c] EXCEPT !.seen = @ \union {s.exists}]]

Lose == lost < MaxLost /\ lost' = lost + 1

Init ==
    /\ bucket = NoBucket
    /\ stores = {}
    /\ call = [c \in Clients |-> NoCall]
    /\ answer = NoAnswer
    /\ read = [c \in Clients |-> {}]
    /\ late = {}
    /\ calls = 0 /\ lost = 0
    /\ asked = {} /\ writes = {} /\ acked = {}

-----------------------------------------------------------------------------
(* Look-up and creation.                                                   *)

Begin(c, op, stage, config) ==
    /\ Begun(c)
    /\ call' = [call EXCEPT ![c] = [op |-> op, stage |-> stage, config |-> {config}, write |-> {},
                                    seen |-> {bucket.exists}]]
    /\ Silent
    /\ UNCHANGED <<bucket, stores, read, late, lost, asked, history>>

GetOrCreateKeyValueStore(c) ==
    \E n \in Histories :
        Begin(c, "getOrCreate", "construct", [DefaultConfig EXCEPT !.history = n])
\* Mutant: the constructor alone.
GetKeyValueStoreUnchecked(c) == Begin(c, "get", "construct", DefaultConfig)
GetKeyValueStore(c) == Begin(c, "get", "look", DefaultConfig)

Finish(c, result) ==
    /\ Answer(call[c].op, result, call[c].seen, {})
    /\ call' = [call EXCEPT ![c] = NoCall]
ToStage(c, stage) == call' = [call EXCEPT ![c].stage = stage] /\ Silent

Exists(c) ==
    /\ \/ /\ call[c].stage = "look"
          /\ IF bucket.exists THEN ToStage(c, "construct") ELSE Finish(c, "notFound")
       \/ /\ call[c].stage = "construct"
          /\ ToStage(c, IF bucket.exists THEN "open" ELSE "create")
    /\ UNCHANGED <<bucket, stores, read, late, counters, asked, history>>

\* The constructor's second request: js_KeyValue, or js_CreateKeyValue, which
\* takes a bucket of the same configuration that is already there.
Construct(c) ==
    /\ LET config == CHOOSE f \in call[c].config : TRUE
           cfg == ToCnatsKVConfig(config)
           there == \/ call[c].stage = "open" /\ bucket.exists
                    \/ call[c].stage = "create" /\ bucket.exists /\ bucket.history = HistoryOf(cfg)
       IN  \/ /\ there
              /\ Finish(c, "found")
              /\ stores' = stores \union {c}
              /\ UNCHANGED <<bucket, asked, lost>>
           \/ /\ call[c].stage \in {"open", "create"} /\ ~there /\ (call[c].stage = "open" \/ bucket.exists)
              /\ Finish(c, "thrown")
              /\ UNCHANGED <<bucket, stores, asked, lost>>
           \/ /\ call[c].stage = "create" /\ ~bucket.exists
              /\ bucket' = NewBucket(cfg)
              /\ asked' = {config}
              /\ call' = [Seeing(bucket') EXCEPT ![c] = NoCall]
              /\ \/ /\ Answer(call[c].op, "created", call[c].seen, {})
                    /\ stores' = stores \union {c}
                    /\ UNCHANGED lost
                 \/ Lose /\ Answer(call[c].op, "thrown", call[c].seen, {}) /\ UNCHANGED stores
    /\ UNCHANGED <<read, late, calls, history>>

\* A request of a look-up that is not executed.
LookUpFails(c) ==
    /\ call[c].op \in {"get", "getOrCreate"}
    /\ Lose
    /\ Finish(c, "thrown")
    /\ UNCHANGED <<bucket, stores, read, late, calls, asked, history>>

DeleteStore(c) ==
    /\ Held(c)
    /\ \/ /\ bucket.exists
          /\ bucket' = [NoBucket EXCEPT !.inc = bucket.inc]
          /\ call' = Seeing(bucket')
          /\ asked' = {}
          /\ \/ Answer("deleteStore", "ok", {}, {}) /\ UNCHANGED lost
             \/ Answer("deleteStore", "thrown", {}, {}) /\ Lose
       \/ /\ \/ ~bucket.exists /\ UNCHANGED lost
             \/ Lose
          /\ Answer("deleteStore", "thrown", {}, {})
          /\ UNCHANGED <<bucket, call, asked>>
    /\ UNCHANGED <<stores, read, late, history>>

-----------------------------------------------------------------------------
(* Elements.                                                               *)

\* The request w and its three ends: answered, refused, or nothing is heard of
\* it and it was executed or is late.
Written(w) ==
    /\ Store(w)
    /\ acked' = acked \union {w.id}
    /\ UNCHANGED <<late, lost>>
Unheard(w) ==
    /\ Lose
    /\ \/ Store(w) /\ UNCHANGED late
       \/ late' = late \union {w} /\ UNCHANGED <<bucket, writes>>
    /\ UNCHANGED acked
Declined(w) == Refused(w) /\ UNCHANGED <<bucket, writes, late, lost, acked>>

Request(w) ==
    /\ \/ Written(w) /\ Answer(w.op, "ok", {}, {})
       \/ (Unheard(w) \/ Declined(w)) /\ Answer(w.op, "thrown", {}, {})
    /\ UNCHANGED <<stores, call, read, asked>>

Write(op, k, expected, from) ==
    [op |-> op, key |-> k, id |-> calls + 1, expected |-> expected, from |-> from]

\* Mutant: the status is not looked at.
PutUnchecked(c, k) ==
    LET w == Write("put", k, -1, {})
    IN  /\ Held(c)
        /\ \/ Store(w) /\ UNCHANGED <<late, lost>>
           \/ Refused(w) /\ UNCHANGED <<bucket, writes, late, lost>>
        /\ acked' = acked \union {w.id}
        /\ Answer("put", "ok", {}, {})
        /\ UNCHANGED <<stores, call, read, asked>>
\* The revision the caller passes takes the new one and is by value: it is lost.
Put(c, k) == Held(c) /\ Request(Write("put", k, -1, {}))

\* Mutant: the two functions of the library taken for each other.
UpdateAsPut(c, k) ==
    /\ Held(c)
    /\ \E from \in read[c] : from.element.key = k /\ Request(Write("update", k, -1, {from}))
\* Called with the revision of the element that the client read.
Update(c, k) ==
    /\ Held(c)
    /\ \E from \in read[c] :
          /\ from.element.key = k
          /\ Request(Write("update", k, from.element.revision, {from}))

Purge(c, k) == Held(c) /\ Request(Write("purge", k, -1, {}))
\* The class calls purge here too.
Remove(c, k) == Purge(c, k)

\* Mutant: a marker is an entry too.
GetKvEntryOrMarker(k) == {e \in Latest(k) : bucket.exists}
\* The library finds no entry behind a marker.
GetKvEntry(k) == {e \in Latest(k) : bucket.exists /\ e.op = "put"}
Get(c, k) ==
    /\ Held(c)
    /\ \/ /\ \E e \in GetKvEntry(k) :
                /\ read' = [read EXCEPT ![c] = {[element |-> e, inc |-> bucket.inc]}]
                /\ Answer("getElement", "ok", {}, {e})
          /\ UNCHANGED lost
       \/ /\ (GetKvEntry(k) = {} /\ UNCHANGED lost) \/ Lose
          /\ Answer("getElement", "thrown", {}, {})
          /\ UNCHANGED read
    /\ UNCHANGED <<bucket, stores, call, late, asked, history>>

KeyList(c) ==
    /\ Held(c) /\ bucket.exists
    /\ Answer("keys", "ok", {}, {k \in Keys : HasValue(k)})
    /\ UNCHANGED <<bucket, stores, call, read, late, lost, asked, history>>

Info(c) ==
    /\ Held(c) /\ bucket.exists
    /\ Answer("info", "ok", {}, {[values |-> Cardinality(bucket.log), history |-> bucket.history]})
    /\ UNCHANGED <<bucket, stores, call, read, late, lost, asked, history>>

\* kvStore_Create: an update of revision 0; if that throws, a look whether the
\* last element is a marker; if it is, an update of the marker's revision.
Creating(stage, w) == [op |-> "create", stage |-> stage, config |-> {}, write |-> {w}, seen |-> {}]
CreateRequest(c, w, next) ==
    \/ /\ Written(w)
       /\ Answer("create", "ok", {}, {})
       /\ call' = [call EXCEPT ![c] = NoCall]
    \/ /\ Unheard(w) \/ Declined(w)
       /\ IF next = "none"
          THEN Answer("create", "thrown", {}, {}) /\ call' = [call EXCEPT ![c] = NoCall]
          ELSE /\ Silent
               /\ call' = [call EXCEPT ![c] = Creating(next, w)]

\* Mutant: a put.
CreateAsPut(c, k) == Held(c) /\ Request(Write("create", k, -1, {}))
Create(c, k) ==
    /\ Held(c)
    /\ CreateRequest(c, Write("create", k, 0, {}), "marker")
    /\ UNCHANGED <<stores, read, asked>>

CreateLooks(c) ==
    /\ call[c].stage = "marker"
    /\ \E w \in call[c].write :
          \/ \E e \in Latest(w.key) :
                /\ e.op = "purge"
                /\ LET from == {[element |-> e, inc |-> bucket.inc]}
                       again == [w EXCEPT !.expected = e.revision, !.from = from]
                   IN  call' = [call EXCEPT ![c] = Creating("again", again)]
                /\ Silent
                /\ UNCHANGED lost
          \/ /\ ((HasValue(w.key) \/ Latest(w.key) = {}) /\ UNCHANGED lost) \/ Lose
             /\ Finish(c, "thrown")
    /\ UNCHANGED <<bucket, stores, read, late, calls, asked, history>>

CreateAgain(c) ==
    /\ call[c].stage = "again"
    /\ \E w \in call[c].write : CreateRequest(c, w, "none")
    /\ UNCHANGED <<stores, read, asked, calls>>

\* The server executes what nobody waits for any more, or refuses it.
LateWrite ==
    /\ \E w \in late :
          /\ late' = late \ {w}
          /\ Store(w) \/ (Refused(w) /\ UNCHANGED <<bucket, writes>>)
    /\ Silent
    /\ UNCHANGED <<stores, call, read, counters, asked, acked>>

-----------------------------------------------------------------------------

JetStreamCall(c) == GetOrCreateKeyValueStore(c) \/ GetKeyValueStore(c)
KeyValueStoreCall(c) ==
    \/ DeleteStore(c) \/ KeyList(c) \/ Info(c)
    \/ \E k \in Keys :
        Get(c, k) \/ Put(c, k) \/ Create(c, k) \/ Update(c, k) \/ Purge(c, k) \/ Remove(c, k)

Next ==
    \/ \E c \in Clients :
        \/ JetStreamCall(c) \/ KeyValueStoreCall(c)
        \/ Exists(c) \/ Construct(c) \/ LookUpFails(c)
        \/ CreateLooks(c) \/ CreateAgain(c)
    \/ LateWrite

Spec == Init /\ [][Next]_vars

-----------------------------------------------------------------------------
(* Properties.                                                             *)

Writes == [op : {"put", "create", "update", "purge"}, key : Keys, id : 1..MaxCalls,
           expected : {-1} \union Nat,
           from : SUBSET [element : Element, inc : Nat]]

\* No more is kept of a key than its bucket allows, and only a purge marker
\* counts as the absence of a value.
TypeOK ==
    /\ bucket.log \subseteq Element
    /\ \A e \in bucket.log : e.revision <= bucket.last
    /\ \A k \in Keys : Cardinality(Of(k)) <= bucket.history
    /\ ~bucket.exists => bucket.log = {}
    /\ stores \subseteq Clients
    /\ \A c \in Clients : /\ \A w \in call[c].write : w.expected >= 0
                          /\ \A r \in read[c] : r.element.op = "put" /\ r.inc <= bucket.inc
    /\ late \subseteq Writes /\ \A w \in late : w.id <= calls
    /\ acked \subseteq 1..calls
    /\ calls <= MaxCalls /\ lost <= MaxLost

\* An update replaces what its caller had read, and the second attempt of a
\* create the marker it had seen: nobody wrote the key in between, in time or
\* late, unless the bucket is another one.
UpdateReplacesWhatWasRead ==
    \A u \in writes : \A r \in u.by.from :
        r.inc = u.inc =>
            \A w \in writes : w.inc = u.inc /\ w.by.key = u.by.key =>
                w.revision <= r.element.revision \/ w.revision >= u.revision

\* A create, executed at the first attempt, the second or late, finds no value,
\* unless the bucket was deleted and made again between its look and its second
\* attempt: then the revision of the marker may be that of a value.
CreateFindsNothing ==
    \A w \in writes : w.by.op = "create" /\ w.found => \E r \in w.by.from : r.inc < w.inc

\* What a caller was told is written was written, and no call writes twice in
\* one bucket but a create whose first attempt was unheard and executed, when it
\* was purged before the second one or the bucket is not the one it looked at.
AcknowledgedOnce ==
    /\ \A id \in acked : \E w \in writes : w.by.id = id
    /\ \A v, w \in writes :
          v.by.id = w.by.id /\ v.inc = w.inc /\ v.revision < w.revision =>
              /\ w.by.op = "create"
              /\ \/ \E p \in writes : /\ p.inc = w.inc /\ p.by.key = w.by.key /\ p.by.op = "purge"
                                      /\ v.revision < p.revision /\ p.revision < w.revision
                 \/ \E r \in w.by.from : r.inc < w.inc

\* As many of the last values of a key as the bucket was created to keep are
\* there, those since its last purge or remove, and info tells that number.
HistoryIsKept ==
    \A f \in asked :
        LET n == Max({1, f.history})
            here == {w \in writes : w.inc = bucket.inc}
        IN  /\ \A w \in here :
                  \/ \E e \in bucket.log : e.revision = w.revision /\ e.value = w.by.id
                  \/ \E v \in here : v.by.key = w.by.key /\ v.revision > w.revision /\ v.by.op = "purge"
                  \/ Cardinality({v \in here : v.by.key = w.by.key /\ v.revision > w.revision}) >= n
            /\ answer.op = "info" => \A i \in answer.info : i.history = n

\* getKeyValueStore creates a bucket, with the default configuration, only when
\* the bucket was there when it began to look and was deleted meanwhile.
GetCreatesOnlyWhatWasDeleted ==
    answer.op = "get" /\ answer.result = "created" => answer.seen = {TRUE, FALSE}
=============================================================================
