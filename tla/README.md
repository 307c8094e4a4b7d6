# A TLA+ model of NatsMQ

NatsMQ is a C++ wrapper of the NATS C client (nats.c): a client with
connections, subscriptions and requests, and on top of JetStream a facade with
streams, publishers, consumers, a key-value store and an object store. The
server and nats.c do most of the work; what the wrapper itself decides is the
order of its requests to them, what it does when one of them fails, and how its
objects are shared between the caller's threads and nats.c's own. That is what
these modules model. The library and the server are modelled from how the code
in `src/src` uses them, and marked external in `PROJECT.json`.

## 1. The system

| Component | State | Operations | What is hard |
|---|---|---|---|
| Object store (`js/ObjectStorePrivate.cpp`) | one JetStream stream per bucket, a chunk subject per object uid, a metadata subject per name | put, get, info, remove; watch, deleteStore, storeConfig | every operation is a sequence of separate requests: they interleave, fail half way, time out and are executed late; messages age |
| Requestor (`core/Requestor.cpp`) | a promise and an inbox subscription per request | request, arequest, its callback | the promise has two owners on two threads until `release()`; a throw in between; timeouts against replies; a closing connection |
| Connection (`core/Connection.cpp`, `core/Client.cpp`) | natsConnection, two vectors of callbacks | connect, disconnect, status, (un)register, the handlers | handles are indices of a vector that shrinks; the event thread walks it without a lock; events outlive the objects |
| Subscription, SyncSubscription (`core/`) | natsSubscription, listener | subscribe, unsubscribe, limits, drain, next | live before the listener is set; the delivery thread outlives the object |
| Publisher (`core/`) | none | publish | another thread may destroy the raw connection it holds |
| Streams and stores (`js/JetStream.cpp`, `js/StreamPrivate.cpp`) | on the server | getOrCreate*, get*, update, purge, remove, info | look-up and creation are two requests; configurations are converted there and back |
| KeyValueStore (`js/KeyValueStorePrivate.cpp`) | a stream per bucket, a revision per element | put, create, update, get, remove, purge, keys, info, deleteStore | compare-and-set with lost answers and late writes; buckets made again |
| JetStream publisher and context (`js/Publisher.cpp`, `js/Context.cpp`) | pending asynchronous publishes | publish, apublish, wait, pendingMessages | failures come later; a wait that times out; handing back what may be stored |
| JetStream subscriptions (`js/SubscriptionPrivate.cpp`, `js/PullSubscriptionPrivate.cpp`, `js/MessagePrivate.cpp`) | consumer, unacknowledged messages | subscribe, next, fetch, ack, nak, inProgress, terminate | redelivery against late acknowledgements |
| MessageManager, ObjectWatcher (`js/`) | none; two listeners | raw messages; updated, removed, stop | sequence numbers of a stream made again; events before the listeners are set |
| Conversions, Exceptions, picojson, tests, examples | none | | |

Client makes the Connection and hands its raw natsConnection to Requestors,
Publishers, Subscriptions and the JetStream Context; the Context's jsCtx is what
all of `js/` works with. nats.c calls back on a delivery thread per subscription
(messages, timeouts) and on one thread for connection events; nothing in the
wrapper takes a lock. `PROJECT.json` lists the hazards of every component at
their lines.

What makes each of them correct:

- Object store: a get returns the whole object one put stored under that name or
  throws; a remove takes that object away and no other; a call that failed half
  way leaves nothing a reader would take for an object.
- Requestor: every future gets one answer; nothing is freed twice or used after.
- Connection: each registered callback hears of every change, with the status
  that holds, and an unregistered one is the one that was asked for.
- Subscription: every message is handled once and in order, and none is handed to
  a missing or destroyed listener.
- Streams: a look-up tells the truth and does not create; a stream keeps the
  configuration it was given; purges and deletes take what they name.
- Key-value store: an update replaces what its caller read, a create finds
  nothing, a write is executed once, the history asked for is kept.
- Asynchronous publish: each message is acknowledged, reported as failed, or
  handed back.
- Consumers: a message is redelivered until it is acknowledged or terminated.

## 2. Modules

| Module | Contents |
|---|---|
| `ObjectStore` | put, get, info and remove of any number of clients, request by request |
| `AtomicObjectStore`, `ObjectStoreAtomic` | what the store promises, each call one atomic read or write of a name; the refinement mapping |
| `Requestor` | request and arequest against the delivery thread; ownership of the promise |
| `Connection` | connecting, callbacks, the event thread, and another thread with the raw connection |
| `Subscription` | a subscription of any of five kinds, its listener, the delivery thread, its end |
| `Streams` | streams and object stores as resources, their configurations, and single messages |
| `KeyValueStore` | one bucket and the clients that share it |
| `StreamLog` | the stream that the next two share |
| `AsyncPublish` | synchronous and asynchronous publishes to it |
| `Consumer` | a consumer of it, and the subscription an application reads it with |
| `JetStreamFlow` | `AsyncPublish` and `Consumer` over one `StreamLog` |
| `ObjectStoreProofs`, `RequestorProofs`, `ConnectionProofs`, `SubscriptionProofs`, `StreamsProofs`, `KeyValueStoreProofs`, `JetStreamFlowProofs` | inductive invariants and theorems (section 5) |
| `ObjectStoreAtomicProofs` | the refinement `IsAtomic`, step by step |
| `MC*` | the small instances TLC checks |

Where components share state they are one module (the Connection's vectors and
its two threads, a look-up and the operations that race it) or are composed
(`JetStreamFlow`). The others share only the natsConnection, and what its loss does
to them is in each: a closing connection in `Requestor`, a raw one in `Connection`, lost
requests and answers in the rest.

### ObjectStore

The stream is kept per subject, since the code never compares positions of two
subjects. `chunkLog[u]` is everything ever published on the chunk subject of uid
`u`, of which the first `chunkFloor[u]` messages are gone: a purge with a subject
filter takes all there is, ageing takes the oldest. `metaLog[n]` is the metadata
subject of a name and `Info(n)` its last message, what
`MessageManagerPrivate::getLastMessage` returns. A chunk is a byte range of an
object rather than bytes.

`op[c]` holds the local variables of the call client `c` is in, and each action
is one request of that call: `PutChunk` and `PutMeta` are the publishes of `put`;
`Get` reads the metadata, `GetChunk` is one `next` of the ordered subscription,
`GetTimeout` the one that waits in vain; `Remove`, `RemovePurge` and `RemoveMark`
are the three requests of `remove`. `Refused` is a request that throws and was
not executed. `AbandonChunk`, `AbandonPutMeta`, `AbandonPurge` and `AbandonMark` are requests
that throw, or whose process dies, and that the server executes at any later
time (`Late*`). Metadata on its way is numbered, because two removes of one name can
leave two equal markers behind; equal chunks do not occur with a uid per put,
and a second purge of a subject finds nothing the first one left. `usedUids` and `torn` are history variables for the properties.

The callers choose `meta.uid`. `FreshUids` says that they give each put a uid of
its own that is not empty, as `src/src/private/utils.cpp`'s `uuid` would;
the code neither checks it nor does it. The run `object_store_default_uid` shows
what happens without it. That a chunk subject with an empty uid is acceptable
to the server is taken from the repository's tests, which put and get that way.

### AtomicObjectStore and ObjectStoreAtomic

The promise a caller would like: a name holds nothing yet, a removal or one
object; a write that succeeds takes effect in one instant of the call, one that
throws at most once and perhaps later; a read returns the whole object the name
held at one instant of the call. Under the mapping a put takes effect with its
metadata and a remove with its marker. `Received` recovers the object from the
chunks a get was sent, so a mix of two objects, or a part of one, maps to a
value no abstract read returns. `AbstractionAssumption`: the marks for a name without
metadata, for a get without a result and for such a mix are none of the objects.

### Requestor

`pc[r]` is the line of `arequest` the caller of request `r` has come to: one
action per library call, and for each the ways it fails. `AsyncRequestCallback` is
the whole callback, run on the subscription's thread by `Deliver` (a reply or a
no-responders message) or `Expire` (no message within the timeout). A use of
freed memory is a fault: the call may succeed by luck, fail, or end the process
(`crashed`), all three are explored. `Close` is a connection that closes,
by disconnect or because reconnecting failed: nats.c drops the subscriptions
without a callback.

### Connection

The application's thread makes one call at a time; `connect` calls the callbacks
on it, twice, and so is split at each of these calls (`Connect`, `CallNext`,
`ConnectDone`, `CallNext`, `ConnectReturn`). `events` is the queue of nats.c's event
thread. A walk through a vector keeps the end it found when it began, as the
range-for loops do; `disturbed` records that the vector changed under one, which
is undefined, `shifted` that an unregister hit another callback than the one its
handle was given for, `moved` which callbacks have an index that is not their
handle's. Nothing is claimed after a `fault`. `owed` counts, for each
callback, the events posted and the walks `connect` began while it was registered,
minus the calls it received.
Of the options those are kept that decide what becomes of a lost connection:
whether it may reconnect and how often it tries.

`borrowed` is the raw natsConnection that `publish`, `request` and `subscribe` take
out of the Connection (`Client.cpp:79`): another thread holds it until it has
used it, and a disconnect or connect in between leaves it dangling. As its bound
it takes the first connection only, while nothing else goes on: what may come
between taking and using it is everything.

### Subscription

`kind` fixes the class: `core` subscribes and then sets its listener
(`Client.cpp:85`), `js` sets it first, `watch` is a JetStream subscription whose two
handlers come when the application calls `updated` and `removed`, `sync` and `jssync`
have no thread and are polled with `next`. `app` is the life of the object: the
destructor frees the listener (`DestroyListener`) before its base class ends the
library's subscription (`Destroy`). `thread` is the delivery thread: it takes a
message, calls (`Callback`), and returns; with auto-unsubscribe the last return
ends the subscription. `since` and `asked` are history. Calling a listener that is
empty or destroyed is a `fault`, after which nothing is claimed.

### Streams

One stream, used as a stream or as the object store of that name. `call[c]` is the
look-up client `c` is in: `Exists` and `Create` are its requests, and
`getObjectStore` looks twice, once by itself and once in the store's
constructor (`JetStream.cpp:94`, `ObjectStorePrivate.cpp:115`). Its field `seen` says
which of existing and not existing held at some moment since the call began.
Every other operation is one request: executed, refused, or lost on one of the
two ways. `stream.inc` numbers the creations, so that a sequence number read
before a deletion can be told from the same number after it (`held`).
A configuration is converted twice, `ToCNatsConfig` on its way to the server and
`FromCNatsConfig` on its way back; ages are multiplied in an `int64_t`, whose
largest value is the constant `MaxInt` (`Wrap`).

### KeyValueStore

`bucket` is the stream behind a bucket: `log` holds the elements that are still
kept, with their revisions, and `Retained` what a write leaves of a key's history.
`Request` is the one request of put, update, purge and remove: answered, refused,
or unheard, and then executed, `late` or gone. `create` is the library's
`kvStore_Create`, an update of revision 0 and, if that fails, a look for a purge
marker and an update of the marker's revision (`Create`, `CreateLooks`, `CreateAgain`).
Clients read (`read`) and update with what they read. `writes`, `acked` and `asked` are
history.

### StreamLog, AsyncPublish, Consumer, JetStreamFlow

`AsyncPublish` gives each publish a fate: `calling` while a synchronous one waits,
`open` while the library keeps an asynchronous one pending, then `acked`, `thrown`,
`reported` to the handler, `unheard` without one, `returned` by `pendingMessages` or
`abandoned` with the Context. Its message travels separately (`wire`), so it may
be stored after its publish has failed. An answer nobody waits for any more is
dropped where it would arrive and is not followed on its way. The application
publishes a payload again once the last publish of it has failed or was handed
back; payloads in `Identified` carry a `msgID`, and the empty payload is
none of them, as an empty `msgID` is no id (`PublishAssumption`).

`Consumer` is the consumer at the server (`next`, `unacked`, `again`) and a push, sync
or pull subscription to it. `Ack` is `natsMsg_AckSync`: it waits for the answer, or
throws and leaves its message under way; `Nak` and `Terminate` do not wait. Without
`manualAck` the library acknowledges when a callback returns. `JsSubDeleter` deletes
the consumer its subscription created, also a durable one; `Crash` does not.
`Overdue` is `ackWait` passing, at any moment.

`JetStreamFlow` runs both on one stream. Its bound `Plain`: while a consumer exists,
publishes are synchronous, without handler and without losses of their own.
The consumer sees the stream and no more, so other publishes would show it
nothing new; the publisher is explored in full while there is no consumer.

## 3. Runs

| Run | Instance | Shows |
|---|---|---|
| `object_store` | 2 clients, 2 names, 3 objects (3, 2 and 4 bytes in chunks of 2) and an invalid one, 5 calls, 2 failures | `AtomicObjectStore` is implemented, reads are of whole objects (`IsAtomic`); a live name is readable unless a remove of it is half done or failed (`LiveIsReadable`); a published object's subject is frozen (`PublishedIsFrozen`); a remove spares other names (`RemoveTouchesOnlyItsName`) |
| `object_store_aging` | the same with a maxAge, 4 calls, 1 failure, fair | while chunks disappear: a completed get is whole (`GetIntegrity`), it waits in vain only for chunks that were removed (`TimeoutMeansGone`), and every call ends (`CallsEnd`) |
| `object_store_default_uid` | 1 client, no failure, `meta.uid` empty | violation of `SetReplaces`: the second put under a name is read back with the first one's data |
| `requestor` | 2 requests, 2 replies each, fair | the three causes of misused memory are all there are (`FaultsHaveACause`); the promise waits for its answer (`PromiseWaitsForAnswer`), which comes once (`AnsweredOnce`) and always, unless the connection closes (`FutureResolves`); no inbox is left behind (`SubscriptionEnds`) |
| `requestor_future` | the same | violation of `PublishedGetsFuture`: a reply faster than the caller |
| `connection` | 2 state callbacks and 1 error callback, 2 connections, 2 network events; limited, unlimited and no reconnection | what a handle still means (`HandleFindsCallback`); the four causes of faults (`FaultsHaveACause`); no report is lost (`EveryReportIsHeard`) and what was heard last holds (`HeardIsTrue`) |
| `connection_unregister` | the same | violation of `UnregisterRemoves`: handles shift |
| `connection_status` | the same | violation of `StatusIsTold`: nobody hears that reconnecting was given up |
| `subscription` | the 5 kinds, 4 messages, limits of 1 and 2, two of the messages metadata of removed objects | the ways an empty or destroyed listener is called are all there are (`FaultsHaveACause`); messages are handled once and in order and none is lost while the subscription is open or when it was drained without a timeout (`EachOnceInOrder`); a watcher misses only what came before its handler (`EventsAfterRegistrationAreSeen`) |
| `streams` | 2 clients, 4 calls, 2 messages, 1 loss, two configurations, one with an age that overflows | look-ups tell the truth (`LookUpIsTrue`) and create only what was deleted meanwhile (`LookUpCreatesOnlyWhatWasDeleted`); configurations are changed by updates only (`OnlyUpdateReconfigures`) and come back as given (`InfoTellsTheConfig`); `PurgeTakesOnlyWhatItNames`, `DeleteTakesWhatWasRead` |
| `key_value` | 2 clients, 1 key, histories 0 and 2, 6 calls, 1 loss | `UpdateReplacesWhatWasRead`, `CreateFindsNothing`, `AcknowledgedOnce`, each with its exceptions; the history asked for is kept (`HistoryIsKept`); look-ups create only what was deleted meanwhile (`GetCreatesOnlyWhatWasDeleted`) |
| `flow` | 2 payloads, 1 of them with an id, 2 publishes, 1 pending, 1 loss or restart; a push, a sync and a pull subscription, fair | no publish is forgotten (`PublishedIsAccountedFor`); what was acknowledged is not sent again (`AcknowledgedIsNotSentAgain`); a callback subscription settles every stored message (`EachStoredIsSettled`) |

Every passing run but `object_store_aging` also checks a type invariant;
`FlowTypeOK` adds that a subscription has a consumer and an unnamed consumer a
subscription.

Bounds. `MaxOps` 5 lets a name be put, removed and put again while another
client gets it and a fifth call touches the other name; sizes 3, 2 and 4 with
chunks of 2 give a short last chunk, one full chunk and two full ones.
`MaxFailures` 2 gives a failed remove and a failed put, or two late requests that
overtake each other. Two replies are enough for a second answer to one request,
and two requests for the effect of one on the other. Two state callbacks give a
shifted handle, two connections a replaced one, two events a drop with its
reconnection or with the end of it. Four messages fill a queue of two, overflow it
and leave one to be handled after. Four calls on a stream make it, delete it, make
it again and look; `NsPerSecond` 10 and `MaxInt` 63 make 3 seconds fit and 14
overflow, as 9223372037 do in the real width. Six calls on a bucket make it, purge a
key, create it, delete the bucket, make it again and write the key before the
second attempt of the create; an update with a revision of the old bucket takes a
call more, and is left to the proof. Histories 0 and 2 are the library's default
and one more than it.
`MaxPending` 1 is reached by the second publish, a batch of 2 with an inbox of 1 gives
a fetch that returns with less than it asked for, and one loss is a lost
delivery, acknowledgement or publish, or a restart; that a second loss of one message
takes the same path is the reason for no more. The runs `object_store`, `connection`,
`streams` and `key_value`, which check no liveness, use the symmetry of their clients
or callbacks. `CHECK_DEADLOCK FALSE`: with their bounds used up all systems
rest, and so does an application that makes no more calls.

Fairness. `FairSpec` of `ObjectStore`: a client in a call takes its next step
(`Progress`), because each library call it waits in has a timeout. `FairSpec` of
`Requestor`: a caller inside `arequest` runs on, and a delivery thread with a message
or whose timeout passed calls back, which is what nats.c's thread per
subscription does. `Scheduled` of `JetStreamFlow`: the delivery thread runs and
callbacks return, the server delivers what is deliverable, takes the
acknowledgements that arrive and notices what is overdue; nothing is asked of the
publisher, nor that a message be not lost, beyond the bound on losses. No fairness
is assumed of the network or the application elsewhere. The other runs have none.

`HeardIsTrue` excludes what the code does get wrong or leaves open: an event of a
connection that `connect` replaced and one handled while `connect` runs (`fresh`), and
a closed connection (`connection_status`). `EveryReportIsHeard` counts calls, those
of the walks `connect` makes itself too: a callback registered between a report and
its handling is called once more than it is owed, and until it is unregistered
that call may stand for a report it was owed.

## 4. Findings

- `object_store_default_uid`: `src/README.md:507` says of the object store's put "Set
  value if exists or create new key-value element", and its example leaves
  `meta.uid` empty. Then all objects of a bucket share one chunk subject, nothing
  purges it, and a get takes the oldest chunks: the first object's data with the
  second one's metadata (`ObjectStorePrivate.cpp:179`).
- `requestor_future`: `arequest` asks its promise for the future after the request is
  out; the callback may have deleted the promise (`Requestor.cpp:83`, `:30`).
- `connection_unregister`: an unregister moves up what is behind it, so older
  handles mean other callbacks or none (`Connection.cpp:121`), where `Client.h:86`
  says "Remove registred callback".
- `connection_status`: no closed handler is set (`Connection.cpp:142`), where
  `Client.h:83` says "Called all times when connection status changed".

More effects are exceptions the properties name:

- an exception of `arequest` after it has subscribed leaves a subscription that will
  call back into freed memory, and a future whose connection closes never
  becomes ready;
- a core subscription is live before its listener is set, and a subscription that
  is destroyed without having been drained may still call its listener;
- `getObjectStore` and `getKeyValueStore` create what they looked up when it is deleted
  meanwhile, with a default configuration;
- a maxAge of 9223372037 seconds or more overflows;
- a revision or sequence number read from a bucket or stream that was deleted and
  made again names another value or message, and an update takes it;
- a create whose first attempt was executed unheard, and purged before the
  second one, writes twice.

Read in the code while modelling, and not the subject of a run:

- `KeyValueStore::remove` purges (`KeyValueStore.cpp:78`), where `KeyValueStore.h:62` says it leaves all
  revisions. `getOrCreateStream` and `getOrCreateKeyValueStore` ignore the
  configuration when the store exists.
- `InfoTellsTheConfig` is about the configuration because `createdNs` is assigned to
  itself (`StreamPrivate.cpp:218`). `External` of a source is read without a look whether
  it is there (`StreamPrivate.cpp:194`), and the mirror of a key-value configuration
  is written through a null pointer (`KeyValueStorePrivate.cpp:61`).
- A republish without a destination is left out of the request.
- A durable consumer is deleted with the subscription that created it
  (`defines.h:13`), where `Entities.h:421` says that subscriptions resume until it is
  explicitly deleted.
- `nak` takes milliseconds (`Message.h:67`) and passes them on as nanoseconds. `ackSync` and
  `meta` of `Message.h` have no definition in the facade. Header and source of
  `JetStream::subscribe` name their two strings in opposite order (`JetStream.h:85`,
  `JetStream.cpp:153`).
- `arequest` publishes subject and data only, so headers are dropped
  (`Requestor.cpp:80`), where `Client.h:59` says "Same as request but async".
- The two handlers of a watcher and the error handler of the Context are
  assigned without a lock while their threads may call them
  (`ObjectWatcherPrivate.cpp:49`, `Context.cpp:54`). The models take the assignment as one step.

## 5. Proofs

Eight modules, checked by TLAPS, for every value of the constants: any clients, keys,
names, subjects and callbacks, any number of calls, messages and losses. They
assume what the modules assume of their constants: bounds that are numbers,
functions of the right type, histories of at most 64, a positive chunk size,
payloads with an id that are not empty, marks of the abstract store that are no
objects. Each component has an inductive invariant `IInv` (`Invariance`;
`OwnerInvariant` in `RequestorProofs`), from which the others follow.

- `ObjectStoreProofs`. All but `TypeCorrect` assume `FreshUids`. That a get returns the
  object depends on what a put in progress has stored so far and on requests
  still on their way, so `IInv` says of each: metadata, wherever it is (on
  its subject, late, or read by a call), is `Sealed`, its uid's subject is finished
  and tiles the object; a put owns the subject of its uid and has filled it to
  `pos` (`PutOK`); uids not used yet have empty subjects (`UnusedInv`); a get that skipped
  nothing holds the first messages of the subject (`GetOK`). For removal: a uid has
  one home name (`HomeInv`), at most one late metadata message that is not stored
  yet (`LateInv`), a call holds metadata its name's subject holds (`ReadInv`), and a uid
  that lost chunks belongs to a removal that failed, is about to store its marker
  or is done (`PurgeInv`). Theorems: `TypeCorrect` (`TypeOK`), `GetReturnsTheObject`
  (`GetIntegrity`), `TimeoutIsJustified` (`TimeoutMeansGone`), `LiveStaysReadable`
  (`LiveIsReadable`), `PublishedStaysFrozen` (`PublishedIsFrozen`), `RemoveSparesOthers`
  (`RemoveTouchesOnlyItsName`).
- `ObjectStoreAtomicProofs`. `ObjectStoreIsAtomic`: with `FreshUids`, `Spec` implies `IsAtomic`,
  ageing or not. The initial states map to the abstract one (`AbstractStart`); each
  action has a lemma that names the abstract step it is (`PutStep`, `RemoveStartStep` and
  `GetStep` begin a call, `WriteStep` is the instant a put or a remove takes effect,
  `FailStep` and `LateStep` are calls that throw and what they leave behind, `ChunkStep` and `EndStep`
  end a call) or says that it changes nothing there (`StutterStep`: ageing, purging,
  storing chunks). It rests on `GetIntegrity`, which gives `ReceivedWhole` (the chunks
  of a completed get tile one object, and `Received` finds that one), and on `IInv` for
  two facts: metadata that is sealed describes an object of its size with at least one
  chunk (`MetaFacts`), and by their numbers and `LateInv` two late requests are
  two different abstract writes (`LateWritesDiffer`), so that executing one leaves
  the other pending.
- `RequestorProofs`. The invariant says who owns the promise, and what its
  subscription is, at each line of `arequest`. Theorems: `RequestTypes` (`TypeOK`),
  `FaultsAreExplained` (`FaultsHaveACause`), `PromiseIsKept` (`PromiseWaitsForAnswer`), `AnswersStay`
  (`AnsweredOnce`).
- `ConnectionProofs`. A walk lies inside its vector unless the vector changed under it
  (`WalksInside`), and `connect` has room for the connection it makes (`Stages`). That says
  nothing of what is heard, for which three more invariants hold beside `IInv`: a
  callback is in one place of one vector, and one that is in none has nothing to
  expect (`Vectors`); what a callback is owed is at most the events of its kind still in
  the queue and the walks that have not come to its place yet (`OwedIsToCome`), so
  that nothing is owed when both are empty; and as to the status, either an event of
  the connection is still to be handled, or every walk under way tells the status
  that holds and one is on its way to each callback that does not know it
  (`StatusIsToCome`): a change of the status posts an event, before which the walks
  under way may tell the old one. Theorems: `TypeCorrect`, `FaultsAreExplained` (`FaultsHaveACause`),
  `HandlesOfTheUnmoved` (`HandleFindsCallback`), `ReportsAreHeard` (`EveryReportIsHeard`),
  `LastHeardIsTrue` (`HeardIsTrue`).
- `SubscriptionProofs`. `StageInv` relates the object, its listener and the thread; by
  `OrderInv` what was handled is older than what the thread has, and that than what
  is queued; by `LossInv` each message that has arrived is in one of the places a
  message can be, until the subscription ends. Theorems: `TypeCorrect`,
  `FaultsAreExplained` (`FaultsHaveACause`), `NothingIsLost` (`EachOnceInOrder`), `WatcherSeesAll`
  (`EventsAfterRegistrationAreSeen`).
- `StreamsProofs`. What a look-up has seen includes what holds now and what took it to
  its line (`LookInv`); a sequence number names one message of one incarnation
  (`MessageInv`); the server has what was last asked for, as the conversion wrote it
  (`AskedInv`), and for configurations that fit the way back is the inverse of the way
  there (`RoundTrip`). Theorems: `TypeCorrect`, `LookUpsTellTheTruth` (`LookUpIsTrue`),
  `NothingIsCreatedByLooking` (`LookUpCreatesOnlyWhatWasDeleted`), `CreateOverwritesNothing`
  (`OnlyUpdateReconfigures`), `InfoIsWhatWasAsked` (`InfoTellsTheConfig`), `PurgeSpares`
  (`PurgeTakesOnlyWhatItNames`), `DeletesWhatWasRead` (`DeleteTakesWhatWasRead`).
- `KeyValueStoreProofs`. Revisions number the elements of a bucket (`BucketInv`); what is
  in it was written, and each write is at or below the last revision of its key
  (`WriteInv`); what a request expects is what its caller read, and a marker was
  written by a purge (`RequestInv`), which makes a request that is still on its way,
  or late, as harmless as one in time; a call has one request, a create up to two
  (`UniqueInv`); a write is there, was purged, or was followed by enough others
  (`HistoryInv`, counted with injections between finite sets). Theorems: `TypeCorrect`,
  `UpdatesReplace` (`UpdateReplacesWhatWasRead`), `CreatesFindNothing` (`CreateFindsNothing`),
  `Acknowledged` (`AcknowledgedOnce`), `KeepsItsHistory` (`HistoryIsKept`), `GetsCreateNothingElse`
  (`GetCreatesOnlyWhatWasDeleted`).
- `JetStreamFlowProofs`. `IInv` has a part for each module and holds for the composition.
  The stream: an id is the payload it came with and is stored once (`StreamInv`), which
  `toCnatsPublishOptions` and the server's window give together. The publishers
  (`PublishInv`): the library's pending publishes are the open ones (`PendingIsOpen`); an
  answer is on its way only to who waits, and comes after the message is stored
  (`WireInv`); what is stored was published by a request that has arrived
  (`StoredWasPublished`); the answers, those under way among them, name a message of
  their payload, and call it new once (`AnswersInv`). The consumer (`ConsumerInv`): what is
  on its way to the application, in its hands or to be settled is something the
  consumer has sent (`ConsumerTypes`); a subscription has a consumer, and an unnamed
  consumer a subscription (`SubInv`); a payload settled by an acknowledgement that was
  answered is behind the consumer, neither unacknowledged nor to be sent again
  (`SettledInv`), which with `StreamInv` means for good. Theorems: `FlowIsTyped` (`FlowTypeOK`),
  `PublishesAreAccountedFor` (`PublishedIsAccountedFor`), `NothingSettledIsSentAgain`
  (`AcknowledgedIsNotSentAgain`).

With these, every invariant, action property and refinement that a passing run
checks is proved. Only model-checked is liveness under fairness (`CallsEnd`, `FutureResolves`,
`SubscriptionEnds`, `EachStoredIsSettled`): it needs ENABLED, which is out of the prover's
reach, as is induction over data. That the four runs which expect a violation find
one is a matter of a single behaviour, and TLC's too.

## 6. Not modelled, and what could come next

- Queue groups, and the ordered consumer but for the object store's get, are the
  server's and nats.c's: the wrapper passes an option on. So are its limits on
  deliveries, and `inProgress`, which asks for more time where time is left out.
- Mirror and sources of streams and buckets, and the cluster and alternates of
  an info: nothing in the library reads them again.
- Headers and payloads and their conversions, `base64Encode`, `Utils::uuid`, the pool
  size, the texts of exceptions: they keep no state and no property here is
  about them.
- Statistics, ping and other queries return what nats.c says. `waitDrain` and
  `drainStatus` of the private classes cannot be reached through the facade.
- Authentication, TLS and the wire protocol are nats.c's; picojson is
  vendored; macros, tests and examples have no behaviour of their own.

Next: two consumers of one stream that share a durable name; an abstract
key-value bucket that `KeyValueStore` implements.
