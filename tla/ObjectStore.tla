----------------------------- MODULE ObjectStore -----------------------------
(***************************************************************************)
(* The object store of NatsMQ (src/src/js/ObjectStorePrivate.cpp).         *)
(*                                                                         *)
(* A bucket is one JetStream stream.  An object is cut into chunks, each   *)
(* published on the chunk subject of the object's uid, then its metadata   *)
(* is published on the metadata subject of its name.  get, put and remove  *)
(* are sequences of separate requests to the server; the requests of       *)
(* different processes interleave, and any of them may fail half way.      *)
(*                                                                         *)
(* Only the order of the messages of one subject is ever observed, so the  *)
(* stream is kept per subject: every chunk ever stored on the subject of a *)
(* uid, of which the first chunkFloor[u] are gone, and every metadata      *)
(* message of a name.  A chunk is a byte range of the object it was cut    *)
(* from.                                                                   *)
(***************************************************************************)
EXTENDS Naturals, Sequences

CONSTANTS
    Clients,      \* processes that use the bucket, one call at a time each
    Names,        \* object names
    Objects,      \* the ObjectElements callers pass to put
    Uids,         \* values of meta.uid
    NameOf,       \* object -> meta.name
    UidOf,        \* object -> meta.uid, chosen by the caller
    SizeOf,       \* object -> data.size()
    ChunkSize,    \* defaultChunkSize
    EmptyName, EmptyUid,   \* the two empty strings
    NoObject,     \* what a delete marker describes
    FreshUids,    \* callers give every put a non-empty uid never used before
    Aging,        \* the bucket has a maxAge, so old messages disappear
    MaxOps,       \* bound: calls made
    MaxFailures   \* bound: calls that throw or die half way

ASSUME ChunkSizeAssumption == ChunkSize \in Nat \ {0}
ASSUME EmptyAssumption == EmptyName \in Names /\ EmptyUid \in Uids
ASSUME ObjectsAssumption ==
    /\ NoObject \notin Objects
    /\ NameOf \in [Objects -> Names]
    /\ UidOf \in [Objects -> Uids]
    /\ SizeOf \in [Objects -> Nat]
ASSUME BoundsAssumption ==
    /\ FreshUids \in BOOLEAN /\ Aging \in BOOLEAN
    /\ MaxOps \in Nat /\ MaxFailures \in Nat

VARIABLES
    chunkLog,     \* uid -> every chunk stored on its subject, in stream order
    chunkFloor,   \* uid -> how many of them were purged or aged out
    metaLog,      \* name -> the messages of its metadata subject
    op,           \* client -> the local variables of the call it is in
    lateChunks,   \* chunk publishes the caller gave up, still on their way
    lateMetas,    \* the same for metadata, numbered: a marker may be there twice
    latePurges,   \* the same for purges
    usedUids,     \* history: uids passed to put so far
    torn,         \* history: uids of removes that did not run to their end
    ops,          \* calls made
    failures      \* calls that failed

stream == <<chunkLog, chunkFloor, metaLog>>
latePublishes == <<lateChunks, lateMetas, latePurges>>
vars == <<stream, op, latePublishes, usedUids, torn, ops, failures>>

Chunk == [obj : Objects, from : Nat, to : Nat]
Meta == [obj : Objects \cup {NoObject}, uid : Uids, size : Nat,
         chunks : Nat, deleted : BOOLEAN]

\* remove's last message, and the metadata a call holds before it read any.
DeleteMarker == [obj |-> NoObject, uid |-> EmptyUid, size |-> 0,
                 chunks |-> 0, deleted |-> TRUE]

Call(pc, o, n, m) == [pc |-> pc, obj |-> o, name |-> n, meta |-> m, pos |-> 0,
                      chunks |-> 0, arrived |-> << >>, cursor |-> 0]
Idle == Call("idle", NoObject, EmptyName, DeleteMarker)

Init ==
    /\ chunkLog = [u \in Uids |-> << >>]
    /\ chunkFloor = [u \in Uids |-> 0]
    /\ metaLog = [n \in Names |-> << >>]
    /\ op = [c \in Clients |-> Idle]
    /\ lateChunks = {} /\ lateMetas = {} /\ latePurges = {}
    /\ usedUids = {} /\ torn = {}
    /\ ops = 0 /\ failures = 0

-----------------------------------------------------------------------------
(* Requests as the server executes them. *)

StoreChunk(u, ch) ==
    /\ chunkLog' = [chunkLog EXCEPT ![u] = Append(@, ch)]
    /\ UNCHANGED <<chunkFloor, metaLog>>

StoreMeta(n, m) ==
    /\ metaLog' = [metaLog EXCEPT ![n] = Append(@, m)]
    /\ UNCHANGED <<chunkLog, chunkFloor>>

\* Mutants of PurgeChunks: the filter is forgotten; the last message is kept.
PurgeChunksOfAll(u) ==
    /\ chunkFloor' = [w \in Uids |-> Len(chunkLog[w])]
    /\ UNCHANGED <<chunkLog, metaLog>>
PurgeChunksButLast(u) ==
    /\ chunkFloor' = [chunkFloor EXCEPT ![u] = Len(chunkLog[u]) - 1]
    /\ UNCHANGED <<chunkLog, metaLog>>

\* A purge with a subject filter drops what that subject holds at that moment.
PurgeChunks(u) ==
    /\ chunkFloor' = [chunkFloor EXCEPT ![u] = Len(chunkLog[u])]
    /\ UNCHANGED <<chunkLog, metaLog>>

\* ObjectStorePrivate::info; with no message on the subject it throws.
HasInfo(n) == metaLog[n] # << >>
Info(n) == metaLog[n][Len(metaLog[n])]

Begin(c, call) ==
    /\ op[c].pc = "idle"
    /\ ops < MaxOps
    /\ ops' = ops + 1
    /\ op' = [op EXCEPT ![c] = call]

-----------------------------------------------------------------------------
(* put: the chunks one acknowledged publish after another, then the meta.  *)

ValidElement(o) == SizeOf[o] # 0 /\ NameOf[o] # EmptyName

\* The assumption on callers; nothing in put enforces it.
CallerMayPut(o) == FreshUids => UidOf[o] \notin usedUids \cup {EmptyUid}

Put(c, o) ==
    /\ ValidElement(o)
    /\ CallerMayPut(o)
    /\ Begin(c, Call("put", o, NameOf[o], DeleteMarker))
    /\ usedUids' = usedUids \cup {UidOf[o]}
    /\ UNCHANGED <<stream, latePublishes, torn, failures>>

\* The InvalidArg exception.
PutInvalid(c, o) ==
    /\ ~ValidElement(o)
    /\ Begin(c, Idle)
    /\ UNCHANGED <<stream, latePublishes, usedUids, torn, failures>>

ChunkEnd(o, pos) ==
    IF SizeOf[o] - pos < ChunkSize THEN SizeOf[o] ELSE pos + ChunkSize

ChunkAt(o, pos) == [obj |-> o, from |-> pos, to |-> ChunkEnd(o, pos)]

Sent(call, ch) == [call EXCEPT !.pos = ch.to, !.chunks = @ + 1]

PutChunk(c) ==
    LET o == op[c].obj
        ch == ChunkAt(o, op[c].pos)
    IN  /\ op[c].pc = "put"
        /\ op[c].pos # SizeOf[o]
        /\ StoreChunk(UidOf[o], ch)
        /\ op' = [op EXCEPT ![c] = Sent(@, ch)]
        /\ UNCHANGED <<latePublishes, usedUids, torn, ops, failures>>

\* Mutants of PutMetaOf: the counter misses a chunk, or counts one too many.
PutMetaOneShort(call) == [obj |-> call.obj, uid |-> UidOf[call.obj],
                          size |-> SizeOf[call.obj], chunks |-> call.chunks - 1,
                          deleted |-> FALSE]
PutMetaOneMore(call) == [obj |-> call.obj, uid |-> UidOf[call.obj],
                         size |-> SizeOf[call.obj], chunks |-> call.chunks + 1,
                         deleted |-> FALSE]

PutMetaOf(call) == [obj |-> call.obj, uid |-> UidOf[call.obj],
                    size |-> SizeOf[call.obj], chunks |-> call.chunks,
                    deleted |-> FALSE]

\* Mutant of PutMeta: the metadata is published before the last chunk, and the
\* put goes on.
PutMetaEarly(c) ==
    /\ op[c].pc = "put"
    /\ op[c].pos # 0
    /\ StoreMeta(op[c].name, PutMetaOf(op[c]))
    /\ op' = [op EXCEPT ![c] = IF op[c].pos = SizeOf[op[c].obj] THEN Idle ELSE @]
    /\ UNCHANGED <<latePublishes, usedUids, torn, ops, failures>>

PutMeta(c) ==
    /\ op[c].pc = "put"
    /\ op[c].pos = SizeOf[op[c].obj]
    /\ StoreMeta(op[c].name, PutMetaOf(op[c]))
    /\ op' = [op EXCEPT ![c] = Idle]
    /\ UNCHANGED <<latePublishes, usedUids, torn, ops, failures>>

-----------------------------------------------------------------------------
(* get: the meta, then an ordered subscription to the subject of its uid    *)
(* from the first message there, from which it takes meta.chunks messages. *)

Get(c, n) ==
    /\ HasInfo(n)
    /\ Begin(c, Call("get", NoObject, n, Info(n)))
    /\ UNCHANGED <<stream, latePublishes, usedUids, torn, failures>>

Wanted(call) == Len(call.arrived) < call.meta.chunks

\* The position of the message the server delivers next.
NextIndex(call) ==
    LET floor == chunkFloor[call.meta.uid]
    IN  (IF call.cursor < floor THEN floor ELSE call.cursor) + 1

Deliverable(call) == NextIndex(call) <= Len(chunkLog[call.meta.uid])

\* Mutant of Taken: the reader's position stays where it was.
TakenAgain(call, i) ==
    [call EXCEPT !.arrived = Append(@, chunkLog[call.meta.uid][i])]

Taken(call, i) == [call EXCEPT !.arrived = Append(@, chunkLog[call.meta.uid][i]),
                               !.cursor = i]

GetChunk(c) ==
    /\ op[c].pc = "get"
    /\ Wanted(op[c])
    /\ Deliverable(op[c])
    /\ op' = [op EXCEPT ![c] = Taken(@, NextIndex(@))]
    /\ UNCHANGED <<stream, latePublishes, usedUids, torn, ops, failures>>

\* No chunk is left to come, so next() throws after chunkTimeoutMs.  (It also
\* throws when a chunk comes too late: that is Refused.)
GetTimeout(c) ==
    /\ op[c].pc = "get"
    /\ Wanted(op[c])
    /\ ~Deliverable(op[c])
    /\ op' = [op EXCEPT ![c] = Idle]
    /\ UNCHANGED <<stream, latePublishes, usedUids, torn, ops, failures>>

GetReturn(c) ==
    /\ op[c].pc = "get"
    /\ ~Wanted(op[c])
    /\ op' = [op EXCEPT ![c] = Idle]
    /\ UNCHANGED <<stream, latePublishes, usedUids, torn, ops, failures>>

-----------------------------------------------------------------------------
(* remove: the meta, a purge of the subject of its uid, the delete marker.  *)

Remove(c, n) ==
    /\ HasInfo(n)
    /\ Begin(c, Call("purge", NoObject, n, Info(n)))
    /\ UNCHANGED <<stream, latePublishes, usedUids, torn, failures>>

\* Mutant of Purged: remove returns after the purge.
PurgedOnly(call) == Idle

Purged(call) == [call EXCEPT !.pc = "mark"]

RemovePurge(c) ==
    /\ op[c].pc = "purge"
    /\ PurgeChunks(op[c].meta.uid)
    /\ op' = [op EXCEPT ![c] = Purged(@)]
    /\ UNCHANGED <<latePublishes, usedUids, torn, ops, failures>>

RemoveMark(c) ==
    /\ op[c].pc = "mark"
    /\ StoreMeta(op[c].name, DeleteMarker)
    /\ op' = [op EXCEPT ![c] = Idle]
    /\ UNCHANGED <<latePublishes, usedUids, torn, ops, failures>>

-----------------------------------------------------------------------------
(* Failures.  A publish or purge that is refused throws; one whose answer   *)
(* does not come in time throws too, but the request may still reach the    *)
(* server later; a process that dies leaves its request behind likewise.    *)

Aborted(c) ==
    /\ op[c].pc # "idle"
    /\ failures < MaxFailures
    /\ failures' = failures + 1
    /\ op' = [op EXCEPT ![c] = Idle]
    /\ torn' = IF op[c].pc \in {"purge", "mark"}
               THEN torn \cup {op[c].meta.uid} ELSE torn
    /\ UNCHANGED <<stream, usedUids, ops>>

Refused(c) ==
    /\ Aborted(c)
    /\ UNCHANGED latePublishes

AbandonChunk(c) ==
    /\ op[c].pc = "put"
    /\ op[c].pos # SizeOf[op[c].obj]
    /\ Aborted(c)
    /\ lateChunks' = lateChunks \cup {[uid |-> UidOf[op[c].obj],
                                       chunk |-> ChunkAt(op[c].obj, op[c].pos)]}
    /\ UNCHANGED <<lateMetas, latePurges>>

\* The publish a call leaves behind, with a number that no other one has.
GivenUp(c, meta) == [name |-> op[c].name, meta |-> meta, number |-> failures]

AbandonPutMeta(c) ==
    /\ op[c].pc = "put"
    /\ op[c].pos = SizeOf[op[c].obj]
    /\ Aborted(c)
    /\ lateMetas' = lateMetas \cup {GivenUp(c, PutMetaOf(op[c]))}
    /\ UNCHANGED <<lateChunks, latePurges>>

AbandonPurge(c) ==
    /\ op[c].pc = "purge"
    /\ Aborted(c)
    /\ latePurges' = latePurges \cup {op[c].meta.uid}
    /\ UNCHANGED <<lateChunks, lateMetas>>

AbandonMark(c) ==
    /\ op[c].pc = "mark"
    /\ Aborted(c)
    /\ lateMetas' = lateMetas \cup {GivenUp(c, DeleteMarker)}
    /\ UNCHANGED <<lateChunks, latePurges>>

LateChunk(r) ==
    /\ StoreChunk(r.uid, r.chunk)
    /\ lateChunks' = lateChunks \ {r}
    /\ UNCHANGED <<op, lateMetas, latePurges, usedUids, torn, ops, failures>>

LateMeta(r) ==
    /\ StoreMeta(r.name, r.meta)
    /\ lateMetas' = lateMetas \ {r}
    /\ UNCHANGED <<op, lateChunks, latePurges, usedUids, torn, ops, failures>>

LatePurge(u) ==
    /\ PurgeChunks(u)
    /\ latePurges' = latePurges \ {u}
    /\ UNCHANGED <<op, lateChunks, lateMetas, usedUids, torn, ops, failures>>

\* maxAge: the oldest message of a subject disappears.  Metadata ages too, later
\* than the chunks published before it; all that does is make info throw, which
\* disables Get and Remove, so it takes behaviours away and adds none.
Age(u) ==
    /\ Aging
    /\ chunkFloor[u] < Len(chunkLog[u])
    /\ chunkFloor' = [chunkFloor EXCEPT ![u] = @ + 1]
    /\ UNCHANGED <<chunkLog, metaLog, op, latePublishes, usedUids, torn, ops, failures>>

-----------------------------------------------------------------------------
\* Mutant of Progress: next() waits for ever.
ProgressWithoutTimeout(c) ==
    \/ PutChunk(c) \/ PutMeta(c)
    \/ GetChunk(c) \/ GetReturn(c)
    \/ RemovePurge(c) \/ RemoveMark(c)

\* The steps a call takes by itself once it has begun.
Progress(c) ==
    \/ PutChunk(c) \/ PutMeta(c)
    \/ GetChunk(c) \/ GetTimeout(c) \/ GetReturn(c)
    \/ RemovePurge(c) \/ RemoveMark(c)

Fail(c) ==
    \/ Refused(c)
    \/ AbandonChunk(c) \/ AbandonPutMeta(c) \/ AbandonPurge(c) \/ AbandonMark(c)

Late ==
    \/ \E r \in lateChunks : LateChunk(r)
    \/ \E r \in lateMetas : LateMeta(r)
    \/ \E u \in latePurges : LatePurge(u)

ClientStep(c) ==
    \/ \E o \in Objects : Put(c, o) \/ PutInvalid(c, o)
    \/ \E n \in Names : Get(c, n) \/ Remove(c, n)
    \/ Progress(c)
    \/ Fail(c)

Next ==
    \/ \E c \in Clients : ClientStep(c)
    \/ Late
    \/ \E u \in Uids : Age(u)

Spec == Init /\ [][Next]_vars

\* The caller's thread runs on: a call in progress gets an answer or a timeout.
FairSpec == Spec /\ \A c \in Clients : WF_vars(Progress(c))

-----------------------------------------------------------------------------
(* Properties *)

Calls == [pc : {"idle", "put", "get", "purge", "mark"},
          obj : Objects \cup {NoObject}, name : Names, meta : Meta, pos : Nat,
          chunks : Nat, arrived : Seq(Chunk), cursor : Nat]

TypeOK ==
    /\ chunkLog \in [Uids -> Seq(Chunk)]
    /\ chunkFloor \in [Uids -> Nat]
    /\ metaLog \in [Names -> Seq(Meta)]
    /\ op \in [Clients -> Calls]
    /\ \A c \in Clients : op[c].pc = "put" => op[c].obj \in Objects
    /\ lateChunks \subseteq [uid : Uids, chunk : Chunk]
    /\ lateMetas \subseteq [name : Names, meta : Meta, number : Nat]
    /\ latePurges \subseteq Uids
    /\ usedUids \subseteq Uids
    /\ torn \subseteq Uids
    /\ ops \in Nat
    /\ failures \in Nat

\* The chunks s are the bytes of o from the first to the one before end, in
\* order and without gap or overlap.
Tiles(s, o, end) ==
    /\ \A k \in 1..Len(s) :
        /\ s[k].obj = o
        /\ s[k].from = IF k = 1 THEN 0 ELSE s[k - 1].to
        /\ s[k].from < s[k].to
    /\ end = IF s = << >> THEN 0 ELSE s[Len(s)].to

\* A get that completes returns exactly the bytes of the object whose metadata
\* it read, and as many as meta.size says; a removed object has none.
GetIntegrity ==
    \A c \in Clients :
        op[c].pc = "get" /\ ~Wanted(op[c]) =>
            IF op[c].meta.deleted
            THEN op[c].arrived = << >>
            ELSE Tiles(op[c].arrived, op[c].meta.obj, op[c].meta.size)

Live(m) == ~m.deleted

\* A stored metadata message that is not a delete marker has all its chunks on
\* the stream, unless a remove that read it has purged them and has not yet
\* stored the marker, or never will because it failed.
Readable(m) ==
    /\ chunkFloor[m.uid] = 0
    /\ Len(chunkLog[m.uid]) = m.chunks

LiveIsReadable ==
    ~Aging =>
      \A n \in Names :
        HasInfo(n) /\ Live(Info(n)) =>
            \/ Readable(Info(n))
            \/ Info(n).uid \in torn
            \/ \E c \in Clients : op[c].pc = "mark" /\ op[c].meta.uid = Info(n).uid

\* Once an object's metadata is stored nothing is published on its chunk
\* subject any more, so a reader never meets a chunk of another put.
IsPublished(u) ==
    \E n \in Names : \E k \in 1..Len(metaLog[n]) :
        Live(metaLog[n][k]) /\ metaLog[n][k].uid = u

PublishedIsFrozen ==
    [][\A u \in Uids : IsPublished(u) => chunkLog'[u] = chunkLog[u]]_vars

\* A get is left waiting for chunks that never come only when some were purged
\* or aged: the metadata never promises more chunks than the put has stored.
TimeoutMeansGone ==
    \A c \in Clients :
        op[c].pc = "get" /\ Wanted(op[c]) /\ ~Deliverable(op[c])
            => chunkFloor[op[c].meta.uid] > 0

\* A remove takes the chunks of the named object away and of no other: a name
\* whose object was whole keeps it whole through every purge that is not part
\* of a remove of that name.
RemoveTouchesOnlyItsName ==
    [][\A c \in Clients, n \in Names :
        /\ RemovePurge(c)
        /\ n # op[c].name
        /\ HasInfo(n)
        /\ Live(Info(n))
        /\ Readable(Info(n))
        => Readable(Info(n))']_vars

\* README.md:507, "Set value if exists or create new key-value element": what a
\* get returns under a name is the data whose metadata the name holds, also when
\* the name had an object before.
SetReplaces ==
    \A c \in Clients :
        op[c].pc = "get" /\ ~Wanted(op[c]) /\ Live(op[c].meta) =>
            Tiles(op[c].arrived, op[c].meta.obj, op[c].meta.size)

\* Every call ends.
CallsEnd == \A c \in Clients : op[c].pc # "idle" ~> op[c].pc = "idle"

=============================================================================
