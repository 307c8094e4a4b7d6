-------------------------- MODULE ObjectStoreProofs --------------------------
(***************************************************************************)
(* Proofs about ObjectStore for callers that give every put a uid of its   *)
(* own (FreshUids).                                                        *)
(***************************************************************************)
EXTENDS ObjectStore, TLAPS

(***************************************************************************)
(* The inductive invariant.  Everything a reader relies on follows from    *)
(* metadata being sealed: by the time it can be stored, the chunk subject  *)
(* of its uid is finished and holds exactly the object.                    *)
(***************************************************************************)
Sealed(m) ==
    /\ m.obj \in Objects
    /\ m.uid = UidOf[m.obj]
    /\ m.uid \in usedUids \ {EmptyUid}
    /\ m.chunks = Len(chunkLog[m.uid])
    /\ Tiles(chunkLog[m.uid], m.obj, m.size)
    /\ m.size = SizeOf[m.obj] /\ m.size # 0
    /\ \A r \in lateChunks : r.uid # m.uid
    /\ \A c \in Clients : op[c].pc = "put" => UidOf[op[c].obj] # m.uid

WellFormed(m) == IF m.deleted THEN m = DeleteMarker ELSE Sealed(m)

Present(m) ==
    \/ \E n \in Names : \E k \in 1..Len(metaLog[n]) : metaLog[n][k] = m
    \/ \E r \in lateMetas : r.meta = m
    \/ \E c \in Clients : op[c].meta = m

MetaInv == \A m \in Meta : Present(m) => WellFormed(m)

\* A put owns the subject of its uid and has filled it up to pos.
PutOK(c) ==
    LET u == UidOf[op[c].obj]
    IN  /\ u \in usedUids \ {EmptyUid}
        /\ SizeOf[op[c].obj] # 0
        /\ op[c].pos <= SizeOf[op[c].obj]
        /\ op[c].chunks = Len(chunkLog[u])
        /\ Tiles(chunkLog[u], op[c].obj, op[c].pos)
        /\ \A r \in lateChunks : r.uid # u
        /\ \A d \in Clients \ {c} : op[d].pc = "put" => UidOf[op[d].obj] # u

PutInv == \A c \in Clients : op[c].pc = "put" => PutOK(c)

UnusedInv ==
    /\ EmptyUid \notin usedUids
    /\ \A u \in Uids \ usedUids : chunkLog[u] = << >>
    /\ \A r \in lateChunks : r.uid \in usedUids

\* A get that has skipped nothing has the first messages of the subject.
GetOK(c) ==
    LET u == op[c].meta.uid
    IN  /\ op[c].cursor <= Len(chunkLog[u])
        /\ Len(op[c].arrived) <= op[c].cursor
        /\ chunkFloor[u] = 0 => Len(op[c].arrived) = op[c].cursor
        /\ Len(op[c].arrived) = op[c].cursor =>
            \A k \in 1..op[c].cursor : op[c].arrived[k] = chunkLog[u][k]

GetInv == \A c \in Clients : op[c].pc = "get" => GetOK(c)

\* Only chunks that were stored can have gone.
FloorInv == \A u \in Uids : chunkFloor[u] <= Len(chunkLog[u])

SealInv == MetaInv /\ PutInv /\ UnusedInv /\ GetInv

(***************************************************************************)
(* What a remove leaves behind.  Every uid that may lose chunks belongs to *)
(* one published metadata message, of one name.                            *)
(***************************************************************************)
HomeInv ==
    \A m, n \in Names : \A j \in 1..Len(metaLog[m]) : \A k \in 1..Len(metaLog[n]) :
        Live(metaLog[m][j]) /\ metaLog[m][j].uid = metaLog[n][k].uid => m = n

LateInv ==
    \A r \in lateMetas : Live(r.meta) =>
        /\ ~IsPublished(r.meta.uid)
        /\ \A q \in lateMetas : q.meta.uid = r.meta.uid => q = r

\* A call holds metadata that its name's subject holds too.
ReadInv ==
    \A c \in Clients : op[c].pc \in {"get", "purge", "mark"} =>
        \E k \in 1..Len(metaLog[op[c].name]) : metaLog[op[c].name][k] = op[c].meta

\* A uid whose chunks went belongs to a removal: failed, about to store its
\* marker, or done, and then no name shows the uid any more.
Superseded(u) == \A n \in Names : HasInfo(n) => Info(n).uid # u
Removing(u) == \E c \in Clients : op[c].pc = "mark" /\ op[c].meta.uid = u
Gone(u) == IsPublished(u) /\ (u \in torn \/ Removing(u) \/ Superseded(u))

PurgeInv ==
    /\ latePurges \subseteq torn
    /\ \A u \in latePurges : u = EmptyUid \/ IsPublished(u)
    /\ ~Aging => \A u \in Uids : chunkFloor[u] > 0 => Gone(u)

RemoveInv == HomeInv /\ LateInv /\ ReadInv /\ PurgeInv

IInv == TypeOK /\ FloorInv /\ SealInv /\ RemoveInv

-----------------------------------------------------------------------------
USE DEF stream, latePublishes

LEMMA TypeInit == Init => TypeOK
  BY EmptyAssumption DEF Init, TypeOK, Idle, Call, Calls, DeleteMarker, Meta

\* The steps of Next, one name each, as the proofs below split it.
LEMMA NextCases ==
    ASSUME NEW P, [Next]_vars,
           \A c \in Clients : \A o \in Objects : Put(c, o) => P,
           \A c \in Clients : \A o \in Objects : PutInvalid(c, o) => P,
           \A c \in Clients : PutChunk(c) => P,
           \A c \in Clients : PutMeta(c) => P,
           \A c \in Clients : \A n \in Names : Get(c, n) => P,
           \A c \in Clients : GetChunk(c) => P,
           \A c \in Clients : GetTimeout(c) \/ GetReturn(c) => P,
           \A c \in Clients : \A n \in Names : Remove(c, n) => P,
           \A c \in Clients : RemovePurge(c) => P,
           \A c \in Clients : RemoveMark(c) => P,
           \A c \in Clients : Fail(c) => P,
           \A r \in lateChunks : LateChunk(r) => P,
           \A r \in lateMetas : LateMeta(r) => P,
           \A u \in latePurges : LatePurge(u) => P,
           \A u \in Uids : Age(u) => P,
           UNCHANGED vars => P
    PROVE  P
  BY DEF Next, ClientStep, Progress, Late

LEMMA CallType ==
    ASSUME NEW o \in Objects \cup {NoObject}, NEW n \in Names, NEW m \in Meta,
           NEW pc \in {"idle", "put", "get", "purge", "mark"}
    PROVE  Call(pc, o, n, m) \in Calls
  BY DEF Call, Calls

LEMMA MarkerType ==
    DeleteMarker \in Meta /\ Idle \in Calls /\ Idle.pc = "idle"
  <1>1. DeleteMarker \in Meta
    BY EmptyAssumption DEF DeleteMarker, Meta
  <1> QED
    BY <1>1, CallType, EmptyAssumption DEF Idle, Call

\* Updates of a call, field by field.
LEMMA SentType ==
    ASSUME NEW r \in Calls, NEW ch \in Chunk
    PROVE  LET x == Sent(r, ch)
           IN  /\ x \in Calls
               /\ x.pc = r.pc /\ x.obj = r.obj /\ x.name = r.name /\ x.meta = r.meta
               /\ x.pos = ch.to /\ x.chunks = r.chunks + 1
               /\ x.arrived = r.arrived /\ x.cursor = r.cursor
  <1> DEFINE y == [r EXCEPT !.pos = ch.to]
  <1>1. /\ y \in Calls /\ y.pos = ch.to
        /\ y.pc = r.pc /\ y.obj = r.obj /\ y.name = r.name /\ y.meta = r.meta
        /\ y.chunks = r.chunks /\ y.arrived = r.arrived /\ y.cursor = r.cursor
    BY DEF Calls, Chunk
  <1>2. Sent(r, ch) = [y EXCEPT !.chunks = y.chunks + 1]
    BY DEF Sent
  <1> HIDE DEF y
  <1> QED
    BY <1>1, <1>2 DEF Calls

LEMMA TakenType ==
    ASSUME NEW r \in Calls, chunkLog \in [Uids -> Seq(Chunk)],
           NEW i \in 1..Len(chunkLog[r.meta.uid])
    PROVE  LET x == Taken(r, i)
           IN  /\ x \in Calls
               /\ x.pc = r.pc /\ x.obj = r.obj /\ x.name = r.name /\ x.meta = r.meta
               /\ x.pos = r.pos /\ x.chunks = r.chunks
               /\ x.arrived = Append(r.arrived, chunkLog[r.meta.uid][i])
               /\ x.cursor = i
  <1>1. r.meta.uid \in Uids /\ r.arrived \in Seq(Chunk)
    BY DEF Calls, Meta
  <1>2. chunkLog[r.meta.uid][i] \in Chunk /\ i \in Nat
    BY <1>1
  <1> DEFINE a == Append(r.arrived, chunkLog[r.meta.uid][i])
             y == [r EXCEPT !.arrived = a]
  <1>3. a \in Seq(Chunk)
    BY <1>1, <1>2
  <1>4. Taken(r, i) = [y EXCEPT !.cursor = i]
    BY DEF Taken
  <1> HIDE DEF a
  <1>5. /\ y \in Calls /\ y.arrived = a
        /\ y.pc = r.pc /\ y.obj = r.obj /\ y.name = r.name /\ y.meta = r.meta
        /\ y.pos = r.pos /\ y.chunks = r.chunks /\ y.cursor = r.cursor
    BY <1>3 DEF Calls
  <1> HIDE DEF y
  <1>6. [y EXCEPT !.cursor = i].arrived = a
    BY <1>5 DEF Calls
  <1> QED
    BY <1>2, <1>4, <1>5, <1>6 DEF Calls, a

LEMMA PurgedType ==
    ASSUME NEW r \in Calls
    PROVE  LET x == Purged(r)
           IN  /\ x \in Calls
               /\ x.pc = "mark" /\ x.obj = r.obj /\ x.name = r.name /\ x.meta = r.meta
               /\ x.pos = r.pos /\ x.chunks = r.chunks
               /\ x.arrived = r.arrived /\ x.cursor = r.cursor
  BY DEF Calls, Purged

LEMMA OpUpdate ==
    ASSUME TypeOK, NEW c \in Clients, NEW x \in Calls,
           x.pc = "put" => x.obj \in Objects,
           op' = [op EXCEPT ![c] = x]
    PROVE  /\ op' \in [Clients -> Calls]
           /\ \A d \in Clients : op'[d].pc = "put" => op'[d].obj \in Objects
  BY DEF TypeOK

LEMMA InfoType ==
    ASSUME TypeOK, NEW n \in Names, HasInfo(n)
    PROVE  /\ Len(metaLog[n]) \in 1..Len(metaLog[n])
           /\ Info(n) \in Meta
  BY DEF TypeOK, HasInfo, Info

LEMMA ChunkType ==
    ASSUME NEW o \in Objects, NEW pos \in Nat
    PROVE  /\ ChunkAt(o, pos) \in Chunk
           /\ ChunkEnd(o, pos) \in Nat
           /\ pos <= SizeOf[o] => ChunkEnd(o, pos) <= SizeOf[o]
           /\ pos < SizeOf[o] => pos < ChunkEnd(o, pos)
  BY ChunkSizeAssumption, ObjectsAssumption DEF ChunkAt, Chunk, ChunkEnd

LEMMA NextIndexType ==
    ASSUME TypeOK, NEW r \in Calls, Deliverable(r)
    PROVE  /\ NextIndex(r) \in 1..Len(chunkLog[r.meta.uid])
           /\ NextIndex(r) > r.cursor /\ NextIndex(r) > chunkFloor[r.meta.uid]
           /\ NextIndex(r) = r.cursor + 1 \/ chunkFloor[r.meta.uid] > r.cursor
  <1>1. r.meta.uid \in Uids /\ r.cursor \in Nat
    BY DEF Calls, Meta
  <1>2. chunkFloor[r.meta.uid] \in Nat /\ Len(chunkLog[r.meta.uid]) \in Nat
    BY <1>1 DEF TypeOK
  <1> QED
    BY <1>1, <1>2 DEF NextIndex, Deliverable

LEMMA PutMetaType ==
    ASSUME TypeOK, NEW c \in Clients, op[c].pc = "put"
    PROVE  PutMetaOf(op[c]) \in Meta
  BY ObjectsAssumption DEF TypeOK, Calls, PutMetaOf, Meta

LEMMA FailCases ==
    ASSUME NEW c \in Clients, Fail(c)
    PROVE  /\ Aborted(c)
           /\ \/ UNCHANGED latePublishes
              \/ /\ op[c].pc = "put" /\ op[c].pos # SizeOf[op[c].obj]
                 /\ lateChunks' = lateChunks \cup
                        {[uid |-> UidOf[op[c].obj],
                          chunk |-> ChunkAt(op[c].obj, op[c].pos)]}
                 /\ UNCHANGED <<lateMetas, latePurges>>
              \/ /\ op[c].pc = "put" /\ op[c].pos = SizeOf[op[c].obj]
                 /\ lateMetas' = lateMetas \cup
                        {GivenUp(c, PutMetaOf(op[c]))}
                 /\ UNCHANGED <<lateChunks, latePurges>>
              \/ /\ op[c].pc = "purge"
                 /\ latePurges' = latePurges \cup {op[c].meta.uid}
                 /\ UNCHANGED <<lateChunks, lateMetas>>
              \/ /\ op[c].pc = "mark"
                 /\ lateMetas' = lateMetas \cup
                        {GivenUp(c, DeleteMarker)}
                 /\ UNCHANGED <<lateChunks, latePurges>>
  BY DEF Fail, Refused, AbandonChunk, AbandonPutMeta, AbandonPurge, AbandonMark

-----------------------------------------------------------------------------
LEMMA TypeStep == TypeOK /\ [Next]_vars => TypeOK'
  <1> SUFFICES ASSUME TypeOK, [Next]_vars PROVE TypeOK'
    OBVIOUS
  <1> USE ObjectsAssumption
  <1>0. ASSUME NEW c \in Clients, NEW x \in Calls, x.pc = "put" => x.obj \in Objects,
               op' = [op EXCEPT ![c] = x],
               UNCHANGED <<stream, latePublishes, torn, failures>>,
               usedUids' \subseteq Uids, ops' \in Nat
        PROVE  TypeOK'
    BY <1>0, OpUpdate DEF TypeOK
  <1>1. ASSUME NEW c \in Clients, NEW o \in Objects, Put(c, o) PROVE TypeOK'
    <2>1. Call("put", o, NameOf[o], DeleteMarker) \in Calls
      BY CallType, MarkerType
    <2>2. Call("put", o, NameOf[o], DeleteMarker).obj = o
      BY DEF Call
    <2> QED
      BY <1>0, <1>1, <2>1, <2>2 DEF Put, Begin, TypeOK
  <1>2. ASSUME NEW c \in Clients, NEW o \in Objects, PutInvalid(c, o) PROVE TypeOK'
    BY <1>0, <1>2, MarkerType DEF PutInvalid, Begin, TypeOK
  <1>3. ASSUME NEW c \in Clients, PutChunk(c) PROVE TypeOK'
    <2> DEFINE o == op[c].obj
               ch == ChunkAt(o, op[c].pos)
    <2>1. o \in Objects /\ op[c] \in Calls /\ UidOf[o] \in Uids
      BY <1>3 DEF PutChunk, TypeOK
    <2>2. ch \in Chunk
      BY <2>1, ChunkType DEF Calls
    <2>3. op' = [op EXCEPT ![c] = Sent(op[c], ch)]
      BY <1>3 DEF PutChunk
    <2>4. chunkLog' \in [Uids -> Seq(Chunk)]
      BY <1>3, <2>1, <2>2 DEF PutChunk, StoreChunk, TypeOK
    <2>5. UNCHANGED <<chunkFloor, metaLog, latePublishes, usedUids, torn, ops, failures>>
      BY <1>3 DEF PutChunk, StoreChunk
    <2>6. Sent(op[c], ch) \in Calls /\ Sent(op[c], ch).obj = o
      BY <2>1, <2>2, SentType
    <2> HIDE DEF o, ch
    <2> QED
      BY <2>1, <2>3, <2>4, <2>5, <2>6, OpUpdate DEF TypeOK
  <1>4. ASSUME NEW c \in Clients, PutMeta(c) PROVE TypeOK'
    <2>1. PutMetaOf(op[c]) \in Meta /\ op[c].name \in Names
      BY <1>4, PutMetaType DEF PutMeta, Calls, TypeOK
    <2>2. metaLog' \in [Names -> Seq(Meta)]
      BY <1>4, <2>1 DEF PutMeta, StoreMeta, TypeOK
    <2> QED
      BY <1>4, <2>2, OpUpdate, MarkerType DEF PutMeta, StoreMeta, TypeOK
  <1>5. ASSUME NEW c \in Clients, NEW n \in Names, Get(c, n) PROVE TypeOK'
    <2>1. Call("get", NoObject, n, Info(n)) \in Calls
      BY <1>5, CallType, InfoType DEF Get
    <2>2. Call("get", NoObject, n, Info(n)).pc = "get"
      BY DEF Call
    <2> QED
      BY <1>0, <1>5, <2>1, <2>2 DEF Get, Begin, TypeOK
  <1>6. ASSUME NEW c \in Clients, GetChunk(c) PROVE TypeOK'
    <2>1. op[c] \in Calls /\ op[c].pc = "get" /\ Deliverable(op[c])
      BY <1>6 DEF TypeOK, GetChunk
    <2>2. NextIndex(op[c]) \in 1..Len(chunkLog[op[c].meta.uid])
      BY <2>1, NextIndexType
    <2>3. op' = [op EXCEPT ![c] = Taken(op[c], NextIndex(op[c]))]
      BY <1>6 DEF GetChunk
    <2>4. /\ Taken(op[c], NextIndex(op[c])) \in Calls
          /\ Taken(op[c], NextIndex(op[c])).pc = "get"
      BY <2>1, <2>2, TakenType DEF TypeOK
    <2> QED
      BY <1>0, <1>6, <2>3, <2>4 DEF GetChunk, TypeOK
  <1>7. ASSUME NEW c \in Clients, GetTimeout(c) \/ GetReturn(c) PROVE TypeOK'
    BY <1>0, <1>7, MarkerType DEF GetTimeout, GetReturn, TypeOK
  <1>8. ASSUME NEW c \in Clients, NEW n \in Names, Remove(c, n) PROVE TypeOK'
    <2>1. Call("purge", NoObject, n, Info(n)) \in Calls
      BY <1>8, CallType, InfoType DEF Remove
    <2>2. Call("purge", NoObject, n, Info(n)).pc = "purge"
      BY DEF Call
    <2> QED
      BY <1>0, <1>8, <2>1, <2>2 DEF Remove, Begin, TypeOK
  <1>9. ASSUME NEW c \in Clients, RemovePurge(c) PROVE TypeOK'
    <2>1. op[c] \in Calls /\ op[c].meta.uid \in Uids
      BY DEF Calls, Meta, TypeOK
    <2>2. op' = [op EXCEPT ![c] = Purged(op[c])]
      BY <1>9 DEF RemovePurge
    <2>3. chunkFloor' \in [Uids -> Nat]
      BY <1>9, <2>1 DEF RemovePurge, PurgeChunks, TypeOK
    <2> QED
      BY <1>9, <2>1, <2>2, <2>3, PurgedType, OpUpdate DEF RemovePurge, PurgeChunks, TypeOK
  <1>10. ASSUME NEW c \in Clients, RemoveMark(c) PROVE TypeOK'
    <2>0. DeleteMarker \in Meta /\ op[c].name \in Names
      BY MarkerType DEF TypeOK, Calls
    <2>1. metaLog' \in [Names -> Seq(Meta)]
      BY <1>10, <2>0 DEF RemoveMark, StoreMeta, TypeOK
    <2> QED
      BY <1>10, <2>1, OpUpdate, MarkerType DEF RemoveMark, StoreMeta, TypeOK
  <1>11. ASSUME NEW c \in Clients, Fail(c) PROVE TypeOK'
    <2>1. op[c] \in Calls /\ op[c].meta.uid \in Uids /\ op[c].name \in Names
      BY DEF Calls, Meta, TypeOK
    <2>2. Aborted(c)
      BY <1>11, FailCases
    <2>3. /\ op' \in [Clients -> Calls]
          /\ \A d \in Clients : op'[d].pc = "put" => op'[d].obj \in Objects
      BY <2>2, MarkerType, OpUpdate DEF Aborted
    <2>4. lateChunks' \subseteq [uid : Uids, chunk : Chunk]
      <3>1. CASE op[c].pc # "put"
        BY <1>11, <3>1, FailCases DEF TypeOK
      <3>2. CASE op[c].pc = "put"
        <4>1. ChunkAt(op[c].obj, op[c].pos) \in Chunk /\ UidOf[op[c].obj] \in Uids
          BY <2>1, <3>2, ChunkType DEF TypeOK, Calls
        <4>2. [uid |-> UidOf[op[c].obj], chunk |-> ChunkAt(op[c].obj, op[c].pos)]
                 \in [uid : Uids, chunk : Chunk]
          BY <4>1
        <4>3. \/ UNCHANGED lateChunks
              \/ lateChunks' = lateChunks \cup {[uid |-> UidOf[op[c].obj],
                                   chunk |-> ChunkAt(op[c].obj, op[c].pos)]}
          BY <1>11, FailCases
        <4> QED
          BY <4>2, <4>3 DEF TypeOK
      <3> QED
        BY <3>1, <3>2
    <2>5. lateMetas' \subseteq [name : Names, meta : Meta, number : Nat]
      <3>1. op[c].pc = "put" => PutMetaOf(op[c]) \in Meta
        BY PutMetaType
      <3>2. \/ UNCHANGED lateMetas
            \/ \E m \in Meta :
                  lateMetas' = lateMetas \cup {GivenUp(c, m)}
        BY <1>11, <3>1, FailCases, MarkerType
      <3> QED
        BY <2>1, <3>2 DEF TypeOK, GivenUp
    <2>6. latePurges' \subseteq Uids
      BY <1>11, <2>1, FailCases DEF TypeOK
    <2> QED
      BY <2>1, <2>2, <2>3, <2>4, <2>5, <2>6 DEF Aborted, TypeOK
  <1>12. ASSUME NEW r \in lateChunks, LateChunk(r) PROVE TypeOK'
    BY <1>12 DEF LateChunk, StoreChunk, TypeOK
  <1>13. ASSUME NEW r \in lateMetas, LateMeta(r) PROVE TypeOK'
    BY <1>13 DEF LateMeta, StoreMeta, TypeOK
  <1>14. ASSUME NEW u \in latePurges, LatePurge(u) PROVE TypeOK'
    BY <1>14 DEF LatePurge, PurgeChunks, TypeOK
  <1>15. ASSUME NEW u \in Uids, Age(u) PROVE TypeOK'
    BY <1>15 DEF Age, TypeOK
  <1>16. ASSUME UNCHANGED vars PROVE TypeOK'
    BY <1>16 DEF vars, TypeOK
  <1> QED
    BY <1>1, <1>2, <1>3, <1>4, <1>5, <1>6, <1>7, <1>8, <1>9, <1>10, <1>11,
       <1>12, <1>13, <1>14, <1>15, <1>16, NextCases

\* Every variable keeps its type.
THEOREM TypeCorrect == Spec => []TypeOK
  BY TypeInit, TypeStep, PTL DEF Spec

-----------------------------------------------------------------------------
LEMMA TilesEmpty == ASSUME NEW o PROVE Tiles(<< >>, o, 0)
  BY DEF Tiles

\* One more chunk continues the tiling.
LEMMA TilesAppend ==
    ASSUME NEW s \in Seq(Chunk), NEW o, NEW pos, NEW end,
           Tiles(s, o, pos), NEW ch \in Chunk,
           ch.obj = o, ch.from = pos, ch.to = end, pos < end
    PROVE  Tiles(Append(s, ch), o, end)
  <1> DEFINE t == Append(s, ch)
  <1>1. t \in Seq(Chunk) /\ Len(t) = Len(s) + 1 /\ t[Len(t)] = ch
    OBVIOUS
  <1>2. \A k \in 1..Len(s) : t[k] = s[k]
    OBVIOUS
  <1>3. ASSUME NEW k \in 1..Len(t)
        PROVE  /\ t[k].obj = o
               /\ t[k].from = IF k = 1 THEN 0 ELSE t[k - 1].to
               /\ t[k].from < t[k].to
    <2>1. CASE k \in 1..Len(s)
      <3>1. k # 1 => k - 1 \in 1..Len(s)
        BY <2>1
      <3> QED
        BY <1>2, <2>1, <3>1 DEF Tiles
    <2>2. CASE k = Len(t)
      <3>1. t[k] = ch
        BY <1>1, <2>2
      <3>2. CASE s = << >>
        BY <1>1, <2>2, <3>1, <3>2 DEF Tiles
      <3>3. CASE s # << >>
        <4>1. Len(s) \in 1..Len(s) /\ k # 1 /\ k - 1 = Len(s)
          BY <1>1, <2>2, <3>3
        <4> QED
          BY <1>2, <3>1, <3>3, <4>1 DEF Tiles
      <3> QED
        BY <3>2, <3>3
    <2> QED
      BY <1>1, <2>1, <2>2
  <1>4. t # << >>
    BY <1>1
  <1> HIDE DEF t
  <1>5. Tiles(t, o, end)
    BY <1>1, <1>3, <1>4 DEF Tiles
  <1> QED
    BY <1>5 DEF t

(***************************************************************************)
(* A step that touches the chunk subjects of U only, by storing a chunk,   *)
(* leaving one on its way, or starting a put.                              *)
(***************************************************************************)
Frame(U) ==
    /\ \A w \in Uids \ U : chunkLog'[w] = chunkLog[w]
    /\ \A w \in Uids : chunkFloor'[w] = 0 => chunkFloor[w] = 0
    /\ usedUids \subseteq usedUids'
    /\ U \subseteq usedUids'
    /\ EmptyUid \notin usedUids'
    /\ \A r \in lateChunks' : r \in lateChunks \/ r.uid \in U
    /\ \A c \in Clients : op'[c].pc = "put" =>
        \/ op'[c] = op[c]
        \/ UidOf[op'[c].obj] \in U

LEMMA FrameMeta ==
    ASSUME NEW U, Frame(U), NEW m \in Meta, WellFormed(m), Live(m) => m.uid \notin U
    PROVE  WellFormed(m)'
  <1>1. CASE m.deleted
    BY <1>1 DEF WellFormed
  <1>2. CASE ~m.deleted
    BY <1>2 DEF WellFormed, Sealed, Live, Frame, Meta
  <1> QED
    BY <1>1, <1>2

LEMMA FramePut ==
    ASSUME TypeOK, PutInv, NEW U, Frame(U), NEW c \in Clients,
           op'[c].pc = "put", UidOf[op'[c].obj] \notin U
    PROVE  PutOK(c)'
  <1>1. op'[c] = op[c] /\ op[c].pc = "put" /\ op[c].obj \in Objects
    BY DEF Frame, TypeOK
  <1>2. UidOf[op[c].obj] \in Uids \ U
    BY <1>1, ObjectsAssumption
  <1>3. PutOK(c)
    BY <1>1 DEF PutInv
  <1>4. \A d \in Clients \ {c} : op'[d].pc = "put" => UidOf[op'[d].obj] # UidOf[op[c].obj]
    BY <1>1, <1>2, <1>3 DEF Frame, PutOK
  <1> QED
    BY <1>1, <1>2, <1>3, <1>4 DEF Frame, PutOK

LEMMA FrameGet ==
    ASSUME TypeOK, NEW U, Frame(U), NEW c \in Clients, GetOK(c), op'[c] = op[c],
           op[c].meta.uid \notin U
    PROVE  GetOK(c)'
  <1>1. op[c].meta.uid \in Uids \ U
    BY DEF TypeOK, Calls, Meta
  <1> QED
    BY <1>1 DEF Frame, GetOK

LEMMA SealFrame ==
    ASSUME TypeOK, TypeOK', SealInv, NEW U \in SUBSET Uids, Frame(U),
           \A m \in Meta : Live(m) /\ WellFormed(m) => m.uid \notin U,
           \A m \in Meta : Present(m)' => Present(m) \/ WellFormed(m)',
           \A c \in Clients :
                op'[c].pc = "put" /\ UidOf[op'[c].obj] \in U => PutOK(c)',
           \A c \in Clients : op'[c].pc = "get" => op'[c] = op[c] \/ GetOK(c)'
    PROVE  SealInv'
  <1>1. MetaInv'
    BY FrameMeta DEF SealInv, MetaInv
  <1>2. PutInv'
    BY FramePut DEF SealInv, PutInv
  <1>3. UnusedInv'
    BY DEF SealInv, UnusedInv, Frame
  <1>4. GetInv'
    <2> SUFFICES ASSUME NEW c \in Clients, op'[c].pc = "get", op'[c] = op[c]
                 PROVE  GetOK(c)'
      BY DEF GetInv
    <2>1. op[c].meta \in Meta /\ Present(op[c].meta)
      BY DEF TypeOK, Calls, Present
    <2>2. WellFormed(op[c].meta)
      BY <2>1 DEF SealInv, MetaInv
    <2>3. op[c].meta.uid \notin U
      BY <2>1, <2>2 DEF WellFormed, DeleteMarker, Live, Frame
    <2> QED
      BY <2>3, FrameGet DEF SealInv, GetInv
  <1> QED
    BY <1>1, <1>2, <1>3, <1>4 DEF SealInv

\* A step that touches no chunk subject and starts no put.
LEMMA SealQuiet ==
    ASSUME TypeOK, TypeOK', SealInv,
           UNCHANGED <<chunkLog, lateChunks, usedUids>>,
           \A w \in Uids : chunkFloor'[w] = 0 => chunkFloor[w] = 0,
           \A c \in Clients : op'[c].pc = "put" => op'[c] = op[c],
           \A m \in Meta : Present(m)' => Present(m) \/ WellFormed(m)',
           \A c \in Clients : op'[c].pc = "get" => op'[c] = op[c] \/ GetOK(c)'
    PROVE  SealInv'
  <1>1. Frame({})
    BY DEF Frame, SealInv, UnusedInv
  <1> QED
    BY <1>1, SealFrame

LEMMA SealInit == Init => SealInv
  <1> SUFFICES ASSUME Init PROVE SealInv
    OBVIOUS
  <1>1. \A c \in Clients : op[c] = Idle /\ op[c].pc = "idle" /\ op[c].meta = DeleteMarker
    BY DEF Init, Idle, Call
  <1>2. MetaInv
    BY <1>1 DEF Init, MetaInv, Present, WellFormed, DeleteMarker
  <1>3. PutInv /\ UnusedInv /\ GetInv
    BY <1>1 DEF Init, PutInv, UnusedInv, GetInv
  <1> QED
    BY <1>2, <1>3 DEF SealInv

LEMMA MarkerOK == WellFormed(DeleteMarker) /\ WellFormed(DeleteMarker)'
  BY DEF WellFormed, DeleteMarker

\* A call that ends, and what it leaves on the stream or on its way.
LEMMA SealEnd ==
    ASSUME TypeOK, TypeOK', SealInv, NEW c \in Clients, op' = [op EXCEPT ![c] = Idle],
           UNCHANGED <<chunkLog, lateChunks, usedUids>>,
           \A w \in Uids : chunkFloor'[w] = 0 => chunkFloor[w] = 0,
           \A n \in Names : \A m \in Meta :
                (\E k \in 1..Len(metaLog'[n]) : metaLog'[n][k] = m) =>
                    \/ \E k \in 1..Len(metaLog[n]) : metaLog[n][k] = m
                    \/ WellFormed(m)',
           \A r \in lateMetas' : \A m \in Meta :
                r.meta = m => r \in lateMetas \/ WellFormed(m)'
    PROVE  SealInv'
  <1>1. \A d \in Clients : op'[d] = op[d] \/ op'[d] = Idle
    BY DEF TypeOK
  <1>2. Idle.pc = "idle" /\ Idle.meta = DeleteMarker
    BY DEF Idle, Call
  <1>3. \A d \in Clients : op'[d].pc \in {"put", "get"} => op'[d] = op[d]
    BY <1>1, <1>2
  <1>4. \A m \in Meta : Present(m)' => Present(m) \/ WellFormed(m)'
    <2> SUFFICES ASSUME NEW m \in Meta, Present(m)' PROVE Present(m) \/ WellFormed(m)'
      OBVIOUS
    <2>1. CASE \E n \in Names : \E k \in 1..Len(metaLog'[n]) : metaLog'[n][k] = m
      BY <2>1 DEF Present
    <2>2. CASE \E r \in lateMetas' : r.meta = m
      BY <2>2 DEF Present
    <2>3. CASE \E d \in Clients : op'[d].meta = m
      BY <2>3, <1>1, <1>2, MarkerOK DEF Present
    <2> QED
      BY <2>1, <2>2, <2>3 DEF Present
  <1> QED
    BY <1>3, <1>4, SealQuiet

LEMMA AppendMeta ==
    ASSUME TypeOK, NEW n \in Names, NEW x \in Meta, StoreMeta(n, x), NEW j \in Names
    PROVE  /\ metaLog'[j] = IF j = n THEN Append(metaLog[j], x) ELSE metaLog[j]
           /\ \A m \in Meta :
                (\E k \in 1..Len(metaLog'[j]) : metaLog'[j][k] = m) =>
                    \/ \E k \in 1..Len(metaLog[j]) : metaLog[j][k] = m
                    \/ m = x
  BY DEF TypeOK, StoreMeta

\* A put whose chunks are all stored may store its metadata.
LEMMA PutMetaSealed ==
    ASSUME TypeOK, PutInv, NEW c \in Clients, op[c].pc = "put",
           op[c].pos = SizeOf[op[c].obj], op' = [op EXCEPT ![c] = Idle],
           UNCHANGED <<chunkLog, lateChunks, usedUids>>
    PROVE  \A m \in Meta : m = PutMetaOf(op[c]) => WellFormed(m)'
  <1> DEFINE o == op[c].obj
             u == UidOf[o]
  <1>1. PutOK(c) /\ o \in Objects
    BY DEF PutInv, TypeOK
  <1>2. \A d \in Clients : op'[d].pc = "put" => d # c /\ op'[d] = op[d]
    BY DEF TypeOK, Idle, Call
  <1>3. \A d \in Clients : op'[d].pc = "put" => UidOf[op'[d].obj] # u
    BY <1>1, <1>2 DEF PutOK
  <1> SUFFICES ASSUME NEW m \in Meta, m = PutMetaOf(op[c]) PROVE WellFormed(m)'
    OBVIOUS
  <1>4. /\ m.obj = o /\ m.uid = u /\ m.size = SizeOf[o] /\ m.chunks = op[c].chunks
        /\ m.deleted = FALSE
    BY DEF PutMetaOf
  <1>5. /\ u \in usedUids \ {EmptyUid} /\ op[c].chunks = Len(chunkLog[u])
        /\ Tiles(chunkLog[u], o, SizeOf[o]) /\ SizeOf[o] # 0 /\ \A r \in lateChunks : r.uid # u
    BY <1>1 DEF PutOK
  <1> HIDE DEF o, u
  <1>6. /\ m.obj \in Objects /\ m.uid = UidOf[m.obj]
        /\ m.uid \in usedUids' \ {EmptyUid}
        /\ m.chunks = Len(chunkLog'[m.uid])
        /\ Tiles(chunkLog'[m.uid], m.obj, m.size)
        /\ m.size = SizeOf[m.obj] /\ m.size # 0
    BY <1>1, <1>4, <1>5 DEF o, u
  <1>7. /\ \A r \in lateChunks' : r.uid # m.uid
        /\ \A d \in Clients : op'[d].pc = "put" => UidOf[op'[d].obj] # m.uid
    BY <1>3, <1>4, <1>5
  <1>8. Sealed(m)'
    BY <1>6, <1>7 DEF Sealed
  <1> QED
    BY <1>4, <1>8 DEF WellFormed

\* A purge never brings a chunk back.
LEMMA PurgeKeepsGone ==
    ASSUME TypeOK, FloorInv, NEW u \in Uids, PurgeChunks(u)
    PROVE  \A w \in Uids : chunkFloor'[w] = 0 => chunkFloor[w] = 0
  BY DEF TypeOK, FloorInv, PurgeChunks

LEMMA FloorStep ==
    ASSUME TypeOK, FloorInv, [Next]_vars
    PROVE  FloorInv'
  <1> USE DEF FloorInv
  <1>1. ASSUME NEW u \in Uids, NEW ch, StoreChunk(u, ch) PROVE FloorInv'
    BY <1>1 DEF StoreChunk, TypeOK
  <1>2. ASSUME NEW u \in Uids, PurgeChunks(u) PROVE FloorInv'
    BY <1>2 DEF PurgeChunks, TypeOK
  <1>3. ASSUME UNCHANGED <<chunkLog, chunkFloor>> PROVE FloorInv'
    BY <1>3
  <1>4. ASSUME NEW c \in Clients, PutChunk(c) PROVE FloorInv'
    <2>1. UidOf[op[c].obj] \in Uids
      BY <1>4, ObjectsAssumption DEF PutChunk, TypeOK
    <2> QED
      BY <1>1, <1>4, <2>1 DEF PutChunk
  <1>5. ASSUME NEW c \in Clients, RemovePurge(c) PROVE FloorInv'
    BY <1>2, <1>5 DEF RemovePurge, TypeOK, Calls, Meta
  <1>6. ASSUME NEW r \in lateChunks, LateChunk(r) PROVE FloorInv'
    BY <1>1, <1>6 DEF LateChunk, TypeOK
  <1>7. ASSUME NEW u \in latePurges, LatePurge(u) PROVE FloorInv'
    BY <1>2, <1>7 DEF LatePurge, TypeOK
  <1>8. ASSUME NEW u \in Uids, Age(u) PROVE FloorInv'
    BY <1>8 DEF Age, TypeOK
  <1>9. ASSUME NEW c \in Clients,
               PutMeta(c) \/ GetChunk(c) \/ GetTimeout(c) \/ GetReturn(c) \/ RemoveMark(c)
        PROVE  FloorInv'
    BY <1>3, <1>9 DEF PutMeta, GetChunk, GetTimeout, GetReturn, RemoveMark, StoreMeta
  <1>10. ASSUME NEW c \in Clients, Fail(c) PROVE FloorInv'
    BY <1>3, <1>10, FailCases DEF Aborted
  <1>11. ASSUME NEW r \in lateMetas, LateMeta(r) PROVE FloorInv'
    BY <1>3, <1>11 DEF LateMeta, StoreMeta
  <1>12. ASSUME NEW c \in Clients, NEW o \in Objects, Put(c, o) \/ PutInvalid(c, o)
         PROVE  FloorInv'
    BY <1>3, <1>12 DEF Put, PutInvalid
  <1>13. ASSUME NEW c \in Clients, NEW n \in Names, Get(c, n) \/ Remove(c, n)
         PROVE  FloorInv'
    BY <1>3, <1>13 DEF Get, Remove
  <1>14. ASSUME UNCHANGED vars PROVE FloorInv'
    BY <1>3, <1>14 DEF vars
  <1> HIDE DEF FloorInv
  <1> QED
    BY <1>4, <1>5, <1>6, <1>7, <1>8, <1>9, <1>10, <1>11, <1>12, <1>13, <1>14, NextCases

LEMMA SealStep ==
    ASSUME FreshUids, TypeOK, TypeOK', FloorInv, SealInv, [Next]_vars
    PROVE  SealInv'
  <1>0. EmptyUid \notin usedUids
    BY DEF SealInv, UnusedInv
  <1>1. ASSUME NEW c \in Clients, NEW o \in Objects, Put(c, o) PROVE SealInv'
    <2> DEFINE x == Call("put", o, NameOf[o], DeleteMarker)
               u == UidOf[o]
    <2>1. u \in Uids \ usedUids /\ u # EmptyUid
      BY <1>1, ObjectsAssumption DEF Put, CallerMayPut
    <2>2. op' = [op EXCEPT ![c] = x] /\ usedUids' = usedUids \cup {u}
      BY <1>1 DEF Put, Begin
    <2>3. UNCHANGED <<chunkLog, chunkFloor, metaLog, lateChunks, lateMetas>>
      BY <1>1 DEF Put
    <2>4. /\ x.pc = "put" /\ x.obj = o /\ x.meta = DeleteMarker
          /\ x.pos = 0 /\ x.chunks = 0
      BY DEF Call
    <2> HIDE DEF x
    <2>5. op'[c] = x /\ \A d \in Clients \ {c} : op'[d] = op[d]
      BY <2>2 DEF TypeOK
    <2>6. chunkLog'[u] = << >> /\ \A r \in lateChunks' : r.uid # u
      BY <2>1, <2>3 DEF SealInv, UnusedInv
    <2>7. \A d \in Clients : op[d].pc = "put" => UidOf[op[d].obj] # u
      BY <2>1 DEF SealInv, PutInv, PutOK
    <2>8. Frame({u})
      BY <1>0, <2>1, <2>2, <2>3, <2>4, <2>5 DEF Frame
    <2>9. PutOK(c)'
      <3>1. Len(chunkLog'[u]) = 0 /\ Tiles(chunkLog'[u], o, 0) /\ 0 <= SizeOf[o]
        BY <2>6, TilesEmpty, ObjectsAssumption
      <3>2. \A d \in Clients \ {c} : op'[d].pc = "put" => UidOf[op'[d].obj] # u
        BY <2>5, <2>7
      <3>3. u \in usedUids' \ {EmptyUid}
        BY <2>1, <2>2
      <3>4. SizeOf[o] # 0
        BY <1>1 DEF Put, ValidElement
      <3> QED
        BY <2>4, <2>5, <2>6, <3>1, <3>2, <3>3, <3>4 DEF PutOK
    <2>10. \A d \in Clients : op'[d].pc = "put" /\ UidOf[op'[d].obj] \in {u} => PutOK(d)'
      <3> SUFFICES ASSUME NEW d \in Clients, d # c
                   PROVE  op'[d].pc = "put" => UidOf[op'[d].obj] # u
        BY <2>9
      <3> QED
        BY <2>5, <2>7
    <2>11. \A m \in Meta : Live(m) /\ WellFormed(m) => m.uid \notin {u}
      BY <2>1 DEF WellFormed, Sealed, Live
    <2>12. \A m \in Meta : Present(m)' => Present(m) \/ WellFormed(m)'
      BY <2>3, <2>4, <2>5, MarkerOK DEF Present
    <2>13. \A d \in Clients : op'[d].pc = "get" => op'[d] = op[d]
      BY <2>4, <2>5
    <2>14. {u} \in SUBSET Uids
      BY <2>1
    <2> HIDE DEF u
    <2> QED
      BY <2>8, <2>10, <2>11, <2>12, <2>13, <2>14, SealFrame
  <1>2. ASSUME NEW c \in Clients, NEW o \in Objects, PutInvalid(c, o) PROVE SealInv'
    BY <1>2, SealEnd DEF PutInvalid, Begin
  <1>3. ASSUME NEW c \in Clients, PutChunk(c) PROVE SealInv'
    <2> DEFINE o == op[c].obj
               pos == op[c].pos
               ch == ChunkAt(o, pos)
               x == Sent(op[c], ch)
               u == UidOf[o]
    <2>1. /\ op[c] \in Calls /\ o \in Objects /\ pos \in Nat /\ u \in Uids
          /\ op[c].pc = "put" /\ PutOK(c) /\ pos # SizeOf[o] /\ SizeOf[o] \in Nat
      BY <1>3, ObjectsAssumption DEF PutChunk, TypeOK, Calls, SealInv, PutInv
    <2>2. /\ u \in usedUids \ {EmptyUid} /\ pos < SizeOf[o]
          /\ op[c].chunks = Len(chunkLog[u]) /\ Tiles(chunkLog[u], o, pos)
          /\ \A r \in lateChunks : r.uid # u
          /\ \A d \in Clients \ {c} : op[d].pc = "put" => UidOf[op[d].obj] # u
      BY <2>1 DEF PutOK
    <2>3. /\ ch \in Chunk /\ ch.obj = o /\ ch.from = pos
          /\ ch.to <= SizeOf[o] /\ pos < ch.to
      BY <2>1, <2>2, ChunkType DEF ChunkAt
    <2>4. /\ op' = [op EXCEPT ![c] = x]
          /\ chunkLog' = [chunkLog EXCEPT ![u] = Append(@, ch)]
          /\ UNCHANGED <<chunkFloor, metaLog, lateChunks, lateMetas, usedUids>>
      BY <1>3 DEF PutChunk, StoreChunk
    <2>5. /\ x.pc = "put" /\ x.obj = o /\ x.meta = op[c].meta
          /\ x.pos = ch.to /\ x.chunks = op[c].chunks + 1
      BY <2>1, <2>3, SentType
    <2> HIDE DEF x, ch
    <2>6. op'[c] = x /\ \A d \in Clients \ {c} : op'[d] = op[d]
      BY <2>4 DEF TypeOK
    <2>7. /\ chunkLog'[u] = Append(chunkLog[u], ch) /\ chunkLog[u] \in Seq(Chunk)
          /\ \A w \in Uids \ {u} : chunkLog'[w] = chunkLog[w]
      BY <2>1, <2>4 DEF TypeOK
    <2>8. Frame({u})
      <3>1. \A d \in Clients : op'[d] = op[d] \/ UidOf[op'[d].obj] \in {u}
        BY <2>5, <2>6
      <3>2. /\ \A w \in Uids \ {u} : chunkLog'[w] = chunkLog[w]
            /\ UNCHANGED <<chunkFloor, lateChunks, usedUids>>
        BY <2>4, <2>7
      <3> QED
        BY <1>0, <2>2, <3>1, <3>2 DEF Frame
    <2>9. PutOK(c)'
      <3>1. Tiles(chunkLog'[u], o, ch.to)
        <4>1. Tiles(Append(chunkLog[u], ch), o, ch.to)
          BY <2>2, <2>3, <2>7, TilesAppend
        <4> QED
          BY <2>7, <4>1
      <3>2. Len(chunkLog'[u]) = op[c].chunks + 1
        BY <2>2, <2>7
      <3>3. \A d \in Clients \ {c} : op'[d].pc = "put" => UidOf[op'[d].obj] # u
        BY <2>2, <2>6
      <3>4. u \in usedUids' \ {EmptyUid} /\ \A r \in lateChunks' : r.uid # u
        BY <2>2, <2>4
      <3>5. op'[c].obj = o /\ op'[c].pos = ch.to /\ op'[c].chunks = op[c].chunks + 1
        BY <2>5, <2>6
      <3>6. SizeOf[o] # 0
        BY <2>1 DEF PutOK
      <3> HIDE DEF o
      <3> QED
        BY <2>3, <3>1, <3>2, <3>3, <3>4, <3>5, <3>6 DEF PutOK
    <2>10. \A d \in Clients : op'[d].pc = "put" /\ UidOf[op'[d].obj] \in {u} => PutOK(d)'
      BY <2>2, <2>6, <2>9
    <2>11. \A m \in Meta : Live(m) /\ WellFormed(m) => m.uid \notin {u}
      BY <2>1 DEF WellFormed, Sealed, Live
    <2>12. \A m \in Meta : Present(m)' => Present(m) \/ WellFormed(m)'
      BY <2>4, <2>5, <2>6 DEF Present
    <2>13. \A d \in Clients : op'[d].pc = "get" => op'[d] = op[d]
      BY <2>5, <2>6
    <2>14. {u} \in SUBSET Uids
      BY <2>1
    <2> HIDE DEF u
    <2> QED
      BY <2>8, <2>10, <2>11, <2>12, <2>13, <2>14, SealFrame
  <1>4. ASSUME NEW c \in Clients, PutMeta(c) PROVE SealInv'
    <2>1. PutMetaOf(op[c]) \in Meta /\ op[c].name \in Names
      BY <1>4, PutMetaType DEF PutMeta, TypeOK, Calls
    <2>2. \A m \in Meta : m = PutMetaOf(op[c]) => WellFormed(m)'
      BY <1>4, PutMetaSealed DEF PutMeta, StoreMeta, SealInv
    <2>3. StoreMeta(op[c].name, PutMetaOf(op[c]))
      BY <1>4 DEF PutMeta
    <2>4. \A n \in Names : \A m \in Meta :
            (\E k \in 1..Len(metaLog'[n]) : metaLog'[n][k] = m) =>
                \/ \E k \in 1..Len(metaLog[n]) : metaLog[n][k] = m
                \/ WellFormed(m)'
      BY <2>1, <2>2, <2>3, AppendMeta
    <2> QED
      BY <1>4, <2>4, SealEnd DEF PutMeta, StoreMeta
  <1>5. ASSUME NEW c \in Clients, NEW n \in Names, Get(c, n) PROVE SealInv'
    <2> DEFINE x == Call("get", NoObject, n, Info(n))
    <2>1. op' = [op EXCEPT ![c] = x] /\ HasInfo(n)
      BY <1>5 DEF Get, Begin
    <2>2. UNCHANGED <<chunkLog, chunkFloor, metaLog, lateChunks, lateMetas, usedUids>>
      BY <1>5 DEF Get
    <2>3. /\ x.pc = "get" /\ x.meta = Info(n)
          /\ x.cursor = 0 /\ x.arrived = << >>
      BY DEF Call
    <2> HIDE DEF x
    <2>4. op'[c] = x /\ \A d \in Clients \ {c} : op'[d] = op[d]
      BY <2>1 DEF TypeOK
    <2>5. \A m \in Meta : Present(m)' => Present(m)
      BY <2>1, <2>2, <2>3, <2>4, InfoType DEF Present, Info
    <2>6. GetOK(c)'
      <3>1. Info(n).uid \in Uids
        BY <2>1, InfoType DEF Meta
      <3>2. Len(chunkLog'[Info(n).uid]) \in Nat
        BY <2>2, <3>1 DEF TypeOK
      <3> QED
        BY <2>3, <2>4, <3>2 DEF GetOK
    <2> QED
      BY <2>2, <2>3, <2>4, <2>5, <2>6, SealQuiet
  <1>6. ASSUME NEW c \in Clients, GetChunk(c) PROVE SealInv'
    <2> DEFINE i == NextIndex(op[c])
               u == op[c].meta.uid
               x == Taken(op[c], i)
               a == op[c].arrived
    <2>1. /\ op[c] \in Calls /\ op[c].pc = "get" /\ Deliverable(op[c])
          /\ u \in Uids /\ chunkLog[u] \in Seq(Chunk) /\ a \in Seq(Chunk)
          /\ op[c].cursor \in Nat /\ chunkFloor[u] \in Nat
      BY <1>6 DEF TypeOK, GetChunk, Calls, Meta
    <2>2. /\ i \in 1..Len(chunkLog[u]) /\ i > op[c].cursor
          /\ i = op[c].cursor + 1 \/ chunkFloor[u] > op[c].cursor
      BY <2>1, NextIndexType
    <2>3. op' = [op EXCEPT ![c] = x]
      BY <1>6 DEF GetChunk
    <2>4. UNCHANGED <<chunkLog, chunkFloor, metaLog, lateChunks, lateMetas, usedUids>>
      BY <1>6 DEF GetChunk
    <2>5. /\ x.pc = "get" /\ x.meta = op[c].meta /\ x.cursor = i
          /\ x.arrived = Append(a, chunkLog[u][i])
      BY <2>1, <2>2, TakenType DEF TypeOK
    <2>6. GetOK(c)
      BY <2>1 DEF SealInv, GetInv
    <2> HIDE DEF x, i
    <2>7. op'[c] = x /\ \A d \in Clients \ {c} : op'[d] = op[d]
      BY <2>3 DEF TypeOK
    <2>8. \A m \in Meta : Present(m)' => Present(m)
      BY <2>4, <2>5, <2>7 DEF Present
    <2>9. /\ Len(x.arrived) = Len(a) + 1 /\ Len(a) \in Nat
          /\ x.arrived[Len(a) + 1] = chunkLog[u][i]
          /\ \A k \in 1..Len(a) : x.arrived[k] = a[k]
      BY <2>1, <2>2, <2>5
    <2>10. Len(a) <= op[c].cursor /\ (chunkFloor[u] = 0 => Len(a) = op[c].cursor)
      BY <2>6 DEF GetOK
    <2>11. ASSUME Len(x.arrived) = i, NEW k \in 1..i
           PROVE  x.arrived[k] = chunkLog[u][k]
      <3>1. Len(a) = op[c].cursor /\ i = Len(a) + 1
        BY <2>1, <2>2, <2>9, <2>10, <2>11
      <3>2. CASE k = i
        BY <2>9, <3>1, <3>2
      <3>3. CASE k # i
        BY <2>6, <2>9, <2>11, <3>1, <3>3 DEF GetOK
      <3> QED
        BY <3>2, <3>3
    <2>12. /\ i <= Len(chunkLog[u]) /\ Len(x.arrived) <= i
           /\ chunkFloor[u] = 0 => Len(x.arrived) = i
      BY <2>1, <2>2, <2>9, <2>10
    <2>13. GetOK(c)'
      BY <2>4, <2>5, <2>7, <2>11, <2>12 DEF GetOK
    <2> QED
      BY <2>1, <2>4, <2>5, <2>7, <2>8, <2>13, SealQuiet
  <1>7. ASSUME NEW c \in Clients, GetTimeout(c) \/ GetReturn(c) PROVE SealInv'
    BY <1>7, SealEnd DEF GetTimeout, GetReturn
  <1>8. ASSUME NEW c \in Clients, NEW n \in Names, Remove(c, n) PROVE SealInv'
    <2> DEFINE x == Call("purge", NoObject, n, Info(n))
    <2>1. op' = [op EXCEPT ![c] = x] /\ HasInfo(n)
      BY <1>8 DEF Remove, Begin
    <2>2. UNCHANGED <<chunkLog, chunkFloor, metaLog, lateChunks, lateMetas, usedUids>>
      BY <1>8 DEF Remove
    <2>3. x.pc = "purge" /\ x.meta = Info(n)
      BY DEF Call
    <2> HIDE DEF x
    <2>4. op'[c] = x /\ \A d \in Clients \ {c} : op'[d] = op[d]
      BY <2>1 DEF TypeOK
    <2>5. \A m \in Meta : Present(m)' => Present(m)
      BY <2>1, <2>2, <2>3, <2>4, InfoType DEF Present, Info
    <2> QED
      BY <2>2, <2>3, <2>4, <2>5, SealQuiet
  <1>9. ASSUME NEW c \in Clients, RemovePurge(c) PROVE SealInv'
    <2> DEFINE x == Purged(op[c])
    <2>1. op' = [op EXCEPT ![c] = x] /\ PurgeChunks(op[c].meta.uid)
      BY <1>9 DEF RemovePurge
    <2>2. UNCHANGED <<chunkLog, metaLog, lateChunks, lateMetas, usedUids>>
      BY <1>9 DEF RemovePurge, PurgeChunks
    <2>3. x.pc = "mark" /\ x.meta = op[c].meta /\ op[c].meta.uid \in Uids
      BY PurgedType DEF TypeOK, Calls, Meta
    <2> HIDE DEF x
    <2>4. op'[c] = x /\ \A d \in Clients \ {c} : op'[d] = op[d]
      BY <2>1 DEF TypeOK
    <2>5. \A m \in Meta : Present(m)' => Present(m)
      BY <2>2, <2>3, <2>4 DEF Present
    <2> QED
      BY <2>1, <2>2, <2>3, <2>4, <2>5, SealQuiet, PurgeKeepsGone
  <1>10. ASSUME NEW c \in Clients, RemoveMark(c) PROVE SealInv'
    <2>1. op[c].name \in Names
      BY DEF TypeOK, Calls
    <2>3. StoreMeta(op[c].name, DeleteMarker)
      BY <1>10 DEF RemoveMark
    <2>4. \A n \in Names : \A m \in Meta :
            (\E k \in 1..Len(metaLog'[n]) : metaLog'[n][k] = m) =>
                \/ \E k \in 1..Len(metaLog[n]) : metaLog[n][k] = m
                \/ WellFormed(m)'
      BY <2>1, <2>3, AppendMeta, MarkerOK, MarkerType
    <2> QED
      BY <1>10, <2>4, SealEnd DEF RemoveMark, StoreMeta
  <1>11. ASSUME NEW c \in Clients, Fail(c) PROVE SealInv'
    <2>1. Aborted(c) /\ op' = [op EXCEPT ![c] = Idle]
          /\ UNCHANGED <<chunkLog, chunkFloor, metaLog, usedUids>>
      BY <1>11, FailCases DEF Aborted
    <2>2. \A n \in Names : \A m \in Meta :
            (\E k \in 1..Len(metaLog'[n]) : metaLog'[n][k] = m) =>
                \E k \in 1..Len(metaLog[n]) : metaLog[n][k] = m
      BY <2>1
    <2>3. CASE UNCHANGED lateChunks
      <3>1. op[c].pc = "put" /\ op[c].pos = SizeOf[op[c].obj] =>
                \A m \in Meta : m = PutMetaOf(op[c]) => WellFormed(m)'
        BY <2>1, <2>3, PutMetaSealed DEF SealInv
      <3>2. \/ UNCHANGED lateMetas
            \/ \E m \in Meta : /\ WellFormed(m)'
                               /\ lateMetas' = lateMetas \cup {GivenUp(c, m)}
        <4>1. op[c].pc = "put" => PutMetaOf(op[c]) \in Meta
          BY PutMetaType
        <4> QED
          BY <1>11, <3>1, <4>1, FailCases, MarkerOK, MarkerType
      <3>3. \A r \in lateMetas' : \A m \in Meta :
                r.meta = m => r \in lateMetas \/ WellFormed(m)'
        BY <3>2 DEF GivenUp
      <3> QED
        BY <2>1, <2>2, <2>3, <3>3, SealEnd
    <2>4. CASE /\ op[c].pc = "put" /\ op[c].pos # SizeOf[op[c].obj]
               /\ lateChunks' = lateChunks \cup
                        {[uid |-> UidOf[op[c].obj],
                          chunk |-> ChunkAt(op[c].obj, op[c].pos)]}
               /\ UNCHANGED lateMetas
      <3> DEFINE u == UidOf[op[c].obj]
      <3>1. /\ u \in Uids /\ u \in usedUids /\ PutOK(c)
        BY <2>4, ObjectsAssumption DEF TypeOK, SealInv, PutInv, PutOK
      <3>2. \A r \in lateChunks' : r \in lateChunks \/ r.uid = u
        BY <2>4
      <3>3. Idle.pc = "idle" /\ Idle.meta = DeleteMarker
        BY DEF Idle, Call
      <3>4. op'[c] = Idle /\ \A d \in Clients \ {c} : op'[d] = op[d]
        BY <2>1 DEF TypeOK
      <3>5. \A d \in Clients : op'[d].pc = "put" => UidOf[op'[d].obj] # u
        BY <3>1, <3>3, <3>4 DEF PutOK
      <3>6. \A m \in Meta : Live(m) /\ WellFormed(m) => m.uid \notin {u}
        BY <2>4 DEF WellFormed, Sealed, Live
      <3>7. \A m \in Meta : Present(m)' => Present(m) \/ WellFormed(m)'
        BY <2>1, <2>4, <3>3, <3>4, MarkerOK DEF Present
      <3>8. \A d \in Clients : op'[d].pc \in {"get", "put"} => op'[d] = op[d]
        BY <3>3, <3>4
      <3>9. {u} \in SUBSET Uids
        BY <3>1
      <3> HIDE DEF u
      <3>10. Frame({u})
        BY <1>0, <2>1, <3>1, <3>2, <3>8 DEF Frame
      <3> QED
        BY <3>5, <3>6, <3>7, <3>8, <3>9, <3>10, SealFrame
    <2> QED
      BY <1>11, <2>3, <2>4, FailCases
  <1>12. ASSUME NEW r \in lateChunks, LateChunk(r) PROVE SealInv'
    <2> DEFINE u == r.uid
    <2>1. u \in Uids /\ u \in usedUids
      BY DEF TypeOK, SealInv, UnusedInv
    <2>2. /\ \A w \in Uids \ {u} : chunkLog'[w] = chunkLog[w]
          /\ lateChunks' \subseteq lateChunks
          /\ UNCHANGED <<chunkFloor, metaLog, op, lateMetas, usedUids>>
      BY <1>12 DEF LateChunk, StoreChunk, TypeOK
    <2>3. \A m \in Meta : Live(m) /\ WellFormed(m) => m.uid \notin {u}
      BY DEF WellFormed, Sealed, Live
    <2>4. \A d \in Clients : op'[d].pc = "put" => UidOf[op'[d].obj] # u
      BY <2>2 DEF SealInv, PutInv, PutOK
    <2>5. \A m \in Meta : Present(m)' => Present(m)
      BY <2>2 DEF Present
    <2>6. {u} \in SUBSET Uids
      BY <2>1
    <2> HIDE DEF u
    <2>7. Frame({u})
      BY <1>0, <2>1, <2>2 DEF Frame
    <2> QED
      BY <2>2, <2>3, <2>4, <2>5, <2>6, <2>7, SealFrame
  <1>13. ASSUME NEW r \in lateMetas, LateMeta(r) PROVE SealInv'
    <2>1. /\ r.name \in Names /\ r.meta \in Meta /\ StoreMeta(r.name, r.meta)
          /\ Present(r.meta)
      BY <1>13 DEF LateMeta, TypeOK, Present
    <2>2. UNCHANGED <<chunkLog, chunkFloor, op, lateChunks, usedUids>>
      BY <1>13 DEF LateMeta, StoreMeta
    <2>3. lateMetas' \subseteq lateMetas
      BY <1>13 DEF LateMeta
    <2>4. \A m \in Meta : Present(m)' => Present(m)
      BY <2>1, <2>2, <2>3, AppendMeta DEF Present
    <2> QED
      BY <2>2, <2>4, SealQuiet
  <1>14. ASSUME NEW u \in latePurges, LatePurge(u) PROVE SealInv'
    <2>1. u \in Uids /\ PurgeChunks(u)
      BY <1>14 DEF LatePurge, TypeOK
    <2>2. UNCHANGED <<chunkLog, metaLog, op, lateChunks, lateMetas, usedUids>>
      BY <1>14 DEF LatePurge, PurgeChunks
    <2>3. \A m \in Meta : Present(m)' => Present(m)
      BY <2>2 DEF Present
    <2> QED
      BY <2>1, <2>2, <2>3, SealQuiet, PurgeKeepsGone
  <1>15. ASSUME NEW u \in Uids, Age(u) PROVE SealInv'
    <2>1. UNCHANGED <<chunkLog, metaLog, op, lateChunks, lateMetas, usedUids>>
      BY <1>15 DEF Age
    <2>2. \A w \in Uids : chunkFloor'[w] = 0 => chunkFloor[w] = 0
      BY <1>15 DEF Age, TypeOK
    <2>3. \A m \in Meta : Present(m)' => Present(m)
      BY <2>1 DEF Present
    <2> QED
      BY <2>1, <2>2, <2>3, SealQuiet
  <1>16. ASSUME UNCHANGED vars PROVE SealInv'
    <2>1. \A m \in Meta : Present(m)' => Present(m)
      BY <1>16 DEF Present, vars
    <2> QED
      BY <1>16, <2>1, SealQuiet DEF vars
  <1> QED
    BY <1>1, <1>2, <1>3, <1>4, <1>5, <1>6, <1>7, <1>8, <1>9, <1>10, <1>11,
       <1>12, <1>13, <1>14, <1>15, <1>16, NextCases

-----------------------------------------------------------------------------
(* What sealed metadata gives a reader. *)

LEMMA ReaderFacts ==
    ASSUME TypeOK, SealInv, NEW c \in Clients, op[c].pc = "get"
    PROVE  LET call == op[c]
               s == chunkLog[call.meta.uid]
           IN  /\ s \in Seq(Chunk) /\ call.arrived \in Seq(Chunk) /\ call.cursor \in Nat
               /\ chunkFloor[call.meta.uid] \in Nat
               /\ GetOK(c)
               /\ call.meta.chunks = Len(s)
               /\ IF call.meta.deleted THEN s = << >>
                  ELSE Tiles(s, call.meta.obj, call.meta.size)
  <1>1. op[c].meta \in Meta /\ op[c].meta.uid \in Uids /\ Present(op[c].meta)
    BY DEF TypeOK, Calls, Meta, Present
  <1>2. WellFormed(op[c].meta) /\ GetOK(c)
    BY <1>1 DEF SealInv, MetaInv, GetInv
  <1>3. op[c].meta.deleted => chunkLog[op[c].meta.uid] = << >> /\ op[c].meta.chunks = 0
    BY <1>1, <1>2 DEF WellFormed, DeleteMarker, SealInv, UnusedInv
  <1>4. ~op[c].meta.deleted => Sealed(op[c].meta)
    BY <1>2 DEF WellFormed
  <1> QED
    BY <1>1, <1>2, <1>3, <1>4 DEF TypeOK, Calls, Sealed

LEMMA TilesCopy ==
    ASSUME NEW s \in Seq(Chunk), NEW t \in Seq(Chunk), Len(s) = Len(t),
           \A k \in 1..Len(t) : s[k] = t[k], NEW o, NEW end, Tiles(t, o, end)
    PROVE  Tiles(s, o, end)
  <1>1. s = t
    BY SMT
  <1> QED
    BY <1>1

LEMMA SealGivesIntegrity == TypeOK /\ SealInv => GetIntegrity
  <1> SUFFICES ASSUME TypeOK, SealInv, NEW c \in Clients,
                      op[c].pc = "get", ~Wanted(op[c])
               PROVE  IF op[c].meta.deleted THEN op[c].arrived = << >>
                      ELSE Tiles(op[c].arrived, op[c].meta.obj, op[c].meta.size)
    BY DEF GetIntegrity
  <1> DEFINE a == op[c].arrived
             s == chunkLog[op[c].meta.uid]
  <1>1. /\ s \in Seq(Chunk) /\ a \in Seq(Chunk) /\ op[c].cursor \in Nat /\ GetOK(c)
        /\ op[c].meta.chunks = Len(s)
        /\ IF op[c].meta.deleted THEN s = << >> ELSE Tiles(s, op[c].meta.obj, op[c].meta.size)
    BY ReaderFacts
  <1>2. /\ op[c].cursor <= Len(s) /\ Len(a) <= op[c].cursor
        /\ Len(a) = op[c].cursor => \A k \in 1..op[c].cursor : a[k] = s[k]
    BY <1>1 DEF GetOK
  <1>3. ~(Len(a) < Len(s))
    BY <1>1 DEF Wanted
  <1> HIDE DEF a, s
  <1>4. Len(a) = Len(s) /\ \A k \in 1..Len(s) : a[k] = s[k]
    BY <1>1, <1>2, <1>3
  <1>5. op[c].meta.deleted => a = << >>
    <2> SUFFICES ASSUME op[c].meta.deleted PROVE a = << >>
      OBVIOUS
    <2>1. Len(a) = 0
      BY <1>1, <1>4
    <2> QED
      BY <1>1, <2>1
  <1>6. ~op[c].meta.deleted => Tiles(a, op[c].meta.obj, op[c].meta.size)
    BY <1>1, <1>4, TilesCopy
  <1> QED
    BY <1>5, <1>6 DEF a

LEMMA SealGivesTimeout == TypeOK /\ SealInv => TimeoutMeansGone
  <1> SUFFICES ASSUME TypeOK, SealInv, NEW c \in Clients, op[c].pc = "get",
                      Wanted(op[c]), ~Deliverable(op[c]),
                      ~(chunkFloor[op[c].meta.uid] > 0)
               PROVE  FALSE
    BY DEF TimeoutMeansGone
  <1> DEFINE a == op[c].arrived
             s == chunkLog[op[c].meta.uid]
             f == chunkFloor[op[c].meta.uid]
  <1>1. /\ s \in Seq(Chunk) /\ a \in Seq(Chunk) /\ op[c].cursor \in Nat /\ GetOK(c)
        /\ op[c].meta.chunks = Len(s) /\ f = 0
    BY ReaderFacts
  <1>2. Len(a) = op[c].cursor /\ Len(a) < Len(s)
    BY <1>1 DEF GetOK, Wanted
  <1>3. ~(op[c].cursor + 1 <= Len(s))
    BY <1>1 DEF Deliverable, NextIndex
  <1> QED
    BY <1>1, <1>2, <1>3

LEMMA SealFreezes ==
    ASSUME TypeOK, SealInv, [Next]_vars, NEW u \in Uids, IsPublished(u)
    PROVE  chunkLog'[u] = chunkLog[u]
  <1>0. PICK n \in Names : \E k \in 1..Len(metaLog[n]) :
            Live(metaLog[n][k]) /\ metaLog[n][k].uid = u
    BY DEF IsPublished
  <1>1. PICK k \in 1..Len(metaLog[n]) : Live(metaLog[n][k]) /\ metaLog[n][k].uid = u
    BY <1>0
  <1> DEFINE m == metaLog[n][k]
  <1>2. m \in Meta /\ Present(m)
    BY DEF TypeOK, Present
  <1>3. Sealed(m)
    BY <1>1, <1>2 DEF SealInv, MetaInv, WellFormed, Live
  <1>4. /\ \A r \in lateChunks : r.uid # u
        /\ \A c \in Clients : op[c].pc = "put" => UidOf[op[c].obj] # u
    BY <1>1, <1>3 DEF Sealed
  <1> HIDE DEF m
  <1>5. ASSUME NEW w \in Uids, NEW ch, StoreChunk(w, ch), w # u PROVE chunkLog'[u] = chunkLog[u]
    BY <1>5 DEF StoreChunk, TypeOK
  <1>6. ASSUME NEW c \in Clients, PutChunk(c) PROVE chunkLog'[u] = chunkLog[u]
    <2>1. op[c].pc = "put" /\ UidOf[op[c].obj] \in Uids
      BY <1>6, ObjectsAssumption DEF PutChunk, TypeOK
    <2> QED
      BY <1>4, <1>5, <1>6, <2>1 DEF PutChunk
  <1>7. ASSUME NEW r \in lateChunks, LateChunk(r) PROVE chunkLog'[u] = chunkLog[u]
    BY <1>4, <1>5, <1>7 DEF LateChunk, TypeOK
  <1>8. ASSUME NEW c \in Clients,
               \/ PutMeta(c) \/ GetChunk(c) \/ GetTimeout(c) \/ GetReturn(c)
               \/ RemovePurge(c) \/ RemoveMark(c)
        PROVE  UNCHANGED chunkLog
    BY <1>8 DEF PutMeta, GetChunk, GetTimeout, GetReturn, RemovePurge, RemoveMark,
                StoreMeta, PurgeChunks
  <1>9. ASSUME NEW c \in Clients, Fail(c) PROVE UNCHANGED chunkLog
    BY <1>9, FailCases DEF Aborted
  <1>10. ASSUME NEW r \in lateMetas, LateMeta(r) PROVE UNCHANGED chunkLog
    BY <1>10 DEF LateMeta, StoreMeta
  <1>11. ASSUME NEW w \in latePurges, LatePurge(w) PROVE UNCHANGED chunkLog
    BY <1>11 DEF LatePurge, PurgeChunks
  <1>12. ASSUME NEW c \in Clients, NEW o \in Objects, Put(c, o) \/ PutInvalid(c, o)
         PROVE  UNCHANGED chunkLog
    BY <1>12 DEF Put, PutInvalid
  <1>13. ASSUME NEW c \in Clients, NEW j \in Names, Get(c, j) \/ Remove(c, j)
         PROVE  UNCHANGED chunkLog
    BY <1>13 DEF Get, Remove
  <1>14. ASSUME NEW w \in Uids, Age(w) PROVE UNCHANGED chunkLog
    BY <1>14 DEF Age
  <1>15. ASSUME UNCHANGED vars PROVE UNCHANGED chunkLog
    BY <1>15 DEF vars
  <1> QED
    BY <1>6, <1>7, <1>8, <1>9, <1>10, <1>11, <1>12, <1>13, <1>14, <1>15, NextCases

-----------------------------------------------------------------------------
(* Removal. *)

LEMMA StoreKeeps ==
    ASSUME TypeOK, NEW n \in Names, NEW x \in Meta, StoreMeta(n, x)
    PROVE  /\ \A j \in Names : \A k \in 1..Len(metaLog[j]) :
                k \in 1..Len(metaLog'[j]) /\ metaLog'[j][k] = metaLog[j][k]
           /\ \A j \in Names : \A k \in 1..Len(metaLog'[j]) :
                \/ k \in 1..Len(metaLog[j]) /\ metaLog'[j][k] = metaLog[j][k]
                \/ j = n /\ metaLog'[j][k] = x
           /\ Len(metaLog[n]) + 1 \in 1..Len(metaLog'[n])
           /\ metaLog'[n][Len(metaLog[n]) + 1] = x
           /\ metaLog'[n] # << >> /\ metaLog'[n][Len(metaLog'[n])] = x
           /\ \A j \in Names \ {n} : metaLog'[j] = metaLog[j]
  <1>1. /\ metaLog'[n] = Append(metaLog[n], x) /\ metaLog[n] \in Seq(Meta)
        /\ \A j \in Names \ {n} : metaLog'[j] = metaLog[j]
    BY DEF TypeOK, StoreMeta
  <1> DEFINE s == metaLog[n]
             t == metaLog'[n]
  <1>2. /\ Len(s) \in Nat /\ Len(t) = Len(s) + 1 /\ t[Len(t)] = x /\ t # << >>
        /\ \A k \in 1..Len(s) : t[k] = s[k]
    BY <1>1
  <1>3. ASSUME NEW j \in Names, NEW k \in 1..Len(metaLog[j])
        PROVE  k \in 1..Len(metaLog'[j]) /\ metaLog'[j][k] = metaLog[j][k]
    BY <1>1, <1>2
  <1>4. ASSUME NEW j \in Names, NEW k \in 1..Len(metaLog'[j])
        PROVE  \/ k \in 1..Len(metaLog[j]) /\ metaLog'[j][k] = metaLog[j][k]
               \/ j = n /\ metaLog'[j][k] = x
    <2>1. CASE j = n /\ k = Len(t)
      BY <1>2, <2>1
    <2>2. CASE j = n /\ k # Len(t)
      BY <1>2, <2>2
    <2>3. CASE j # n
      BY <1>1, <2>3
    <2> QED
      BY <2>1, <2>2, <2>3
  <1> QED
    BY <1>1, <1>2, <1>3, <1>4

LEMMA PublishedStore ==
    ASSUME TypeOK, NEW n \in Names, NEW x \in Meta, StoreMeta(n, x), NEW u
    PROVE  IsPublished(u)' <=> IsPublished(u) \/ (Live(x) /\ x.uid = u)
  <1>1. IsPublished(u) => IsPublished(u)'
    BY StoreKeeps DEF IsPublished
  <1>2. Live(x) /\ x.uid = u => IsPublished(u)'
    BY StoreKeeps DEF IsPublished
  <1>3. IsPublished(u)' => IsPublished(u) \/ (Live(x) /\ x.uid = u)
    BY StoreKeeps DEF IsPublished
  <1> QED
    BY <1>1, <1>2, <1>3

\* The uids a remove can empty.
LEMMA LiveUid ==
    ASSUME TypeOK, SealInv, NEW m \in Meta, Present(m)
    PROVE  /\ Live(m) <=> m.uid # EmptyUid
           /\ ~Live(m) => m = DeleteMarker
           /\ Live(m) => \A c \in Clients :
                op[c].pc = "put" => UidOf[op[c].obj] # m.uid
  BY DEF SealInv, MetaInv, WellFormed, Sealed, Live, DeleteMarker

LEMMA LogPresent ==
    ASSUME TypeOK, NEW n \in Names, NEW k \in 1..Len(metaLog[n])
    PROVE  metaLog[n][k] \in Meta /\ Present(metaLog[n][k])
  BY DEF TypeOK, Present

LEMMA PublishedUid ==
    ASSUME TypeOK, SealInv, NEW u, IsPublished(u)
    PROVE  /\ u \in Uids \ {EmptyUid}
           /\ \A c \in Clients : op[c].pc = "put" => UidOf[op[c].obj] # u
  <1>1. PICK n \in Names : \E k \in 1..Len(metaLog[n]) :
            Live(metaLog[n][k]) /\ metaLog[n][k].uid = u
    BY DEF IsPublished
  <1>2. PICK k \in 1..Len(metaLog[n]) : Live(metaLog[n][k]) /\ metaLog[n][k].uid = u
    BY <1>1
  <1> QED
    BY <1>2, LogPresent, LiveUid DEF Meta

\* Storing metadata nobody has stored yet, or a marker.
LEMMA HomeStore ==
    ASSUME TypeOK, SealInv, HomeInv, NEW n \in Names, NEW x \in Meta, StoreMeta(n, x),
           IF Live(x) THEN ~IsPublished(x.uid) /\ x.uid # EmptyUid ELSE x = DeleteMarker
    PROVE  HomeInv'
  <1> SUFFICES ASSUME NEW i \in Names, NEW j \in Names, i # j,
                      NEW k \in 1..Len(metaLog'[i]), NEW l \in 1..Len(metaLog'[j]),
                      Live(metaLog'[i][k]), metaLog'[i][k].uid = metaLog'[j][l].uid
               PROVE  FALSE
    BY DEF HomeInv, Live
  <1>1. \A h \in Names : \A e \in 1..Len(metaLog[h]) :
            /\ Live(metaLog[h][e]) <=> metaLog[h][e].uid # EmptyUid
            /\ Live(metaLog[h][e]) => IsPublished(metaLog[h][e].uid)
    BY LogPresent, LiveUid DEF IsPublished
  <1>2. \/ k \in 1..Len(metaLog[i]) /\ metaLog'[i][k] = metaLog[i][k]
        \/ i = n /\ metaLog'[i][k] = x
    BY StoreKeeps
  <1>3. \/ l \in 1..Len(metaLog[j]) /\ metaLog'[j][l] = metaLog[j][l]
        \/ j = n /\ metaLog'[j][l] = x
    BY StoreKeeps
  <1>4. CASE /\ k \in 1..Len(metaLog[i]) /\ metaLog'[i][k] = metaLog[i][k]
             /\ l \in 1..Len(metaLog[j]) /\ metaLog'[j][l] = metaLog[j][l]
    BY <1>4 DEF HomeInv, Live
  <1>5. CASE /\ i = n /\ metaLog'[i][k] = x
             /\ l \in 1..Len(metaLog[j]) /\ metaLog'[j][l] = metaLog[j][l]
    BY <1>1, <1>5
  <1>6. CASE /\ k \in 1..Len(metaLog[i]) /\ metaLog'[i][k] = metaLog[i][k]
             /\ j = n /\ metaLog'[j][l] = x
    BY <1>1, <1>6 DEF Live, DeleteMarker
  <1> QED
    BY <1>2, <1>3, <1>4, <1>5, <1>6

LEMMA LateQuiet ==
    ASSUME LateInv, UNCHANGED metaLog, lateMetas' \subseteq lateMetas
    PROVE  LateInv'
  BY DEF LateInv, IsPublished, Live

LEMMA GoneQuiet ==
    ASSUME UNCHANGED metaLog, torn \subseteq torn', NEW u, Gone(u),
           Removing(u) => Removing(u)' \/ u \in torn'
    PROVE  Gone(u)'
  BY DEF Gone, IsPublished, Live, Superseded, HasInfo, Info

\* A step that stores no metadata.
LEMMA RemoveQuiet ==
    ASSUME TypeOK, RemoveInv, UNCHANGED metaLog, LateInv', torn \subseteq torn',
           \A c \in Clients : op'[c].pc \in {"get", "purge", "mark"} =>
                \E k \in 1..Len(metaLog[op'[c].name]) :
                    metaLog[op'[c].name][k] = op'[c].meta,
           \A u \in latePurges' :
                \/ u \in latePurges
                \/ u \in torn' /\ (u = EmptyUid \/ IsPublished(u)),
           \A u \in Uids : Removing(u) => Removing(u)' \/ u \in torn',
           ~Aging => \A u \in Uids : chunkFloor'[u] > 0 =>
                \/ chunkFloor[u] > 0
                \/ IsPublished(u) /\ Removing(u)'
                \/ IsPublished(u) /\ u \in torn'
    PROVE  RemoveInv'
  <1>1. HomeInv'
    BY DEF RemoveInv, HomeInv, Live
  <1>2. ReadInv'
    BY DEF ReadInv
  <1>3. \A u : IsPublished(u)' <=> IsPublished(u)
    BY DEF IsPublished, Live
  <1>4. PurgeInv'
    <2>1. latePurges' \subseteq torn' /\ \A u \in latePurges' : u = EmptyUid \/ IsPublished(u)'
      BY <1>3 DEF RemoveInv, PurgeInv
    <2>2. ASSUME ~Aging, NEW u \in Uids, chunkFloor'[u] > 0 PROVE Gone(u)'
      <3>1. CASE chunkFloor[u] > 0
        <4>1. Gone(u)
          BY <2>2, <3>1 DEF RemoveInv, PurgeInv
        <4> QED
          BY <4>1, GoneQuiet
      <3>2. CASE IsPublished(u) /\ (Removing(u)' \/ u \in torn')
        BY <1>3, <3>2 DEF Gone
      <3> QED
        BY <2>2, <3>1, <3>2
    <2> QED
      BY <2>1, <2>2 DEF PurgeInv
  <1> QED
    BY <1>1, <1>2, <1>4 DEF RemoveInv

\* A step that stores metadata.
LEMMA RemoveStore ==
    ASSUME TypeOK, SealInv, RemoveInv, NEW n \in Names, NEW x \in Meta, StoreMeta(n, x),
           IF Live(x) THEN ~IsPublished(x.uid) /\ x.uid # EmptyUid ELSE x = DeleteMarker,
           lateMetas' \subseteq lateMetas,
           \A r \in lateMetas' : Live(r.meta) /\ Live(x) => r.meta.uid # x.uid,
           \A c \in Clients : op'[c] = op[c] \/ op'[c].pc = "idle",
           UNCHANGED <<latePurges, torn>>,
           \A u \in Uids : Removing(u) /\ IsPublished(u) =>
                Removing(u)' \/ u \in torn \/ Superseded(u)'
    PROVE  RemoveInv'
  <1>1. HomeInv'
    BY HomeStore DEF RemoveInv
  <1>2. LateInv'
    <2>1. \A r \in lateMetas' : Live(r.meta) => ~IsPublished(r.meta.uid)'
      BY PublishedStore DEF RemoveInv, LateInv
    <2> QED
      BY <2>1 DEF RemoveInv, LateInv, Live
  <1>3. ReadInv'
    <2> SUFFICES ASSUME NEW c \in Clients, op'[c].pc \in {"get", "purge", "mark"}
                 PROVE  \E k \in 1..Len(metaLog'[op'[c].name]) :
                            metaLog'[op'[c].name][k] = op'[c].meta
      BY DEF ReadInv
    <2>1. op'[c] = op[c] /\ op[c].name \in Names
      BY DEF TypeOK, Calls
    <2> QED
      BY <2>1, StoreKeeps DEF RemoveInv, ReadInv
  <1>4. PurgeInv'
    <2>1. \A u \in latePurges' : u = EmptyUid \/ IsPublished(u)'
      BY PublishedStore DEF RemoveInv, PurgeInv
    <2>2. ASSUME ~Aging, NEW u \in Uids, chunkFloor'[u] > 0 PROVE Gone(u)'
      <3>1. Gone(u) /\ IsPublished(u) /\ u # EmptyUid
        BY <2>2, PublishedUid DEF RemoveInv, PurgeInv, Gone, StoreMeta
      <3>2. x.uid # u
        BY <3>1 DEF DeleteMarker
      <3>3. Superseded(u) => Superseded(u)'
        BY <3>2, StoreKeeps DEF Superseded, HasInfo, Info
      <3>4. IsPublished(u)'
        BY <3>1, PublishedStore
      <3> QED
        BY <3>1, <3>3, <3>4 DEF Gone
    <2> QED
      BY <2>1, <2>2 DEF RemoveInv, PurgeInv
  <1> QED
    BY <1>1, <1>2, <1>3, <1>4 DEF RemoveInv

LEMMA RemoveInit == Init => RemoveInv
  <1> SUFFICES ASSUME Init PROVE RemoveInv
    OBVIOUS
  <1>1. \A c \in Clients : op[c].pc = "idle"
    BY DEF Init, Idle, Call
  <1>2. ReadInv
    BY <1>1 DEF ReadInv
  <1>3. HomeInv /\ LateInv /\ PurgeInv
    BY DEF Init, HomeInv, LateInv, PurgeInv
  <1> QED
    BY <1>2, <1>3 DEF RemoveInv

\* A put's metadata is news to the stream.
LEMMA PutMetaNew ==
    ASSUME TypeOK, SealInv, NEW c \in Clients, op[c].pc = "put"
    PROVE  LET x == PutMetaOf(op[c])
           IN  /\ x \in Meta /\ op[c].name \in Names
               /\ Live(x) /\ x.uid # EmptyUid
               /\ ~IsPublished(x.uid)
               /\ \A r \in lateMetas : r.meta.uid # x.uid
  <1> DEFINE x == PutMetaOf(op[c])
  <1>1. x \in Meta /\ Live(x) /\ x.uid = UidOf[op[c].obj] /\ op[c].name \in Names
    BY PutMetaType DEF PutMetaOf, Live, TypeOK, Calls
  <1>2. x.uid # EmptyUid
    BY <1>1 DEF SealInv, PutInv, PutOK
  <1>3. ~IsPublished(x.uid)
    BY <1>1, PublishedUid
  <1>4. ASSUME NEW r \in lateMetas PROVE r.meta.uid # x.uid
    <2>1. r.meta \in Meta /\ Present(r.meta)
      BY DEF TypeOK, Present
    <2>2. /\ Live(r.meta) <=> r.meta.uid # EmptyUid
          /\ Live(r.meta) => UidOf[op[c].obj] # r.meta.uid
      BY <2>1, LiveUid
    <2> QED
      BY <1>1, <1>2, <2>2
  <1> QED
    BY <1>1, <1>2, <1>3, <1>4

LEMMA IdlePc == Idle.pc = "idle"
  BY DEF Idle, Call

\* The uid a call holds.
LEMMA HeldUid ==
    ASSUME TypeOK, SealInv, ReadInv, NEW c \in Clients, op[c].pc \in {"get", "purge", "mark"}
    PROVE  /\ op[c].meta.uid \in Uids
           /\ op[c].meta.uid = EmptyUid \/ IsPublished(op[c].meta.uid)
  <1>1. PICK k \in 1..Len(metaLog[op[c].name]) : metaLog[op[c].name][k] = op[c].meta
    BY DEF ReadInv
  <1>2. op[c].name \in Names /\ op[c].meta \in Meta
    BY DEF TypeOK, Calls
  <1>3. Live(op[c].meta) <=> op[c].meta.uid # EmptyUid
    BY <1>1, <1>2, LogPresent, LiveUid
  <1>4. Live(op[c].meta) => IsPublished(op[c].meta.uid)
    BY <1>1, <1>2 DEF IsPublished
  <1> QED
    BY <1>2, <1>3, <1>4 DEF Meta

LEMMA RemoveStep ==
    ASSUME TypeOK, SealInv, RemoveInv, [Next]_vars
    PROVE  RemoveInv'
  <1>0. /\ HomeInv /\ LateInv /\ ReadInv /\ PurgeInv
        /\ \A c \in Clients : op[c].pc \in {"get", "purge", "mark"} =>
                \E k \in 1..Len(metaLog[op[c].name]) :
                    metaLog[op[c].name][k] = op[c].meta
    BY DEF RemoveInv, ReadInv
  \* A step of one call that stores and purges nothing.
  <1>a. ASSUME NEW c \in Clients, NEW x, op' = [op EXCEPT ![c] = x],
               UNCHANGED <<metaLog, lateMetas, chunkFloor, torn, latePurges>>,
               op[c].pc # "mark",
               x.pc \in {"get", "purge", "mark"} => x.name \in Names /\
                    \E k \in 1..Len(metaLog[x.name]) : metaLog[x.name][k] = x.meta
        PROVE  RemoveInv'
    <2>1. op'[c] = x /\ \A d \in Clients \ {c} : op'[d] = op[d]
      BY <1>a DEF TypeOK
    <2>2. \A d \in Clients : op'[d].pc \in {"get", "purge", "mark"} =>
                \E k \in 1..Len(metaLog[op'[d].name]) :
                    metaLog[op'[d].name][k] = op'[d].meta
      BY <1>0, <1>a, <2>1
    <2>3. \A u \in Uids : Removing(u) => Removing(u)'
      BY <1>a, <2>1 DEF Removing
    <2>4. LateInv'
      BY <1>0, <1>a, LateQuiet
    <2> QED
      BY <1>a, <2>2, <2>3, <2>4, RemoveQuiet
  <1>1. ASSUME NEW c \in Clients, NEW o \in Objects, Put(c, o) PROVE RemoveInv'
    <2>1. Call("put", o, NameOf[o], DeleteMarker).pc = "put"
      BY DEF Call
    <2> QED
      BY <1>1, <1>a, <2>1 DEF Put, Begin
  <1>2. ASSUME NEW c \in Clients, NEW o \in Objects, PutInvalid(c, o) PROVE RemoveInv'
    BY <1>2, <1>a, IdlePc DEF PutInvalid, Begin
  <1>3. ASSUME NEW c \in Clients, PutChunk(c) PROVE RemoveInv'
    <2> DEFINE ch == ChunkAt(op[c].obj, op[c].pos)
    <2>1. ch \in Chunk /\ op[c] \in Calls /\ op[c].pc = "put"
      BY <1>3, ChunkType DEF PutChunk, TypeOK, Calls
    <2>2. Sent(op[c], ch).pc = "put"
      BY <2>1, SentType
    <2>3. /\ op' = [op EXCEPT ![c] = Sent(op[c], ch)]
          /\ UNCHANGED <<metaLog, lateMetas, chunkFloor, torn, latePurges>>
      BY <1>3 DEF PutChunk, StoreChunk
    <2> HIDE DEF ch
    <2> QED
      BY <1>a, <2>1, <2>2, <2>3
  <1>4. ASSUME NEW c \in Clients, PutMeta(c) PROVE RemoveInv'
    <2> DEFINE x == PutMetaOf(op[c])
    <2>1. op[c].pc = "put" /\ StoreMeta(op[c].name, x) /\ op' = [op EXCEPT ![c] = Idle]
      BY <1>4 DEF PutMeta
    <2>2. /\ x \in Meta /\ op[c].name \in Names /\ Live(x) /\ x.uid # EmptyUid
          /\ ~IsPublished(x.uid) /\ \A r \in lateMetas : r.meta.uid # x.uid
      BY <2>1, PutMetaNew
    <2> HIDE DEF x
    <2>3. op'[c].pc = "idle" /\ \A d \in Clients \ {c} : op'[d] = op[d]
      BY <2>1, IdlePc DEF TypeOK
    <2>4. \A u \in Uids : Removing(u) => Removing(u)'
      BY <2>1, <2>3 DEF Removing
    <2>5. UNCHANGED <<lateMetas, latePurges, torn>>
      BY <1>4 DEF PutMeta
    <2> QED
      BY <2>1, <2>2, <2>3, <2>4, <2>5, RemoveStore
  <1>5. ASSUME NEW c \in Clients, NEW n \in Names, Get(c, n) PROVE RemoveInv'
    <2> DEFINE x == Call("get", NoObject, n, Info(n))
    <2>1. x.name = n /\ \E k \in 1..Len(metaLog[n]) : metaLog[n][k] = x.meta
      BY <1>5, InfoType DEF Get, Call, Info
    <2>2. op' = [op EXCEPT ![c] = x] /\ op[c].pc # "mark"
      BY <1>5 DEF Get, Begin
    <2> HIDE DEF x
    <2> QED
      BY <1>5, <1>a, <2>1, <2>2 DEF Get
  <1>6. ASSUME NEW c \in Clients, GetChunk(c) PROVE RemoveInv'
    <2> DEFINE x == Taken(op[c], NextIndex(op[c]))
    <2>1. /\ op[c] \in Calls /\ op[c].pc = "get"
          /\ NextIndex(op[c]) \in 1..Len(chunkLog[op[c].meta.uid])
      BY <1>6, NextIndexType DEF GetChunk, TypeOK
    <2>2. x.pc = "get" /\ x.name = op[c].name /\ x.meta = op[c].meta
      BY <2>1, TakenType DEF TypeOK
    <2>3. op' = [op EXCEPT ![c] = x] /\ op[c].name \in Names
      BY <1>6, <2>1 DEF GetChunk, Calls
    <2>4. UNCHANGED <<metaLog, lateMetas, chunkFloor, torn, latePurges>>
      BY <1>6 DEF GetChunk
    <2>5. \E k \in 1..Len(metaLog[op[c].name]) : metaLog[op[c].name][k] = op[c].meta
      BY <1>0, <2>1
    <2> HIDE DEF x
    <2> QED
      BY <1>a, <2>1, <2>2, <2>3, <2>4, <2>5
  <1>7. ASSUME NEW c \in Clients, GetTimeout(c) \/ GetReturn(c) PROVE RemoveInv'
    BY <1>7, <1>a, IdlePc DEF GetTimeout, GetReturn
  <1>8. ASSUME NEW c \in Clients, NEW n \in Names, Remove(c, n) PROVE RemoveInv'
    <2> DEFINE x == Call("purge", NoObject, n, Info(n))
    <2>1. x.name = n /\ \E k \in 1..Len(metaLog[n]) : metaLog[n][k] = x.meta
      BY <1>8, InfoType DEF Remove, Call, Info
    <2>2. op' = [op EXCEPT ![c] = x] /\ op[c].pc # "mark"
      BY <1>8 DEF Remove, Begin
    <2> HIDE DEF x
    <2> QED
      BY <1>8, <1>a, <2>1, <2>2 DEF Remove
  <1>9. ASSUME NEW c \in Clients, RemovePurge(c) PROVE RemoveInv'
    <2> DEFINE x == Purged(op[c])
    <2>0. PICK u \in Uids : u = op[c].meta.uid
      BY DEF TypeOK, Calls, Meta
    <2>1. op[c] \in Calls /\ op[c].pc = "purge" /\ PurgeChunks(u)
      BY <1>9, <2>0 DEF RemovePurge, TypeOK
    <2>2. x.pc = "mark" /\ x.name = op[c].name /\ x.meta = op[c].meta
      BY <2>1, PurgedType
    <2>3. /\ op' = [op EXCEPT ![c] = x]
          /\ UNCHANGED <<metaLog, lateMetas, latePurges, torn>>
      BY <1>9 DEF RemovePurge, PurgeChunks
    <2> HIDE DEF x
    <2>4. op'[c] = x /\ \A d \in Clients \ {c} : op'[d] = op[d]
      BY <2>3 DEF TypeOK
    <2>5. Removing(u)' /\ \A w \in Uids : Removing(w) => Removing(w)'
      BY <2>0, <2>1, <2>2, <2>4 DEF Removing
    <2>6. u = EmptyUid \/ IsPublished(u)
      BY <1>0, <2>0, <2>1, HeldUid
    <2>7. chunkLog[EmptyUid] = << >>
      BY EmptyAssumption DEF SealInv, UnusedInv
    <2>8. \A w \in Uids : chunkFloor'[w] > 0 =>
                \/ chunkFloor[w] > 0
                \/ IsPublished(w) /\ Removing(w)'
      <3> SUFFICES ASSUME NEW w \in Uids, chunkFloor'[w] > 0, ~(chunkFloor[w] > 0)
                   PROVE  IsPublished(w) /\ Removing(w)'
        OBVIOUS
      <3>1. w = u
        BY <2>1 DEF PurgeChunks, TypeOK
      <3>2. Len(chunkLog[u]) > 0
        BY <2>1, <3>1 DEF PurgeChunks, TypeOK
      <3> QED
        BY <2>5, <2>6, <2>7, <3>1, <3>2
    <2>9. \A d \in Clients : op'[d].pc \in {"get", "purge", "mark"} =>
                \E k \in 1..Len(metaLog[op'[d].name]) :
                    metaLog[op'[d].name][k] = op'[d].meta
      BY <1>0, <2>1, <2>2, <2>4
    <2>10. LateInv'
      BY <1>0, <2>3, LateQuiet
    <2> QED
      BY <2>3, <2>5, <2>8, <2>9, <2>10, RemoveQuiet
  <1>10. ASSUME NEW c \in Clients, RemoveMark(c) PROVE RemoveInv'
    <2>0. PICK n \in Names, u \in Uids : n = op[c].name /\ u = op[c].meta.uid
      BY DEF TypeOK, Calls, Meta
    <2>1. /\ op[c].pc = "mark" /\ op[c].meta \in Meta
          /\ StoreMeta(n, DeleteMarker) /\ op' = [op EXCEPT ![c] = Idle]
      BY <1>10, <2>0 DEF RemoveMark, TypeOK, Calls
    <2>2. UNCHANGED <<lateMetas, latePurges, torn>>
      BY <1>10 DEF RemoveMark
    <2>3. op'[c].pc = "idle" /\ \A d \in Clients \ {c} : op'[d] = op[d]
      BY <2>1, IdlePc DEF TypeOK
    <2>4. ASSUME IsPublished(u) PROVE Superseded(u)'
      <3>1. PICK k \in 1..Len(metaLog[n]) : metaLog[n][k] = op[c].meta
        BY <1>0, <2>0, <2>1
      <3>2. u # EmptyUid /\ Live(metaLog[n][k]) /\ metaLog[n][k].uid = u
        BY <2>0, <2>1, <2>4, <3>1, PublishedUid, LogPresent, LiveUid
      <3> SUFFICES ASSUME NEW j \in Names, HasInfo(j)', Info(j)'.uid = u
                   PROVE  FALSE
        BY DEF Superseded
      <3>3. CASE j = n
        <4>1. Info(j)' = DeleteMarker
          BY <2>1, <3>3, MarkerType, StoreKeeps DEF Info
        <4> QED
          BY <3>2, <4>1 DEF DeleteMarker
      <3>4. CASE j # n
        <4>1. metaLog'[j] = metaLog[j]
          BY <2>1, <3>4, MarkerType, StoreKeeps
        <4>2. HasInfo(j) /\ Info(j).uid = u
          BY <4>1 DEF HasInfo, Info
        <4>3. Len(metaLog[j]) \in 1..Len(metaLog[j])
          BY <4>2, InfoType
        <4> QED
          BY <1>0, <3>2, <3>4, <4>2, <4>3 DEF HomeInv, Info
      <3> QED
        BY <3>3, <3>4
    <2>5. \A w \in Uids : Removing(w) /\ IsPublished(w) => Removing(w)' \/ Superseded(w)'
      <3> SUFFICES ASSUME NEW w \in Uids, Removing(w), IsPublished(w), w # u
                   PROVE  Removing(w)'
        BY <2>4
      <3> QED
        BY <2>0, <2>3 DEF Removing
    <2>6. ~Live(DeleteMarker) /\ DeleteMarker \in Meta
      BY MarkerType DEF Live, DeleteMarker
    <2>7. \A d \in Clients : op'[d] = op[d] \/ op'[d].pc = "idle"
      BY <2>3
    <2> QED
      BY <2>1, <2>2, <2>5, <2>6, <2>7, RemoveStore
  <1>11. ASSUME NEW c \in Clients, Fail(c) PROVE RemoveInv'
    <2>0. PICK n \in Names, u \in Uids : n = op[c].name /\ u = op[c].meta.uid
      BY DEF TypeOK, Calls, Meta
    <2>1. /\ op[c].pc # "idle" /\ op' = [op EXCEPT ![c] = Idle]
          /\ torn \subseteq torn'
          /\ op[c].pc \in {"purge", "mark"} => u \in torn'
          /\ UNCHANGED <<chunkLog, chunkFloor, metaLog>>
      BY <1>11, <2>0, FailCases DEF Aborted
    <2>2. op'[c].pc = "idle" /\ \A d \in Clients \ {c} : op'[d] = op[d]
      BY <2>1, IdlePc DEF TypeOK
    <2>3. LateInv'
      <3>1. CASE lateMetas' \subseteq lateMetas
        BY <1>0, <2>1, <3>1, LateQuiet
      <3>2. ASSUME NEW x \in Meta,
                   lateMetas' = lateMetas \cup {GivenUp(c, x)},
                   \/ x = DeleteMarker
                   \/ ~IsPublished(x.uid) /\ x.uid # EmptyUid /\
                      \A r \in lateMetas : r.meta.uid # x.uid
            PROVE  LateInv'
        <4>1. \A r \in lateMetas : Live(r.meta) => r.meta.uid # EmptyUid
          BY LiveUid DEF TypeOK, Present
        <4>2. DeleteMarker.uid = EmptyUid /\ ~Live(DeleteMarker)
          BY DEF DeleteMarker, Live
        <4>3. \A w : IsPublished(w)' <=> IsPublished(w)
          BY <2>1 DEF IsPublished, Live
        <4> SUFFICES ASSUME NEW r \in lateMetas', Live(r.meta)
                     PROVE  /\ ~IsPublished(r.meta.uid)'
                            /\ \A q \in lateMetas' : q.meta.uid = r.meta.uid => q = r
          BY DEF LateInv, Live
        <4>4. CASE r \in lateMetas
          BY <1>0, <3>2, <4>1, <4>2, <4>3, <4>4 DEF LateInv, GivenUp
        <4>5. CASE r = GivenUp(c, x)
          BY <3>2, <4>2, <4>3, <4>5 DEF GivenUp
        <4> QED
          BY <3>2, <4>4, <4>5
      <3>3. CASE /\ op[c].pc = "put"
                 /\ lateMetas' = lateMetas \cup
                        {GivenUp(c, PutMetaOf(op[c]))}
        <4>1. PICK x \in Meta : x = PutMetaOf(op[c])
          BY <3>3, PutMetaNew
        <4>2. /\ ~IsPublished(x.uid) /\ x.uid # EmptyUid
              /\ \A r \in lateMetas : r.meta.uid # x.uid
          BY <3>3, <4>1, PutMetaNew
        <4> QED
          BY <2>0, <3>2, <3>3, <4>1, <4>2
      <3>4. CASE lateMetas' = lateMetas \cup
                        {GivenUp(c, DeleteMarker)}
        BY <2>0, <3>2, <3>4, MarkerType
      <3> QED
        BY <1>11, <3>1, <3>3, <3>4, FailCases
    <2>4. \A d \in Clients : op'[d].pc \in {"get", "purge", "mark"} =>
                \E k \in 1..Len(metaLog[op'[d].name]) :
                    metaLog[op'[d].name][k] = op'[d].meta
      BY <1>0, <2>2
    <2>5. op[c].pc = "purge" => u = EmptyUid \/ IsPublished(u)
      BY <1>0, <2>0, HeldUid
    <2>6. \A w \in latePurges' :
                \/ w \in latePurges
                \/ w \in torn' /\ (w = EmptyUid \/ IsPublished(w))
      BY <1>11, <2>0, <2>1, <2>5, FailCases
    <2>7. \A w \in Uids : Removing(w) => Removing(w)' \/ w \in torn'
      BY <2>0, <2>1, <2>2 DEF Removing
    <2> QED
      BY <2>1, <2>3, <2>4, <2>6, <2>7, RemoveQuiet
  <1>12. ASSUME NEW r \in lateChunks, LateChunk(r) PROVE RemoveInv'
    <2>1. UNCHANGED <<chunkFloor, metaLog, op, lateMetas, latePurges, torn>>
      BY <1>12 DEF LateChunk, StoreChunk
    <2> QED
      BY <1>0, <2>1, LateQuiet, RemoveQuiet DEF Removing
  <1>13. ASSUME NEW r \in lateMetas, LateMeta(r) PROVE RemoveInv'
    <2>0. PICK n \in Names, x \in Meta : n = r.name /\ x = r.meta
      BY DEF TypeOK
    <2>1. StoreMeta(n, x) /\ lateMetas' = lateMetas \ {r} /\ Present(x)
      BY <1>13, <2>0 DEF LateMeta, Present
    <2>2. UNCHANGED <<op, latePurges, torn>>
      BY <1>13 DEF LateMeta
    <2>3. IF Live(x) THEN ~IsPublished(x.uid) /\ x.uid # EmptyUid ELSE x = DeleteMarker
      BY <1>0, <2>0, <2>1, LiveUid DEF LateInv
    <2>4. \A q \in lateMetas' : Live(q.meta) /\ Live(x) => q.meta.uid # x.uid
      BY <1>0, <2>0, <2>1 DEF LateInv
    <2>5. \A u \in Uids : Removing(u) => Removing(u)'
      BY <2>2 DEF Removing
    <2>6. lateMetas' \subseteq lateMetas
      BY <2>1
    <2> QED
      BY <2>1, <2>2, <2>3, <2>4, <2>5, <2>6, RemoveStore
  <1>14. ASSUME NEW u \in latePurges, LatePurge(u) PROVE RemoveInv'
    <2>1. /\ u \in Uids /\ PurgeChunks(u) /\ latePurges' \subseteq latePurges
          /\ UNCHANGED <<metaLog, op, lateMetas, torn>>
      BY <1>14 DEF LatePurge, PurgeChunks, TypeOK
    <2>2. u \in torn' /\ (u = EmptyUid \/ IsPublished(u))
      BY <1>0, <2>1 DEF PurgeInv
    <2>3. chunkLog[EmptyUid] = << >>
      BY EmptyAssumption DEF SealInv, UnusedInv
    <2>4. \A w \in Uids : chunkFloor'[w] > 0 =>
                chunkFloor[w] > 0 \/ (IsPublished(w) /\ w \in torn')
      <3> SUFFICES ASSUME NEW w \in Uids, chunkFloor'[w] > 0, ~(chunkFloor[w] > 0)
                   PROVE  IsPublished(w) /\ w \in torn'
        OBVIOUS
      <3>1. w = u
        BY <2>1 DEF PurgeChunks, TypeOK
      <3>2. Len(chunkLog[u]) > 0
        BY <2>1, <3>1 DEF PurgeChunks, TypeOK
      <3> QED
        BY <2>2, <2>3, <3>1, <3>2
    <2>5. LateInv' /\ \A w \in Uids : Removing(w) => Removing(w)'
      BY <1>0, <2>1, LateQuiet DEF Removing
    <2> QED
      BY <1>0, <2>1, <2>4, <2>5, RemoveQuiet
  <1>15. ASSUME NEW u \in Uids, Age(u) PROVE RemoveInv'
    <2>1. Aging /\ UNCHANGED <<metaLog, op, lateMetas, latePurges, torn>>
      BY <1>15 DEF Age
    <2> QED
      BY <1>0, <2>1, LateQuiet, RemoveQuiet DEF Removing
  <1>16. ASSUME UNCHANGED vars PROVE RemoveInv'
    <2>1. UNCHANGED <<chunkFloor, metaLog, op, lateMetas, latePurges, torn>>
      BY <1>16 DEF vars
    <2> QED
      BY <1>0, <2>1, LateQuiet, RemoveQuiet DEF Removing
  <1> QED
    BY <1>1, <1>2, <1>3, <1>4, <1>5, <1>6, <1>7, <1>8, <1>9, <1>10, <1>11,
       <1>12, <1>13, <1>14, <1>15, <1>16, NextCases

-----------------------------------------------------------------------------
LEMMA InvInit == Init => IInv
  <1> SUFFICES ASSUME Init PROVE IInv
    OBVIOUS
  <1>1. FloorInv
    BY DEF Init, FloorInv
  <1> QED
    BY <1>1, TypeInit, SealInit, RemoveInit DEF IInv

LEMMA InvStep ==
    ASSUME FreshUids
    PROVE  IInv /\ [Next]_vars => IInv'
  <1> SUFFICES ASSUME IInv, [Next]_vars PROVE IInv'
    OBVIOUS
  <1>1. TypeOK /\ FloorInv /\ SealInv /\ RemoveInv
    BY DEF IInv
  <1>2. TypeOK'
    BY <1>1, TypeStep
  <1>3. FloorInv'
    BY <1>1, FloorStep
  <1>4. SealInv'
    BY <1>1, <1>2, SealStep
  <1>5. RemoveInv'
    BY <1>1, RemoveStep
  <1> QED
    BY <1>2, <1>3, <1>4, <1>5 DEF IInv

\* The inductive invariant holds when no two puts share a uid.
THEOREM Invariance ==
    ASSUME FreshUids
    PROVE  Spec => []IInv
  <1>1. IInv /\ [Next]_vars => IInv'
    BY InvStep
  <1> QED
    BY <1>1, InvInit, PTL DEF Spec

\* A get that completes returns exactly the bytes of the object it asked for,
\* whatever puts, removes and failures happen meanwhile.
THEOREM GetReturnsTheObject ==
    ASSUME FreshUids
    PROVE  Spec => []GetIntegrity
  <1>1. IInv => GetIntegrity
    BY SealGivesIntegrity DEF IInv
  <1> QED
    BY <1>1, Invariance, PTL

\* A get that times out has met a purge or the age limit.
THEOREM TimeoutIsJustified ==
    ASSUME FreshUids
    PROVE  Spec => []TimeoutMeansGone
  <1>1. IInv => TimeoutMeansGone
    BY SealGivesTimeout DEF IInv
  <1> QED
    BY <1>1, Invariance, PTL

\* A name whose last metadata is live has all its chunks, unless a remove of it
\* is between its purge and its marker or failed there.
THEOREM LiveStaysReadable ==
    ASSUME FreshUids
    PROVE  Spec => []LiveIsReadable
  <1>1. IInv => LiveIsReadable
    <2> SUFFICES ASSUME IInv, ~Aging, NEW n \in Names, HasInfo(n), Live(Info(n)),
                        Info(n).uid \notin torn, ~Removing(Info(n).uid)
                 PROVE  Readable(Info(n))
      BY DEF LiveIsReadable, Removing
    <2>1. TypeOK /\ SealInv /\ PurgeInv
      BY DEF IInv, RemoveInv
    <2>2. Info(n) \in Meta /\ Present(Info(n))
      BY <2>1, InfoType, LogPresent DEF Info
    <2>3. Sealed(Info(n))
      BY <2>1, <2>2 DEF SealInv, MetaInv, WellFormed, Live
    <2>4. Info(n).uid \in Uids /\ chunkFloor[Info(n).uid] \in Nat
      BY <2>1, <2>2 DEF Meta, TypeOK
    <2>5. ~Superseded(Info(n).uid)
      BY DEF Superseded
    <2>6. ~(chunkFloor[Info(n).uid] > 0)
      BY <2>1, <2>4, <2>5 DEF PurgeInv, Gone
    <2> QED
      BY <2>3, <2>4, <2>6 DEF Sealed, Readable
  <1> QED
    BY <1>1, Invariance, PTL

\* Nothing is published on the chunk subject of an object that has metadata.
THEOREM PublishedStaysFrozen ==
    ASSUME FreshUids
    PROVE  Spec => PublishedIsFrozen
  <1>1. IInv /\ [Next]_vars =>
            [\A u \in Uids : IsPublished(u) => chunkLog'[u] = chunkLog[u]]_vars
    BY SealFreezes DEF IInv
  <1> QED
    BY <1>1, Invariance, PTL DEF Spec, PublishedIsFrozen

\* The purge of a remove takes no chunk of another name's object.
THEOREM RemoveSparesOthers ==
    ASSUME FreshUids
    PROVE  Spec => RemoveTouchesOnlyItsName
  <1> DEFINE A == \A c \in Clients, n \in Names :
                    /\ RemovePurge(c)
                    /\ n # op[c].name
                    /\ HasInfo(n)
                    /\ Live(Info(n))
                    /\ Readable(Info(n))
                    => Readable(Info(n))'
  <1>1. IInv /\ [Next]_vars => [A]_vars
    <2> SUFFICES ASSUME IInv, NEW c \in Clients, NEW n \in Names,
                        RemovePurge(c), n # op[c].name, HasInfo(n), Live(Info(n)),
                        Readable(Info(n))
                 PROVE  Readable(Info(n))'
      OBVIOUS
    <2>1. TypeOK /\ HomeInv /\ ReadInv
      BY DEF IInv, RemoveInv
    <2>2. op[c].name \in Names /\ op[c].meta.uid \in Uids
      BY <2>1 DEF TypeOK, Calls, Meta
    <2>3. PICK k \in 1..Len(metaLog[op[c].name]) : metaLog[op[c].name][k] = op[c].meta
      BY <2>1 DEF ReadInv, RemovePurge
    <2>4. Len(metaLog[n]) \in 1..Len(metaLog[n])
      BY <2>1, InfoType
    <2>5. Info(n).uid # op[c].meta.uid
      BY <2>1, <2>2, <2>3, <2>4 DEF HomeInv, Info
    <2>6. /\ UNCHANGED <<chunkLog, metaLog>>
          /\ chunkFloor' = [chunkFloor EXCEPT ![op[c].meta.uid] = Len(chunkLog[op[c].meta.uid])]
      BY DEF RemovePurge, PurgeChunks
    <2>7. Info(n)' = Info(n)
      BY <2>6 DEF Info
    <2>8. chunkFloor'[Info(n).uid] = chunkFloor[Info(n).uid]
      BY <2>1, <2>5, <2>6, InfoType DEF TypeOK, Meta
    <2> QED
      BY <2>6, <2>7, <2>8 DEF Readable
  <1> QED
    BY <1>1, Invariance, PTL DEF Spec, RemoveTouchesOnlyItsName

=============================================================================
