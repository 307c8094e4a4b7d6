------------------------ MODULE ObjectStoreAtomicProofs ------------------------
(***************************************************************************)
(* The object store implements AtomicObjectStore: each step of ObjectStore *)
(* is one of the abstract store, or leaves it as it is.                    *)
(***************************************************************************)
EXTENDS ObjectStoreAtomic, ObjectStoreProofs

USE DEF stream, latePublishes

-----------------------------------------------------------------------------
(* What the abstraction makes of metadata and of chunks.                   *)

\* Metadata describes an object that has data, or is a delete marker.
Described(m) ==
    IF m.deleted
    THEN m.obj = NoObject /\ m.chunks = 0
    ELSE m.obj \in Objects /\ m.chunks > 0 /\ m.size = SizeOf[m.obj] /\ m.size # 0

LEMMA MetaFacts ==
    ASSUME TypeOK, SealInv, NEW m \in Meta, Present(m)
    PROVE  Described(m)
  <1>1. WellFormed(m)
    BY DEF SealInv, MetaInv
  <1>2. CASE m.deleted
    BY <1>1, <1>2 DEF WellFormed, DeleteMarker, Described
  <1>3. CASE ~m.deleted
    <2>1. Sealed(m) /\ m.uid \in Uids
      BY <1>1, <1>3 DEF WellFormed, Meta
    <2>2. /\ m.obj \in Objects /\ m.size = SizeOf[m.obj] /\ m.size # 0
          /\ m.chunks = Len(chunkLog[m.uid]) /\ Tiles(chunkLog[m.uid], m.obj, m.size)
      BY <2>1 DEF Sealed
    <2>3. chunkLog[m.uid] \in Seq(Chunk) /\ chunkLog[m.uid] # << >>
      BY <2>1, <2>2 DEF TypeOK, Tiles
    <2>4. Len(chunkLog[m.uid]) > 0
      BY <2>3
    <2> QED
      BY <1>3, <2>2, <2>4 DEF Described
  <1> QED
    BY <1>2, <1>3

\* Chunks that tile an object are received as that object.
LEMMA ReceivedWhole ==
    ASSUME NEW s \in Seq(Chunk), NEW o \in Objects, Tiles(s, o, SizeOf[o]), SizeOf[o] # 0
    PROVE  Received(s) = o
  <1> DEFINE P(x) == IF x = "corrupt"
                     THEN \A p \in Objects : ~Tiles(s, p, SizeOf[p])
                     ELSE Tiles(s, x, SizeOf[x])
  <1>1. s # << >> /\ 1 \in 1..Len(s)
    <2>1. s # << >>
      BY DEF Tiles
    <2> QED
      BY <2>1
  <1>2. o # "corrupt" /\ "corrupt" \notin Objects
    BY AbstractionAssumption
  <1>3. \A p \in Objects : Tiles(s, p, SizeOf[p]) => s[1].obj = p
    BY <1>1 DEF Tiles
  <1>4. s[1].obj = o
    BY <1>3
  <1>5. P(o)
    BY <1>2
  <1>6. \A x \in Objects \cup {"corrupt"} : P(x) => x = o
    BY <1>2, <1>3, <1>4
  <1> HIDE DEF P
  <1>7. (CHOOSE x \in Objects \cup {"corrupt"} : P(x)) = o
    BY <1>5, <1>6
  <1> QED
    BY <1>1, <1>7 DEF Received, P

-----------------------------------------------------------------------------
(* The abstract state after a step.                                        *)

LEMMA ValueStays ==
    ASSUME UNCHANGED metaLog
    PROVE  AbstractValue' = AbstractValue
  BY DEF AbstractValue, Held, HasInfo, Info

LEMMA ValueStored ==
    ASSUME TypeOK, NEW n \in Names, NEW m \in Meta, StoreMeta(n, m)
    PROVE  AbstractValue' = [AbstractValue EXCEPT ![n] = m.obj]
  <1>1. metaLog' = [metaLog EXCEPT ![n] = Append(@, m)] /\ metaLog \in [Names -> Seq(Meta)]
    BY DEF StoreMeta, TypeOK
  <1>2. \A j \in Names : j # n => metaLog'[j] = metaLog[j]
    BY <1>1
  <1>3. metaLog'[n] = Append(metaLog[n], m) /\ metaLog[n] \in Seq(Meta)
    BY <1>1
  <1>4. metaLog'[n] # << >> /\ metaLog'[n][Len(metaLog'[n])] = m
    BY <1>3
  <1>5. Held(n)' = m.obj
    BY <1>4 DEF Held, HasInfo, Info
  <1>6. \A j \in Names : j # n => Held(j)' = Held(j)
    BY <1>2 DEF Held, HasInfo, Info
  <1> QED
    BY <1>5, <1>6 DEF AbstractValue

LEMMA CallsStay ==
    ASSUME UNCHANGED op
    PROVE  AbstractCalls' = AbstractCalls
  BY DEF AbstractCalls, AbstractCall, Wanted

LEMMA CallChanges ==
    ASSUME TypeOK, NEW c \in Clients, NEW x, op' = [op EXCEPT ![c] = x]
    PROVE  /\ AbstractCalls' = [AbstractCalls EXCEPT ![c] = AbstractCall(x)]
           /\ AbstractCalls[c] = AbstractCall(op[c])
           /\ AbstractCall(x) = AbstractCall(op[c]) => AbstractCalls' = AbstractCalls
  <1>1. op'[c] = x /\ \A d \in Clients : d # c => op'[d] = op[d]
    BY DEF TypeOK
  <1>2. AbstractCalls' = [d \in Clients |-> AbstractCall(op'[d])]
    BY DEF AbstractCalls, AbstractCall, Wanted
  <1>3. \A d \in Clients : d # c => AbstractCall(op'[d]) = AbstractCall(op[d])
    BY <1>1
  <1>4. AbstractCall(op'[c]) = AbstractCall(x)
    BY <1>1
  <1>5. AbstractCalls = [d \in Clients |-> AbstractCall(op[d])]
    BY DEF AbstractCalls
  <1>6. AbstractCalls' = [AbstractCalls EXCEPT ![c] = AbstractCall(x)]
    BY <1>2, <1>3, <1>4, <1>5
  <1> QED
    BY <1>5, <1>6

LEMMA PendingStays ==
    ASSUME UNCHANGED lateMetas
    PROVE  AbstractPending' = AbstractPending
  BY DEF AbstractPending, AbstractWrite

LEMMA IdleIsNoCall ==
    ASSUME NEW r, r.pc = "idle"
    PROVE  AbstractCall(r) = Abstract!NoCall
  BY DEF AbstractCall, Abstract!NoCall

LEMMA WritesAre ==
    ASSUME NEW r
    PROVE  /\ r.pc = "put" => AbstractCall(r) = Abstract!Write(r.name, r.obj)
           /\ r.pc \in {"purge", "mark"} => AbstractCall(r) = Abstract!Write(r.name, NoObject)
  BY DEF AbstractCall, Abstract!Write

LEMMA ReadsAre ==
    ASSUME NEW r, r.pc = "get"
    PROVE  AbstractCall(r) = Abstract!Reading(r.meta.obj, IF Wanted(r) THEN NoData ELSE Received(r.arrived))
  BY DEF AbstractCall, Abstract!Reading

-----------------------------------------------------------------------------
(* The steps.                                                              *)

Stutters == UNCHANGED <<AbstractValue, AbstractCalls, AbstractPending>>

LEMMA InfoFacts ==
    ASSUME TypeOK, SealInv, NEW n \in Names, HasInfo(n)
    PROVE  /\ Info(n) \in Meta /\ Described(Info(n))
           /\ AbstractValue[n] = Info(n).obj /\ AbstractValue[n] # Absent
  <1>1. Info(n) \in Meta /\ Present(Info(n))
    BY InfoType, LogPresent DEF Info
  <1>2. Described(Info(n))
    BY <1>1, MetaFacts
  <1>3. AbstractValue[n] = Info(n).obj
    BY DEF AbstractValue, Held
  <1> QED
    BY <1>1, <1>2, <1>3, AbstractionAssumption DEF Described

LEMMA PutStep ==
    ASSUME TypeOK, NEW c \in Clients, NEW o \in Objects, Put(c, o)
    PROVE  Abstract!StartPut(c, o)
  <1> DEFINE x == Call("put", o, NameOf[o], DeleteMarker)
  <1>1. op' = [op EXCEPT ![c] = x] /\ op[c].pc = "idle" /\ UNCHANGED <<metaLog, lateMetas>>
    BY DEF Put, Begin
  <1>2. x.pc = "put" /\ x.name = NameOf[o] /\ x.obj = o
    BY DEF Call
  <1> HIDE DEF x
  <1>3. AbstractCall(x) = Abstract!Write(NameOf[o], o) /\ AbstractCall(op[c]) = Abstract!NoCall
    BY <1>1, <1>2, WritesAre, IdleIsNoCall
  <1>4. AbstractCalls[c] = Abstract!NoCall
        /\ AbstractCalls' = [AbstractCalls EXCEPT ![c] = Abstract!Write(NameOf[o], o)]
    <2>1. /\ AbstractCalls' = [AbstractCalls EXCEPT ![c] = AbstractCall(x)]
          /\ AbstractCalls[c] = AbstractCall(op[c])
      BY <1>1, CallChanges
    <2> QED
      BY <1>3, <2>1
  <1>5. AbstractValue' = AbstractValue /\ AbstractPending' = AbstractPending
    BY <1>1, ValueStays, PendingStays
  <1> QED
    BY <1>4, <1>5 DEF Abstract!StartPut, Abstract!Start

LEMMA RemoveStartStep ==
    ASSUME TypeOK, SealInv, NEW c \in Clients, NEW n \in Names, Remove(c, n)
    PROVE  Abstract!StartRemove(c, n)
  <1> DEFINE x == Call("purge", NoObject, n, Info(n))
  <1>1. op' = [op EXCEPT ![c] = x] /\ op[c].pc = "idle" /\ UNCHANGED <<metaLog, lateMetas>>
        /\ HasInfo(n)
    BY DEF Remove, Begin
  <1>2. x.pc = "purge" /\ x.name = n
    BY DEF Call
  <1> HIDE DEF x
  <1>3. AbstractCall(x) = Abstract!Write(n, NoObject) /\ AbstractCall(op[c]) = Abstract!NoCall
    BY <1>1, <1>2, WritesAre, IdleIsNoCall
  <1>4. AbstractCalls[c] = Abstract!NoCall
        /\ AbstractCalls' = [AbstractCalls EXCEPT ![c] = Abstract!Write(n, NoObject)]
    <2>1. /\ AbstractCalls' = [AbstractCalls EXCEPT ![c] = AbstractCall(x)]
          /\ AbstractCalls[c] = AbstractCall(op[c])
      BY <1>1, CallChanges
    <2> QED
      BY <1>3, <2>1
  <1>5. AbstractValue' = AbstractValue /\ AbstractPending' = AbstractPending
    BY <1>1, ValueStays, PendingStays
  <1>6. AbstractValue[n] # Absent
    BY <1>1, InfoFacts
  <1> QED
    BY <1>4, <1>5, <1>6 DEF Abstract!StartRemove, Abstract!Start

\* A get of a removed name wants nothing, and any other at least a chunk.
LEMMA GetStep ==
    ASSUME TypeOK, SealInv, NEW c \in Clients, NEW n \in Names, Get(c, n)
    PROVE  Abstract!StartGet(c, n)
  <1> DEFINE x == Call("get", NoObject, n, Info(n))
             seen == Info(n).obj
             result == IF seen = NoObject THEN NoObject ELSE NoData
  <1>1. op' = [op EXCEPT ![c] = x] /\ op[c].pc = "idle" /\ UNCHANGED <<metaLog, lateMetas>>
        /\ HasInfo(n)
    BY DEF Get, Begin
  <1>2. x.pc = "get" /\ x.meta = Info(n) /\ x.arrived = << >>
    BY DEF Call
  <1>3. Described(Info(n)) /\ AbstractValue[n] = seen /\ AbstractValue[n] # Absent
        /\ Info(n).chunks \in Nat
    BY <1>1, InfoFacts DEF Meta
  <1> HIDE DEF x
  <1>4. (IF Wanted(x) THEN NoData ELSE Received(x.arrived)) = result
    <2>1. CASE Info(n).deleted
      <3>1. ~Wanted(x) /\ seen = NoObject
        BY <1>2, <1>3, <2>1 DEF Wanted, Described
      <3> QED
        BY <1>2, <3>1 DEF Received
    <2>2. CASE ~Info(n).deleted
      <3>1. Wanted(x) /\ seen # NoObject
        BY <1>2, <1>3, <2>2, ObjectsAssumption DEF Wanted, Described
      <3> QED
        BY <3>1
    <2> QED
      BY <2>1, <2>2
  <1>5. AbstractCall(x) = Abstract!Reading(seen, result) /\ AbstractCall(op[c]) = Abstract!NoCall
    BY <1>1, <1>2, <1>4, ReadsAre, IdleIsNoCall
  <1>6. AbstractCalls[c] = Abstract!NoCall
        /\ AbstractCalls' = [AbstractCalls EXCEPT ![c] = Abstract!Reading(seen, result)]
    <2> HIDE DEF seen, result
    <2>1. /\ AbstractCalls' = [AbstractCalls EXCEPT ![c] = AbstractCall(x)]
          /\ AbstractCalls[c] = AbstractCall(op[c])
      BY <1>1, CallChanges
    <2> QED
      BY <1>5, <2>1
  <1>7. AbstractValue' = AbstractValue /\ AbstractPending' = AbstractPending
    BY <1>1, ValueStays, PendingStays
  <1> QED
    BY <1>3, <1>6, <1>7 DEF Abstract!StartGet, Abstract!Start

\* The last chunk makes the received ones the object.
LEMMA ChunkStep ==
    ASSUME TypeOK, SealInv, TypeOK', GetIntegrity', NEW c \in Clients, GetChunk(c)
    PROVE  Abstract!FinishRead(c) \/ Stutters
  <1> DEFINE i == NextIndex(op[c])
             x == Taken(op[c], i)
             o == op[c].meta.obj
  <1>1. /\ op[c].pc = "get" /\ Wanted(op[c]) /\ op' = [op EXCEPT ![c] = x]
        /\ UNCHANGED <<metaLog, lateMetas>>
        /\ op[c] \in Calls
    BY DEF GetChunk, TypeOK
  <1>2. x.pc = "get" /\ x.meta = op[c].meta
    BY <1>1 DEF Taken, Calls
  <1>3. op'[c] = x /\ x \in Calls
    <2>1. op'[c] = x
      BY <1>1 DEF TypeOK
    <2> QED
      BY <2>1 DEF TypeOK
  <1> HIDE DEF x, i
  <1>4. AbstractCall(op[c]) = Abstract!Reading(o, NoData)
    BY <1>1, ReadsAre
  <1>5. AbstractValue' = AbstractValue /\ AbstractPending' = AbstractPending
    BY <1>1, ValueStays, PendingStays
  <1>6. CASE Wanted(x)
    <2>1. AbstractCall(x) = AbstractCall(op[c])
      BY <1>2, <1>4, <1>6, ReadsAre
    <2> QED
      BY <1>1, <1>5, <2>1, CallChanges DEF Stutters
  <1>7. CASE ~Wanted(x)
    <2>1. op[c].meta \in Meta /\ Described(op[c].meta)
      BY <1>1, MetaFacts DEF Calls, Present
    <2>2. ~op[c].meta.deleted
      BY <1>1, <2>1 DEF Wanted, Described, Calls
    <2>3. Tiles(x.arrived, o, op[c].meta.size)
      <3>1. op'[c].pc = "get" /\ ~Wanted(op'[c]) /\ ~op'[c].meta.deleted
        BY <1>2, <1>3, <1>7, <2>2
      <3>2. Tiles(op'[c].arrived, op'[c].meta.obj, op'[c].meta.size)
        BY <3>1 DEF GetIntegrity
      <3> QED
        BY <1>2, <1>3, <3>2
    <2>4. Received(x.arrived) = o
      <3>1. x.arrived \in Seq(Chunk)
        BY <1>3 DEF Calls
      <3> QED
        BY <2>1, <2>2, <2>3, <3>1, ReceivedWhole DEF Described
    <2>5. AbstractCall(x) = Abstract!Reading(o, o)
      BY <1>2, <1>7, <2>4, ReadsAre
    <2>6. AbstractCalls[c] = Abstract!Reading(o, NoData)
          /\ AbstractCalls' = [AbstractCalls EXCEPT ![c] = Abstract!Reading(o, o)]
      <3> HIDE DEF o
      <3>1. /\ AbstractCalls' = [AbstractCalls EXCEPT ![c] = AbstractCall(x)]
            /\ AbstractCalls[c] = AbstractCall(op[c])
        BY <1>1, CallChanges
      <3> QED
        BY <1>4, <2>5, <3>1
    <2> HIDE DEF o
    <2>7. Abstract!Reading(o, o) = [Abstract!Reading(o, NoData) EXCEPT !.result = o]
      BY DEF Abstract!Reading
    <2>8. AbstractCalls' = [AbstractCalls EXCEPT ![c].result = AbstractCalls[c].seen]
      BY <2>6, <2>7 DEF Abstract!Reading
    <2>9. AbstractCalls[c].kind = "read" /\ AbstractCalls[c].result = NoData
      BY <2>6 DEF Abstract!Reading
    <2>10. Abstract!FinishRead(c)
      BY <1>5, <2>8, <2>9 DEF Abstract!FinishRead
    <2> QED
      BY <2>10
  <1> QED
    BY <1>6, <1>7

\* A get ends, with its result or without.
LEMMA EndStep ==
    ASSUME TypeOK, NEW c \in Clients, op[c].pc = "get", op' = [op EXCEPT ![c] = Idle],
           UNCHANGED <<metaLog, lateMetas>>
    PROVE  Abstract!EndRead(c)
  <1>1. AbstractCall(Idle) = Abstract!NoCall
    BY IdlePc, IdleIsNoCall
  <1>2. AbstractCalls[c] = AbstractCall(op[c])
        /\ AbstractCalls' = [AbstractCalls EXCEPT ![c] = Abstract!NoCall]
    BY <1>1, CallChanges
  <1>3. AbstractCalls[c].kind = "read"
    BY <1>2, ReadsAre DEF Abstract!Reading
  <1>4. AbstractValue' = AbstractValue /\ AbstractPending' = AbstractPending
    BY ValueStays, PendingStays
  <1> QED
    BY <1>2, <1>3, <1>4 DEF Abstract!EndRead

\* A put takes effect with its metadata, a remove with its marker.
LEMMA WriteStep ==
    ASSUME TypeOK, NEW c \in Clients, PutMeta(c) \/ RemoveMark(c)
    PROVE  Abstract!EndWrite(c)
  <1> DEFINE m == IF op[c].pc = "put" THEN PutMetaOf(op[c]) ELSE DeleteMarker
             n == op[c].name
  <1>1. /\ op[c].pc \in {"put", "mark"} /\ StoreMeta(n, m) /\ op' = [op EXCEPT ![c] = Idle]
        /\ UNCHANGED lateMetas
    BY DEF PutMeta, RemoveMark
  <1>2. n \in Names /\ m \in Meta
    BY <1>1, PutMetaType, MarkerType DEF TypeOK, Calls
  <1>3. AbstractCall(op[c]) = Abstract!Write(n, m.obj)
    BY <1>1, WritesAre DEF PutMetaOf, DeleteMarker
  <1> HIDE DEF m, n
  <1>4. AbstractValue' = [AbstractValue EXCEPT ![n] = m.obj] /\ AbstractPending' = AbstractPending
    BY <1>1, <1>2, ValueStored, PendingStays
  <1>5. AbstractCalls[c] = Abstract!Write(n, m.obj)
        /\ AbstractCalls' = [AbstractCalls EXCEPT ![c] = Abstract!NoCall]
    <2>1. AbstractCall(Idle) = Abstract!NoCall
      BY IdlePc, IdleIsNoCall
    <2> QED
      BY <1>1, <1>3, <2>1, CallChanges
  <1>6. AbstractCalls[c].kind = "write" /\ AbstractCalls[c].name = n /\ AbstractCalls[c].value = m.obj
    BY <1>5 DEF Abstract!Write
  <1> QED
    BY <1>4, <1>5, <1>6 DEF Abstract!EndWrite

\* A call that fails: what it was writing may be on its way.
LEMMA FailStep ==
    ASSUME TypeOK, NEW c \in Clients, Fail(c)
    PROVE  Abstract!EndRead(c) \/ Abstract!ThrowWrite(c)
  <1>1. op[c].pc # "idle" /\ op' = [op EXCEPT ![c] = Idle] /\ UNCHANGED metaLog /\ op[c] \in Calls
    BY FailCases DEF Aborted, TypeOK
  <1>2. CASE op[c].pc = "get"
    <2>1. UNCHANGED lateMetas
      BY <1>2, FailCases
    <2> QED
      BY <1>1, <1>2, <2>1, EndStep
  <1>3. CASE op[c].pc \in {"put", "purge", "mark"}
    <2> DEFINE v == IF op[c].pc = "put" THEN op[c].obj ELSE NoObject
               w == Abstract!Write(op[c].name, v)
    <2>1. AbstractCall(op[c]) = w
      BY <1>3, WritesAre
    <2>2. \/ UNCHANGED lateMetas
          \/ \E r : lateMetas' = lateMetas \cup {r} /\ AbstractWrite(r).write = w
      <3>1. CASE UNCHANGED lateMetas
        BY <3>1
      <3>2. CASE /\ op[c].pc = "put"
                 /\ lateMetas' = lateMetas \cup {GivenUp(c, PutMetaOf(op[c]))}
        <4>1. AbstractWrite(GivenUp(c, PutMetaOf(op[c]))).write = w
          BY <3>2 DEF AbstractWrite, GivenUp, PutMetaOf, Abstract!Write
        <4> QED
          BY <3>2, <4>1
      <3>3. CASE /\ op[c].pc = "mark"
                 /\ lateMetas' = lateMetas \cup {GivenUp(c, DeleteMarker)}
        <4>1. AbstractWrite(GivenUp(c, DeleteMarker)).write = w
          BY <3>3 DEF AbstractWrite, GivenUp, DeleteMarker, Abstract!Write
        <4> QED
          BY <3>3, <4>1
      <3> QED
        BY <3>1, <3>2, <3>3, FailCases
    <2>3. w.kind = "write"
      BY DEF Abstract!Write
    <2> HIDE DEF w
    <2>4. \/ AbstractPending' = AbstractPending
          \/ \E late \in AbstractPending' :
                late.write = w /\ AbstractPending' = AbstractPending \cup {late}
      <3>1. AbstractPending' = {AbstractWrite(r) : r \in lateMetas'}
        BY DEF AbstractPending, AbstractWrite
      <3>2. AbstractPending = {AbstractWrite(r) : r \in lateMetas}
        BY DEF AbstractPending
      <3>3. CASE UNCHANGED lateMetas
        BY <3>1, <3>2, <3>3
      <3>4. ASSUME NEW r, lateMetas' = lateMetas \cup {r}, AbstractWrite(r).write = w
            PROVE  /\ AbstractPending' = AbstractPending \cup {AbstractWrite(r)}
                   /\ AbstractWrite(r) \in AbstractPending'
        BY <3>1, <3>2, <3>4
      <3> QED
        BY <2>2, <3>3, <3>4
    <2>5. AbstractCalls[c] = w
          /\ AbstractCalls' = [AbstractCalls EXCEPT ![c] = Abstract!NoCall]
      <3>1. AbstractCall(Idle) = Abstract!NoCall
        BY IdlePc, IdleIsNoCall
      <3> QED
        BY <1>1, <2>1, <3>1, CallChanges
    <2>6. AbstractValue' = AbstractValue
      BY <1>1, ValueStays
    <2> QED
      BY <2>3, <2>4, <2>5, <2>6 DEF Abstract!ThrowWrite
  <1> QED
    BY <1>1, <1>2, <1>3 DEF Calls

\* Two requests on their way are two different writes.
LEMMA LateWritesDiffer ==
    ASSUME TypeOK, SealInv, LateInv, NEW r \in lateMetas, NEW q \in lateMetas,
           AbstractWrite(q) = AbstractWrite(r)
    PROVE  q = r
  <1>1. /\ \A m \in {q, r} : m \in [name : Names, meta : Meta, number : Nat]
        /\ Present(r.meta) /\ Present(q.meta)
    BY DEF TypeOK, Present
  <1>2. WellFormed(r.meta) /\ WellFormed(q.meta)
    BY <1>1 DEF SealInv, MetaInv
  <1>3. q.name = r.name /\ q.meta.obj = r.meta.obj /\ q.number = r.number
    BY DEF AbstractWrite
  <1>4. CASE r.meta.deleted
    <2>1. r.meta = DeleteMarker /\ r.meta.obj = NoObject
      BY <1>2, <1>4 DEF WellFormed, DeleteMarker
    <2>2. q.meta.deleted
      BY <1>2, <1>3, <2>1, ObjectsAssumption DEF WellFormed, Sealed
    <2>3. q.meta = DeleteMarker
      BY <1>2, <2>2 DEF WellFormed
    <2> QED
      BY <1>1, <1>3, <2>1, <2>3
  <1>5. CASE ~r.meta.deleted
    <2>1. Sealed(r.meta)
      BY <1>2, <1>5 DEF WellFormed
    <2>2. ~q.meta.deleted
      BY <1>2, <1>3, <2>1, ObjectsAssumption DEF WellFormed, Sealed, DeleteMarker
    <2>3. q.meta.uid = r.meta.uid
      BY <1>2, <1>3, <2>1, <2>2 DEF WellFormed, Sealed
    <2> QED
      BY <1>5, <2>3 DEF LateInv, Live
  <1> QED
    BY <1>4, <1>5

LEMMA LateStep ==
    ASSUME TypeOK, SealInv, LateInv, NEW r \in lateMetas, LateMeta(r)
    PROVE  \E w \in AbstractPending : Abstract!LateWrite(w)
  <1> DEFINE w == AbstractWrite(r)
  <1>1. StoreMeta(r.name, r.meta) /\ lateMetas' = lateMetas \ {r} /\ UNCHANGED op
        /\ r.name \in Names /\ r.meta \in Meta
    BY DEF LateMeta, TypeOK
  <1>2. w.write.name = r.name /\ w.write.value = r.meta.obj
    BY DEF AbstractWrite
  <1>3. AbstractValue' = [AbstractValue EXCEPT ![w.write.name] = w.write.value]
    BY <1>1, <1>2, ValueStored
  <1>4. AbstractPending = {AbstractWrite(q) : q \in lateMetas}
        /\ AbstractPending' = {AbstractWrite(q) : q \in lateMetas'}
    BY DEF AbstractPending, AbstractWrite
  <1>5. \A q \in lateMetas : AbstractWrite(q) = w => q = r
    BY LateWritesDiffer
  <1> HIDE DEF w
  <1>6. AbstractPending' = AbstractPending \ {w} /\ w \in AbstractPending
    BY <1>1, <1>4, <1>5 DEF w
  <1>7. AbstractCalls' = AbstractCalls
    BY <1>1, CallsStay
  <1> QED
    BY <1>3, <1>6, <1>7 DEF Abstract!LateWrite

\* What the abstract store does not see: a put's chunks and refusal, a remove's
\* purge, and chunks that arrive or go.
LEMMA StutterStep ==
    ASSUME TypeOK,
           \/ \E c \in Clients : \/ \E o \in Objects : PutInvalid(c, o)
                                 \/ PutChunk(c) \/ RemovePurge(c)
           \/ \E r \in lateChunks : LateChunk(r)
           \/ \E u \in latePurges : LatePurge(u)
           \/ \E u \in Uids : Age(u)
           \/ UNCHANGED vars
    PROVE  Stutters
  <1>1. UNCHANGED <<metaLog, lateMetas>>
    BY DEF PutInvalid, PutChunk, RemovePurge, LateChunk, LatePurge, Age, vars, StoreChunk, PurgeChunks
  <1>2. AbstractValue' = AbstractValue /\ AbstractPending' = AbstractPending
    BY <1>1, ValueStays, PendingStays
  <1>3. AbstractCalls' = AbstractCalls
    <2>1. ASSUME NEW c \in Clients, NEW o \in Objects, PutInvalid(c, o)
          PROVE  AbstractCalls' = AbstractCalls
      <3>1. op' = [op EXCEPT ![c] = Idle] /\ op[c].pc = "idle"
        BY <2>1 DEF PutInvalid, Begin
      <3>2. AbstractCall(Idle) = AbstractCall(op[c])
        BY <3>1, IdlePc, IdleIsNoCall
      <3> QED
        BY <3>1, <3>2, CallChanges
    <2>2. ASSUME NEW c \in Clients, PutChunk(c)
          PROVE  AbstractCalls' = AbstractCalls
      <3> DEFINE x == Sent(op[c], ChunkAt(op[c].obj, op[c].pos))
      <3>1. op' = [op EXCEPT ![c] = x] /\ op[c].pc = "put" /\ op[c] \in Calls
        BY <2>2 DEF PutChunk, TypeOK
      <3>2. x.pc = "put" /\ x.name = op[c].name /\ x.obj = op[c].obj
        BY <3>1 DEF Sent, Calls
      <3> HIDE DEF x
      <3>3. AbstractCall(x) = AbstractCall(op[c])
        BY <3>1, <3>2, WritesAre
      <3> QED
        BY <3>1, <3>3, CallChanges
    <2>3. ASSUME NEW c \in Clients, RemovePurge(c)
          PROVE  AbstractCalls' = AbstractCalls
      <3>1. op' = [op EXCEPT ![c] = Purged(op[c])] /\ op[c].pc = "purge" /\ op[c] \in Calls
        BY <2>3 DEF RemovePurge, TypeOK
      <3>2. Purged(op[c]).pc = "mark" /\ Purged(op[c]).name = op[c].name
        BY <3>1, PurgedType
      <3>3. AbstractCall(Purged(op[c])) = AbstractCall(op[c])
        BY <3>1, <3>2, WritesAre
      <3> QED
        BY <3>1, <3>3, CallChanges
    <2>4. CASE UNCHANGED op
      BY <2>4, CallsStay
    <2> QED
      BY <2>1, <2>2, <2>3, <2>4 DEF LateChunk, LatePurge, Age, vars
  <1> QED
    BY <1>2, <1>3 DEF Stutters

-----------------------------------------------------------------------------

LEMMA AbstractStart ==
    ASSUME Init
    PROVE  Abstract!Init
  <1>1. AbstractValue = [n \in Names |-> Absent]
    BY DEF Init, AbstractValue, Held, HasInfo
  <1>2. AbstractCalls = [c \in Clients |-> Abstract!NoCall]
    <2>1. \A c \in Clients : op[c].pc = "idle"
      BY IdlePc DEF Init
    <2>2. \A c \in Clients : AbstractCall(op[c]) = Abstract!NoCall
      BY <2>1, IdleIsNoCall
    <2> QED
      BY <2>2 DEF AbstractCalls
  <1>3. AbstractPending = {}
    BY DEF Init, AbstractPending
  <1> QED
    BY <1>1, <1>2, <1>3 DEF Abstract!Init

LEMMA AbstractStep ==
    ASSUME IInv, TypeOK', GetIntegrity', [Next]_vars
    PROVE  [Abstract!Next]_(Abstract!vars)
  <1>0. TypeOK /\ SealInv /\ LateInv
    BY DEF IInv, RemoveInv
  <1> DEFINE Step == Abstract!Next \/ Stutters
  <1>1. ASSUME NEW c \in Clients, NEW o \in Objects, Put(c, o) PROVE Step
    BY <1>0, <1>1, PutStep DEF Abstract!Next
  <1>2. ASSUME NEW c \in Clients, NEW n \in Names, Get(c, n) PROVE Step
    BY <1>0, <1>2, GetStep DEF Abstract!Next
  <1>3. ASSUME NEW c \in Clients, NEW n \in Names, Remove(c, n) PROVE Step
    BY <1>0, <1>3, RemoveStartStep DEF Abstract!Next
  <1>4. ASSUME NEW c \in Clients, GetChunk(c) PROVE Step
    BY <1>0, <1>4, ChunkStep DEF Abstract!Next
  <1>5. ASSUME NEW c \in Clients, GetTimeout(c) \/ GetReturn(c) PROVE Step
    <2>1. op[c].pc = "get" /\ op' = [op EXCEPT ![c] = Idle] /\ UNCHANGED <<metaLog, lateMetas>>
      BY <1>5 DEF GetTimeout, GetReturn
    <2> QED
      BY <1>0, <2>1, EndStep DEF Abstract!Next
  <1>6. ASSUME NEW c \in Clients, PutMeta(c) \/ RemoveMark(c) PROVE Step
    BY <1>0, <1>6, WriteStep DEF Abstract!Next
  <1>7. ASSUME NEW c \in Clients, Fail(c) PROVE Step
    BY <1>0, <1>7, FailStep DEF Abstract!Next
  <1>8. ASSUME NEW r \in lateMetas, LateMeta(r) PROVE Step
    BY <1>0, <1>8, LateStep DEF Abstract!Next
  <1>9. ASSUME \/ \E c \in Clients : \/ \E o \in Objects : PutInvalid(c, o)
                                     \/ PutChunk(c) \/ RemovePurge(c)
               \/ \E r \in lateChunks : LateChunk(r)
               \/ \E u \in latePurges : LatePurge(u)
               \/ \E u \in Uids : Age(u)
               \/ UNCHANGED vars
        PROVE  Step
    BY <1>0, <1>9, StutterStep
  <1> HIDE DEF Step
  <1>10. Step
    BY <1>1, <1>2, <1>3, <1>4, <1>5, <1>6, <1>7, <1>8, <1>9
    DEF Next, ClientStep, Progress, Late
  <1> QED
    BY <1>10 DEF Step, Stutters, Abstract!vars

\* Every put, remove and get is one atomic write or read of a name, at one instant
\* of the call; a write whose call has thrown may still happen, once.
THEOREM ObjectStoreIsAtomic ==
    ASSUME FreshUids
    PROVE  Spec => IsAtomic
  <1>1. Init => Abstract!Init
    BY AbstractStart
  <1>2. IInv /\ TypeOK' /\ GetIntegrity' /\ [Next]_vars => [Abstract!Next]_(Abstract!vars)
    BY AbstractStep
  <1>3. Spec => []IInv /\ []TypeOK /\ []GetIntegrity
    BY Invariance, TypeCorrect, GetReturnsTheObject
  <1> QED
    BY <1>1, <1>2, <1>3, PTL DEF Spec, IsAtomic, Abstract!Spec
=============================================================================
