-------------------------- MODULE KeyValueStoreProofs --------------------------
(***************************************************************************)
(* Proofs about KeyValueStore: what a write that expects a revision finds, *)
(* how often a write is executed and what a bucket keeps, for any clients, *)
(* keys, histories, calls and losses.                                      *)
(***************************************************************************)
EXTENDS KeyValueStore, FiniteSetTheorems, TLAPS

Reading == [element : Element, inc : Nat]
Executed == [by : Writes, revision : Nat \ {0}, inc : Nat, found : BOOLEAN]
BucketType == [exists : BOOLEAN, history : Nat, log : SUBSET Element, last : Nat, inc : Nat]
Stages == {"none", "look", "construct", "open", "create", "marker", "again"}
CallType == [op : {"none", "get", "getOrCreate", "create"}, stage : Stages,
             config : SUBSET Config, write : SUBSET Writes, seen : SUBSET BOOLEAN]

TypeInv ==
    /\ bucket \in BucketType
    /\ call \in [Clients -> CallType]
    /\ read \in [Clients -> SUBSET Reading]
    /\ stores \subseteq Clients
    /\ late \in SUBSET Writes
    /\ calls \in 0..MaxCalls /\ lost \in 0..MaxLost
    /\ writes \in SUBSET Executed
    /\ acked \in SUBSET (1..calls)

\* The bucket: revisions number its elements, and every key has a last one.
BucketInv ==
    /\ IsFiniteSet(bucket.log)
    /\ \A e \in bucket.log : e.revision <= bucket.last
    /\ \A e, f \in bucket.log : e.revision = f.revision => e = f
    /\ ~bucket.exists => bucket.log = {}
    /\ bucket.exists => bucket.history >= 1
    /\ \A k \in Keys : Of(k) # {} =>
          \E e \in Of(k) : \A d \in Of(k) : d.revision <= e.revision

\* The bucket and the writes executed in it: a write is the last of its key, or
\* the last of its key is later, and what there is was written.
WriteInv ==
    /\ IsFiniteSet(writes)
    /\ \A w \in writes : w.inc <= bucket.inc /\ w.by.id <= calls
    /\ \A v, w \in writes : v.inc = w.inc /\ v.revision = w.revision => v = w
    /\ bucket.exists =>
        /\ \A w \in writes : w.inc = bucket.inc =>
              /\ w.revision <= bucket.last
              /\ \E e \in Of(w.by.key) : w.revision <= e.revision
        /\ \A e \in bucket.log : \E w \in writes :
              /\ w.inc = bucket.inc /\ w.revision = e.revision
              /\ w.by.key = e.key /\ w.by.id = e.value
              /\ e.op = "purge" <=> w.by.op = "purge"

\* What was read of a bucket is still there or gone, and nothing else in its place.
ReadOK(r) ==
    /\ r.inc <= bucket.inc
    /\ bucket.exists /\ r.inc = bucket.inc =>
        /\ r.element.revision <= bucket.last
        /\ \A e \in bucket.log : e.revision = r.element.revision => e = r.element
\* A marker was written by a purge.
Marker(r) ==
    /\ r.element.op = "purge"
    /\ \E p \in writes : /\ p.inc = r.inc /\ p.revision = r.element.revision
                         /\ p.by.key = r.element.key /\ p.by.op = "purge"
\* What a write expects is what its caller has read.
WriteOK(w) ==
    /\ w.op \in {"put", "purge"} => w.from = {} /\ w.expected = -1
    /\ w.op = "create" /\ w.from = {} => w.expected = 0
    /\ w.op = "update" => w.from # {}
    /\ \A r \in w.from :
          /\ r.element.key = w.key /\ w.expected = r.element.revision
          /\ ReadOK(r)
          /\ w.op = "create" => Marker(r)
RequestInv ==
    /\ \A c \in Clients : \A r \in read[c] : ReadOK(r) /\ r.element.op = "put"
    /\ \A w \in late : WriteOK(w) /\ w.id <= calls
    /\ \A w \in writes : WriteOK(w.by)
    /\ \A c \in Clients : \A w \in call[c].write : WriteOK(w) /\ w.id <= calls

\* A call has one request, but a create, which may have two.  What a create may
\* still send is of its own call.
Both(x, y) == x.op = "create" /\ y.op = "create" /\ x.key = y.key
New(x) ==
    /\ \A y \in late : y.id = x.id => Both(x, y)
    /\ \A v \in writes : v.by.id = x.id => Both(x, v.by)
Free(c, x) == \A d \in Clients \ {c} : \A z \in call[d].write : z.id # x.id
UniqueInv ==
    /\ \A x, y \in late : x.id = y.id => x = y \/ Both(x, y)
    /\ \A x \in late : \A v \in writes : v.by.id = x.id => Both(x, v.by)
    /\ \A c \in Clients : \A x \in call[c].write : x.op = "create" /\ New(x) /\ Free(c, x)

\* What was written since w under its key; w is there, or was purged, or enough
\* was written since to take its place.
Since(w) == {v \in writes : v.inc = bucket.inc /\ v.by.key = w.by.key /\ v.revision > w.revision}
KeptBy(w) ==
    \/ \E e \in bucket.log : e.revision = w.revision /\ e.value = w.by.id
    \/ \E v \in Since(w) : v.by.op = "purge"
    \/ Cardinality(Since(w)) >= bucket.history
HistoryInv ==
    /\ \A k \in Keys : Cardinality(Of(k)) <= bucket.history
    /\ bucket.exists => \A w \in writes : w.inc = bucket.inc => KeptBy(w)
AskedInv ==
    \A f \in asked :
        f \in Config /\ bucket.exists /\ bucket.history = HistoryOf(ToCnatsKVConfig(f))

\* The two halves of AcknowledgedOnce.
WrittenOnce ==
    \A v, w \in writes :
        v.by.id = w.by.id /\ v.inc = w.inc /\ v.revision < w.revision =>
            /\ w.by.op = "create"
            /\ \/ \E p \in writes : /\ p.inc = w.inc /\ p.by.key = w.by.key /\ p.by.op = "purge"
                                    /\ v.revision < p.revision /\ p.revision < w.revision
               \/ \E r \in w.by.from : r.inc < w.inc
AckInv == \A id \in acked : \E w \in writes : w.by.id = id

\* A look-up knows whether the bucket is there, and what took it to its line.
LookUps == {"get", "getOrCreate"}
Look(r, exists) ==
    /\ r.op \in LookUps =>
        /\ exists \in r.seen /\ r.config # {} /\ r.write = {}
        /\ r.stage \in {"look", "construct", "open", "create"}
        /\ r.stage = "create" => FALSE \in r.seen
        /\ r.op = "get" /\ r.stage # "look" => TRUE \in r.seen
    /\ r.op \notin LookUps => r.stage \in {"none", "marker", "again"}
LookInv == \A c \in Clients : Look(call[c], bucket.exists)
AnswerInv ==
    /\ GetCreatesOnlyWhatWasDeleted
    /\ answer.op = "info" => \A i \in answer.info : i.history = bucket.history

Promises == UpdateReplacesWhatWasRead /\ CreateFindsNothing /\ WrittenOnce
DataInv ==
    /\ bucket \in BucketType /\ writes \in SUBSET Executed /\ late \in SUBSET Writes
    /\ BucketInv /\ WriteInv /\ RequestInv /\ UniqueInv
    /\ HistoryInv /\ AskedInv /\ AckInv /\ Promises
IInv == TypeInv /\ DataInv /\ LookInv /\ AnswerInv

USE KeyValueAssumption

-----------------------------------------------------------------------------
(* The last revision of a key.                                             *)

LEMMA BucketFields ==
    ASSUME bucket \in BucketType
    PROVE  /\ bucket.exists \in BOOLEAN /\ bucket.history \in Nat
           /\ bucket.log \in SUBSET Element /\ bucket.last \in Nat /\ bucket.inc \in Nat
  BY DEF BucketType

LEMMA RevisionType ==
    ASSUME NEW e \in Element
    PROVE  e.revision \in Nat /\ e.revision > 0
  BY DEF Element

LEMMA MaxIs ==
    ASSUME NEW S \in SUBSET Int, NEW m \in S, \A x \in S : x <= m
    PROVE  Max(S) = m
  <1>1. m \in S /\ \A y \in S : m >= y
    OBVIOUS
  <1>2. Max(S) \in S /\ \A y \in S : Max(S) >= y
    BY <1>1 DEF Max
  <1>3. Max(S) >= m /\ m >= Max(S) /\ Max(S) \in Int
    BY <1>1, <1>2
  <1> QED
    BY <1>3

LEMMA LastIs ==
    ASSUME TypeInv, BucketInv, NEW k \in Keys
    PROVE  /\ LastRevision(k) \in Nat
           /\ \A e \in Of(k) : e.revision <= LastRevision(k)
           /\ Of(k) = {} => LastRevision(k) = 0
           /\ Of(k) # {} => \E e \in Of(k) : e.revision = LastRevision(k) /\ LastRevision(k) > 0
  <1> DEFINE S == {0} \union {e.revision : e \in Of(k)}
  <1>1. \A e \in Of(k) : e.revision \in Nat /\ e.revision > 0
    BY RevisionType, BucketFields DEF TypeInv, Of
  <1>2. S \in SUBSET Int
    BY <1>1
  <1>3. CASE Of(k) = {}
    <2>1. S = {0}
      BY <1>3
    <2>2. Max(S) = 0
      BY <2>1, MaxIs
    <2> QED
      BY <1>3, <2>2 DEF LastRevision
  <1>4. CASE Of(k) # {}
    <2>1. PICK e \in Of(k) : \A d \in Of(k) : d.revision <= e.revision
      BY <1>4 DEF BucketInv
    <2>2. e.revision \in S /\ \A x \in S : x <= e.revision
      BY <1>1, <2>1
    <2>3. Max(S) = e.revision
      BY <1>2, <2>2, MaxIs
    <2> QED
      BY <1>1, <1>4, <2>1, <2>3 DEF LastRevision
  <1> QED
    BY <1>3, <1>4

-----------------------------------------------------------------------------
(* A write that is executed.                                               *)

Entry(w) == [key |-> w.key, value |-> w.id, revision |-> bucket.last + 1,
             op |-> IF w.op = "purge" THEN "purge" ELSE "put"]
Record(w) == [by |-> w, revision |-> bucket.last + 1, inc |-> bucket.inc, found |-> HasValue(w.key)]

LEMMA EntryType ==
    ASSUME TypeInv, NEW w \in Writes
    PROVE  /\ Entry(w) \in Element
           /\ Entry(w).key = w.key /\ Entry(w).value = w.id /\ Entry(w).revision = bucket.last + 1
           /\ Entry(w).op = "purge" <=> w.op = "purge"
           /\ Record(w) \in Executed
           /\ Record(w).by = w /\ Record(w).revision = bucket.last + 1
           /\ Record(w).inc = bucket.inc /\ Record(w).found = HasValue(w.key)
  <1>1. bucket.last \in Nat /\ bucket.inc \in Nat /\ bucket.last + 1 \in Nat \ {0}
    BY DEF TypeInv, BucketType
  <1>2. w.key \in Keys /\ w.id \in 1..MaxCalls
    BY DEF Writes
  <1>3. HasValue(w.key) \in BOOLEAN
    BY DEF HasValue
  <1>4. Entry(w) \in Element
    BY <1>1, <1>2 DEF Entry, Element
  <1>5. Record(w) \in Executed
    BY <1>1, <1>3 DEF Record, Executed
  <1> QED
    BY <1>4, <1>5 DEF Entry, Record

LEMMA RetainedIs ==
    ASSUME TypeInv, BucketInv, bucket.exists, NEW w \in Writes
    PROVE  /\ Retained(Of(w.key), Entry(w)) \subseteq Of(w.key) \union {Entry(w)}
           /\ Entry(w) \in Retained(Of(w.key), Entry(w))
           /\ w.op = "purge" => Retained(Of(w.key), Entry(w)) = {Entry(w)}
  <1> DEFINE e == Entry(w)
             all == Of(w.key) \union {e}
             kept == {d \in all : Cardinality({x \in all : x.revision > d.revision}) < bucket.history}
  <1>1. e.op = "purge" <=> w.op = "purge"
    BY EntryType
  <1>2. e \in kept
    <2>1. \A x \in Of(w.key) : x.revision <= bucket.last /\ x.revision \in Nat
      BY RevisionType DEF Of, BucketInv, TypeInv, BucketType
    <2>2. e.revision = bucket.last + 1 /\ bucket.last \in Nat
      BY EntryType DEF TypeInv, BucketType
    <2>3. ~(e.revision > e.revision) /\ \A x \in Of(w.key) : ~(x.revision > e.revision)
      BY <2>1, <2>2
    <2>4. {x \in all : x.revision > e.revision} = {}
      BY <2>3
    <2>5. Cardinality({x \in all : x.revision > e.revision}) = 0
      BY <2>4, FS_EmptySet
    <2>6. 0 < bucket.history
      BY DEF BucketInv, TypeInv, BucketType
    <2> QED
      BY <2>5, <2>6
  <1>3. kept \subseteq all
    OBVIOUS
  <1>4. Retained(Of(w.key), e) = IF e.op = "purge" THEN {e} ELSE kept
    BY DEF Retained
  <1> HIDE DEF kept
  <1> QED
    BY <1>1, <1>2, <1>3, <1>4

LEMMA StoreSteps ==
    ASSUME TypeInv, BucketInv, NEW w \in Writes, Store(w)
    PROVE  /\ bucket.exists
           /\ w.expected >= 0 => w.expected = LastRevision(w.key)
           /\ bucket' \in BucketType
           /\ bucket'.exists /\ bucket'.history = bucket.history /\ bucket'.inc = bucket.inc
           /\ bucket'.last = bucket.last + 1
           /\ bucket'.log = (bucket.log \ Of(w.key)) \union Retained(Of(w.key), Entry(w))
           /\ writes' = writes \union {Record(w)}
  <1> DEFINE log == (bucket.log \ Of(w.key)) \union Retained(Of(w.key), Entry(w))
             last == bucket.last + 1
             first == [bucket EXCEPT !.log = log]
  <1>1. /\ ~Refused(w)
        /\ bucket' = [bucket EXCEPT !.last = @ + 1, !.log = log]
        /\ writes' = writes \union {Record(w)}
    BY DEF Store, Entry, Record
  <1>2. bucket.exists /\ (w.expected >= 0 => w.expected = LastRevision(w.key))
    BY <1>1 DEF Refused, TypeInv, BucketType
  <1>3. log \in SUBSET Element /\ last \in Nat
    <2>1. bucket.log \in SUBSET Element /\ bucket.last \in Nat
      BY DEF TypeInv, BucketType
    <2>2. Of(w.key) \subseteq bucket.log
      BY DEF Of
    <2> QED
      BY <1>2, <2>1, <2>2, RetainedIs, EntryType
  <1>4. bucket' = [first EXCEPT !.last = last]
    BY <1>1
  <1> HIDE DEF log, last
  <1>5. first \in BucketType /\ first.exists = bucket.exists /\ first.history = bucket.history
        /\ first.inc = bucket.inc /\ first.log = log
    BY <1>3 DEF TypeInv, BucketType
  <1> HIDE DEF first
  <1>6. bucket' \in BucketType /\ bucket'.exists = bucket.exists /\ bucket'.history = bucket.history
        /\ bucket'.inc = bucket.inc /\ bucket'.log = log /\ bucket'.last = last
    BY <1>3, <1>4, <1>5 DEF BucketType
  <1> QED
    BY <1>1, <1>2, <1>6 DEF log, last

\* What Of becomes: of other keys the same, of this one what is retained.
LEMMA StoreOf ==
    ASSUME TypeInv, BucketInv, NEW w \in Writes, Store(w)
    PROVE  /\ \A k \in Keys : k # w.key => Of(k)' = Of(k)
           /\ Of(w.key)' = Retained(Of(w.key), Entry(w))
           /\ Entry(w) \in Of(w.key)'
           /\ bucket'.log \subseteq bucket.log \union {Entry(w)}
  <1>1. bucket'.log = (bucket.log \ Of(w.key)) \union Retained(Of(w.key), Entry(w)) /\ bucket.exists
    BY StoreSteps
  <1>2. /\ Retained(Of(w.key), Entry(w)) \subseteq Of(w.key) \union {Entry(w)}
        /\ Entry(w) \in Retained(Of(w.key), Entry(w))
    BY <1>1, RetainedIs
  <1>3. Entry(w).key = w.key
    BY EntryType
  <1>4. \A x \in Of(w.key) : x.key = w.key /\ x \in bucket.log
    BY DEF Of
  <1>5. \A x \in bucket.log : x.key = w.key => x \in Of(w.key)
    BY DEF Of
  <1>6. \A x \in Retained(Of(w.key), Entry(w)) : x.key = w.key
    BY <1>2, <1>3, <1>4
  <1>7. Of(w.key)' = Retained(Of(w.key), Entry(w))
    BY <1>1, <1>5, <1>6 DEF Of
  <1>8. \A k \in Keys : k # w.key => Of(k)' = Of(k)
    BY <1>1, <1>6, <1>4 DEF Of
  <1>9. bucket'.log \subseteq bucket.log \union {Entry(w)}
    BY <1>1, <1>2, <1>4
  <1> QED
    BY <1>2, <1>7, <1>8, <1>9

-----------------------------------------------------------------------------
(* What the steps of the bucket keep.                                      *)

Later == calls' = calls \/ (calls < MaxCalls /\ calls' = calls + 1)

\* What was read stays read, in this bucket or one before it.
Remembers ==
    /\ \A r \in Reading : ReadOK(r) => ReadOK(r)'
    /\ \A r \in Reading : Marker(r) => Marker(r)'

LEMMA StoreKeepsBucket ==
    ASSUME TypeInv, BucketInv, NEW w \in Writes, Store(w)
    PROVE  BucketInv'
  <1> DEFINE e == Entry(w)
  <1>0. /\ bucket.exists /\ bucket'.exists /\ bucket'.history = bucket.history
        /\ bucket'.last = bucket.last + 1
    BY StoreSteps
  <1>1. /\ \A k \in Keys : k # w.key => Of(k)' = Of(k)
        /\ Of(w.key)' = Retained(Of(w.key), e) /\ e \in Of(w.key)'
        /\ bucket'.log \subseteq bucket.log \union {e}
    BY StoreOf
  <1>2. e.revision = bucket.last + 1 /\ bucket.last \in Nat
    BY EntryType DEF TypeInv, BucketType
  <1>3. \A d \in bucket.log : d.revision \in Nat /\ d.revision <= bucket.last
    BY RevisionType DEF BucketInv, TypeInv, BucketType
  <1> HIDE DEF e
  <1>4. IsFiniteSet(bucket'.log)
    <2>1. IsFiniteSet(bucket.log \union {e})
      BY FS_AddElement DEF BucketInv
    <2> QED
      BY <1>1, <2>1, FS_Subset
  <1>5. \A d \in bucket'.log : d.revision <= bucket'.last
    BY <1>0, <1>1, <1>2, <1>3
  <1>6. \A d, f \in bucket'.log : d.revision = f.revision => d = f
    <2>1. \A d \in bucket.log : d.revision # e.revision
      BY <1>2, <1>3
    <2> QED
      BY <1>1, <2>1 DEF BucketInv
  <1>7. \A k \in Keys : Of(k)' # {} => \E f \in Of(k)' : \A d \in Of(k)' : d.revision <= f.revision
    <2> SUFFICES ASSUME NEW k \in Keys, Of(k)' # {}
                 PROVE  \E f \in Of(k)' : \A d \in Of(k)' : d.revision <= f.revision
      OBVIOUS
    <2>1. CASE k = w.key
      <3>1. \A d \in Of(k)' : d \in bucket'.log
        BY DEF Of
      <3>2. \A d \in Of(k)' : d.revision <= e.revision
        BY <1>0, <1>2, <1>5, <3>1
      <3> QED
        BY <1>1, <2>1, <3>2
    <2>2. CASE k # w.key
      BY <1>1, <2>2 DEF BucketInv
    <2> QED
      BY <2>1, <2>2
  <1>8. bucket'.history >= 1
    BY <1>0 DEF BucketInv
  <1> QED
    BY <1>0, <1>4, <1>5, <1>6, <1>7, <1>8 DEF BucketInv

LEMMA StoreKeepsWrites ==
    ASSUME TypeInv, BucketInv, WriteInv, NEW w \in Writes, Store(w), Later, w.id <= calls'
    PROVE  WriteInv' /\ writes' \in SUBSET Executed
  <1> DEFINE e == Entry(w)
             new == Record(w)
  <1>0. /\ bucket.exists /\ bucket'.exists /\ bucket'.inc = bucket.inc
        /\ bucket'.last = bucket.last + 1 /\ writes' = writes \union {new}
    BY StoreSteps
  <1>1. /\ \A k \in Keys : k # w.key => Of(k)' = Of(k)
        /\ Of(w.key)' = Retained(Of(w.key), e) /\ e \in Of(w.key)'
        /\ bucket'.log \subseteq bucket.log \union {e}
    BY StoreOf
  <1>2. /\ e.key = w.key /\ e.value = w.id /\ e.revision = bucket.last + 1
        /\ e.op = "purge" <=> w.op = "purge"
        /\ new \in Executed /\ new.by = w /\ new.revision = bucket.last + 1 /\ new.inc = bucket.inc
    BY EntryType
  <1>3. bucket.last \in Nat /\ bucket.inc \in Nat /\ calls \in Nat
    BY DEF TypeInv, BucketType
  <1>4. \A v \in writes : /\ v.revision \in Nat /\ v.inc \in Nat /\ v.by.key \in Keys
                          /\ v.by.id \in Nat
    BY DEF TypeInv, Executed, Writes
  <1>5. \A v \in writes : v.inc = bucket.inc => v.revision <= bucket.last
    BY <1>0 DEF WriteInv
  <1> HIDE DEF e, new
  <1>6. IsFiniteSet(writes') /\ writes' \in SUBSET Executed
    BY <1>0, <1>2, FS_AddElement DEF WriteInv, TypeInv
  <1>7. \A v \in writes' : v.inc <= bucket'.inc /\ v.by.id <= calls'
    <2>1. calls <= calls' /\ calls' \in Nat
      BY <1>3 DEF Later
    <2>2. \A v \in writes : v.inc <= bucket'.inc /\ v.by.id <= calls'
      BY <1>0, <1>3, <1>4, <2>1 DEF WriteInv
    <2>3. new.inc <= bucket'.inc /\ new.by.id <= calls'
      BY <1>0, <1>2, <1>3
    <2> QED
      BY <1>0, <2>2, <2>3
  <1>8. \A u, v \in writes' : u.inc = v.inc /\ u.revision = v.revision => u = v
    <2>1. \A v \in writes : v.inc = bucket.inc => v.revision # new.revision
      BY <1>2, <1>3, <1>4, <1>5
    <2> QED
      BY <1>0, <1>2, <2>1 DEF WriteInv
  <1>9. ASSUME NEW v \in writes', v.inc = bucket'.inc
        PROVE  v.revision <= bucket'.last /\ \E f \in Of(v.by.key)' : v.revision <= f.revision
    <2>1. CASE v = new
      BY <1>0, <1>1, <1>2, <1>3, <2>1
    <2>2. CASE v \in writes
      <3>1. v.revision <= bucket.last /\ \E f \in Of(v.by.key) : v.revision <= f.revision
        BY <1>0, <1>9, <2>2 DEF WriteInv
      <3>2. CASE v.by.key = w.key
        <4>1. v.revision <= e.revision /\ v.revision <= bucket'.last
          BY <1>0, <1>2, <1>3, <1>4, <2>2, <3>1
        <4> QED
          BY <1>1, <3>2, <4>1
      <3>3. CASE v.by.key # w.key
        BY <1>0, <1>1, <1>3, <1>4, <2>2, <3>1, <3>3
      <3> QED
        BY <3>2, <3>3
    <2> QED
      BY <1>0, <2>1, <2>2
  <1>10. ASSUME NEW f \in bucket'.log
         PROVE  \E v \in writes' : /\ v.inc = bucket'.inc /\ v.revision = f.revision
                                   /\ v.by.key = f.key /\ v.by.id = f.value
                                   /\ f.op = "purge" <=> v.by.op = "purge"
    <2>1. CASE f = e
      BY <1>0, <1>2, <2>1
    <2>2. CASE f \in bucket.log
      BY <1>0, <2>2 DEF WriteInv
    <2> QED
      BY <1>1, <2>1, <2>2
  <1> QED
    BY <1>6, <1>7, <1>8, <1>9, <1>10 DEF WriteInv

LEMMA StoreRemembers ==
    ASSUME TypeInv, BucketInv, WriteInv, NEW w \in Writes, Store(w)
    PROVE  Remembers
  <1> DEFINE e == Entry(w)
  <1>0. /\ bucket.exists /\ bucket'.inc = bucket.inc
        /\ bucket'.last = bucket.last + 1 /\ writes' = writes \union {Record(w)}
    BY StoreSteps
  <1>1. bucket'.log \subseteq bucket.log \union {e} /\ e.revision = bucket.last + 1
    BY StoreOf, EntryType
  <1>2. bucket.last \in Nat
    BY DEF TypeInv, BucketType
  <1> HIDE DEF e
  <1>3. ASSUME NEW r \in Reading, ReadOK(r) PROVE ReadOK(r)'
    <2>1. r.element.revision \in Nat
      BY RevisionType DEF Reading
    <2>2. ASSUME r.inc = bucket.inc
          PROVE  /\ r.element.revision <= bucket'.last
                 /\ \A f \in bucket'.log : f.revision = r.element.revision => f = r.element
      <3>1. /\ r.element.revision <= bucket.last
            /\ \A f \in bucket.log : f.revision = r.element.revision => f = r.element
        BY <1>0, <1>3, <2>2 DEF ReadOK
      <3>2. e.revision # r.element.revision /\ r.element.revision <= bucket'.last
        BY <1>0, <1>1, <1>2, <2>1, <3>1
      <3> QED
        BY <1>1, <3>1, <3>2
    <2>3. r.inc <= bucket'.inc
      BY <1>0, <1>3 DEF ReadOK
    <2> QED
      BY <1>0, <2>2, <2>3 DEF ReadOK
  <1>4. ASSUME NEW r \in Reading, Marker(r) PROVE Marker(r)'
    BY <1>0, <1>4 DEF Marker
  <1> QED
    BY <1>3, <1>4 DEF Remembers

LEMMA MakeKeeps ==
    ASSUME TypeInv, BucketInv, WriteInv, ~bucket.exists, UNCHANGED writes, Later,
           NEW cfg, HistoryOf(cfg) \in Nat \ {0}, bucket' = NewBucket(cfg)
    PROVE  bucket' \in BucketType /\ BucketInv' /\ WriteInv' /\ Remembers
  <1>1. /\ bucket' \in BucketType /\ bucket'.exists /\ bucket'.log = {}
        /\ bucket'.history = HistoryOf(cfg) /\ bucket'.inc = bucket.inc + 1
    BY DEF NewBucket, TypeInv, BucketType
  <1>2. bucket.inc \in Nat /\ calls \in Nat
    BY DEF TypeInv, BucketType
  <1>3. BucketInv'
    BY <1>1, FS_EmptySet DEF BucketInv, Of
  <1>4. \A v \in writes : v.inc \in Nat /\ v.by.id \in Nat
    BY DEF TypeInv, Executed, Writes
  <1>5. \A v \in writes : v.inc <= bucket.inc /\ v.by.id <= calls
    BY DEF WriteInv
  <1>6. calls <= calls' /\ calls' \in Nat
    BY <1>2 DEF Later
  <1>7. \A v \in writes : v.inc <= bucket'.inc /\ v.inc # bucket'.inc /\ v.by.id <= calls'
    BY <1>1, <1>2, <1>4, <1>5, <1>6
  <1>8. WriteInv'
    BY <1>1, <1>7 DEF WriteInv
  <1>9. \A r \in Reading : ReadOK(r) => ReadOK(r)'
    <2>1. \A r \in Reading : r.inc \in Nat
      BY DEF Reading
    <2>2. \A r \in Reading : r.inc <= bucket.inc => r.inc <= bucket'.inc /\ r.inc # bucket'.inc
      BY <1>1, <1>2, <2>1
    <2> QED
      BY <2>2 DEF ReadOK
  <1> QED
    BY <1>1, <1>3, <1>8, <1>9 DEF Remembers, Marker

LEMMA DeleteKeeps ==
    ASSUME TypeInv, BucketInv, WriteInv, UNCHANGED writes, Later,
           bucket' = [NoBucket EXCEPT !.inc = bucket.inc]
    PROVE  bucket' \in BucketType /\ BucketInv' /\ WriteInv' /\ Remembers
  <1>1. bucket.inc \in Nat /\ calls \in Nat
    BY DEF TypeInv, BucketType
  <1>2. /\ bucket' \in BucketType /\ ~bucket'.exists /\ bucket'.log = {}
        /\ bucket'.inc = bucket.inc
    BY <1>1 DEF NoBucket, BucketType
  <1>3. BucketInv'
    BY <1>2, FS_EmptySet DEF BucketInv, Of
  <1>4. calls <= calls' /\ calls' \in Nat /\ \A v \in writes : v.by.id \in Nat
    BY <1>1 DEF Later, TypeInv, Executed, Writes
  <1>5. \A v \in writes : v.inc <= bucket'.inc /\ v.by.id <= calls'
    BY <1>1, <1>2, <1>4 DEF WriteInv
  <1>6. WriteInv'
    BY <1>2, <1>5 DEF WriteInv
  <1> QED
    BY <1>2, <1>3, <1>6 DEF Remembers, Marker, ReadOK

LEMMA SameKeeps ==
    ASSUME TypeInv, BucketInv, WriteInv, UNCHANGED <<bucket, writes>>, Later
    PROVE  bucket' \in BucketType /\ BucketInv' /\ WriteInv' /\ Remembers
  <1>1. calls <= calls' /\ calls' \in Nat /\ calls \in Nat /\ \A v \in writes : v.by.id \in Nat
    BY DEF Later, TypeInv, Executed, Writes
  <1>2. \A v \in writes : v.by.id <= calls'
    BY <1>1 DEF WriteInv
  <1>3. BucketInv' /\ bucket' \in BucketType
    BY DEF BucketInv, Of, TypeInv
  <1>4. WriteInv'
    BY <1>2 DEF WriteInv, Of
  <1> QED
    BY <1>3, <1>4 DEF Remembers, Marker, ReadOK

\* A request that is sound stays so.
LEMMA WriteOKStays ==
    ASSUME Remembers, NEW w \in Writes, WriteOK(w)
    PROVE  WriteOK(w)'
  <1>1. \A r \in w.from : r \in Reading
    BY DEF Writes, Reading
  <1> QED
    BY <1>1 DEF WriteOK, Remembers

-----------------------------------------------------------------------------
(* What a write finds.                                                     *)

\* Everything written under a key in this bucket is as old as its last revision.
LEMMA WrittenBefore ==
    ASSUME TypeInv, BucketInv, WriteInv, bucket.exists, NEW v \in writes, v.inc = bucket.inc
    PROVE  /\ v.revision \in Nat /\ v.revision > 0
           /\ v.revision <= LastRevision(v.by.key) /\ v.revision <= bucket.last
  <1>1. v.revision \in Nat /\ v.revision > 0 /\ v.by.key \in Keys
    BY DEF TypeInv, Executed, Writes
  <1>2. PICK e \in Of(v.by.key) : v.revision <= e.revision
    BY DEF WriteInv
  <1>3. e.revision \in Nat /\ e.revision <= LastRevision(v.by.key) /\ LastRevision(v.by.key) \in Nat
    BY <1>1, LastIs, RevisionType DEF Of, TypeInv, BucketType
  <1>4. v.revision <= bucket.last
    BY DEF WriteInv
  <1> QED
    BY <1>1, <1>2, <1>3, <1>4

LEMMA ReplacesOK ==
    ASSUME TypeInv, BucketInv, WriteInv, UpdateReplacesWhatWasRead,
           NEW x \in Writes, WriteOK(x), Store(x)
    PROVE  UpdateReplacesWhatWasRead'
  <1> DEFINE new == Record(x)
  <1>0. bucket.exists /\ writes' = writes \union {new}
        /\ (x.expected >= 0 => x.expected = LastRevision(x.key))
    BY StoreSteps
  <1>1. new.by = x /\ new.revision = bucket.last + 1 /\ new.inc = bucket.inc
    BY EntryType
  <1>2. bucket.last \in Nat
    BY DEF TypeInv, BucketType
  <1> HIDE DEF new
  <1>3. ASSUME NEW u \in writes', NEW r \in u.by.from, r.inc = u.inc,
               NEW w \in writes', w.inc = u.inc, w.by.key = u.by.key
        PROVE  w.revision <= r.element.revision \/ w.revision >= u.revision
    <2>1. CASE u \in writes /\ w \in writes
      BY <1>3, <2>1 DEF UpdateReplacesWhatWasRead
    <2>2. CASE u \in writes /\ w = new
      <3>1. u.revision \in Nat /\ u.revision <= bucket.last
        BY <1>0, <1>1, <1>3, <2>2, WrittenBefore
      <3> QED
        BY <1>1, <1>2, <2>2, <3>1
    <2>3. CASE u = new /\ w \in writes
      <3>1. w.revision <= LastRevision(x.key)
        BY <1>0, <1>1, <1>3, <2>3, WrittenBefore
      <3>2. r.element.revision = x.expected /\ x.expected >= 0
        <4>1. r \in x.from /\ r \in Reading
          BY <1>1, <2>3 DEF Writes, Reading
        <4>2. r.element.revision \in Nat
          BY <4>1, RevisionType DEF Reading
        <4> QED
          BY <4>1, <4>2 DEF WriteOK
      <3> QED
        BY <1>0, <3>1, <3>2
    <2>4. CASE u = new /\ w = new
      BY <1>1, <1>2, <2>4
    <2> QED
      BY <1>0, <2>1, <2>2, <2>3, <2>4
  <1> QED
    BY <1>3 DEF UpdateReplacesWhatWasRead

LEMMA FindsNothingOK ==
    ASSUME TypeInv, BucketInv, WriteInv, CreateFindsNothing,
           NEW x \in Writes, WriteOK(x), Store(x)
    PROVE  CreateFindsNothing'
  <1> DEFINE new == Record(x)
  <1>0. bucket.exists /\ writes' = writes \union {new}
        /\ (x.expected >= 0 => x.expected = LastRevision(x.key))
    BY StoreSteps
  <1>1. new.by = x /\ new.inc = bucket.inc /\ new.found = HasValue(x.key) /\ x.key \in Keys
    BY EntryType DEF Writes
  <1> HIDE DEF new
  <1>2. ASSUME x.op = "create", HasValue(x.key)
        PROVE  \E r \in x.from : r.inc < bucket.inc
    <2>1. PICK e \in Of(x.key) : e.revision = LastRevision(x.key) /\ e.op = "put"
      BY <1>2 DEF HasValue, Latest
    <2>2. e.revision \in Nat /\ e.revision > 0 /\ e \in bucket.log
      BY RevisionType DEF Of, TypeInv, BucketType
    <2>3. x.from # {}
      BY <1>0, <1>2, <2>1, <2>2 DEF WriteOK
    <2>4. PICK r \in x.from : TRUE
      BY <2>3
    <2>5. /\ r.element.op = "purge" /\ x.expected = r.element.revision /\ r \in Reading
          /\ ReadOK(r)
      BY <1>2, <2>4 DEF WriteOK, Marker, Writes, Reading
    <2>6. x.expected \in Nat
      BY <2>5, RevisionType DEF Reading
    <2>7. r.inc # bucket.inc
      BY <1>0, <2>1, <2>2, <2>5, <2>6 DEF ReadOK
    <2>8. r.inc <= bucket.inc /\ r.inc \in Nat /\ bucket.inc \in Nat
      BY <2>5 DEF ReadOK, Reading, TypeInv, BucketType
    <2> QED
      BY <2>7, <2>8
  <1> QED
    BY <1>0, <1>1, <1>2 DEF CreateFindsNothing

\* Between two writes of one create in one bucket lies the marker's.
LEMMA OnceOK ==
    ASSUME TypeInv, BucketInv, WriteInv, WrittenOnce, NEW x \in Writes, WriteOK(x), Store(x),
           \A v \in writes : v.by.id = x.id => Both(x, v.by)
    PROVE  WrittenOnce'
  <1> DEFINE new == Record(x)
  <1>0. bucket.exists /\ writes' = writes \union {new}
        /\ (x.expected >= 0 => x.expected = LastRevision(x.key))
    BY StoreSteps
  <1>1. new.by = x /\ new.inc = bucket.inc /\ new.revision = bucket.last + 1 /\ x.key \in Keys
    BY EntryType DEF Writes
  <1>2. bucket.last \in Nat /\ bucket.inc \in Nat
    BY DEF TypeInv, BucketType
  <1> HIDE DEF new
  <1>3. ASSUME NEW v \in writes, v.by.id = x.id, v.inc = bucket.inc
        PROVE  /\ x.op = "create"
               /\ \/ \E p \in writes : /\ p.inc = bucket.inc /\ p.by.key = x.key /\ p.by.op = "purge"
                                       /\ v.revision < p.revision /\ p.revision < bucket.last + 1
                  \/ \E r \in x.from : r.inc < bucket.inc
    <2>1. x.op = "create" /\ v.by.op = "create" /\ v.by.key = x.key
      BY <1>3 DEF Both
    <2>2. v.revision \in Nat /\ v.revision > 0 /\ v.revision <= LastRevision(x.key)
      BY <1>0, <1>3, <2>1, WrittenBefore
    <2>3. LastRevision(x.key) \in Nat
      BY <1>1, LastIs
    <2>4. x.from # {}
      <3>1. x.from = {} => x.expected = 0
        BY <2>1 DEF WriteOK
      <3>2. x.expected = 0 => LastRevision(x.key) = 0
        BY <1>0
      <3> QED
        BY <2>2, <2>3, <3>1, <3>2
    <2>5. PICK r \in x.from : TRUE
      BY <2>4
    <2>6. r \in Reading /\ Marker(r) /\ ReadOK(r) /\ x.expected = r.element.revision
          /\ r.element.key = x.key
      BY <2>1 DEF WriteOK, Writes, Reading
    <2>7. r.element.revision \in Nat /\ r.inc \in Nat /\ r.inc <= bucket.inc
      BY <2>6, RevisionType DEF Reading, ReadOK
    <2>8. CASE r.inc < bucket.inc
      BY <2>1, <2>8
    <2>9. CASE r.inc = bucket.inc
      <3>1. PICK p \in writes : /\ p.inc = r.inc /\ p.revision = r.element.revision
                                /\ p.by.key = r.element.key /\ p.by.op = "purge"
        BY <2>6 DEF Marker
      <3>2. p.revision = LastRevision(x.key)
        BY <1>0, <2>6, <2>7, <3>1
      <3>3. p.revision # v.revision
        BY <1>3, <2>1, <2>9, <3>1 DEF WriteInv
      <3>4. p.revision <= bucket.last /\ p.revision \in Nat
        BY <1>0, <2>9, <3>1, WrittenBefore
      <3>5. v.revision < p.revision /\ p.revision < bucket.last + 1
        BY <1>2, <2>2, <3>2, <3>3, <3>4
      <3> QED
        BY <2>1, <2>6, <2>9, <3>1, <3>5
    <2> QED
      BY <1>2, <2>7, <2>8, <2>9
  <1>4. ASSUME NEW v \in writes', NEW w \in writes', v.by.id = w.by.id, v.inc = w.inc,
               v.revision < w.revision
        PROVE  /\ w.by.op = "create"
               /\ \/ \E p \in writes' : /\ p.inc = w.inc /\ p.by.key = w.by.key /\ p.by.op = "purge"
                                        /\ v.revision < p.revision /\ p.revision < w.revision
                  \/ \E r \in w.by.from : r.inc < w.inc
    <2>1. CASE v \in writes /\ w \in writes
      BY <1>0, <1>4, <2>1 DEF WrittenOnce
    <2>2. CASE v \in writes /\ w = new
      BY <1>0, <1>1, <1>3, <1>4, <2>2
    <2>3. CASE v = new /\ w \in writes
      <3>1. w.revision <= bucket.last /\ w.revision \in Nat
        BY <1>0, <1>1, <1>4, <2>3, WrittenBefore
      <3> QED
        BY <1>1, <1>2, <1>4, <2>3, <3>1
    <2>4. CASE v = new /\ w = new
      BY <1>1, <1>2, <1>4, <2>4
    <2> QED
      BY <1>0, <2>1, <2>2, <2>3, <2>4
  <1> QED
    BY <1>4 DEF WrittenOnce

-----------------------------------------------------------------------------
(* What a request changes.                                                 *)

BucketKept ==
    /\ bucket' \in BucketType /\ writes' \in SUBSET Executed
    /\ BucketInv' /\ WriteInv' /\ Remembers

LEMMA StoreKeeps ==
    ASSUME TypeInv, BucketInv, WriteInv, Promises, Later,
           NEW x \in Writes, WriteOK(x), x.id <= calls', Store(x),
           \A v \in writes : v.by.id = x.id => Both(x, v.by)
    PROVE  BucketKept /\ Promises'
  <1>1. UpdateReplacesWhatWasRead /\ CreateFindsNothing /\ WrittenOnce
    BY DEF Promises
  <1>2. bucket' \in BucketType
    BY StoreSteps
  <1>3. BucketInv' /\ WriteInv' /\ writes' \in SUBSET Executed /\ Remembers
    BY StoreKeepsBucket, StoreKeepsWrites, StoreRemembers
  <1>4. UpdateReplacesWhatWasRead' /\ CreateFindsNothing' /\ WrittenOnce'
    BY <1>1, ReplacesOK, FindsNothingOK, OnceOK
  <1> QED
    BY <1>2, <1>3, <1>4 DEF BucketKept, Promises

LEMMA PromisesStay == ASSUME Promises, UNCHANGED writes PROVE Promises'
  BY DEF Promises, UpdateReplacesWhatWasRead, CreateFindsNothing, WrittenOnce

\* The requests there are, when the bucket has kept what it must and what is
\* sent, executed or in hand is an old request or a sound one.
Sound(w) == w \in Writes /\ WriteOK(w) /\ w.id <= calls'
LEMMA RequestsStay ==
    ASSUME TypeInv, RequestInv, BucketKept, Later,
           \A w \in late' : w \in late \/ Sound(w),
           \A v \in writes' : v \in writes \/ Sound(v.by),
           \A c \in Clients : \A w \in call'[c].write : w \in call[c].write \/ Sound(w),
           \A c \in Clients : \A r \in read'[c] :
              r \in read[c] \/ (r \in Reading /\ ReadOK(r) /\ r.element.op = "put")
    PROVE  RequestInv' /\ late' \in SUBSET Writes
  <1>0. Remembers
    BY DEF BucketKept
  <1>1. \A w : Sound(w) => WriteOK(w)' /\ w.id <= calls' /\ w \in Writes
    BY <1>0, WriteOKStays DEF Sound
  <1>2. calls \in Nat /\ calls' \in Nat /\ calls <= calls'
    BY DEF TypeInv, Later
  <1>3. late \in SUBSET Writes /\ \A v \in writes : v.by \in Writes
    BY DEF TypeInv, Executed
  <1>4. \A w \in Writes : w.id \in Nat
    BY DEF Writes
  <1>5. \A c \in Clients : call[c].write \in SUBSET Writes /\ read[c] \in SUBSET Reading
    BY DEF TypeInv, CallType
  <1>6. \A c \in Clients : \A r \in read'[c] : ReadOK(r)' /\ r.element.op = "put"
    BY <1>0, <1>5 DEF RequestInv, Remembers
  <1>7. \A w \in late' : WriteOK(w)' /\ w.id <= calls'
    <2>1. \A w \in late : WriteOK(w)' /\ w.id <= calls'
      BY <1>0, <1>2, <1>3, <1>4, WriteOKStays DEF RequestInv
    <2> QED
      BY <1>1, <2>1
  <1>8. \A v \in writes' : WriteOK(v.by)'
    <2>1. \A v \in writes : WriteOK(v.by)'
      BY <1>0, <1>3, WriteOKStays DEF RequestInv
    <2> QED
      BY <1>1, <2>1
  <1>9. \A c \in Clients : \A w \in call'[c].write : WriteOK(w)' /\ w.id <= calls'
    <2>1. \A c \in Clients : \A w \in call[c].write : WriteOK(w)' /\ w.id <= calls'
      BY <1>0, <1>2, <1>4, <1>5, WriteOKStays DEF RequestInv
    <2> QED
      BY <1>1, <2>1
  <1>10. late' \in SUBSET Writes
    BY <1>1, <1>3
  <1> QED
    BY <1>6, <1>7, <1>8, <1>9, <1>10 DEF RequestInv

\* A request that is sent and executed, or sent and late, or sent and refused.
Sent(x) ==
    \/ writes' = writes \union {Record(x)} /\ late' = late
    \/ writes' = writes /\ late' \subseteq late \union {x}

LEMMA SentIsUnique ==
    ASSUME TypeInv, UniqueInv, NEW c \in Clients, NEW x \in Writes, New(x), Free(c, x), Sent(x),
           \A d \in Clients \ {c} : call'[d].write = call[d].write,
           call'[c].write = {} \/ (call'[c].write = {x} /\ x.op = "create")
    PROVE  UniqueInv'
  <1>1. Record(x).by = x
    BY DEF Record
  <1>2. \A v \in writes' : v \in writes \/ v.by = x
    BY <1>1 DEF Sent
  <1>3. late' \subseteq late \union {x}
    BY DEF Sent
  <1>4. \A y \in late' : \A z \in late' : y.id = z.id => y = z \/ Both(y, z)
    BY <1>3 DEF UniqueInv, New, Both
  <1>5. \A y \in late' : \A v \in writes' : v.by.id = y.id => Both(y, v.by)
    <2> SUFFICES ASSUME NEW y \in late', NEW v \in writes', v.by.id = y.id
                 PROVE  Both(y, v.by)
      OBVIOUS
    <2>1. CASE v \in writes /\ y \in late
      BY <2>1 DEF UniqueInv
    <2>2. CASE v \in writes /\ y = x
      BY <2>2 DEF New
    <2>3. CASE v \notin writes
      <3>1. v.by = x /\ y \in late
        BY <1>2, <2>3 DEF Sent
      <3> QED
        BY <3>1 DEF New, Both
    <2> QED
      BY <1>3, <2>1, <2>2, <2>3
  <1>6. ASSUME NEW d \in Clients, NEW z \in call'[d].write
        PROVE  z.op = "create" /\ New(z)' /\ Free(d, z)'
    <2>1. CASE d = c
      <3>1. z = x /\ x.op = "create" /\ call'[c].write = {x}
        BY <1>6, <2>1
      <3>2. New(x)'
        BY <1>2, <1>3, <3>1 DEF New, Both
      <3>3. Free(c, x)'
        BY DEF Free
      <3> QED
        BY <2>1, <3>1, <3>2, <3>3
    <2>2. CASE d # c
      <3>1. z \in call[d].write /\ z.op = "create" /\ New(z) /\ Free(d, z)
        BY <1>6, <2>2 DEF UniqueInv
      <3>2. x.id # z.id
        BY <2>2, <3>1 DEF Free
      <3>3. New(z)'
        BY <1>2, <1>3, <3>1, <3>2 DEF New
      <3>4. Free(d, z)'
        <4> SUFFICES ASSUME NEW e \in Clients \ {d}, NEW u \in call'[e].write
                     PROVE  u.id # z.id
          BY DEF Free
        <4>1. CASE e = c
          BY <3>2, <4>1
        <4>2. CASE e # c
          BY <3>1, <4>2 DEF Free
        <4> QED
          BY <4>1, <4>2
      <3> QED
        BY <3>1, <3>3, <3>4
    <2> QED
      BY <2>1, <2>2
  <1> QED
    BY <1>4, <1>5, <1>6 DEF UniqueInv

LEMMA LateIsUnique ==
    ASSUME UniqueInv, NEW x \in late, late' = late \ {x},
           writes' = writes \union {Record(x)} \/ writes' = writes, UNCHANGED call
    PROVE  UniqueInv'
  <1>1. Record(x).by = x
    BY DEF Record
  <1>2. \A v \in writes' : v \in writes \/ v.by = x
    BY <1>1
  <1>3. \A y \in late' : y \in late /\ y # x
    OBVIOUS
  <1>4. \A y \in late' : \A z \in late' : y.id = z.id => y = z \/ Both(y, z)
    BY <1>3 DEF UniqueInv
  <1>5. \A y \in late' : \A v \in writes' : v.by.id = y.id => Both(y, v.by)
    BY <1>2, <1>3 DEF UniqueInv
  <1>6. \A z : New(z) => New(z)'
    BY <1>2, <1>3 DEF New
  <1>7. \A d, z : Free(d, z) => Free(d, z)'
    BY DEF Free
  <1> QED
    BY <1>4, <1>5, <1>6, <1>7 DEF UniqueInv

\* Nothing is sent, and what a create may send is of the same call as before.
LEMMA QuietIsUnique ==
    ASSUME UniqueInv, UNCHANGED <<late, writes>>,
           \A d \in Clients : \A z \in call'[d].write :
              \E w \in call[d].write : z.op = w.op /\ z.key = w.key /\ z.id = w.id
    PROVE  UniqueInv'
  <1>1. ASSUME NEW d \in Clients, NEW z \in call'[d].write
        PROVE  z.op = "create" /\ New(z)' /\ Free(d, z)'
    <2>1. PICK w \in call[d].write : z.op = w.op /\ z.key = w.key /\ z.id = w.id
      BY <1>1
    <2>2. w.op = "create" /\ New(w) /\ Free(d, w)
      BY <2>1 DEF UniqueInv
    <2>3. New(z)'
      BY <2>1, <2>2 DEF New, Both
    <2>4. Free(d, z)'
      BY <2>1, <2>2 DEF Free
    <2> QED
      BY <2>1, <2>2, <2>3, <2>4
  <1>2. \A x, y \in late' : x.id = y.id => x = y \/ Both(x, y)
    BY DEF UniqueInv
  <1>3. \A x \in late' : \A v \in writes' : v.by.id = x.id => Both(x, v.by)
    BY DEF UniqueInv
  <1> QED
    BY <1>1, <1>2, <1>3 DEF UniqueInv

-----------------------------------------------------------------------------
(* What a bucket keeps.                                                    *)

LEMMA AsMany ==
    ASSUME NEW S, NEW T, IsFiniteSet(T), \A a \in S : \E b \in T : b.revision = a.revision,
           \A a, b \in S : a.revision = b.revision => a = b
    PROVE  Cardinality(S) <= Cardinality(T)
  <1> DEFINE f == [a \in S |-> CHOOSE b \in T : b.revision = a.revision]
  <1>1. \A a \in S : f[a] \in T /\ f[a].revision = a.revision
    OBVIOUS
  <1>2. f \in [S -> T]
    BY <1>1
  <1>3. \A a, b \in S : f[a] = f[b] => a = b
    BY <1>1
  <1>4. f \in Injection(S, T)
    BY <1>2, <1>3 DEF Injection, IsInjective
  <1> QED
    BY <1>4, FS_Injection

\* Of a set of elements no more than n have fewer than n above them.
Above(all, d) == {x \in all : x.revision > d.revision}
LEMMA NewestFit ==
    ASSUME NEW all, IsFiniteSet(all), \A a \in all : a.revision \in Nat,
           \A a, b \in all : a.revision = b.revision => a = b, NEW n \in Nat
    PROVE  Cardinality({d \in all : Cardinality(Above(all, d)) < n}) <= n
  <1> DEFINE S == {d \in all : Cardinality(Above(all, d)) < n}
             f == [d \in S |-> Cardinality(Above(all, d))]
  <1>1. \A d \in all : IsFiniteSet(Above(all, d)) /\ Cardinality(Above(all, d)) \in Nat
    BY FS_Subset, FS_CardinalityType DEF Above
  <1>2. f \in [S -> 0..n - 1]
    BY <1>1
  <1>3. \A a, b \in S : a.revision < b.revision => f[a] # f[b]
    <2> SUFFICES ASSUME NEW a \in S, NEW b \in S, a.revision < b.revision
                 PROVE  f[a] # f[b]
      OBVIOUS
    <2>1. Above(all, b) \subseteq Above(all, a) /\ b \in Above(all, a) /\ b \notin Above(all, b)
      BY DEF Above
    <2>2. Cardinality(Above(all, b)) # Cardinality(Above(all, a))
      BY <1>1, <2>1, FS_Subset
    <2> QED
      BY <2>2
  <1>4. \A a, b \in S : f[a] = f[b] => a = b
    <2> SUFFICES ASSUME NEW a \in S, NEW b \in S, f[a] = f[b]
                 PROVE  a = b
      OBVIOUS
    <2>1. ~(a.revision < b.revision) /\ ~(b.revision < a.revision)
      BY <1>3
    <2>2. a.revision \in Nat /\ b.revision \in Nat
      OBVIOUS
    <2> QED
      BY <2>1, <2>2
  <1> HIDE DEF f
  <1>5. f \in Injection(S, 0..n - 1)
    BY <1>2, <1>4 DEF Injection, IsInjective
  <1>6. IsFiniteSet(0..n - 1) /\ Cardinality(0..n - 1) = n
    BY FS_Interval
  <1> QED
    BY <1>5, <1>6, FS_Injection

\* What is retained of a key when w is stored, in these terms.
LEMMA RetainedAbove ==
    ASSUME NEW w \in Writes
    PROVE  LET all == Of(w.key) \union {Entry(w)}
           IN  Retained(Of(w.key), Entry(w)) =
                   IF Entry(w).op = "purge" THEN {Entry(w)}
                   ELSE {d \in all : Cardinality(Above(all, d)) < bucket.history}
  BY DEF Retained, Above

LEMMA HistoryOK ==
    ASSUME TypeInv, BucketInv, WriteInv, HistoryInv, BucketInv', WriteInv',
           NEW x \in Writes, Store(x)
    PROVE  HistoryInv'
  <1> DEFINE e == Entry(x)
             new == Record(x)
             all == Of(x.key) \union {e}
  <1>0. /\ bucket.exists /\ bucket'.exists /\ bucket'.inc = bucket.inc
        /\ bucket'.history = bucket.history /\ writes' = writes \union {new}
        /\ bucket'.log = (bucket.log \ Of(x.key)) \union Retained(Of(x.key), e)
    BY StoreSteps
  <1>1. /\ \A k \in Keys : k # x.key => Of(k)' = Of(k)
        /\ Of(x.key)' = Retained(Of(x.key), e) /\ e \in Of(x.key)'
    BY StoreOf
  <1>2. /\ e.key = x.key /\ e.value = x.id /\ e.revision = bucket.last + 1
        /\ e.op = "purge" <=> x.op = "purge"
        /\ new.by = x /\ new.revision = bucket.last + 1 /\ new.inc = bucket.inc
    BY EntryType
  <1>3. bucket.last \in Nat /\ bucket.history \in Nat /\ bucket.history >= 1
    BY <1>0 DEF TypeInv, BucketType, BucketInv
  <1>4. Retained(Of(x.key), e) = IF e.op = "purge" THEN {e}
                                 ELSE {d \in all : Cardinality(Above(all, d)) < bucket.history}
    BY RetainedAbove
  <1>5. \A d \in bucket.log : d.revision \in Nat /\ d.revision <= bucket.last
    BY RevisionType DEF BucketInv, TypeInv, BucketType
  <1>6. \A w \in writes : w.revision \in Nat /\ (w.inc = bucket.inc => w.revision <= bucket.last)
    BY <1>0 DEF WriteInv, TypeInv, Executed
  <1> HIDE DEF e, new
  <1>7. IsFiniteSet(all) /\ (\A a \in all : a.revision \in Nat)
        /\ (\A a, b \in all : a.revision = b.revision => a = b)
    <2>1. Of(x.key) \subseteq bucket.log
      BY DEF Of
    <2>2. IsFiniteSet(Of(x.key))
      BY <2>1, FS_Subset DEF BucketInv
    <2>3. IsFiniteSet(all)
      BY <2>2, FS_AddElement
    <2>4. \A a \in Of(x.key) : a.revision \in Nat /\ a.revision # e.revision
      BY <1>2, <1>3, <1>5, <2>1
    <2>5. \A a \in all : a.revision \in Nat
      BY <1>2, <1>3, <2>4
    <2>6. \A a, b \in Of(x.key) : a.revision = b.revision => a = b
      BY <2>1 DEF BucketInv
    <2> QED
      BY <2>3, <2>4, <2>5, <2>6
  <1> HIDE DEF all
  <1>8. Cardinality(Retained(Of(x.key), e)) <= bucket.history
    <2>1. CASE e.op = "purge"
      BY <1>3, <1>4, <2>1, FS_Singleton
    <2>2. CASE e.op # "purge"
      BY <1>3, <1>4, <1>7, <2>2, NewestFit
    <2> QED
      BY <2>1, <2>2
  <1>9. \A k \in Keys : Cardinality(Of(k)') <= bucket'.history
    BY <1>0, <1>1, <1>8 DEF HistoryInv
  <1>10. IsFiniteSet(writes')
    BY DEF WriteInv
  <1>11. ASSUME NEW w \in writes', w.inc = bucket'.inc
         PROVE  KeptBy(w)'
    <2>0. IsFiniteSet(Since(w)')
      BY <1>10, FS_Subset DEF Since
    <2>1. CASE w = new
      <3>1. e \in bucket'.log
        BY <1>1 DEF Of
      <3> QED
        BY <1>2, <2>1, <3>1 DEF KeptBy
    <2>2. CASE w \in writes
      <3>1. Since(w) \subseteq Since(w)'
        BY <1>0 DEF Since
      <3>2. CASE \E v \in Since(w) : v.by.op = "purge"
        BY <3>1, <3>2 DEF KeptBy
      <3>3. CASE Cardinality(Since(w)) >= bucket.history
        <4>1. Cardinality(Since(w)) <= Cardinality(Since(w)')
          BY <2>0, <3>1, FS_Subset
        <4>2. Cardinality(Since(w)) \in Nat /\ Cardinality(Since(w)') \in Nat
          BY <2>0, <3>1, FS_Subset, FS_CardinalityType
        <4> QED
          BY <1>0, <1>3, <3>3, <4>1, <4>2 DEF KeptBy
      <3>4. ASSUME NEW d \in bucket.log, d.revision = w.revision, d.value = w.by.id
            PROVE  KeptBy(w)'
        <4>1. CASE d \in bucket'.log
          BY <3>4, <4>1 DEF KeptBy
        <4>2. CASE d \notin bucket'.log
          <5>1. d \in Of(x.key) /\ d \notin Retained(Of(x.key), e) /\ d.key = x.key
            BY <1>0, <4>2 DEF Of
          <5>2. w.by.key = x.key
            BY <1>0, <1>11, <2>2, <3>4, <5>1 DEF WriteInv
          <5>3. new \in Since(w)'
            BY <1>0, <1>2, <1>3, <1>6, <1>11, <2>2, <5>2 DEF Since
          <5>4. CASE e.op = "purge"
            BY <1>2, <5>3, <5>4 DEF KeptBy
          <5>5. CASE e.op # "purge"
            <6>1. d \in all /\ ~(Cardinality(Above(all, d)) < bucket.history)
              BY <1>4, <5>1, <5>5 DEF all
            <6>2. \A a \in Above(all, d) : \E v \in Since(w)' : v.revision = a.revision
              <7> SUFFICES ASSUME NEW a \in Above(all, d)
                           PROVE  \E v \in Since(w)' : v.revision = a.revision
                OBVIOUS
              <7>1. a \in all /\ a.revision > d.revision
                BY DEF Above
              <7>2. CASE a = e
                BY <1>2, <5>3, <7>2
              <7>3. CASE a \in Of(x.key)
                <8>1. a \in bucket.log /\ a.key = x.key
                  BY <7>3 DEF Of
                <8>2. PICK v \in writes : v.inc = bucket.inc /\ v.revision = a.revision /\ v.by.key = a.key
                  BY <1>0, <8>1 DEF WriteInv
                <8>3. v \in Since(w)'
                  BY <1>0, <3>4, <5>2, <7>1, <8>1, <8>2 DEF Since
                <8> QED
                  BY <8>2, <8>3
              <7> QED
                BY <7>1, <7>2, <7>3 DEF all
            <6>3. \A a, b \in Above(all, d) : a.revision = b.revision => a = b
              BY <1>7 DEF Above
            <6>4. Cardinality(Above(all, d)) <= Cardinality(Since(w)')
              BY <2>0, <6>2, <6>3, AsMany
            <6>5. Cardinality(Above(all, d)) \in Nat /\ Cardinality(Since(w)') \in Nat
              BY <1>7, <2>0, FS_Subset, FS_CardinalityType DEF Above
            <6>6. Cardinality(Since(w)') >= bucket'.history
              BY <1>0, <1>3, <6>1, <6>4, <6>5
            <6> QED
              BY <6>6 DEF KeptBy
          <5> QED
            BY <5>4, <5>5
        <4> QED
          BY <4>1, <4>2
      <3>5. KeptBy(w)
        BY <1>0, <1>11, <2>2 DEF HistoryInv
      <3> QED
        BY <3>2, <3>3, <3>4, <3>5 DEF KeptBy
    <2> QED
      BY <1>0, <2>1, <2>2
  <1> QED
    BY <1>9, <1>11 DEF HistoryInv

-----------------------------------------------------------------------------
(* The steps of the bucket and of the requests.                            *)

LEMMA CounterType ==
    ASSUME NEW n, NEW n1, NEW N \in Nat, n \in 0..N, n1 = n \/ (n < N /\ n1 = n + 1)
    PROVE  n1 \in 0..N
  OBVIOUS

LEMMA HistoryStays == ASSUME HistoryInv, AskedInv, UNCHANGED <<bucket, writes, asked>>
                      PROVE  HistoryInv' /\ AskedInv'
  <1>1. \A w : KeptBy(w)' <=> KeptBy(w)
    BY DEF KeptBy, Since
  <1>2. \A k : Of(k)' = Of(k)
    BY DEF Of
  <1> QED
    BY <1>1, <1>2 DEF HistoryInv, AskedInv

\* How a request ends.
LEMMA RequestEnds ==
    ASSUME TypeInv, NEW x, Written(x) \/ Unheard(x) \/ Declined(x)
    PROVE  /\ lost' = lost \/ (lost < MaxLost /\ lost' = lost + 1)
           /\ \/ /\ Store(x) /\ late' = late
                 /\ acked' = acked \/ acked' = acked \union {x.id}
              \/ /\ UNCHANGED <<bucket, writes>> /\ late' \subseteq late \union {x}
                 /\ acked' = acked
  BY DEF Written, Unheard, Declined, Lose

LEMMA SendKeeps ==
    ASSUME TypeInv, DataInv, Later, NEW c \in Clients, NEW x \in Writes, WriteOK(x), x.id \in 1..calls',
           New(x), Free(c, x), Written(x) \/ Unheard(x) \/ Declined(x), UNCHANGED <<asked, read>>,
           \A d \in Clients \ {c} : call'[d].write = call[d].write,
           call'[c].write = {} \/ (call'[c].write = {x} /\ x.op = "create")
    PROVE  DataInv' /\ lost' \in 0..MaxLost /\ acked' \in SUBSET (1..calls')
  <1>1. /\ BucketInv /\ WriteInv /\ RequestInv /\ UniqueInv
        /\ HistoryInv /\ AskedInv /\ AckInv /\ Promises
    BY DEF DataInv
  <1>2. /\ lost' = lost \/ (lost < MaxLost /\ lost' = lost + 1)
        /\ \/ /\ Store(x) /\ late' = late
              /\ acked' = acked \/ acked' = acked \union {x.id}
           \/ /\ UNCHANGED <<bucket, writes>> /\ late' \subseteq late \union {x}
              /\ acked' = acked
    BY RequestEnds
  <1>3. x.id <= calls' /\ Record(x).by = x /\ Record(x).by.id = x.id
    BY DEF Record
  <1>0. Sound(x)
    BY <1>3 DEF Sound
  <1>4. \A v \in writes : v.by.id = x.id => Both(x, v.by)
    BY DEF New
  <1>5. lost' \in 0..MaxLost
    BY <1>2, CounterType DEF TypeInv
  <1>6. acked' = acked \/ acked' = acked \union {x.id}
    BY <1>2
  <1>7. acked' \in SUBSET (1..calls')
    <2>1. acked \in SUBSET (1..calls) /\ calls \in Nat /\ calls' \in Nat /\ calls <= calls'
      BY DEF TypeInv, Later
    <2>2. acked \in SUBSET (1..calls')
      BY <2>1
    <2> QED
      BY <1>6, <2>2
  <1>8. CASE Store(x) /\ late' = late /\ (acked' = acked \/ acked' = acked \union {x.id})
    <2>1. BucketKept /\ Promises'
      BY <1>1, <1>3, <1>4, <1>8, StoreKeeps
    <2>2. /\ bucket.exists /\ bucket'.exists /\ bucket'.history = bucket.history
          /\ writes' = writes \union {Record(x)}
      BY <1>1, <1>8, StoreSteps
    <2>3. HistoryInv'
      BY <1>1, <1>8, <2>1, HistoryOK DEF BucketKept
    <2>4. AskedInv'
      BY <1>1, <2>2 DEF AskedInv
    <2>5. RequestInv' /\ late' \in SUBSET Writes
      BY <1>0, <1>1, <1>3, <1>8, <2>1, <2>2, RequestsStay
    <2>6. UniqueInv'
      BY <1>1, <1>8, <2>2, SentIsUnique DEF Sent
    <2>7. AckInv'
      BY <1>1, <1>3, <1>8, <2>2 DEF AckInv
    <2> QED
      BY <1>5, <1>7, <2>1, <2>3, <2>4, <2>5, <2>6, <2>7 DEF DataInv, BucketKept
  <1>9. CASE UNCHANGED <<bucket, writes>> /\ late' \subseteq late \union {x} /\ acked' = acked
    <2>1. BucketKept
      BY <1>1, <1>9, SameKeeps DEF BucketKept, TypeInv
    <2>2. HistoryInv' /\ AskedInv'
      BY <1>1, <1>9, HistoryStays
    <2>3. Promises'
      BY <1>1, <1>9, PromisesStay
    <2>4. RequestInv' /\ late' \in SUBSET Writes
      BY <1>0, <1>1, <1>9, <2>1, RequestsStay
    <2>5. UniqueInv'
      BY <1>1, <1>9, SentIsUnique DEF Sent
    <2>6. AckInv'
      BY <1>1, <1>9 DEF AckInv
    <2> QED
      BY <1>5, <1>7, <2>1, <2>2, <2>3, <2>4, <2>5, <2>6 DEF DataInv, BucketKept
  <1> QED
    BY <1>2, <1>8, <1>9

\* A request that nobody waits for any more.
LEMMA LateKeeps ==
    ASSUME TypeInv, DataInv, LateWrite
    PROVE  DataInv' /\ UNCHANGED <<stores, call, read, calls, lost, acked>>
  <1>1. /\ BucketInv /\ WriteInv /\ RequestInv /\ UniqueInv
        /\ HistoryInv /\ AskedInv /\ AckInv /\ Promises
    BY DEF DataInv
  <1>2. PICK x \in late : late' = late \ {x} /\ (Store(x) \/ UNCHANGED <<bucket, writes>>)
    BY DEF LateWrite
  <1>3. UNCHANGED <<stores, call, read, calls, lost, acked, asked>> /\ Later
    BY DEF LateWrite, counters, Later
  <1>4. x \in Writes /\ WriteOK(x) /\ x.id <= calls' /\ Sound(x)
    BY <1>3 DEF TypeInv, DataInv, RequestInv, Sound
  <1>5. \A v \in writes : v.by.id = x.id => Both(x, v.by)
    BY <1>1 DEF UniqueInv
  <1>6. CASE Store(x)
    <2>1. BucketKept /\ Promises'
      BY <1>1, <1>3, <1>4, <1>5, <1>6, StoreKeeps
    <2>2. /\ bucket.exists /\ bucket'.exists /\ bucket'.history = bucket.history
          /\ writes' = writes \union {Record(x)} /\ Record(x).by = x
      BY <1>1, <1>4, <1>6, StoreSteps DEF Record
    <2>3. HistoryInv'
      BY <1>1, <1>4, <1>6, <2>1, HistoryOK DEF BucketKept
    <2>4. AskedInv'
      BY <1>1, <1>3, <2>2 DEF AskedInv
    <2>5. RequestInv' /\ late' \in SUBSET Writes
      BY <1>1, <1>2, <1>3, <1>4, <2>1, <2>2, RequestsStay
    <2>6. UniqueInv'
      BY <1>1, <1>2, <1>3, <2>2, LateIsUnique
    <2>7. AckInv'
      BY <1>1, <1>3, <2>2 DEF AckInv
    <2> QED
      BY <1>3, <2>1, <2>3, <2>4, <2>5, <2>6, <2>7 DEF DataInv, BucketKept
  <1>7. CASE UNCHANGED <<bucket, writes>>
    <2>1. BucketKept
      BY <1>1, <1>3, <1>7, SameKeeps DEF BucketKept, TypeInv
    <2>2. HistoryInv' /\ AskedInv'
      BY <1>1, <1>3, <1>7, HistoryStays
    <2>3. Promises'
      BY <1>1, <1>7, PromisesStay
    <2>4. RequestInv' /\ late' \in SUBSET Writes
      BY <1>1, <1>2, <1>3, <1>7, <2>1, RequestsStay
    <2>5. UniqueInv'
      BY <1>1, <1>2, <1>3, <1>7, LateIsUnique
    <2>6. AckInv'
      BY <1>1, <1>3, <1>7 DEF AckInv
    <2> QED
      BY <1>3, <2>1, <2>2, <2>3, <2>4, <2>5, <2>6 DEF DataInv, BucketKept
  <1> QED
    BY <1>2, <1>6, <1>7

\* Nothing is sent and nothing written: the bucket is the same, is made or deleted.
LEMMA QuietKeeps ==
    ASSUME TypeInv, DataInv, Later, UNCHANGED <<writes, late, acked>>,
           BucketKept, HistoryInv', AskedInv',
           \A d \in Clients : \A z \in call'[d].write :
              z \in call[d].write \/ (/\ Sound(z)
                                      /\ \E w \in call[d].write :
                                            z.op = w.op /\ z.key = w.key /\ z.id = w.id),
           \A c \in Clients : \A r \in read'[c] :
              r \in read[c] \/ (r \in Reading /\ ReadOK(r) /\ r.element.op = "put")
    PROVE  DataInv' /\ acked' \in SUBSET (1..calls')
  <1>1. RequestInv /\ UniqueInv /\ AckInv /\ Promises
    BY DEF DataInv
  <1>2. RequestInv' /\ late' \in SUBSET Writes
    BY <1>1, RequestsStay
  <1>3. \A d \in Clients : \A z \in call'[d].write :
           \E w \in call[d].write : z.op = w.op /\ z.key = w.key /\ z.id = w.id
    OBVIOUS
  <1>4. UniqueInv'
    BY <1>1, <1>3, QuietIsUnique
  <1>5. AckInv' /\ Promises'
    BY <1>1, PromisesStay DEF AckInv
  <1>6. acked' \in SUBSET (1..calls')
    <2>1. acked \in SUBSET (1..calls) /\ calls \in Nat /\ calls' \in Nat /\ calls <= calls'
      BY DEF TypeInv, Later
    <2> QED
      BY <2>1
  <1> QED
    BY <1>2, <1>4, <1>5, <1>6 DEF DataInv, BucketKept

LEMMA SameIsQuiet ==
    ASSUME TypeInv, DataInv, Later, UNCHANGED <<bucket, writes, asked>>
    PROVE  BucketKept /\ HistoryInv' /\ AskedInv'
  BY SameKeeps, HistoryStays DEF BucketKept, TypeInv, DataInv

LEMMA MadeIsQuiet ==
    ASSUME TypeInv, DataInv, Later, ~bucket.exists, UNCHANGED writes, NEW f \in Config,
           bucket' = NewBucket(ToCnatsKVConfig(f)), asked' = {f}
    PROVE  BucketKept /\ HistoryInv' /\ AskedInv'
  <1>1. HistoryOf(ToCnatsKVConfig(f)) \in Nat \ {0}
    BY DEF Config, ToCnatsKVConfig, HistoryOf
  <1> DEFINE cfg == ToCnatsKVConfig(f)
  <1>2. /\ bucket'.exists /\ bucket'.log = {} /\ bucket'.history = HistoryOf(cfg)
        /\ bucket'.inc = bucket.inc + 1
    BY DEF NewBucket
  <1>3. bucket.inc \in Nat
    BY DEF TypeInv, BucketType
  <1> HIDE DEF cfg
  <1>4. BucketKept
    BY <1>1, MakeKeeps DEF BucketKept, DataInv, cfg
  <1>5. AskedInv'
    BY <1>2 DEF AskedInv, cfg
  <1>6. \A w \in writes : w.inc # bucket'.inc
    <2>1. \A w \in writes : w.inc \in Nat /\ w.inc <= bucket.inc
      BY DEF DataInv, WriteInv, TypeInv, Executed
    <2> QED
      BY <1>2, <1>3, <2>1
  <1>7. \A k \in Keys : Of(k)' = {}
    BY <1>2 DEF Of
  <1>8. \A k \in Keys : Cardinality(Of(k)') <= bucket'.history
    BY <1>1, <1>2, <1>7, FS_EmptySet DEF cfg
  <1> QED
    BY <1>4, <1>5, <1>6, <1>8 DEF HistoryInv

LEMMA DeletedIsQuiet ==
    ASSUME TypeInv, DataInv, Later, UNCHANGED writes,
           bucket' = [NoBucket EXCEPT !.inc = bucket.inc], asked' = {}
    PROVE  BucketKept /\ HistoryInv' /\ AskedInv'
  <1>1. ~bucket'.exists /\ bucket'.log = {} /\ bucket'.history = 0
    BY DEF NoBucket
  <1>2. BucketKept
    BY DeleteKeeps DEF BucketKept, DataInv
  <1>3. \A k \in Keys : Of(k)' = {}
    BY <1>1 DEF Of
  <1>4. \A k \in Keys : Cardinality(Of(k)') <= bucket'.history
    BY <1>1, <1>3, FS_EmptySet
  <1> QED
    BY <1>1, <1>2, <1>4 DEF HistoryInv, AskedInv

-----------------------------------------------------------------------------
(* The actions.                                                            *)

RestInv ==
    /\ call \in [Clients -> CallType] /\ read \in [Clients -> SUBSET Reading]
    /\ stores \subseteq Clients
    /\ calls \in 0..MaxCalls /\ lost \in 0..MaxLost /\ acked \in SUBSET (1..calls)

LEMMA Together == DataInv /\ RestInv /\ LookInv /\ AnswerInv <=> IInv
  BY DEF IInv, TypeInv, RestInv, DataInv
LEMMA TogetherNext == DataInv' /\ RestInv' /\ LookInv' /\ AnswerInv' => IInv'
  BY DEF IInv, TypeInv, RestInv, DataInv

LEMMA AnswerStays ==
    ASSUME NEW op, NEW result, NEW seen, NEW info, Answer(op, result, seen, info),
           op # "info", op # "get" \/ result # "created"
    PROVE  AnswerInv'
  BY DEF Answer, AnswerInv, GetCreatesOnlyWhatWasDeleted

LEMMA SilentStays == ASSUME Silent PROVE AnswerInv'
  BY DEF Silent, NoAnswer, AnswerInv, GetCreatesOnlyWhatWasDeleted

LEMMA NoCallType == NoCall \in CallType /\ NoCall.write = {} /\ \A b : Look(NoCall, b)
  BY DEF NoCall, CallType, Stages, Look, LookUps

\* One call changes.
LEMMA OneCall ==
    ASSUME call \in [Clients -> CallType], LookInv, NEW c \in Clients, NEW r \in CallType,
           call' = [call EXCEPT ![c] = r], bucket'.exists = bucket.exists, Look(r, bucket.exists)
    PROVE  /\ call' \in [Clients -> CallType] /\ LookInv' /\ call'[c] = r
           /\ \A d \in Clients \ {c} : call'[d] = call[d]
  <1>1. /\ call' \in [Clients -> CallType] /\ call'[c] = r
        /\ \A d \in Clients \ {c} : call'[d] = call[d]
    OBVIOUS
  <1>2. \A d \in Clients : Look(call'[d], bucket'.exists)
    BY <1>1 DEF LookInv
  <1> QED
    BY <1>1, <1>2 DEF LookInv

LEMMA CallsSame == ASSUME LookInv, UNCHANGED call, bucket'.exists = bucket.exists PROVE LookInv'
  BY DEF LookInv

LEMMA BeginKeeps ==
    ASSUME IInv, NEW c \in Clients, NEW op \in LookUps, NEW stage \in {"look", "construct"},
           NEW f \in Config, op = "get" => stage = "look", Begin(c, op, stage, f)
    PROVE  IInv'
  <1> DEFINE r == [op |-> op, stage |-> stage, config |-> {f}, write |-> {}, seen |-> {bucket.exists}]
  <1>1. TypeInv /\ DataInv /\ LookInv /\ RestInv
    BY Together DEF IInv
  <1>2. bucket.exists \in BOOLEAN
    BY <1>1, BucketFields DEF TypeInv
  <1>4. /\ call' = [call EXCEPT ![c] = r] /\ Silent /\ calls < MaxCalls /\ calls' = calls + 1
        /\ UNCHANGED <<bucket, stores, read, late, lost, asked, writes, acked>>
    BY DEF Begin, Begun, history
  <1>5. r \in CallType /\ Look(r, bucket.exists) /\ r.write = {}
    BY <1>2 DEF CallType, Stages, Look, LookUps
  <1> HIDE DEF r
  <1>6. /\ call' \in [Clients -> CallType] /\ LookInv' /\ call'[c] = r
        /\ \A d \in Clients \ {c} : call'[d] = call[d]
    BY <1>1, <1>4, <1>5, OneCall DEF RestInv
  <1>7. Later
    BY <1>4 DEF Later
  <1>8. \A d \in Clients : \A z \in call'[d].write : z \in call[d].write
    BY <1>5, <1>6
  <1>9. DataInv' /\ acked' \in SUBSET (1..calls')
    BY <1>1, <1>4, <1>7, <1>8, SameIsQuiet, QuietKeeps
  <1>10. calls' \in 0..MaxCalls
    BY <1>1, <1>4, CounterType DEF RestInv
  <1>11. RestInv'
    BY <1>1, <1>4, <1>6, <1>9, <1>10 DEF RestInv
  <1> QED
    BY <1>4, <1>6, <1>9, <1>11, SilentStays, TogetherNext

LEMMA LookUpsBegin ==
    ASSUME IInv, NEW c \in Clients, JetStreamCall(c)
    PROVE  IInv'
  <1>1. DefaultConfig \in Config
    BY DEF DefaultConfig, Config
  <1>2. \A n \in Histories : [DefaultConfig EXCEPT !.history = n] \in Config
    BY DEF DefaultConfig, Config
  <1>3. CASE GetOrCreateKeyValueStore(c)
    BY <1>2, <1>3, BeginKeeps DEF GetOrCreateKeyValueStore, LookUps
  <1>4. CASE GetKeyValueStore(c)
    BY <1>1, <1>4, BeginKeeps DEF GetKeyValueStore, LookUps
  <1> QED
    BY <1>3, <1>4 DEF JetStreamCall

\* A look-up or a create that ends without a change of the bucket.
LEMMA FinishKeeps ==
    ASSUME IInv, NEW c \in Clients, NEW result, result # "created", Finish(c, result),
           stores' \in {stores, stores \union {c}}, lost' = lost \/ (lost < MaxLost /\ lost' = lost + 1),
           UNCHANGED <<bucket, read, late, calls, asked, writes, acked>>
    PROVE  IInv'
  <1>1. TypeInv /\ DataInv /\ LookInv /\ RestInv
    BY Together DEF IInv
  <1>2. call' = [call EXCEPT ![c] = NoCall] /\ Answer(call[c].op, result, call[c].seen, {})
    BY DEF Finish
  <1>3. call[c].op # "info"
    BY <1>1 DEF RestInv, CallType
  <1>4. AnswerInv'
    BY <1>2, <1>3, AnswerStays
  <1>5. /\ call' \in [Clients -> CallType] /\ LookInv' /\ call'[c] = NoCall
        /\ \A d \in Clients \ {c} : call'[d] = call[d]
    BY <1>1, <1>2, NoCallType, OneCall DEF RestInv
  <1>6. \A d \in Clients : \A z \in call'[d].write : z \in call[d].write
    BY <1>5, NoCallType
  <1>7. DataInv' /\ acked' \in SUBSET (1..calls')
    BY <1>1, <1>6, SameIsQuiet, QuietKeeps DEF Later
  <1>8. lost' \in 0..MaxLost
    BY <1>1, CounterType DEF RestInv
  <1>9. RestInv'
    BY <1>1, <1>5, <1>7, <1>8 DEF RestInv
  <1> QED
    BY <1>4, <1>5, <1>7, <1>9, TogetherNext

LEMMA LookUpStage ==
    ASSUME LookInv, NEW c \in Clients, call[c].stage \in {"look", "construct", "open", "create"}
    PROVE  /\ call[c].op \in LookUps /\ call[c].config # {} /\ call[c].write = {}
           /\ bucket.exists \in call[c].seen
           /\ call[c].stage = "create" => FALSE \in call[c].seen
           /\ call[c].op = "get" /\ call[c].stage # "look" => TRUE \in call[c].seen
  BY DEF LookInv, Look

LEMMA LookUpMoves ==
    ASSUME IInv, NEW c \in Clients, call[c].stage \in {"look", "construct"},
           NEW stage \in {"construct", "open", "create"}, ToStage(c, stage),
           stage = "create" => ~bucket.exists,
           call[c].stage = "look" => bucket.exists,
           UNCHANGED <<bucket, stores, read, late, calls, lost, asked, writes, acked>>
    PROVE  IInv'
  <1> DEFINE r == [call[c] EXCEPT !.stage = stage]
  <1>1. TypeInv /\ DataInv /\ LookInv /\ RestInv
    BY Together DEF IInv
  <1>2. call' = [call EXCEPT ![c] = r] /\ Silent
    BY DEF ToStage
  <1>3. call[c] \in CallType /\ bucket.exists \in BOOLEAN
    BY <1>1, BucketFields DEF RestInv, TypeInv
  <1>4. /\ r \in CallType /\ r.op = call[c].op /\ r.stage = stage /\ r.config = call[c].config
        /\ r.write = call[c].write /\ r.seen = call[c].seen
    BY <1>3 DEF CallType, Stages
  <1> HIDE DEF r
  <1>5. Look(r, bucket.exists) /\ r.write = {}
    <2>1. /\ r.op \in LookUps /\ r.config # {} /\ r.write = {} /\ bucket.exists \in r.seen
          /\ r.stage \in {"look", "construct", "open", "create"}
      BY <1>1, <1>4, LookUpStage
    <2>2. r.stage = "create" => FALSE \in r.seen
      BY <1>3, <1>4, <2>1
    <2>3. r.op = "get" => TRUE \in r.seen
      <3>1. CASE call[c].stage = "look"
        BY <2>1, <3>1
      <3>2. CASE call[c].stage # "look"
        BY <1>1, <1>4, <3>2, LookUpStage
      <3> QED
        BY <3>1, <3>2
    <2> QED
      BY <2>1, <2>2, <2>3 DEF Look
  <1>6. /\ call' \in [Clients -> CallType] /\ LookInv' /\ call'[c] = r
        /\ \A d \in Clients \ {c} : call'[d] = call[d]
    BY <1>1, <1>2, <1>4, <1>5, OneCall DEF RestInv
  <1>7. \A d \in Clients : \A z \in call'[d].write : z \in call[d].write
    BY <1>5, <1>6
  <1>8. DataInv' /\ acked' \in SUBSET (1..calls')
    BY <1>1, <1>7, SameIsQuiet, QuietKeeps DEF Later
  <1>9. RestInv'
    BY <1>1, <1>6, <1>8 DEF RestInv
  <1> QED
    BY <1>2, <1>6, <1>8, <1>9, SilentStays, TogetherNext

LEMMA ExistsKeeps == ASSUME IInv, NEW c \in Clients, Exists(c) PROVE IInv'
  <1>1. bucket.exists \in BOOLEAN
    BY BucketFields DEF IInv, TypeInv
  <1>2. UNCHANGED <<bucket, stores, read, late, calls, lost, asked, writes, acked>>
    BY DEF Exists, counters, history
  <1>3. CASE call[c].stage = "look" /\ ~bucket.exists
    <2>1. Finish(c, "notFound")
      BY <1>3 DEF Exists
    <2> QED
      BY <1>2, <2>1, FinishKeeps
  <1>4. CASE call[c].stage = "look" /\ bucket.exists
    <2>1. ToStage(c, "construct")
      BY <1>4 DEF Exists
    <2> QED
      BY <1>2, <1>4, <2>1, LookUpMoves
  <1>5. CASE call[c].stage = "construct" /\ bucket.exists
    <2>1. ToStage(c, "open")
      BY <1>5 DEF Exists
    <2> QED
      BY <1>2, <1>5, <2>1, LookUpMoves
  <1>6. CASE call[c].stage = "construct" /\ ~bucket.exists
    <2>1. ToStage(c, "create")
      BY <1>6 DEF Exists
    <2> QED
      BY <1>2, <1>6, <2>1, LookUpMoves
  <1> QED
    BY <1>1, <1>3, <1>4, <1>5, <1>6 DEF Exists

LEMMA LookUpFailsKeeps == ASSUME IInv, NEW c \in Clients, LookUpFails(c) PROVE IInv'
  <1>1. /\ Finish(c, "thrown") /\ (lost < MaxLost /\ lost' = lost + 1)
        /\ UNCHANGED <<bucket, stores, read, late, calls, asked, writes, acked>>
    BY DEF LookUpFails, Lose, history
  <1> QED
    BY <1>1, FinishKeeps

\* What those in a call have seen when the bucket is made or deleted.
LEMMA SeeingKeeps ==
    ASSUME TypeInv, LookInv, bucket' \in BucketType
    PROVE  /\ Seeing(bucket') \in [Clients -> CallType]
           /\ \A d \in Clients : /\ Look(Seeing(bucket')[d], bucket'.exists)
                                 /\ Seeing(bucket')[d].write = call[d].write
  <1>1. bucket'.exists \in BOOLEAN
    BY DEF BucketType
  <1>2. ASSUME NEW d \in Clients
        PROVE  /\ Seeing(bucket')[d] \in CallType /\ Look(Seeing(bucket')[d], bucket'.exists)
               /\ Seeing(bucket')[d].write = call[d].write
    <2> DEFINE r == [call[d] EXCEPT !.seen = @ \union {bucket'.exists}]
    <2>1. Seeing(bucket')[d] = IF Idle(d) THEN NoCall ELSE r
      BY DEF Seeing
    <2>2. call[d] \in CallType /\ Look(call[d], bucket.exists)
      BY DEF TypeInv, LookInv
    <2>3. /\ r \in CallType /\ r.op = call[d].op /\ r.stage = call[d].stage
          /\ r.config = call[d].config /\ r.write = call[d].write
          /\ r.seen = call[d].seen \union {bucket'.exists}
      BY <1>1, <2>2 DEF CallType
    <2> HIDE DEF r
    <2>4. Look(r, bucket'.exists)
      BY <2>2, <2>3 DEF Look
    <2>5. CASE Idle(d)
      BY <2>1, <2>5, NoCallType DEF Idle
    <2>6. CASE ~Idle(d)
      BY <2>1, <2>3, <2>4, <2>6
    <2> QED
      BY <2>5, <2>6
  <1>3. Seeing(bucket') \in [Clients -> CallType]
    BY <1>2 DEF Seeing
  <1> QED
    BY <1>2, <1>3

LEMMA ConstructKeeps == ASSUME IInv, NEW c \in Clients, Construct(c) PROVE IInv'
  <1> DEFINE f == CHOOSE g \in call[c].config : TRUE
             cfg == ToCnatsKVConfig(f)
             there == \/ call[c].stage = "open" /\ bucket.exists
                      \/ call[c].stage = "create" /\ bucket.exists /\ bucket.history = HistoryOf(cfg)
  <1>1. TypeInv /\ DataInv /\ LookInv /\ RestInv
    BY Together DEF IInv
  <1>2. UNCHANGED <<read, late, calls, writes, acked>>
    BY DEF Construct, history
  <1>3. CASE there /\ Finish(c, "found") /\ stores' = stores \union {c} /\ UNCHANGED <<bucket, asked, lost>>
    BY <1>2, <1>3, FinishKeeps
  <1>4. CASE Finish(c, "thrown") /\ UNCHANGED <<bucket, stores, asked, lost>>
    BY <1>2, <1>4, FinishKeeps
  <1>5. CASE /\ call[c].stage = "create" /\ ~bucket.exists
             /\ bucket' = NewBucket(cfg) /\ asked' = {f}
             /\ call' = [Seeing(bucket') EXCEPT ![c] = NoCall]
             /\ \/ /\ Answer(call[c].op, "created", call[c].seen, {})
                   /\ stores' = stores \union {c}
                   /\ UNCHANGED lost
                \/ Lose /\ Answer(call[c].op, "thrown", call[c].seen, {}) /\ UNCHANGED stores
    <2>1. /\ call[c].op \in LookUps /\ call[c].config # {}
          /\ FALSE \in call[c].seen /\ (call[c].op = "get" => TRUE \in call[c].seen)
      BY <1>1, <1>5, LookUpStage
    <2>2. call[c].config \in SUBSET Config /\ call[c].seen \in SUBSET BOOLEAN
      BY <1>1 DEF RestInv, CallType
    <2>3. f \in Config
      BY <2>1, <2>2
    <2> HIDE DEF f
    <2>4. BucketKept /\ HistoryInv' /\ AskedInv'
      BY <1>1, <1>2, <1>5, <2>3, MadeIsQuiet DEF Later
    <2>5. bucket' \in BucketType
      BY <2>4 DEF BucketKept
    <2> DEFINE seeing == Seeing(bucket')
    <2>6. /\ seeing \in [Clients -> CallType]
          /\ \A d \in Clients : Look(seeing[d], bucket'.exists) /\ seeing[d].write = call[d].write
      BY <1>1, <2>5, SeeingKeeps
    <2> HIDE DEF seeing
    <2>7. /\ call' \in [Clients -> CallType] /\ call'[c] = NoCall
          /\ \A d \in Clients \ {c} : call'[d] = seeing[d]
      BY <1>5, <2>6, NoCallType DEF seeing
    <2>8. LookInv'
      BY <2>6, <2>7, NoCallType DEF LookInv
    <2>9. \A d \in Clients : \A z \in call'[d].write : z \in call[d].write
      BY <2>6, <2>7, NoCallType
    <2>10. DataInv' /\ acked' \in SUBSET (1..calls')
      BY <1>1, <1>2, <2>4, <2>9, QuietKeeps DEF Later
    <2>11. AnswerInv'
      <3>1. call[c].op # "info"
        BY <2>1 DEF LookUps
      <3>2. call[c].op = "get" => call[c].seen = {TRUE, FALSE}
        BY <2>1, <2>2
      <3>3. answer'.op = call[c].op /\ answer'.seen = call[c].seen
        BY <1>5 DEF Answer
      <3>4. answer'.op # "info" /\ (answer'.op = "get" => answer'.seen = {TRUE, FALSE})
        BY <3>1, <3>2, <3>3
      <3>5. GetCreatesOnlyWhatWasDeleted'
        BY <3>4 DEF GetCreatesOnlyWhatWasDeleted
      <3> QED
        BY <3>4, <3>5 DEF AnswerInv
    <2>12. lost' \in 0..MaxLost
      BY <1>1, <1>5, CounterType DEF RestInv, Lose
    <2>13. stores' \subseteq Clients
      BY <1>1, <1>5 DEF RestInv
    <2>14. RestInv'
      BY <1>1, <1>2, <2>7, <2>10, <2>12, <2>13 DEF RestInv
    <2> QED
      BY <2>8, <2>10, <2>11, <2>14, TogetherNext
  <1> QED
    BY <1>3, <1>4, <1>5 DEF Construct

\* A call that ends in the step it begins in and sends nothing.
LEMMA AtOnceKeeps ==
    ASSUME IInv, Later, lost' = lost \/ (lost < MaxLost /\ lost' = lost + 1),
           UNCHANGED <<bucket, stores, call, late, asked, writes, acked>>,
           read' \in [Clients -> SUBSET Reading],
           \A c \in Clients : \A r \in read'[c] :
              r \in read[c] \/ (r \in Reading /\ ReadOK(r) /\ r.element.op = "put"),
           AnswerInv'
    PROVE  IInv'
  <1>1. TypeInv /\ DataInv /\ LookInv /\ RestInv
    BY Together DEF IInv
  <1>2. DataInv' /\ acked' \in SUBSET (1..calls')
    BY <1>1, SameIsQuiet, QuietKeeps
  <1>3. calls' \in 0..MaxCalls /\ lost' \in 0..MaxLost
    BY <1>1, CounterType DEF Later, RestInv
  <1>4. RestInv'
    BY <1>1, <1>2, <1>3 DEF RestInv
  <1> QED
    BY <1>1, <1>2, <1>4, CallsSame, TogetherNext

LEMMA ReadKeeps == ASSUME IInv, NEW c \in Clients, NEW k \in Keys, Get(c, k) PROVE IInv'
  <1>1. TypeInv /\ DataInv /\ RestInv
    BY Together DEF IInv
  <1>2. Later /\ UNCHANGED <<bucket, stores, call, late, asked, writes, acked>>
    BY DEF Get, Held, Begun, Later, history
  <1>3. lost' = lost \/ (lost < MaxLost /\ lost' = lost + 1)
    BY DEF Get, Lose
  <1>4. AnswerInv'
    <2>1. \/ \E e \in GetKvEntry(k) : Answer("getElement", "ok", {}, {e})
          \/ Answer("getElement", "thrown", {}, {})
      BY DEF Get
    <2> QED
      BY <2>1, AnswerStays
  <1>5. CASE UNCHANGED read
    BY <1>1, <1>2, <1>3, <1>4, <1>5, AtOnceKeeps DEF RestInv
  <1>6. ASSUME NEW e \in GetKvEntry(k),
               read' = [read EXCEPT ![c] = {[element |-> e, inc |-> bucket.inc]}]
        PROVE  IInv'
    <2> DEFINE r == [element |-> e, inc |-> bucket.inc]
    <2>1. e \in bucket.log /\ e.op = "put" /\ e \in Element /\ bucket.inc \in Nat
      BY <1>1, BucketFields DEF GetKvEntry, Latest, Of, TypeInv
    <2>2. r \in Reading /\ r.element = e /\ r.inc = bucket.inc
      BY <2>1 DEF Reading
    <2> HIDE DEF r
    <2>3. ReadOK(r)
      <3>1. e.revision <= bucket.last /\ \A d \in bucket.log : d.revision = e.revision => d = e
        BY <1>1, <2>1 DEF DataInv, BucketInv
      <3> QED
        BY <2>1, <2>2, <3>1 DEF ReadOK
    <2>4. read' = [read EXCEPT ![c] = {r}]
      BY <1>6 DEF r
    <2>5. /\ read' \in [Clients -> SUBSET Reading]
          /\ \A d \in Clients : read'[d] = IF d = c THEN {r} ELSE read[d]
      BY <1>1, <2>2, <2>4 DEF RestInv
    <2>6. \A d \in Clients : \A s \in read'[d] :
             s \in read[d] \/ (s \in Reading /\ ReadOK(s) /\ s.element.op = "put")
      BY <2>1, <2>2, <2>3, <2>5
    <2> QED
      BY <1>2, <1>3, <1>4, <2>5, <2>6, AtOnceKeeps
  <1> QED
    BY <1>5, <1>6 DEF Get

LEMMA TellKeeps == ASSUME IInv, NEW c \in Clients, KeyList(c) \/ Info(c) PROVE IInv'
  <1>1. RestInv
    BY Together DEF IInv
  <1>2. Later /\ UNCHANGED <<bucket, stores, call, read, late, lost, asked, writes, acked>>
    BY DEF KeyList, Info, Held, Begun, Later, history
  <1>3. AnswerInv'
    <2>1. CASE KeyList(c)
      BY <2>1, AnswerStays DEF KeyList
    <2>2. CASE Info(c)
      <3>1. answer' = [op |-> "info", result |-> "ok", seen |-> {},
                       info |-> {[values |-> Cardinality(bucket.log), history |-> bucket.history]}]
        BY <2>2 DEF Info, Answer
      <3>2. \A i \in answer'.info : i.history = bucket'.history
        BY <1>2, <3>1
      <3>3. GetCreatesOnlyWhatWasDeleted'
        BY <3>1 DEF GetCreatesOnlyWhatWasDeleted
      <3> QED
        BY <3>2, <3>3 DEF AnswerInv
    <2> QED
      BY <2>1, <2>2
  <1> QED
    BY <1>1, <1>2, <1>3, AtOnceKeeps DEF RestInv

LEMMA DeleteStoreKeeps == ASSUME IInv, NEW c \in Clients, DeleteStore(c) PROVE IInv'
  <1>1. TypeInv /\ DataInv /\ LookInv /\ RestInv
    BY Together DEF IInv
  <1>2. /\ Later /\ UNCHANGED <<stores, read, late, writes, acked>>
        /\ lost' = lost \/ (lost < MaxLost /\ lost' = lost + 1)
    BY DEF DeleteStore, Held, Begun, Later, Lose, history
  <1>3. AnswerInv'
    BY AnswerStays DEF DeleteStore
  <1>4. CASE UNCHANGED <<bucket, call, asked>>
    BY <1>1, <1>2, <1>3, <1>4, AtOnceKeeps DEF RestInv
  <1>5. CASE /\ bucket' = [NoBucket EXCEPT !.inc = bucket.inc]
             /\ call' = Seeing(bucket') /\ asked' = {}
    <2>1. BucketKept /\ HistoryInv' /\ AskedInv'
      BY <1>1, <1>2, <1>5, DeletedIsQuiet
    <2>2. bucket' \in BucketType
      BY <2>1 DEF BucketKept
    <2>3. /\ call' \in [Clients -> CallType]
          /\ \A d \in Clients : Look(call'[d], bucket'.exists) /\ call'[d].write = call[d].write
      BY <1>1, <1>5, <2>2, SeeingKeeps
    <2>4. LookInv'
      BY <2>3 DEF LookInv
    <2>5. \A d \in Clients : \A z \in call'[d].write : z \in call[d].write
      BY <2>3
    <2>6. DataInv' /\ acked' \in SUBSET (1..calls')
      BY <1>1, <1>2, <2>1, <2>5, QuietKeeps
    <2>7. calls' \in 0..MaxCalls /\ lost' \in 0..MaxLost
      BY <1>1, <1>2, CounterType DEF Later, RestInv
    <2>8. RestInv'
      BY <1>1, <1>2, <2>3, <2>6, <2>7 DEF RestInv
    <2> QED
      BY <1>3, <2>4, <2>6, <2>8, TogetherNext
  <1> QED
    BY <1>4, <1>5 DEF DeleteStore

-----------------------------------------------------------------------------
(* The writes.                                                             *)

\* The request of a call that begins: no other has its number.
LEMMA FreshWrite ==
    ASSUME IInv, NEW c \in Clients, Held(c), NEW op \in {"put", "create", "update", "purge"},
           NEW k \in Keys, NEW expected \in {-1} \union Nat, NEW from \in SUBSET Reading
    PROVE  LET x == Write(op, k, expected, from)
           IN  /\ x \in Writes /\ x.op = op /\ x.key = k /\ x.expected = expected /\ x.from = from
               /\ x.id \in 1..calls' /\ Later /\ calls' \in 0..MaxCalls
               /\ New(x) /\ Free(c, x)
  <1> DEFINE x == Write(op, k, expected, from)
  <1>1. calls \in 0..MaxCalls /\ calls < MaxCalls /\ calls' = calls + 1
    BY DEF IInv, TypeInv, Held, Begun
  <1>2. calls + 1 \in 1..MaxCalls /\ calls + 1 \in 1..calls' /\ calls' \in 0..MaxCalls
    BY <1>1
  <1>3. x \in Writes
    BY <1>2 DEF Write, Writes, Reading
  <1>4. /\ x.op = op /\ x.key = k /\ x.expected = expected /\ x.from = from /\ x.id = calls + 1
    BY DEF Write
  <1> HIDE DEF x
  <1>5. \A i \in Nat : i <= calls => i # x.id
    BY <1>1, <1>4
  <1>6. New(x)
    <2>1. \A y \in late : y.id \in Nat /\ y.id <= calls
      BY DEF IInv, TypeInv, DataInv, RequestInv, Writes
    <2>2. \A v \in writes : v.by.id \in Nat /\ v.by.id <= calls
      BY DEF IInv, TypeInv, DataInv, WriteInv, Executed, Writes
    <2> QED
      BY <1>5, <2>1, <2>2 DEF New
  <1>7. Free(c, x)
    <2>1. \A d \in Clients : \A z \in call[d].write : z \in Writes /\ z.id <= calls
      BY DEF IInv, TypeInv, CallType, DataInv, RequestInv
    <2>2. \A z \in Writes : z.id \in Nat
      BY DEF Writes
    <2> QED
      BY <1>5, <2>1, <2>2 DEF Free
  <1>8. Later
    BY <1>1 DEF Later
  <1> QED
    BY <1>2, <1>3, <1>4, <1>6, <1>7, <1>8 DEF x

LEMMA EndSees ==
    ASSUME TypeInv, DataInv, NEW x \in Writes, Written(x) \/ Unheard(x) \/ Declined(x)
    PROVE  bucket'.exists = bucket.exists
  <1>1. CASE Store(x)
    <2>1. bucket'.exists /\ bucket.exists /\ bucket' \in BucketType /\ bucket \in BucketType
      BY <1>1, StoreSteps DEF DataInv, TypeInv
    <2>2. bucket'.exists \in BOOLEAN /\ bucket.exists \in BOOLEAN
      BY <2>1 DEF BucketType
    <2> QED
      BY <2>1, <2>2
  <1>2. CASE UNCHANGED bucket
    BY <1>2
  <1> QED
    BY <1>1, <1>2, RequestEnds

\* A request of which the call consists.
LEMMA RequestKeeps ==
    ASSUME IInv, NEW c \in Clients, NEW x \in Writes, Request(x), x.op # "info", x.op # "get",
           WriteOK(x), x.id \in 1..calls', Later, calls' \in 0..MaxCalls, New(x), Free(c, x),
           Idle(c)
    PROVE  IInv'
  <1>1. TypeInv /\ DataInv /\ LookInv /\ RestInv
    BY Together DEF IInv
  <1>2. /\ Written(x) \/ Unheard(x) \/ Declined(x)
        /\ Answer(x.op, "ok", {}, {}) \/ Answer(x.op, "thrown", {}, {})
        /\ UNCHANGED <<stores, call, read, asked>>
    BY DEF Request
  <1>3. AnswerInv'
    BY <1>2, AnswerStays
  <1>4. call'[c].write = {}
    BY <1>2, NoCallType DEF Idle
  <1>5. DataInv' /\ lost' \in 0..MaxLost /\ acked' \in SUBSET (1..calls')
    BY <1>1, <1>2, <1>4, SendKeeps
  <1>6. LookInv'
    BY <1>1, <1>2, EndSees, CallsSame
  <1>7. RestInv'
    BY <1>1, <1>2, <1>5 DEF RestInv
  <1> QED
    BY <1>3, <1>5, <1>6, <1>7, TogetherNext

LEMMA PutKeeps ==
    ASSUME IInv, NEW c \in Clients, NEW k \in Keys, Put(c, k) \/ Purge(c, k) \/ Remove(c, k)
    PROVE  IInv'
  <1>1. PICK op \in {"put", "purge"} : Held(c) /\ Request(Write(op, k, -1, {}))
    BY DEF Put, Remove, Purge
  <1> DEFINE x == Write(op, k, -1, {})
  <1>2. /\ x \in Writes /\ x.op = op /\ x.expected = -1 /\ x.from = {}
        /\ x.id \in 1..calls' /\ Later /\ calls' \in 0..MaxCalls /\ New(x) /\ Free(c, x)
    BY <1>1, FreshWrite
  <1>3. Request(x) /\ Idle(c)
    BY <1>1 DEF Held, Begun
  <1> HIDE DEF x
  <1>4. WriteOK(x)
    BY <1>2 DEF WriteOK
  <1> QED
    BY <1>2, <1>3, <1>4, RequestKeeps

LEMMA UpdateKeeps == ASSUME IInv, NEW c \in Clients, NEW k \in Keys, Update(c, k) PROVE IInv'
  <1>1. PICK from \in read[c] : /\ from.element.key = k
                                /\ Request(Write("update", k, from.element.revision, {from}))
    BY DEF Update
  <1>2. from \in Reading /\ ReadOK(from) /\ from.element.revision \in Nat
    <2>1. from \in Reading /\ ReadOK(from)
      BY DEF IInv, TypeInv, DataInv, RequestInv
    <2> QED
      BY <2>1, RevisionType DEF Reading
  <1> DEFINE x == Write("update", k, from.element.revision, {from})
  <1>3. /\ x \in Writes /\ x.op = "update" /\ x.key = k
        /\ x.expected = from.element.revision /\ x.from = {from}
        /\ x.id \in 1..calls' /\ Later /\ calls' \in 0..MaxCalls /\ New(x) /\ Free(c, x)
    BY <1>2, FreshWrite DEF Update
  <1>4. Request(x) /\ Idle(c)
    BY <1>1 DEF Update, Held, Begun
  <1> HIDE DEF x
  <1>5. WriteOK(x)
    BY <1>1, <1>2, <1>3 DEF WriteOK
  <1> QED
    BY <1>3, <1>4, <1>5, RequestKeeps

LEMMA CreatingType ==
    ASSUME NEW stage \in {"marker", "again"}, NEW w \in Writes
    PROVE  /\ Creating(stage, w) \in CallType /\ Creating(stage, w).write = {w}
           /\ Creating(stage, w).op = "create" /\ Creating(stage, w).stage = stage
           /\ \A b : Look(Creating(stage, w), b)
  BY DEF Creating, CallType, Stages, Look, LookUps

\* An attempt of create, of the call that begins or is at its second.
LEMMA CreateRequestKeeps ==
    ASSUME IInv, NEW c \in Clients, NEW x \in Writes, NEW next \in {"none", "marker"},
           CreateRequest(c, x, next), x.op = "create", WriteOK(x), x.id \in 1..calls', Later,
           calls' \in 0..MaxCalls, New(x), Free(c, x), UNCHANGED <<stores, read, asked>>
    PROVE  IInv'
  <1>1. TypeInv /\ DataInv /\ LookInv /\ RestInv
    BY Together DEF IInv
  <1>2. Written(x) \/ Unheard(x) \/ Declined(x)
    BY DEF CreateRequest
  <1>3. AnswerInv'
    BY AnswerStays, SilentStays DEF CreateRequest
  <1>4. PICK r \in {NoCall, Creating("marker", x)} : call' = [call EXCEPT ![c] = r]
    BY DEF CreateRequest
  <1>5. /\ r \in CallType /\ (r.write = {} \/ r.write = {x}) /\ \A b : Look(r, b)
    BY NoCallType, CreatingType
  <1>6. /\ call' \in [Clients -> CallType] /\ LookInv' /\ call'[c] = r
        /\ \A d \in Clients \ {c} : call'[d] = call[d]
    BY <1>1, <1>2, <1>4, <1>5, EndSees, OneCall DEF RestInv
  <1>7. \A d \in Clients \ {c} : call'[d].write = call[d].write
    BY <1>6
  <1>8. call'[c].write = {} \/ (call'[c].write = {x} /\ x.op = "create")
    BY <1>5, <1>6
  <1>9. DataInv' /\ lost' \in 0..MaxLost /\ acked' \in SUBSET (1..calls')
    BY <1>1, <1>2, <1>7, <1>8, SendKeeps
  <1>10. RestInv'
    BY <1>1, <1>6, <1>9 DEF RestInv
  <1> QED
    BY <1>3, <1>6, <1>9, <1>10, TogetherNext

LEMMA CreateKeeps == ASSUME IInv, NEW c \in Clients, NEW k \in Keys, Create(c, k) PROVE IInv'
  <1> DEFINE x == Write("create", k, 0, {})
  <1>1. /\ x \in Writes /\ x.op = "create" /\ x.expected = 0 /\ x.from = {}
        /\ x.id \in 1..calls' /\ Later /\ calls' \in 0..MaxCalls /\ New(x) /\ Free(c, x)
    BY FreshWrite DEF Create
  <1>2. CreateRequest(c, x, "marker") /\ UNCHANGED <<stores, read, asked>>
    BY DEF Create
  <1> HIDE DEF x
  <1>3. WriteOK(x)
    BY <1>1 DEF WriteOK
  <1> QED
    BY <1>1, <1>2, <1>3, CreateRequestKeeps

\* The request in the hand of a create.
LEMMA InHand ==
    ASSUME IInv, NEW c \in Clients, NEW w \in call[c].write
    PROVE  /\ w \in Writes /\ w.op = "create" /\ WriteOK(w) /\ w.id \in 1..calls
           /\ New(w) /\ Free(c, w)
  <1>1. w \in Writes
    BY DEF IInv, TypeInv, CallType
  <1>2. w.id \in 1..calls
    <2>1. w.id \in 1..MaxCalls /\ w.id <= calls /\ calls \in Nat
      BY <1>1 DEF IInv, TypeInv, DataInv, RequestInv, Writes
    <2> QED
      BY <2>1
  <1> QED
    BY <1>1, <1>2 DEF IInv, DataInv, RequestInv, UniqueInv

LEMMA CreateAgainKeeps == ASSUME IInv, NEW c \in Clients, CreateAgain(c) PROVE IInv'
  <1>1. PICK w \in call[c].write : CreateRequest(c, w, "none")
    BY DEF CreateAgain
  <1>2. UNCHANGED <<stores, read, asked, calls>>
    BY DEF CreateAgain
  <1>3. /\ w \in Writes /\ w.op = "create" /\ WriteOK(w) /\ w.id \in 1..calls
        /\ New(w) /\ Free(c, w)
    BY InHand
  <1>4. w.id \in 1..calls' /\ calls' \in 0..MaxCalls /\ Later
    BY <1>2, <1>3 DEF IInv, TypeInv, Later
  <1> QED
    BY <1>1, <1>2, <1>3, <1>4, CreateRequestKeeps

Again(w, expected, from) == [w EXCEPT !.expected = expected, !.from = from]
LEMMA AgainIs ==
    ASSUME NEW w \in Writes, NEW expected \in Nat, NEW from \in SUBSET Reading, NEW again,
           again = Again(w, expected, from)
    PROVE  /\ again \in Writes /\ again.op = w.op /\ again.key = w.key /\ again.id = w.id
           /\ again.expected = expected /\ again.from = from
  <1> DEFINE first == [w EXCEPT !.expected = expected]
  <1>1. first \in Writes /\ first.op = w.op /\ first.key = w.key /\ first.id = w.id
        /\ first.expected = expected
    BY DEF Writes
  <1> HIDE DEF first
  <1> DEFINE second == [first EXCEPT !.from = from]
  <1>2. second \in Writes /\ second.op = w.op /\ second.key = w.key /\ second.id = w.id
        /\ second.expected = expected /\ second.from = from
    BY <1>1 DEF Writes, Reading
  <1>3. again = second
    BY DEF first, Again
  <1> QED
    BY <1>2, <1>3

LEMMA CreateLooksKeeps == ASSUME IInv, NEW c \in Clients, CreateLooks(c) PROVE IInv'
  <1>0. TypeInv /\ DataInv /\ LookInv /\ RestInv
    BY Together DEF IInv
  <1>1. PICK w \in call[c].write :
          \/ \E e \in Latest(w.key) :
                /\ e.op = "purge"
                /\ LET from == {[element |-> e, inc |-> bucket.inc]}
                       again == [w EXCEPT !.expected = e.revision, !.from = from]
                   IN  call' = [call EXCEPT ![c] = Creating("again", again)]
                /\ Silent
                /\ UNCHANGED lost
          \/ /\ ((HasValue(w.key) \/ Latest(w.key) = {}) /\ UNCHANGED lost) \/ Lose
             /\ Finish(c, "thrown")
    BY DEF CreateLooks
  <1>2. UNCHANGED <<bucket, stores, read, late, calls, asked, writes, acked>>
    BY DEF CreateLooks, history
  <1>3. CASE /\ ((HasValue(w.key) \/ Latest(w.key) = {}) /\ UNCHANGED lost) \/ Lose
             /\ Finish(c, "thrown")
    <2>1. lost' = lost \/ (lost < MaxLost /\ lost' = lost + 1)
      BY <1>3 DEF Lose
    <2> QED
      BY <1>2, <1>3, <2>1, FinishKeeps
  <1>4. ASSUME NEW e \in Latest(w.key), e.op = "purge", Silent, UNCHANGED lost,
               call' = [call EXCEPT ![c] = Creating("again",
                           [w EXCEPT !.expected = e.revision,
                                     !.from = {[element |-> e, inc |-> bucket.inc]}])]
        PROVE  IInv'
    <2> DEFINE r == [element |-> e, inc |-> bucket.inc]
               again == [w EXCEPT !.expected = e.revision, !.from = {r}]
    <2>1. e \in bucket.log /\ e.key = w.key /\ e \in Element /\ bucket.inc \in Nat
          /\ e.revision \in Nat
      BY <1>0, BucketFields, RevisionType DEF Latest, Of, TypeInv
    <2>2. r \in Reading /\ r.element = e /\ r.inc = bucket.inc
      BY <2>1 DEF Reading
    <2> HIDE DEF r
    <2>3. ReadOK(r)
      <3>1. e.revision <= bucket.last /\ \A d \in bucket.log : d.revision = e.revision => d = e
        BY <1>0, <2>1 DEF DataInv, BucketInv
      <3> QED
        BY <2>1, <2>2, <3>1 DEF ReadOK
    <2>4. Marker(r)
      <3>1. bucket.exists
        BY <1>0, <2>1 DEF DataInv, BucketInv, TypeInv, BucketType
      <3>2. PICK p \in writes : /\ p.inc = bucket.inc /\ p.revision = e.revision
                                /\ p.by.key = e.key
                                /\ e.op = "purge" <=> p.by.op = "purge"
        BY <1>0, <2>1, <3>1 DEF DataInv, WriteInv
      <3> QED
        BY <1>4, <2>2, <3>2 DEF Marker
    <2>5. w \in Writes /\ w.op = "create" /\ w.id \in 1..calls
      BY InHand
    <2>6. /\ again \in Writes /\ again.op = w.op /\ again.key = w.key /\ again.id = w.id
          /\ again.expected = e.revision /\ again.from = {r}
      <3>1. {r} \in SUBSET Reading
        BY <2>2
      <3>2. again = Again(w, e.revision, {r})
        BY DEF Again
      <3> HIDE DEF again
      <3> QED
        BY <2>1, <2>5, <3>1, <3>2, AgainIs
    <2>7. call' = [call EXCEPT ![c] = Creating("again", again)]
      BY <1>4 DEF r
    <2> HIDE DEF again
    <2>8. WriteOK(again)
      BY <2>1, <2>2, <2>3, <2>4, <2>5, <2>6 DEF WriteOK
    <2>9. again.id <= calls' /\ Sound(again)
      <3>1. again.id <= calls'
        BY <1>2, <2>5, <2>6
      <3> QED
        BY <2>6, <2>8, <3>1 DEF Sound
    <2>10. /\ Creating("again", again) \in CallType /\ Creating("again", again).write = {again}
           /\ Look(Creating("again", again), bucket.exists)
      BY <2>6, CreatingType
    <2>11. /\ call' \in [Clients -> CallType] /\ LookInv'
           /\ call'[c].write = {again}
           /\ \A d \in Clients \ {c} : call'[d] = call[d]
      BY <1>0, <1>2, <2>7, <2>10, OneCall DEF RestInv
    <2>12. \A d \in Clients : \A z \in call'[d].write :
              z \in call[d].write \/ (/\ Sound(z)
                                      /\ \E v \in call[d].write :
                                            z.op = v.op /\ z.key = v.key /\ z.id = v.id)
      BY <2>6, <2>9, <2>11
    <2>13. DataInv' /\ acked' \in SUBSET (1..calls')
      BY <1>0, <1>2, <2>12, SameIsQuiet, QuietKeeps DEF Later
    <2>14. RestInv'
      BY <1>0, <1>2, <1>4, <2>11, <2>13 DEF RestInv
    <2> QED
      BY <1>4, <2>11, <2>13, <2>14, SilentStays, TogetherNext
  <1> QED
    BY <1>1, <1>3, <1>4

-----------------------------------------------------------------------------
(* The theorems.                                                           *)

LEMMA InitHolds == Init => IInv
  <1> SUFFICES ASSUME Init PROVE IInv
    OBVIOUS
  <1>1. /\ bucket = NoBucket /\ stores = {} /\ call = [c \in Clients |-> NoCall]
        /\ answer = NoAnswer /\ read = [c \in Clients |-> {}] /\ late = {}
        /\ calls = 0 /\ lost = 0 /\ asked = {} /\ writes = {} /\ acked = {}
    BY DEF Init
  <1>2. /\ bucket \in BucketType /\ bucket.log = {} /\ ~bucket.exists /\ bucket.history = 0
    BY <1>1 DEF NoBucket, BucketType
  <1>3. RestInv
    BY <1>1, NoCallType DEF RestInv
  <1>4. \A c \in Clients : call[c] = NoCall
    BY <1>1
  <1>5. LookInv
    BY <1>4, NoCallType DEF LookInv
  <1>6. AnswerInv
    BY <1>1 DEF NoAnswer, AnswerInv, GetCreatesOnlyWhatWasDeleted
  <1>7. \A k \in Keys : Of(k) = {}
    BY <1>2 DEF Of
  <1>8. BucketInv /\ WriteInv
    BY <1>1, <1>2, <1>7, FS_EmptySet DEF BucketInv, WriteInv
  <1>9. RequestInv /\ UniqueInv
    BY <1>1, <1>4, NoCallType DEF RequestInv, UniqueInv
  <1>10. HistoryInv /\ AskedInv
    <2>1. \A k \in Keys : Cardinality(Of(k)) <= bucket.history
      BY <1>2, <1>7, FS_EmptySet
    <2> QED
      BY <1>1, <1>2, <2>1 DEF HistoryInv, AskedInv
  <1>11. AckInv /\ Promises
    BY <1>1 DEF AckInv, Promises, UpdateReplacesWhatWasRead, CreateFindsNothing, WrittenOnce
  <1>12. DataInv
    BY <1>1, <1>2, <1>8, <1>9, <1>10, <1>11 DEF DataInv
  <1> QED
    BY <1>3, <1>5, <1>6, <1>12, Together

LEMMA NextHolds == IInv /\ Next => IInv'
  <1> SUFFICES ASSUME IInv, Next PROVE IInv'
    OBVIOUS
  <1>1. ASSUME NEW c \in Clients, JetStreamCall(c) PROVE IInv'
    BY <1>1, LookUpsBegin
  <1>2. ASSUME NEW c \in Clients, KeyValueStoreCall(c) PROVE IInv'
    <2>1. CASE DeleteStore(c) \/ KeyList(c) \/ Info(c)
      BY <2>1, DeleteStoreKeeps, TellKeeps
    <2>2. ASSUME NEW k \in Keys,
                 Get(c, k) \/ Put(c, k) \/ Create(c, k) \/ Update(c, k) \/ Purge(c, k) \/ Remove(c, k)
          PROVE  IInv'
      BY <2>2, ReadKeeps, PutKeeps, CreateKeeps, UpdateKeeps
    <2> QED
      BY <1>2, <2>1, <2>2 DEF KeyValueStoreCall
  <1>3. ASSUME NEW c \in Clients,
               Exists(c) \/ Construct(c) \/ LookUpFails(c) \/ CreateLooks(c) \/ CreateAgain(c)
        PROVE  IInv'
    BY <1>3, ExistsKeeps, ConstructKeeps, LookUpFailsKeeps, CreateLooksKeeps, CreateAgainKeeps
  <1>4. CASE LateWrite
    <2>1. TypeInv /\ DataInv /\ LookInv /\ RestInv
      BY Together DEF IInv
    <2>2. DataInv' /\ UNCHANGED <<stores, call, read, calls, lost, acked>>
      BY <1>4, <2>1, LateKeeps
    <2>3. RestInv'
      BY <2>1, <2>2 DEF RestInv
    <2>4. bucket'.exists = bucket.exists
      <3>1. PICK x \in late : Store(x) \/ UNCHANGED bucket
        BY <1>4 DEF LateWrite
      <3>2. CASE Store(x)
        <4>1. bucket'.exists /\ bucket.exists
          BY <2>1, <3>2, StoreSteps DEF DataInv
        <4>2. bucket'.exists \in BOOLEAN /\ bucket.exists \in BOOLEAN
          BY <2>1, <2>2 DEF DataInv, BucketType
        <4> QED
          BY <4>1, <4>2
      <3> QED
        BY <3>1, <3>2
    <2>5. LookInv'
      BY <2>1, <2>2, <2>4, CallsSame
    <2>6. AnswerInv'
      BY <1>4, SilentStays DEF LateWrite
    <2> QED
      BY <2>2, <2>3, <2>5, <2>6, TogetherNext
  <1> QED
    BY <1>1, <1>2, <1>3, <1>4 DEF Next

LEMMA StutterHolds == IInv /\ UNCHANGED vars => IInv'
  <1> SUFFICES ASSUME IInv, UNCHANGED vars PROVE IInv'
    OBVIOUS
  <1>1. TypeInv /\ DataInv /\ LookInv /\ RestInv /\ AnswerInv
    BY Together DEF IInv
  <1>2. /\ UNCHANGED <<bucket, stores, call, answer, read, late, calls, lost, asked, writes, acked>>
    BY DEF vars
  <1>3. DataInv' /\ acked' \in SUBSET (1..calls')
    BY <1>1, <1>2, SameIsQuiet, QuietKeeps DEF Later
  <1>4. RestInv'
    BY <1>1, <1>2 DEF RestInv
  <1>5. LookInv'
    BY <1>1, <1>2, CallsSame
  <1>6. AnswerInv'
    BY <1>1, <1>2 DEF AnswerInv, GetCreatesOnlyWhatWasDeleted
  <1> QED
    BY <1>3, <1>4, <1>5, <1>6, TogetherNext

\* The parts of IInv hold of every reachable state: a bucket keeps what it must,
\* each request is of one call and expects what its caller has read.
THEOREM Invariance == Spec => []IInv
  <1>1. IInv /\ [Next]_vars => IInv'
    BY NextHolds, StutterHolds
  <1> QED
    BY <1>1, InitHolds, PTL DEF Spec

\* No more is kept of a key than its bucket allows, for any history and however
\* writes and purges follow each other.
THEOREM TypeCorrect == Spec => []TypeOK
  <1>1. IInv => TypeOK
    <2> SUFFICES ASSUME IInv PROVE TypeOK
      OBVIOUS
    <2>1. TypeInv /\ DataInv /\ BucketInv /\ HistoryInv /\ RequestInv
      BY DEF IInv, DataInv
    <2>2. bucket.log \subseteq Element /\ (~bucket.exists => bucket.log = {})
      BY <2>1, BucketFields DEF TypeInv, BucketInv
    <2>3. \A c \in Clients : \A w \in call[c].write : w.expected >= 0
      <3> SUFFICES ASSUME NEW c \in Clients, NEW w \in call[c].write PROVE w.expected >= 0
        OBVIOUS
      <3>1. w \in Writes /\ w.op = "create" /\ WriteOK(w)
        BY InHand
      <3>2. CASE w.from = {}
        BY <3>1, <3>2 DEF WriteOK
      <3>3. CASE w.from # {}
        <4>1. PICK r \in w.from : TRUE
          BY <3>3
        <4>2. r \in Reading /\ w.expected = r.element.revision
          BY <3>1 DEF WriteOK, Writes, Reading
        <4> QED
          BY <4>2, RevisionType DEF Reading
      <3> QED
        BY <3>2, <3>3
    <2>4. \A c \in Clients : \A r \in read[c] : r.element.op = "put" /\ r.inc <= bucket.inc
      BY <2>1 DEF RequestInv, ReadOK
    <2>5. late \subseteq Writes /\ \A w \in late : w.id <= calls
      BY <2>1 DEF DataInv, RequestInv
    <2>6. calls <= MaxCalls /\ lost <= MaxLost /\ acked \subseteq 1..calls /\ stores \subseteq Clients
      BY <2>1 DEF TypeInv
    <2> QED
      BY <2>1, <2>2, <2>3, <2>4, <2>5, <2>6 DEF TypeOK, BucketInv, HistoryInv
  <1> QED
    BY <1>1, Invariance, PTL

\* The write of an update, and of the second attempt of a create, directly
\* follows the element that was read, with any clients, and late writes too.
THEOREM UpdatesReplace == Spec => []UpdateReplacesWhatWasRead
  <1>1. IInv => UpdateReplacesWhatWasRead
    BY DEF IInv, DataInv, Promises
  <1> QED
    BY <1>1, Invariance, PTL

\* A create finds no value under its key, whatever its attempts met.
THEOREM CreatesFindNothing == Spec => []CreateFindsNothing
  <1>1. IInv => CreateFindsNothing
    BY DEF IInv, DataInv, Promises
  <1> QED
    BY <1>1, Invariance, PTL

\* What is acknowledged was written, and written twice in one bucket only by a
\* create between whose writes lies a purge or a new bucket.
THEOREM Acknowledged == Spec => []AcknowledgedOnce
  <1>1. IInv => AcknowledgedOnce
    BY DEF IInv, DataInv, Promises, AckInv, WrittenOnce, AcknowledgedOnce
  <1> QED
    BY <1>1, Invariance, PTL

\* A bucket keeps as many of the newest values of each key as it was created to
\* keep, and info tells that number, for every history from 0 to 64.
THEOREM KeepsItsHistory == Spec => []HistoryIsKept
  <1>1. IInv => HistoryIsKept
    <2> SUFFICES ASSUME IInv, NEW f \in asked
                 PROVE  LET n == Max({1, f.history})
                            here == {w \in writes : w.inc = bucket.inc}
                        IN  /\ \A w \in here :
                                  \/ \E e \in bucket.log : e.revision = w.revision /\ e.value = w.by.id
                                  \/ \E v \in here : v.by.key = w.by.key /\ v.revision > w.revision /\ v.by.op = "purge"
                                  \/ Cardinality({v \in here : v.by.key = w.by.key /\ v.revision > w.revision}) >= n
                            /\ answer.op = "info" => \A i \in answer.info : i.history = n
      BY DEF HistoryIsKept
    <2> DEFINE here == {w \in writes : w.inc = bucket.inc}
    <2>1. f \in Config /\ bucket.exists /\ bucket.history = HistoryOf(ToCnatsKVConfig(f))
      BY DEF IInv, DataInv, AskedInv
    <2>2. Max({1, f.history}) = bucket.history
      <3>1. f.history \in 0..64
        BY <2>1 DEF Config
      <3>2. bucket.history = IF f.history = 0 THEN 1 ELSE f.history
        BY <2>1 DEF HistoryOf, ToCnatsKVConfig
      <3>3. /\ {1, f.history} \in SUBSET Int /\ bucket.history \in {1, f.history}
            /\ \A i \in {1, f.history} : i <= bucket.history
        BY <3>1, <3>2
      <3> QED
        BY <3>3, MaxIs
    <2>3. \A w \in here : KeptBy(w)
      BY <2>1 DEF IInv, DataInv, HistoryInv
    <2>4. \A w \in here : Since(w) = {v \in here : v.by.key = w.by.key /\ v.revision > w.revision}
      BY DEF Since
    <2>5. answer.op = "info" => \A i \in answer.info : i.history = bucket.history
      BY DEF IInv, AnswerInv
    <2> QED
      BY <2>2, <2>3, <2>4, <2>5 DEF KeptBy
  <1> QED
    BY <1>1, Invariance, PTL

\* A look-up with get makes no bucket but one that was there and was deleted
\* while it looked, however many clients race.
THEOREM GetsCreateNothingElse == Spec => []GetCreatesOnlyWhatWasDeleted
  <1>1. IInv => GetCreatesOnlyWhatWasDeleted
    BY DEF IInv, AnswerInv
  <1> QED
    BY <1>1, Invariance, PTL
=============================================================================
