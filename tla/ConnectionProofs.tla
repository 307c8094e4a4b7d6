--------------------------- MODULE ConnectionProofs ---------------------------
(***************************************************************************)
(* Proofs about Connection: what a handle still means and what a fault     *)
(* comes from, for any callbacks, options, connections and events.         *)
(***************************************************************************)
EXTENDS Connection, FiniteSetTheorems, TLAPS

\* What the actions need of each other beyond their types: there is room for
\* the connection connect is about to make, which is closed so far, and only
\* connect walks on the application's thread.
Stages ==
    /\ connecting = "start" => made < MaxConnects
    /\ \A k \in 1..MaxConnects : made < k => status[k] = "closed"
    /\ connecting = "no" => ~Walking("user")

\* A walk ends inside its vector as long as nothing has changed under it.
WalksInside ==
    alive /\ ~disturbed =>
        \A t \in Threads : Walking(t) => walk[t].end <= Len(callbacks[walk[t].kind])

IInv == TypeOK /\ Stages /\ WalksInside

USE KindOfAssumption, OptionsAssumption, BoundsAssumption
USE DEF network, registry, hearing, flags, Kinds, Threads, Event

-----------------------------------------------------------------------------
(* Types.                                                                  *)

Record == [kind : Kinds, next : Nat \ {0}, end : Nat,
           status : ConnectionStatus \cup {"nothing", "error"}]

LEMMA WalkType ==
    ASSUME TypeOK, NEW kind \in Kinds,
           NEW s \in ConnectionStatus \cup {"nothing", "error"}
    PROVE  WalkOf(kind, s) \in Record
  BY DEF TypeOK, WalkOf, Record

LEMMA OptionsType ==
    ASSUME NEW o \in Options
    PROVE  CreateNatsOptions(o) \in [AllowReconnect : BOOLEAN, MaxReconnect : Int]
  <1>1. o \in ConnectionOptions
    OBVIOUS
  <1>2. o.allowRecconect \in BOOLEAN /\ o.maxReconnect \in Int
    BY <1>1 DEF ConnectionOptions
  <1> QED
    BY <1>2 DEF CreateNatsOptions

LEMMA NoOptionsType == NoOptions \in [AllowReconnect : BOOLEAN, MaxReconnect : Int]
  BY DEF NoOptions, CreateNatsOptions

LEMMA UpdateType ==
    ASSUME NEW S, NEW T, NEW f \in [S -> T], NEW x, NEW v \in T
    PROVE  [f EXCEPT ![x] = v] \in [S -> T]
  OBVIOUS

LEMMA HeadTailType ==
    ASSUME NEW S, NEW s \in Seq(S), s # << >>
    PROVE  Head(s) \in S /\ Tail(s) \in Seq(S)
  OBVIOUS

LEMMA AppendType ==
    ASSUME NEW S, NEW s \in Seq(S), NEW e \in S
    PROVE  /\ Append(s, e) \in Seq(S)
           /\ Len(Append(s, e)) = Len(s) + 1
           /\ \A j \in 1..Len(s) : Append(s, e)[j] = s[j]
  OBVIOUS

LEMMA RemoveAtType ==
    ASSUME NEW S, NEW s \in Seq(S), NEW i \in 1..Len(s)
    PROVE  /\ RemoveAt(s, i) \in Seq(S)
           /\ Len(RemoveAt(s, i)) = Len(s) - 1
           /\ \A j \in 1..i - 1 : RemoveAt(s, i)[j] = s[j]
           /\ \A j \in i..Len(s) - 1 : RemoveAt(s, i)[j] = s[j + 1]
  <1> DEFINE before == SubSeq(s, 1, i - 1)
             after == SubSeq(s, i + 1, Len(s))
  <1>1. Len(s) \in Nat /\ i \in Nat /\ 1 <= i /\ i <= Len(s)
    OBVIOUS
  <1>2. \A j \in 1..Len(s) : s[j] \in S
    OBVIOUS
  <1>3. /\ before \in Seq(S) /\ Len(before) = i - 1
        /\ \A j \in 1..i - 1 : before[j] = s[j]
    BY <1>1, <1>2
  <1>4. after \in Seq(S) /\ Len(after) = Len(s) - i
    BY <1>1, <1>2
  <1>5. \A j \in 1..Len(s) - i : after[j] = s[i + j]
    BY <1>1, <1>2
  <1>6. RemoveAt(s, i) = before \o after
    BY DEF RemoveAt
  <1> HIDE DEF before, after
  <1>7. /\ before \o after \in Seq(S)
        /\ Len(before \o after) = Len(before) + Len(after)
        /\ \A j \in 1..Len(before) : (before \o after)[j] = before[j]
    BY <1>3, <1>4
  <1>8. ASSUME NEW j \in i..Len(s) - 1
        PROVE  RemoveAt(s, i)[j] = s[j + 1]
    <2>1. j \in Nat /\ j > Len(before) /\ j <= Len(before) + Len(after)
      BY <1>1, <1>3, <1>4
    <2>2. (before \o after)[j] = after[j - (i - 1)]
      BY <1>3, <1>4, <2>1
    <2>3. j - (i - 1) \in 1..Len(s) - i /\ i + (j - (i - 1)) = j + 1
      BY <1>1
    <2>4. after[j - (i - 1)] = s[j + 1]
      BY <1>5, <2>3
    <2> QED
      BY <1>6, <2>2, <2>4
  <1> QED
    BY <1>1, <1>3, <1>4, <1>6, <1>7, <1>8

\* The parts of TypeOK that calls, callbacks and the network change.
LEMMA TypeInit == Init => TypeOK
  <1>1. Init => options \in [1..MaxConnects -> [AllowReconnect : BOOLEAN, MaxReconnect : Int]]
    BY NoOptionsType DEF Init
  <1>2. Init => walk \in [Threads -> Record]
    BY DEF Init, NoWalk, Record
  <1>3. Init => callbacks \in [Kinds -> Seq(Callbacks)]
    BY DEF Init
  <1>4. Init => /\ handle \in [Callbacks -> {NoHandle} \cup Nat]
                /\ heard \in [Callbacks -> ConnectionStatus \cup {"nothing", "error"}]
                /\ owed \in [Callbacks -> Int]
    BY DEF Init
  <1>5. Init => /\ alive \in BOOLEAN /\ fresh \in BOOLEAN /\ shifted \in BOOLEAN
                /\ disturbed \in BOOLEAN /\ fault \in BOOLEAN
    BY Zenon DEF Init
  <1>6. Init => /\ status \in [1..MaxConnects -> {"connected", "reconnecting", "closed"}]
                /\ \A k \in 1..MaxConnects : status[k] # "reconnecting"
                /\ events \in Seq([kind : Kinds, conn : 1..MaxConnects])
    BY DEF Init
  <1>7. Init => /\ conn \in 0..made /\ made \in 0..MaxConnects /\ posted \in 0..MaxEvents
                /\ connecting \in {"no", "start", "done"}
                /\ borrowed \in {"nothing", "held", "dangling"} /\ borrowed # "held"
    BY DEF Init
  <1> QED
    BY <1>1, <1>2, <1>3, <1>4, <1>5, <1>6, <1>7 DEF TypeOK, Record

LEMMA RegistryTypes ==
    ASSUME TypeOK, NEW c \in Callbacks,
           Register(c) \/ Unregister(c) \/ UnregisterBehindEnd(c)
    PROVE  TypeOK'
  <1>1. CASE Register(c)
    <2>1. callbacks' \in [Kinds -> Seq(Callbacks)]
      BY <1>1 DEF Register, TypeOK
    <2>2. handle' \in [Callbacks -> {NoHandle} \cup Nat]
      BY <1>1 DEF Register, TypeOK, NewHandle
    <2>3. disturbed' \in BOOLEAN /\ fault' \in BOOLEAN
      BY <1>1, Zenon DEF Register, TypeOK
    <2> QED
      BY <1>1, <2>1, <2>2, <2>3 DEF Register, TypeOK
  <1>2. CASE Unregister(c)
    <2> DEFINE kind == KindOf[c]
               idx == handle[c] + 1
               erased == callbacks[kind][idx]
    <2>0. /\ callbacks \in [Kinds -> Seq(Callbacks)]
          /\ handle \in [Callbacks -> {NoHandle} \cup Nat]
          /\ owed \in [Callbacks -> Int]
      BY DEF TypeOK
    <2>1. kind \in Kinds /\ idx \in 1..Len(callbacks[kind])
      <3>1. handle[c] \in Nat /\ idx <= Len(callbacks[kind])
        BY <1>2, <2>0 DEF Unregister, Held
      <3>2. kind \in Kinds
        OBVIOUS
      <3>3. Len(callbacks[kind]) \in Nat
        BY <2>0, <3>2
      <3> QED
        BY <3>1, <3>2, <3>3
    <2>2. RemoveAt(callbacks[kind], idx) \in Seq(Callbacks)
      BY <2>1, RemoveAtType DEF TypeOK
    <2>3. callbacks' \in [Kinds -> Seq(Callbacks)]
      BY <1>2, <2>2 DEF Unregister, TypeOK
    <2>4. handle' \in [Callbacks -> {NoHandle} \cup Nat]
      BY <1>2 DEF Unregister, TypeOK
    <2>5. heard' \in [Callbacks -> ConnectionStatus \cup {"nothing", "error"}]
      BY <1>2 DEF Unregister, TypeOK
    <2>6. owed' \in [Callbacks -> Int]
      <3>1. owed' = [owed EXCEPT ![erased] = 0]
        BY <1>2 DEF Unregister
      <3> HIDE DEF erased
      <3> QED
        BY <2>0, <3>1, UpdateType
    <2>7. shifted' \in BOOLEAN /\ disturbed' \in BOOLEAN
      BY <1>2, Zenon DEF Unregister, TypeOK
    <2> QED
      BY <1>2, <2>3, <2>4, <2>5, <2>6, <2>7 DEF Unregister, TypeOK
  <1>3. CASE UnregisterBehindEnd(c)
    <2>1. handle' \in [Callbacks -> {NoHandle} \cup Nat]
      BY <1>3 DEF UnregisterBehindEnd, TypeOK
    <2>2. shifted' \in BOOLEAN /\ fault' \in BOOLEAN
      BY <1>3, Zenon DEF UnregisterBehindEnd
    <2> QED
      BY <1>3, <2>1, <2>2 DEF UnregisterBehindEnd, TypeOK
  <1> QED
    BY <1>1, <1>2, <1>3

LEMMA CallNextTypes ==
    ASSUME TypeOK, NEW t \in Threads, CallNext(t)
    PROVE  TypeOK'
  <1>1. walk' \in [Threads -> Record]
    <2>1. walk[t] \in Record
      BY DEF TypeOK, Record
    <2>2. NoWalk \in Record
      BY DEF NoWalk, Record
    <2>3. [walk[t] EXCEPT !.next = @ + 1] \in Record
      BY <2>1 DEF Record
    <2> QED
      BY <2>2, <2>3 DEF CallNext, TypeOK, Record
  <1>2. CASE UNCHANGED <<heard, owed>>
    <2>1. fault' \in BOOLEAN
      BY Zenon DEF CallNext, TypeOK
    <2> QED
      BY <1>1, <1>2, <2>1 DEF CallNext, TypeOK, Record
  <1>3. CASE alive /\ walk[t].next <= Len(callbacks[walk[t].kind])
    <2> DEFINE c == callbacks[walk[t].kind][walk[t].next]
    <2>1. walk[t].next \in Nat /\ walk[t].status \in ConnectionStatus \cup {"nothing", "error"}
      BY DEF TypeOK
    <2>2. heard' = [heard EXCEPT ![c] = walk[t].status] /\ owed' = [owed EXCEPT ![c] = @ - 1]
          /\ UNCHANGED fault
      BY <1>3 DEF CallNext
    <2>3. heard' \in [Callbacks -> ConnectionStatus \cup {"nothing", "error"}]
      BY <2>1, <2>2 DEF TypeOK
    <2>4. owed' \in [Callbacks -> Int]
      <3>1. owed \in [Callbacks -> Int]
        BY DEF TypeOK
      <3>2. c \in Callbacks => owed[c] - 1 \in Int
        BY <3>1
      <3> HIDE DEF c
      <3> QED
        BY <2>2, <3>1, <3>2
    <2> QED
      BY <1>1, <2>2, <2>3, <2>4 DEF CallNext, TypeOK, Record
  <1> QED
    BY <1>2, <1>3 DEF CallNext

LEMMA OwedType ==
    ASSUME TypeOK, NEW kind \in Kinds, NEW n \in Nat
    PROVE  OwedMore(kind, n) \in [Callbacks -> Int]
  BY DEF TypeOK, OwedMore

Events == Seq([kind : Kinds, conn : 1..MaxConnects])

LEMMA ReportType ==
    ASSUME TypeOK, NEW kind \in Kinds, NEW k \in 1..MaxConnects, Report(Event(kind, k))
    PROVE  events' \in Events /\ owed' \in [Callbacks -> Int]
  <1>1. Event(kind, k) \in [kind : Kinds, conn : 1..MaxConnects]
    OBVIOUS
  <1>2. events \in Events
    BY DEF TypeOK, Events
  <1>3. events' = Append(events, Event(kind, k)) /\ owed' = OwedMore(kind, 1)
    BY DEF Report
  <1> QED
    BY <1>1, <1>2, <1>3, OwedType DEF Events

LEMMA ReportEndType ==
    ASSUME TypeOK, NEW k \in 0..MaxConnects, NEW n \in Nat, ReportEnd(k, n)
    PROVE  events' \in Events /\ owed' \in [Callbacks -> Int]
  <1>0. events \in Events
    BY DEF TypeOK, Events
  <1>1. CASE k # 0 /\ status[k] = "connected"
    <2>1. Event("state", k) \in [kind : Kinds, conn : 1..MaxConnects]
      BY <1>1
    <2>2. events' = Append(events, Event("state", k)) /\ owed' = OwedMore("state", 1 + n)
      BY <1>1 DEF ReportEnd
    <2> QED
      BY <1>0, <2>1, <2>2, OwedType DEF Events
  <1>2. CASE ~(k # 0 /\ status[k] = "connected")
    BY <1>0, <1>2, OwedType DEF ReportEnd
  <1> QED
    BY <1>1, <1>2

\* A connection that is not reconnecting need not be allowed to.
OptionsOK(s, o) ==
    /\ s \in [1..MaxConnects -> {"connected", "reconnecting", "closed"}]
    /\ o \in [1..MaxConnects -> [AllowReconnect : BOOLEAN, MaxReconnect : Int]]
    /\ \A k \in 1..MaxConnects : s[k] = "reconnecting" => o[k].AllowReconnect

LEMMA ClosedType ==
    ASSUME TypeOK, NEW k
    PROVE  OptionsOK(Closed(k), OptionsWithout(k))
  BY NoOptionsType DEF TypeOK, OptionsOK, Closed, OptionsWithout

LEMMA ConnectTypes ==
    ASSUME TypeOK, Stages, Connect
    PROVE  TypeOK'
  <1> DEFINE kept == IF DisconnectsFirst THEN OptionsWithout(conn) ELSE options
  <1>1. PICK o \in Options : options' = [kept EXCEPT ![made + 1] = CreateNatsOptions(o)]
    BY DEF Connect
  <1>2. OptionsOK(status', kept)
    <2>1. OptionsOK(status, options)
      BY DEF TypeOK, OptionsOK
    <2> QED
      BY <2>1, ClosedType DEF Connect
  <1>3. made + 1 \in 1..MaxConnects
    BY DEF Connect, TypeOK
  <1>4. OptionsOK(status', options')
    <2>1. CreateNatsOptions(o) \in [AllowReconnect : BOOLEAN, MaxReconnect : Int]
      BY OptionsType
    <2>2. options' \in [1..MaxConnects -> [AllowReconnect : BOOLEAN, MaxReconnect : Int]]
      BY <1>1, <1>2, <2>1 DEF OptionsOK
    <2>3. status'[made + 1] # "reconnecting"
      <3>1. status[made + 1] = "closed"
        BY <1>3 DEF Stages, TypeOK
      <3>2. status' = Closed(conn) \/ status' = status
        BY DEF Connect
      <3> QED
        BY <1>3, <3>1, <3>2 DEF Closed
    <2>4. \A k \in 1..MaxConnects : k # made + 1 => options'[k] = kept[k]
      BY <1>1, <1>2 DEF OptionsOK
    <2> HIDE DEF kept
    <2> QED
      BY <1>2, <2>2, <2>3, <2>4 DEF OptionsOK
  <1>5. walk' \in [Threads -> Record]
    BY WalkType DEF Connect, TypeOK, Record, ConnectionStatus
  <1>6. owed' \in [Callbacks -> Int] /\ events' \in Events
    <2>1. conn \in 0..MaxConnects
      BY DEF TypeOK
    <2> QED
      BY <2>1, ReportEndType DEF Connect
  <1>7. conn' \in 0..made'
    <2>1. conn' \in {0, conn} /\ made' = made
      BY DEF Connect
    <2>2. conn \in 0..made /\ made \in 0..MaxConnects
      BY DEF TypeOK
    <2> QED
      BY <2>1, <2>2
  <1>8. borrowed' \in {"nothing", "held", "dangling"} /\ (borrowed' = "held" => conn' # 0)
    BY DEF Connect, TypeOK, Overtake
  <1> QED
    BY <1>4, <1>5, <1>6, <1>7, <1>8 DEF Connect, TypeOK, OptionsOK, Events, Record

LEMMA ConnectDoneTypes ==
    ASSUME TypeOK, Stages, ConnectDone
    PROVE  TypeOK'
  <1>1. made < MaxConnects /\ conn \in 0..MaxConnects
    BY DEF ConnectDone, Stages, TypeOK
  <1>2. events' \in Events /\ owed' \in [Callbacks -> Int]
    BY <1>1, ReportEndType DEF ConnectDone
  <1>3. walk' \in [Threads -> Record]
    BY WalkType DEF ConnectDone, TypeOK, Record, ConnectionStatus
  <1>4. OptionsOK(status', options')
    BY ClosedType DEF ConnectDone, OptionsOK
  <1>5. fresh' \in BOOLEAN
    BY Zenon DEF ConnectDone
  <1>6. made' \in 0..MaxConnects /\ conn' \in 0..made' /\ conn' # 0
    BY <1>1 DEF ConnectDone, TypeOK
  <1>7. borrowed' \in {"nothing", "held", "dangling"}
    BY DEF ConnectDone, Overtake, TypeOK
  <1> QED
    BY <1>2, <1>3, <1>4, <1>5, <1>6, <1>7
    DEF ConnectDone, TypeOK, OptionsOK, Events, Record

LEMMA EndTypes ==
    ASSUME TypeOK, Disconnect \/ DestroyClient
    PROVE  TypeOK'
  <1>1. conn \in 0..MaxConnects
    BY DEF TypeOK
  <1>2. events' \in Events /\ owed' \in [Callbacks -> Int]
    BY <1>1, ReportEndType DEF Disconnect, DestroyClient
  <1>3. OptionsOK(status', options')
    BY ClosedType DEF Disconnect, DestroyClient
  <1>4. borrowed' \in {"nothing", "dangling"}
    BY DEF Disconnect, DestroyClient, Overtake, TypeOK
  <1>5. conn' = 0 /\ 0 \in 0..made
    BY DEF Disconnect, DestroyClient, TypeOK
  <1>6. alive' \in BOOLEAN
    BY Zenon DEF Disconnect, DestroyClient, TypeOK
  <1> QED
    BY <1>2, <1>3, <1>4, <1>5, <1>6
    DEF Disconnect, DestroyClient, TypeOK, OptionsOK, Events

LEMMA BorrowTypes ==
    ASSUME TypeOK, OtherThread
    PROVE  TypeOK'
  <1>1. fault' \in BOOLEAN
    BY Zenon DEF OtherThread, RawConnection, UseRawConnection, TypeOK
  <1>2. borrowed' \in {"nothing", "held", "dangling"} /\ (borrowed' = "held" => conn # 0)
    <2>1. CASE RawConnection
      BY <2>1 DEF RawConnection
    <2>2. CASE UseRawConnection
      BY <2>2 DEF UseRawConnection, TypeOK
    <2> QED
      BY <2>1, <2>2 DEF OtherThread
  <1>3. UNCHANGED <<alive, network, registry, connecting, walk, hearing, flags>>
    BY DEF OtherThread, RawConnection, UseRawConnection
  <1> QED
    BY <1>1, <1>2, <1>3 DEF TypeOK

LEMMA NetworkTypes ==
    ASSUME TypeOK, NEW k \in 1..MaxConnects,
           Drop(k) \/ Reconnect(k) \/ GiveUp(k) \/ Error(k)
    PROVE  TypeOK'
  <1>1. posted' \in 0..MaxEvents
    <2>1. posted \in 0..MaxEvents
      BY DEF TypeOK
    <2>2. posted < MaxEvents /\ posted' = posted + 1
      BY Zenon DEF Cause, Drop, Reconnect, GiveUp, Error
    <2> QED
      BY <2>1, <2>2
  <1>2. OptionsOK(status', options')
    BY DEF TypeOK, OptionsOK, Drop, Reconnect, GiveUp, Error
  <1>3. events' \in Events /\ owed' \in [Callbacks -> Int]
    <2>1. CASE GiveUp(k)
      BY <2>1 DEF GiveUp, TypeOK, Events
    <2>2. CASE Drop(k) \/ Reconnect(k) \/ Error(k)
      <3>1. Report(Event("state", k)) \/ Report(Event("error", k))
        BY <2>2, Zenon DEF Drop, Reconnect, Error
      <3> QED
        BY <3>1, ReportType
    <2> QED
      BY <2>1, <2>2
  <1>4. UNCHANGED <<alive, conn, made, callbacks, handle, connecting, walk, heard,
                    fresh, shifted, disturbed, borrowed, fault>>
    BY DEF Drop, Reconnect, GiveUp, Error, registry, hearing, flags
  <1> QED
    BY <1>1, <1>2, <1>3, <1>4 DEF TypeOK, OptionsOK, Events

LEMMA EventThreadTypes ==
    ASSUME TypeOK, HandleEvent \/ HandleEventTooLate
    PROVE  TypeOK'
  <1>1. /\ Head(events) \in [kind : Kinds, conn : 1..MaxConnects]
        /\ Tail(events) \in Events
    <2>1. events \in Events /\ events # << >>
      BY DEF HandleEvent, HandleEventTooLate, TypeOK, Events
    <2> QED
      BY <2>1, HeadTailType DEF Events
  <1>2. CASE HandleEvent
    <2> DEFINE e == Head(events)
               s == IF e.kind = "state" THEN status[e.conn] ELSE "error"
    <2>1. e.kind \in Kinds /\ e.conn \in 1..MaxConnects
      BY <1>1
    <2>2. s \in ConnectionStatus \cup {"nothing", "error"}
      BY <2>1 DEF TypeOK, ConnectionStatus
    <2>3. WalkOf(e.kind, s) \in Record
      BY <2>1, <2>2, WalkType
    <2>4. walk' \in [Threads -> Record]
      BY <1>2, <2>3 DEF HandleEvent, TypeOK, Record
    <2>5. fresh' \in BOOLEAN
      BY <1>2, Zenon DEF HandleEvent, TypeOK
    <2> QED
      BY <1>1, <1>2, <2>4, <2>5 DEF HandleEvent, TypeOK, Events, Record
  <1>3. CASE HandleEventTooLate
    BY <1>1, <1>3 DEF HandleEventTooLate, TypeOK, Events
  <1> QED
    BY <1>2, <1>3

LEMMA TypeStep == TypeOK /\ Stages /\ [Next]_vars => TypeOK'
  <1> SUFFICES ASSUME TypeOK, Stages, [Next]_vars PROVE TypeOK'
    OBVIOUS
  <1>1. CASE ConnectFails \/ ConnectReturn
    BY <1>1 DEF ConnectFails, ConnectReturn, TypeOK
  <1>2. CASE UNCHANGED vars
    BY <1>2 DEF vars, TypeOK
  <1>3. CASE CallNext("user") \/ CallNext("library")
    BY <1>3, CallNextTypes
  <1> QED
    BY <1>1, <1>2, <1>3, RegistryTypes, ConnectTypes, ConnectDoneTypes, EndTypes,
       BorrowTypes, NetworkTypes, EventThreadTypes
    DEF Next, Application, EventThread

-----------------------------------------------------------------------------
(* Stages and walks.                                                       *)

LEMMA StagesStep == TypeOK /\ Stages /\ [Next]_vars => Stages'
  <1> SUFFICES ASSUME TypeOK, Stages, [Next]_vars PROVE Stages'
    OBVIOUS
  <1>0. made \in 0..MaxConnects /\ conn \in 0..made
        /\ status \in [1..MaxConnects -> {"connected", "reconnecting", "closed"}]
    BY DEF TypeOK
  <1>1. (connecting = "start" => made < MaxConnects)'
    <2>1. CASE Connect \/ ConnectFails \/ ConnectDone \/ ConnectReturn
      BY <2>1, <1>0 DEF Connect, ConnectFails, ConnectDone, ConnectReturn, Stages
    <2>2. CASE UNCHANGED <<made, connecting>>
      BY <2>2 DEF Stages
    <2> QED
      BY <2>1, <2>2
      DEF Next, vars, Application, OtherThread, EventThread, Register, Unregister,
          UnregisterBehindEnd, Disconnect, DestroyClient, CallNext, RawConnection,
          UseRawConnection, HandleEvent, HandleEventTooLate, Drop, Reconnect, GiveUp, Error
  <1>2. (\A k \in 1..MaxConnects : made < k => status[k] = "closed")'
    <2> SUFFICES ASSUME NEW k \in 1..MaxConnects, made' < k PROVE status'[k] = "closed"
      OBVIOUS
    <2>0. made' \in {made, made + 1}
      BY <1>0
      DEF Next, vars, Application, OtherThread, EventThread, Register, Unregister,
          UnregisterBehindEnd, Disconnect, DestroyClient, CallNext, RawConnection,
          UseRawConnection, HandleEvent, HandleEventTooLate, Drop, Reconnect, GiveUp, Error,
          Connect, ConnectFails, ConnectDone, ConnectReturn
    <2>1. made < k /\ status[k] = "closed"
      BY <1>0, <2>0 DEF Stages
    <2>2. CASE Connect \/ Disconnect \/ DestroyClient
      BY <2>2, <2>1 DEF Connect, Disconnect, DestroyClient, Closed
    <2>3. CASE ConnectDone
      <3>1. status' = [Closed(conn) EXCEPT ![made + 1] = "connected"] /\ made' = made + 1
        BY <2>3 DEF ConnectDone
      <3>2. k # made + 1
        BY <3>1, <1>0
      <3> QED
        BY <3>1, <3>2, <2>1 DEF Closed
    <2>4. ASSUME NEW j \in 1..MaxConnects, Drop(j) \/ Reconnect(j) \/ GiveUp(j) \/ Error(j)
          PROVE  status'[k] = "closed"
      BY <2>4, <2>1, <1>0 DEF Drop, Reconnect, GiveUp, Error
    <2>5. CASE UNCHANGED status
      BY <2>5, <2>1
    <2> QED
      BY <2>2, <2>3, <2>4, <2>5
      DEF Next, vars, Application, OtherThread, EventThread, Register, Unregister,
          UnregisterBehindEnd, CallNext, RawConnection, UseRawConnection,
          HandleEvent, HandleEventTooLate, ConnectFails, ConnectReturn
  <1>3. (connecting = "no" => ~Walking("user"))'
    <2>1. CASE Connect \/ ConnectDone
      BY <2>1 DEF Connect, ConnectDone
    <2>2. CASE ConnectFails \/ ConnectReturn
      BY <2>2 DEF ConnectFails, ConnectReturn, Walking
    <2>3. CASE HandleEvent
      BY <2>3 DEF HandleEvent, Stages, Walking, TypeOK
    <2>4. ASSUME NEW t \in Threads, CallNext(t)
          PROVE  (connecting = "no" => ~Walking("user"))'
      BY <2>4 DEF CallNext, Stages, Walking, TypeOK, NoWalk
    <2>5. CASE UNCHANGED <<connecting, walk>>
      BY <2>5 DEF Stages, Walking
    <2> QED
      BY <2>1, <2>2, <2>3, <2>4, <2>5
      DEF Next, vars, Application, OtherThread, EventThread, Register, Unregister,
          UnregisterBehindEnd, Disconnect, DestroyClient, RawConnection,
          UseRawConnection, HandleEventTooLate, Drop, Reconnect, GiveUp, Error
  <1> QED
    BY <1>1, <1>2, <1>3 DEF Stages

LEMMA WalksStep == IInv /\ [Next]_vars => WalksInside'
  <1> SUFFICES ASSUME IInv, [Next]_vars, alive', ~disturbed',
                      NEW t \in Threads, Walking(t)'
               PROVE  walk'[t].end <= Len(callbacks'[walk'[t].kind])
    BY DEF WalksInside
  <1>0. TypeOK /\ Stages /\ WalksInside
    BY DEF IInv
  <1>1. alive /\ ~disturbed
    <2>1. ASSUME NEW c \in Callbacks, Register(c) \/ Unregister(c) \/ UnregisterBehindEnd(c)
          PROVE  alive /\ ~disturbed
      <3>1. alive' = alive
        BY <2>1 DEF Register, Unregister, UnregisterBehindEnd
      <3>2. CASE disturbed' = (disturbed \/ Disturbs(KindOf[c]))
        BY <3>1, <3>2, Zenon
      <3>3. CASE disturbed' = disturbed
        BY <3>1, <3>3
      <3> QED
        BY <2>1, <3>2, <3>3 DEF Register, Unregister, UnregisterBehindEnd
    <2>2. CASE DestroyClient
      BY <2>2 DEF DestroyClient
    <2>3. CASE UNCHANGED <<alive, disturbed>>
      BY <2>3
    <2> QED
      BY <2>1, <2>2, <2>3, Zenon
      DEF Next, vars, Application, OtherThread, EventThread, Disconnect, RawConnection,
          UseRawConnection, HandleEvent, HandleEventTooLate, Drop, Reconnect, GiveUp,
          Error, CallNext, Connect, ConnectDone, ConnectFails, ConnectReturn
  <1>2. Walking(t) => walk[t].end <= Len(callbacks[walk[t].kind])
    BY <1>0, <1>1 DEF WalksInside
  \* A walk that begins goes to the end of its vector.
  <1>3. ASSUME NEW u \in Threads, NEW kind \in Kinds, NEW s,
               walk' = [walk EXCEPT ![u] = WalkOf(kind, s)], UNCHANGED callbacks
        PROVE  walk'[t].end <= Len(callbacks'[walk'[t].kind])
    <2>1. CASE t = u
      <3>1. walk'[t] = WalkOf(kind, s)
        BY <1>0, <1>3, <2>1 DEF TypeOK
      <3>2. Len(callbacks[kind]) \in Nat
        BY <1>0 DEF TypeOK
      <3> QED
        BY <1>3, <3>1, <3>2 DEF WalkOf
    <2>2. CASE t # u
      BY <1>0, <1>2, <1>3, <2>2 DEF TypeOK, Walking
    <2> QED
      BY <2>1, <2>2
  \* One that goes on keeps its end.
  <1>4. ASSUME NEW u \in Threads, CallNext(u)
        PROVE  walk'[t].end <= Len(callbacks'[walk'[t].kind])
    <2>1. walk'[t] = NoWalk \/ walk'[t] = walk[t] \/ walk'[t] = [walk[t] EXCEPT !.next = @ + 1]
      BY <1>0, <1>4 DEF CallNext, TypeOK
    <2>2. walk'[t] # NoWalk
      BY DEF Walking, NoWalk
    <2>3. walk[t] \in Record /\ walk'[t].next <= walk'[t].end
      BY <1>0 DEF TypeOK, Record, Walking
    <2>4. walk'[t].end = walk[t].end /\ walk'[t].kind = walk[t].kind
          /\ (walk'[t].next = walk[t].next \/ walk'[t].next = walk[t].next + 1)
      BY <2>1, <2>2, <2>3 DEF Record
    <2>5. Walking(t)
      BY <2>3, <2>4 DEF Walking, Record
    <2> QED
      BY <1>2, <1>4, <2>4, <2>5 DEF CallNext
  \* A vector changes only when nobody walks it.
  <1>5. ASSUME NEW c \in Callbacks, Register(c) \/ Unregister(c)
        PROVE  walk'[t].end <= Len(callbacks'[walk'[t].kind])
    <2>1. UNCHANGED walk /\ connecting = "no" /\ ~Disturbs(KindOf[c])
      BY <1>5 DEF Register, Unregister, Free
    <2>2. Walking(t) /\ t = "library"
      BY <1>0, <2>1 DEF Stages, Walking
    <2>3. walk[t].kind # KindOf[c]
      BY <2>1, <2>2 DEF Disturbs
    <2>4. callbacks'[walk[t].kind] = callbacks[walk[t].kind]
      <3>1. /\ callbacks \in [Kinds -> Seq(Callbacks)]
            /\ walk[t].kind \in Kinds
        BY <1>0 DEF TypeOK
      <3>2. \E s : callbacks' = [callbacks EXCEPT ![KindOf[c]] = s]
        BY <1>5 DEF Register, Unregister
      <3> QED
        BY <2>3, <3>1, <3>2
    <2> QED
      BY <1>2, <2>1, <2>2, <2>4
  <1>6. CASE UNCHANGED <<walk, callbacks>>
    BY <1>2, <1>6 DEF Walking
  <1>7. CASE Connect \/ ConnectDone
    BY <1>3, <1>7 DEF Connect, ConnectDone
  <1>8. CASE HandleEvent
    <2>1. Head(events).kind \in Kinds
      <3>1. events \in Events /\ events # << >>
        BY <1>0, <1>8 DEF HandleEvent, TypeOK, Events
      <3>2. Head(events) \in [kind : Kinds, conn : 1..MaxConnects]
        BY <3>1, HeadTailType DEF Events
      <3> QED
        BY <3>2
    <2> QED
      BY <1>3, <1>8, <2>1 DEF HandleEvent
  <1> QED
    BY <1>4, <1>5, <1>6, <1>7, <1>8
    DEF Next, vars, Application, OtherThread, EventThread, UnregisterBehindEnd,
        Disconnect, DestroyClient, RawConnection, UseRawConnection,
        HandleEventTooLate, Drop, Reconnect, GiveUp, Error, ConnectFails, ConnectReturn

\* Types, stages and walks hold in every state.
THEOREM Invariance == Spec => []IInv
  <1>1. Init => IInv
    BY TypeInit DEF Init, IInv, Stages, WalksInside, Walking, NoWalk
  <1>2. IInv /\ [Next]_vars => IInv'
    BY TypeStep, StagesStep, WalksStep DEF IInv
  <1> QED
    BY <1>1, <1>2, PTL DEF Spec

\* Every variable keeps its type, through any sequence of calls, drops and
\* reconnections; only a connection that may reconnect is reconnecting.
THEOREM TypeCorrect == Spec => []TypeOK
  <1>1. IInv => TypeOK
    BY DEF IInv
  <1> QED
    BY <1>1, Invariance, PTL

-----------------------------------------------------------------------------
(* Faults.                                                                 *)

LEMMA FaultStep == IInv /\ FaultsHaveACause /\ [Next]_vars => FaultsHaveACause'
  <1> SUFFICES ASSUME IInv, FaultsHaveACause, [Next]_vars, fault'
               PROVE  (shifted \/ disturbed \/ ~alive \/ borrowed = "dangling")'
    BY DEF FaultsHaveACause
  <1>0. TypeOK /\ Stages /\ WalksInside
    BY DEF IInv
  <1>1. ASSUME NEW t \in Threads, CallNext(t)
        PROVE  (shifted \/ disturbed \/ ~alive \/ borrowed = "dangling")'
    <2>1. UNCHANGED <<alive, flags, borrowed>> /\ ~fault /\ Walking(t)
      BY <1>1, Zenon DEF CallNext
    <2>2. ~(alive /\ walk[t].next <= Len(callbacks[walk[t].kind]))
      BY <1>1, <2>1 DEF CallNext
    <2>3. walk[t].next \in Nat /\ walk[t].end \in Nat /\ Len(callbacks[walk[t].kind]) \in Nat
      BY <1>0 DEF TypeOK
    <2>4. ~(walk[t].end <= Len(callbacks[walk[t].kind])) \/ ~alive
      BY <2>1, <2>2, <2>3 DEF Walking
    <2> QED
      BY <1>0, <2>1, <2>4 DEF WalksInside
  <1>2. ASSUME NEW c \in Callbacks, Register(c) \/ Unregister(c) \/ UnregisterBehindEnd(c)
        PROVE  (shifted \/ disturbed \/ ~alive \/ borrowed = "dangling")'
    <2>1. CASE Register(c)
      BY <2>1 DEF Register, Free
    <2>2. CASE Unregister(c)
      BY <2>2 DEF Unregister, Free
    <2>3. CASE UnregisterBehindEnd(c)
      BY <2>3 DEF UnregisterBehindEnd
    <2> QED
      BY <1>2, <2>1, <2>2, <2>3
  <1>3. CASE UseRawConnection
    BY <1>0, <1>3 DEF UseRawConnection, TypeOK
  <1>4. CASE HandleEventTooLate
    BY <1>4 DEF HandleEventTooLate
  <1>5. CASE fault
    <2>1. UNCHANGED vars
      BY <1>5, Zenon
      DEF Next, Application, OtherThread, EventThread, Disconnect, DestroyClient,
          RawConnection, UseRawConnection, HandleEvent, HandleEventTooLate, Drop, Reconnect,
          GiveUp, Error, Cause, CallNext, Connect, ConnectDone, ConnectFails, ConnectReturn,
          Register, Unregister, UnregisterBehindEnd, Free
    <2> QED
      BY <1>5, <2>1 DEF vars, FaultsHaveACause
  <1> QED
    BY <1>1, <1>2, <1>3, <1>4, <1>5
    DEF Next, vars, Application, OtherThread, EventThread, Disconnect, DestroyClient,
        RawConnection, HandleEvent, Drop, Reconnect, GiveUp, Error, Connect, ConnectDone,
        ConnectFails, ConnectReturn

\* Destroyed memory is used only by an unregister with a handle an earlier one
\* made wrong, under a walk the registry changed, after the Client, or with a
\* natsConnection that a disconnect or a connect has taken away.
THEOREM FaultsAreExplained == Spec => []FaultsHaveACause
  <1>1. Init => FaultsHaveACause
    BY DEF Init, FaultsHaveACause
  <1> QED
    BY <1>1, FaultStep, Invariance, PTL DEF Spec

-----------------------------------------------------------------------------
(* Handles.                                                                *)

LEMMA HandleStep == TypeOK /\ HandleFindsCallback /\ [Next]_vars => HandleFindsCallback'
  <1> SUFFICES ASSUME TypeOK, HandleFindsCallback, [Next]_vars, ~shifted',
                      NEW d \in Callbacks, Held(d)', d \notin moved'
               PROVE  /\ handle'[d] + 1 <= Len(callbacks'[KindOf[d]])
                      /\ callbacks'[KindOf[d]][handle'[d] + 1] = d
    BY DEF HandleFindsCallback
  <1>0. /\ callbacks \in [Kinds -> Seq(Callbacks)]
        /\ handle \in [Callbacks -> {NoHandle} \cup Nat]
        /\ KindOf[d] \in Kinds
    BY DEF TypeOK
  <1> DEFINE Found == /\ handle[d] + 1 <= Len(callbacks[KindOf[d]])
                      /\ callbacks[KindOf[d]][handle[d] + 1] = d
  <1>1. ASSUME NEW c \in Callbacks, Register(c)
        PROVE  /\ handle'[d] + 1 <= Len(callbacks'[KindOf[d]])
               /\ callbacks'[KindOf[d]][handle'[d] + 1] = d
    <2>1. /\ callbacks' = [callbacks EXCEPT ![KindOf[c]] = Append(@, c)]
          /\ handle' = [handle EXCEPT ![c] = Len(callbacks[KindOf[c]])]
          /\ moved' = moved \ {c} /\ ~shifted
      BY <1>1 DEF Register, NewHandle
    <2>2. CASE d = c
      BY <1>0, <2>1, <2>2
    <2>3. CASE d # c
      <3>1. handle'[d] = handle[d] /\ handle[d] \in Nat
        BY <1>0, <2>1, <2>3 DEF Held
      <3>2. Found
        BY <2>1, <2>3, <3>1 DEF HandleFindsCallback, Held
      <3>3. callbacks'[KindOf[d]] \in {callbacks[KindOf[d]], Append(callbacks[KindOf[d]], c)}
        BY <1>0, <2>1
      <3>4. /\ callbacks[KindOf[d]] \in Seq(Callbacks)
            /\ handle[d] + 1 \in 1..Len(callbacks[KindOf[d]])
            /\ Len(callbacks[KindOf[d]]) \in Nat
        BY <1>0, <3>1, <3>2
      <3> QED
        BY <3>1, <3>2, <3>3, <3>4, AppendType
    <2> QED
      BY <2>2, <2>3
  <1>2. ASSUME NEW c \in Callbacks, Unregister(c)
        PROVE  /\ handle'[d] + 1 <= Len(callbacks'[KindOf[d]])
               /\ callbacks'[KindOf[d]][handle'[d] + 1] = d
    <2> DEFINE k == KindOf[c]
               s == callbacks[k]
               i == handle[c] + 1
    <2>1. /\ callbacks' = [callbacks EXCEPT ![k] = RemoveAt(s, i)]
          /\ handle' = [handle EXCEPT ![c] = NoHandle]
          /\ moved' = moved \cup {s[j] : j \in i + 1..Len(s)}
          /\ ~shifted /\ s[i] = c /\ Held(c) /\ i <= Len(s)
      BY <1>2 DEF Unregister
    <2>2. d # c /\ handle'[d] = handle[d] /\ Held(d) /\ handle[d] \in Nat /\ handle[c] \in Nat
      BY <1>0, <2>1 DEF Held
    <2>3. Found
      BY <2>1, <2>2 DEF HandleFindsCallback
    <2>4. CASE KindOf[d] # k
      BY <1>0, <2>1, <2>2, <2>3, <2>4
    <2>5. CASE KindOf[d] = k
      <3>1. s \in Seq(Callbacks) /\ i \in 1..Len(s)
        <4>1. s \in Seq(Callbacks)
          BY <1>0, <2>5
        <4> QED
          BY <4>1, <2>1, <2>2
      <3>2. handle[d] + 1 \in 1..i - 1
        <4>1. handle[d] + 1 # i
          BY <2>1, <2>2, <2>3, <2>5
        <4>2. handle[d] + 1 \notin i + 1..Len(s)
          BY <2>1, <2>3, <2>5
        <4>3. handle[d] + 1 <= Len(s)
          BY <2>3, <2>5
        <4> QED
          BY <2>2, <3>1, <4>1, <4>2, <4>3
      <3>3. callbacks'[k] = RemoveAt(s, i)
        BY <1>0, <2>1, <2>5
      <3> HIDE DEF s, i, k
      <3>4. Len(RemoveAt(s, i)) = Len(s) - 1 /\ RemoveAt(s, i)[handle[d] + 1] = s[handle[d] + 1]
        BY <3>1, <3>2, RemoveAtType
      <3> QED
        BY <2>2, <2>3, <2>5, <3>1, <3>2, <3>3, <3>4 DEF s, k
    <2> QED
      BY <2>4, <2>5
  <1>3. ASSUME NEW c \in Callbacks, UnregisterBehindEnd(c) PROVE FALSE
    BY <1>3 DEF UnregisterBehindEnd
  <1>4. CASE UNCHANGED <<callbacks, handle, moved, shifted>>
    BY <1>4 DEF HandleFindsCallback, Held
  <1> QED
    BY <1>1, <1>2, <1>3, <1>4
    DEF Next, vars, Application, OtherThread, EventThread, Disconnect, DestroyClient,
        RawConnection, UseRawConnection, HandleEvent, HandleEventTooLate, Drop, Reconnect,
        GiveUp, Error, CallNext, Connect, ConnectDone, ConnectFails, ConnectReturn

\* However many callbacks are registered and unregistered, one that none has
\* moved is where its handle says, until an unregister missed its own.
THEOREM HandlesOfTheUnmoved == Spec => []HandleFindsCallback
  <1>1. Init => HandleFindsCallback
    BY DEF Init, HandleFindsCallback, Held
  <1> QED
    BY <1>1, HandleStep, TypeCorrect, PTL DEF Spec

-----------------------------------------------------------------------------
(* Vectors: a callback is in one place of the vector of its kind, and one    *)
(* that is in none has been told nothing and has nothing to expect.          *)

InItsVector ==
    \A k \in Kinds : \A i \in DOMAIN callbacks[k] : KindOf[callbacks[k][i]] = k

InOnePlace ==
    \A k \in Kinds : \A i, j \in DOMAIN callbacks[k] :
        callbacks[k][i] = callbacks[k][j] => i = j

OthersHearNothing ==
    \A c \in Callbacks :
        c \notin ToSet(callbacks[KindOf[c]]) => owed[c] = 0 /\ heard[c] = "nothing"

Vectors == InItsVector /\ InOnePlace /\ OthersHearNothing

\* What an unregister leaves of a vector: all the others, in their order.
LEMMA Remaining ==
    ASSUME NEW s \in Seq(Callbacks), NEW i \in 1..Len(s),
           \A j, l \in DOMAIN s : s[j] = s[l] => j = l
    PROVE  LET r == RemoveAt(s, i)
           IN  /\ \A j \in DOMAIN r : /\ r[j] # s[i]
                                      /\ \E l \in DOMAIN s \ {i} : r[j] = s[l]
               /\ \A j, l \in DOMAIN r : r[j] = r[l] => j = l
               /\ \A c : c \in ToSet(s) /\ c # s[i] => c \in ToSet(r)
  <1> DEFINE r == RemoveAt(s, i)
             Old(j) == IF j < i THEN j ELSE j + 1
  <1>1. /\ DOMAIN s = 1..Len(s) /\ Len(s) \in Nat /\ i \in Nat
        /\ r \in Seq(Callbacks) /\ DOMAIN r = 1..Len(s) - 1
        /\ \A j \in DOMAIN r : r[j] = s[Old(j)]
    <2>1. r \in Seq(Callbacks) /\ Len(r) = Len(s) - 1
      BY RemoveAtType
    <2>2. DOMAIN s = 1..Len(s) /\ Len(s) \in Nat /\ i \in Nat
      OBVIOUS
    <2>3. DOMAIN r = 1..Len(s) - 1
      BY <2>1
    <2>4. \A j \in 1..Len(s) - 1 : r[j] = s[Old(j)]
      BY <2>2, RemoveAtType
    <2> QED
      BY <2>1, <2>2, <2>3, <2>4
  <1> HIDE DEF r
  <1>2. \A j \in DOMAIN r : Old(j) \in DOMAIN s \ {i}
    BY <1>1
  <1>3. \A j \in DOMAIN r : r[j] # s[i] /\ \E l \in DOMAIN s \ {i} : r[j] = s[l]
    BY <1>1, <1>2
  <1>4. \A j, l \in DOMAIN r : r[j] = r[l] => j = l
    <2> SUFFICES ASSUME NEW j \in DOMAIN r, NEW l \in DOMAIN r, r[j] = r[l] PROVE j = l
      OBVIOUS
    <2>1. Old(j) = Old(l)
      BY <1>1, <1>2
    <2> QED
      BY <1>1, <2>1
  <1>5. ASSUME NEW c, c \in ToSet(s), c # s[i]
        PROVE  c \in ToSet(r)
    <2>1. PICK l \in DOMAIN s : c = s[l]
      BY <1>5 DEF ToSet
    <2>2. \E j \in DOMAIN r : Old(j) = l
      <3>1. CASE l < i
        BY <1>1, <3>1
      <3>2. CASE l > i
        <4>1. l - 1 \in DOMAIN r /\ Old(l - 1) = l
          BY <1>1, <3>2
        <4> QED
          BY <4>1
      <3> QED
        BY <1>1, <1>5, <2>1, <3>1, <3>2
    <2> QED
      BY <1>1, <2>1, <2>2 DEF ToSet
  <1> QED
    BY <1>3, <1>4, <1>5 DEF r

LEMMA RegisterVectors ==
    ASSUME TypeOK, Vectors, NEW c \in Callbacks, Register(c)
    PROVE  Vectors'
  <1> DEFINE k == KindOf[c]
             s == callbacks[k]
  <1>1. /\ callbacks' = [callbacks EXCEPT ![k] = Append(s, c)]
        /\ c \notin ToSet(s) /\ UNCHANGED <<owed, heard>>
    BY DEF Register
  <1>2. callbacks \in [Kinds -> Seq(Callbacks)] /\ k \in Kinds
    BY DEF TypeOK
  <1>3. /\ s \in Seq(Callbacks) /\ DOMAIN s = 1..Len(s) /\ Len(s) \in Nat
        /\ DOMAIN Append(s, c) = 1..Len(s) + 1
        /\ \A j \in DOMAIN s : Append(s, c)[j] = s[j]
        /\ Append(s, c)[Len(s) + 1] = c
    BY <1>2
  <1>4. callbacks'[k] = Append(s, c) /\ \A l \in Kinds \ {k} : callbacks'[l] = callbacks[l]
    BY <1>1, <1>2
  <1>5. \A j \in DOMAIN s : s[j] # c
    BY <1>1 DEF ToSet
  <1>6. /\ \A j \in DOMAIN s : KindOf[s[j]] = k
        /\ \A j, l \in DOMAIN s : s[j] = s[l] => j = l
    BY <1>2 DEF Vectors, InItsVector, InOnePlace
  <1>7. \A j \in DOMAIN Append(s, c) : KindOf[Append(s, c)[j]] = k
    <2>1. \A j \in DOMAIN Append(s, c) : j \in DOMAIN s \/ j = Len(s) + 1
      BY <1>3
    <2> QED
      BY <1>3, <1>6, <2>1
  <1>8. \A j, l \in DOMAIN Append(s, c) : Append(s, c)[j] = Append(s, c)[l] => j = l
    <2>1. \A j \in DOMAIN Append(s, c) : j \in DOMAIN s \/ j = Len(s) + 1
      BY <1>3
    <2> QED
      BY <1>3, <1>5, <1>6, <2>1
  <1>9. \A d \in Callbacks : d \in ToSet(callbacks[KindOf[d]]) => d \in ToSet(callbacks'[KindOf[d]])
    <2>1. \A d : d \in ToSet(s) => d \in ToSet(Append(s, c))
      BY <1>3 DEF ToSet
    <2>2. \A d \in Callbacks : KindOf[d] \in Kinds
      OBVIOUS
    <2> HIDE DEF s, k
    <2> QED
      BY <1>4, <2>1, <2>2 DEF s
  <1> HIDE DEF s, k
  <1>10. InItsVector'
    <2> SUFFICES ASSUME NEW l \in Kinds, NEW j \in DOMAIN callbacks'[l]
                 PROVE  KindOf[callbacks'[l][j]] = l
      BY DEF InItsVector
    <2> HIDE DEF Kinds
    <2>1. CASE l = k
      BY <1>4, <1>7, <2>1
    <2>2. CASE l # k
      BY <1>4, <2>2 DEF Vectors, InItsVector
    <2> QED
      BY <2>1, <2>2
  <1>11. InOnePlace'
    <2> SUFFICES ASSUME NEW l \in Kinds, NEW j \in DOMAIN callbacks'[l],
                        NEW m \in DOMAIN callbacks'[l], callbacks'[l][j] = callbacks'[l][m]
                 PROVE  j = m
      BY DEF InOnePlace
    <2> HIDE DEF Kinds
    <2>1. CASE l = k
      BY <1>4, <1>8, <2>1
    <2>2. CASE l # k
      BY <1>4, <2>2 DEF Vectors, InOnePlace
    <2> QED
      BY <2>1, <2>2
  <1>12. OthersHearNothing'
    BY <1>1, <1>9 DEF Vectors, OthersHearNothing
  <1> QED
    BY <1>10, <1>11, <1>12 DEF Vectors

LEMMA UnregisterVectors ==
    ASSUME TypeOK, Vectors, NEW c \in Callbacks, Unregister(c)
    PROVE  Vectors'
  <1> DEFINE k == KindOf[c]
             s == callbacks[k]
             i == handle[c] + 1
  <1>1. /\ callbacks' = [callbacks EXCEPT ![k] = RemoveAt(s, i)]
        /\ owed' = [owed EXCEPT ![s[i]] = 0] /\ heard' = [heard EXCEPT ![s[i]] = "nothing"]
        /\ Held(c) /\ i <= Len(s)
    BY DEF Unregister
  <1>2. /\ callbacks \in [Kinds -> Seq(Callbacks)] /\ k \in Kinds
        /\ handle \in [Callbacks -> {NoHandle} \cup Nat]
        /\ owed \in [Callbacks -> Int]
        /\ heard \in [Callbacks -> ConnectionStatus \cup {"nothing", "error"}]
    BY DEF TypeOK
  <1>3. s \in Seq(Callbacks) /\ i \in 1..Len(s)
    <2>1. handle[c] \in Nat
      BY <1>1, <1>2 DEF Held
    <2> QED
      BY <1>1, <1>2, <2>1
  <1>4. /\ \A j \in DOMAIN s : KindOf[s[j]] = k
        /\ \A j, l \in DOMAIN s : s[j] = s[l] => j = l
    BY <1>2 DEF Vectors, InItsVector, InOnePlace
  <1>5. callbacks'[k] = RemoveAt(s, i) /\ \A l \in Kinds \ {k} : callbacks'[l] = callbacks[l]
    BY <1>1, <1>2
  <1> HIDE DEF k, s, i
  <1> DEFINE r == RemoveAt(s, i)
  <1>6. /\ \A j \in DOMAIN r : /\ r[j] # s[i]
                               /\ \E l \in DOMAIN s \ {i} : r[j] = s[l]
        /\ \A j, l \in DOMAIN r : r[j] = r[l] => j = l
        /\ \A d : d \in ToSet(s) /\ d # s[i] => d \in ToSet(r)
    BY <1>3, <1>4, Remaining
  <1> HIDE DEF r
  <1>7. InItsVector'
    <2>1. \A j \in DOMAIN r : KindOf[r[j]] = k
      BY <1>4, <1>6
    <2> QED
      BY <1>5, <2>1 DEF Vectors, InItsVector, r
  <1>8. InOnePlace'
    BY <1>5, <1>6 DEF Vectors, InOnePlace, r
  <1>9. OthersHearNothing'
    <2> SUFFICES ASSUME NEW d \in Callbacks, d \notin ToSet(callbacks'[KindOf[d]])
                 PROVE  owed'[d] = 0 /\ heard'[d] = "nothing"
      BY DEF OthersHearNothing
    <2>1. CASE d = s[i]
      BY <1>1, <1>2, <2>1
    <2>2. CASE d # s[i]
      <3>1. d \notin ToSet(callbacks[KindOf[d]])
        BY <1>5, <1>6, <2>2 DEF r, s
      <3>2. owed'[d] = owed[d] /\ heard'[d] = heard[d]
        BY <1>1, <1>2, <2>2
      <3> QED
        BY <3>1, <3>2 DEF Vectors, OthersHearNothing
    <2> QED
      BY <2>1, <2>2
  <1> QED
    BY <1>7, <1>8, <1>9 DEF Vectors

LEMMA CallNextVectors ==
    ASSUME TypeOK, Vectors, NEW t \in Threads, CallNext(t)
    PROVE  Vectors'
  <1>1. UNCHANGED callbacks
    BY DEF CallNext
  <1>2. ASSUME NEW c \in Callbacks, c \notin ToSet(callbacks[KindOf[c]])
        PROVE  owed'[c] = owed[c] /\ heard'[c] = heard[c]
    <2> DEFINE w == walk[t]
               d == callbacks[w.kind][w.next]
    <2>1. CASE UNCHANGED <<heard, owed>>
      BY <2>1
    <2>2. CASE alive /\ w.next <= Len(callbacks[w.kind])
      <3>1. heard' = [heard EXCEPT ![d] = w.status] /\ owed' = [owed EXCEPT ![d] = @ - 1]
        BY <2>2 DEF CallNext
      <3>2. d # c
        <4>1. w.kind \in Kinds /\ w.next \in Nat \ {0} /\ callbacks[w.kind] \in Seq(Callbacks)
          BY DEF TypeOK
        <4>2. w.next \in DOMAIN callbacks[w.kind]
          BY <2>2, <4>1
        <4>3. KindOf[d] = w.kind /\ d \in ToSet(callbacks[w.kind])
          BY <4>1, <4>2 DEF Vectors, InItsVector, ToSet
        <4> QED
          BY <1>2, <4>3
      <3> HIDE DEF d
      <3> QED
        BY <3>1, <3>2 DEF TypeOK
    <2> QED
      BY <2>1, <2>2 DEF CallNext
  <1> QED
    BY <1>1, <1>2 DEF Vectors, InItsVector, InOnePlace, OthersHearNothing

LEMMA OwedMoreVectors ==
    ASSUME Vectors, NEW kind \in Kinds, NEW n \in Nat, TypeOK,
           owed' = OwedMore(kind, n), UNCHANGED <<callbacks, heard>>
    PROVE  Vectors'
  <1>1. ASSUME NEW c \in Callbacks, c \notin ToSet(callbacks[KindOf[c]])
        PROVE  owed'[c] = owed[c]
    <2>1. c \notin ToSet(callbacks[kind])
      <3>1. \A i \in DOMAIN callbacks[kind] : KindOf[callbacks[kind][i]] = kind
        BY DEF Vectors, InItsVector
      <3> QED
        BY <1>1, <3>1 DEF ToSet
    <2> QED
      BY <2>1 DEF OwedMore
  <1> QED
    BY <1>1 DEF Vectors, InItsVector, InOnePlace, OthersHearNothing

LEMMA VectorsStep == TypeOK /\ Vectors /\ [Next]_vars => Vectors'
  <1> SUFFICES ASSUME TypeOK, Vectors, [Next]_vars PROVE Vectors'
    OBVIOUS
  <1>1. ASSUME NEW k, NEW n \in Nat, ReportEnd(k, n), UNCHANGED <<callbacks, heard>>
        PROVE  Vectors'
    <2>1. \E m \in Nat : owed' = OwedMore("state", m)
      BY <1>1 DEF ReportEnd
    <2> QED
      BY <1>1, <2>1, OwedMoreVectors
  <1>2. CASE Connect \/ ConnectDone \/ Disconnect \/ DestroyClient
    BY <1>1, <1>2 DEF Connect, ConnectDone, Disconnect, DestroyClient
  <1>3. ASSUME NEW k \in 1..MaxConnects, Drop(k) \/ Reconnect(k) \/ Error(k)
        PROVE  Vectors'
    <2>1. \E kind \in Kinds : owed' = OwedMore(kind, 1)
      BY <1>3 DEF Drop, Reconnect, Error, Report
    <2> QED
      BY <1>3, <2>1, OwedMoreVectors DEF Drop, Reconnect, Error
  <1>4. ASSUME NEW c \in Callbacks, UnregisterBehindEnd(c)
        PROVE  UNCHANGED <<callbacks, heard, owed>>
    BY <1>4 DEF UnregisterBehindEnd
  <1>5. CASE UNCHANGED <<callbacks, heard, owed>>
    BY <1>5 DEF Vectors, InItsVector, InOnePlace, OthersHearNothing
  <1> QED
    BY <1>2, <1>3, <1>4, <1>5, RegisterVectors, UnregisterVectors, CallNextVectors
    DEF Next, vars, Application, OtherThread, EventThread, RawConnection, UseRawConnection,
        HandleEvent, HandleEventTooLate, GiveUp, ConnectFails, ConnectReturn

LEMMA VectorsHold == Spec => []Vectors
  <1>1. Init => Vectors
    BY DEF Init, Vectors, InItsVector, InOnePlace, OthersHearNothing, ToSet
  <1> QED
    BY <1>1, VectorsStep, TypeCorrect, PTL DEF Spec

-----------------------------------------------------------------------------
(* Reports: a callback has no more calls to expect than there are events of  *)
(* its kind still to be handled and walks that have still to come by.        *)

Reports(es, kind) == {i \in DOMAIN es : es[i].kind = kind}

\* The walk of t has still to come to the place p of the vector of a kind.
Ahead(t, kind, p) == walk[t].kind = kind /\ walk[t].next <= p /\ p <= walk[t].end

ToCome(kind, p) == Cardinality(Reports(events, kind))
                   + (IF Ahead("user", kind, p) THEN 1 ELSE 0)
                   + (IF Ahead("library", kind, p) THEN 1 ELSE 0)

OwedIsToCome ==
    alive /\ ~fault /\ ~disturbed =>
        \A kind \in Kinds : \A p \in DOMAIN callbacks[kind] :
            owed[callbacks[kind][p]] <= ToCome(kind, p)

LEMMA ReportsFinite ==
    ASSUME NEW es \in Events, NEW kind
    PROVE  IsFiniteSet(Reports(es, kind)) /\ Cardinality(Reports(es, kind)) \in Nat
  <1>1. Reports(es, kind) \in SUBSET (1..Len(es)) /\ Len(es) \in Nat
    BY DEF Reports, Events
  <1>2. IsFiniteSet(1..Len(es))
    BY <1>1, FS_Interval
  <1>3. IsFiniteSet(Reports(es, kind))
    BY <1>1, <1>2, FS_Subset
  <1> QED
    BY <1>3, FS_CardinalityType

\* An event that is posted adds one to its kind and none to the other.
LEMMA ReportsPosted ==
    ASSUME NEW es \in Events, NEW e, NEW kind
    PROVE  Cardinality(Reports(Append(es, e), kind)) =
               Cardinality(Reports(es, kind)) + (IF e.kind = kind THEN 1 ELSE 0)
  <1>1. /\ DOMAIN es = 1..Len(es) /\ Len(es) \in Nat
        /\ DOMAIN Append(es, e) = 1..Len(es) + 1
        /\ \A i \in 1..Len(es) : Append(es, e)[i] = es[i]
        /\ Append(es, e)[Len(es) + 1] = e
    BY DEF Events
  <1>2. IsFiniteSet(Reports(es, kind)) /\ Cardinality(Reports(es, kind)) \in Nat
    BY ReportsFinite
  <1>3. CASE e.kind = kind
    <2>1. Reports(Append(es, e), kind) = Reports(es, kind) \cup {Len(es) + 1}
      BY <1>1, <1>3 DEF Reports
    <2>2. Len(es) + 1 \notin Reports(es, kind)
      BY <1>1 DEF Reports
    <2>3. Cardinality(Reports(es, kind) \cup {Len(es) + 1}) = Cardinality(Reports(es, kind)) + 1
      BY <1>2, <2>2, FS_AddElement
    <2> QED
      BY <1>3, <2>1, <2>3
  <1>4. CASE e.kind # kind
    <2>1. Reports(Append(es, e), kind) = Reports(es, kind)
      BY <1>1, <1>4 DEF Reports
    <2> QED
      BY <1>2, <1>4, <2>1
  <1> QED
    BY <1>3, <1>4

\* An event that is taken takes at most one from its kind and none from the other.
LEMMA ReportsTaken ==
    ASSUME NEW es \in Events, es # << >>, NEW kind
    PROVE  Cardinality(Reports(es, kind)) <=
               Cardinality(Reports(Tail(es), kind)) + (IF Head(es).kind = kind THEN 1 ELSE 0)
  <1>1. /\ DOMAIN es = 1..Len(es) /\ Len(es) \in Nat /\ Tail(es) \in Events
        /\ DOMAIN Tail(es) = 1..Len(es) - 1
        /\ \A i \in 1..Len(es) - 1 : Tail(es)[i] = es[i + 1]
        /\ Head(es) = es[1]
    BY DEF Events
  <1>2. /\ IsFiniteSet(Reports(es, kind)) /\ Cardinality(Reports(es, kind)) \in Nat
        /\ IsFiniteSet(Reports(Tail(es), kind)) /\ Cardinality(Reports(Tail(es), kind)) \in Nat
    BY <1>1, ReportsFinite
  <1> DEFINE rest == Reports(es, kind) \ {1}
             earlier == [i \in rest |-> i - 1]
  <1>3. Cardinality(rest) <= Cardinality(Reports(Tail(es), kind))
    <2>1. \A i \in rest : i \in 2..Len(es) /\ i - 1 \in Reports(Tail(es), kind)
      <3> SUFFICES ASSUME NEW i \in rest PROVE i \in 2..Len(es) /\ i - 1 \in Reports(Tail(es), kind)
        OBVIOUS
      <3>1. i \in 2..Len(es) /\ es[i].kind = kind
        BY <1>1 DEF Reports
      <3>2. i - 1 \in 1..Len(es) - 1 /\ (i - 1) + 1 = i
        BY <1>1, <3>1
      <3> QED
        BY <1>1, <3>1, <3>2 DEF Reports
    <2>2. earlier \in [rest -> Reports(Tail(es), kind)]
      BY <2>1
    <2>3. \A i, j \in rest : earlier[i] = earlier[j] => i = j
      <3> SUFFICES ASSUME NEW i \in rest, NEW j \in rest, i - 1 = j - 1 PROVE i = j
        OBVIOUS
      <3>1. i \in Int /\ j \in Int
        BY <2>1
      <3> QED
        BY <3>1
    <2> HIDE DEF earlier, rest
    <2>4. earlier \in Injection(rest, Reports(Tail(es), kind))
      BY <2>2, <2>3 DEF Injection, IsInjective
    <2> QED
      BY <1>2, <2>4, FS_Injection
  <1>4. Cardinality(rest) = IF 1 \in Reports(es, kind) THEN Cardinality(Reports(es, kind)) - 1
                            ELSE Cardinality(Reports(es, kind))
    BY <1>2, FS_RemoveElement
  <1>5. 1 \in Reports(es, kind) => Head(es).kind = kind
    BY <1>1 DEF Reports
  <1> HIDE DEF rest
  <1> QED
    BY <1>2, <1>3, <1>4, <1>5

LEMMA ToComeType ==
    ASSUME TypeOK, NEW kind, NEW p
    PROVE  /\ Cardinality(Reports(events, kind)) \in Nat
           /\ ToCome(kind, p) \in Nat
           /\ ToCome(kind, p) >= Cardinality(Reports(events, kind))
  <1>1. events \in Events
    BY DEF TypeOK, Events
  <1>2. Cardinality(Reports(events, kind)) \in Nat
    BY <1>1, ReportsFinite
  <1> QED
    BY <1>2 DEF ToCome

\* A walk that begins has all of its vector to come by.
LEMMA WalkBegins ==
    ASSUME TypeOK, NEW t \in Threads, NEW kind \in Kinds, NEW s,
           walk' = [walk EXCEPT ![t] = WalkOf(kind, s)], ~Walking(t)
    PROVE  /\ \A k \in Kinds, p \in Nat : ~Ahead(t, k, p)
           /\ \A p \in DOMAIN callbacks[kind] : Ahead(t, kind, p)'
           /\ \A u \in Threads \ {t}, k \in Kinds, p \in Nat : Ahead(u, k, p)' <=> Ahead(u, k, p)
  <1>1. walk[t] \in Record
    BY DEF TypeOK, Record
  <1>2. \A k \in Kinds, p \in Nat : ~Ahead(t, k, p)
    BY <1>1 DEF Ahead, Walking, Record
  <1>3. walk'[t] = WalkOf(kind, s) /\ \A u \in Threads \ {t} : walk'[u] = walk[u]
    BY DEF TypeOK
  <1>4. DOMAIN callbacks[kind] = 1..Len(callbacks[kind]) /\ Len(callbacks[kind]) \in Nat
    BY DEF TypeOK
  <1> QED
    BY <1>2, <1>3, <1>4 DEF Ahead, WalkOf

\* A callback of the kind owes n more, one of the other no more.
LEMMA OwedMoreOf ==
    ASSUME TypeOK, Vectors, NEW kind \in Kinds, NEW n \in Nat,
           owed' = OwedMore(kind, n), NEW k \in Kinds, NEW p \in DOMAIN callbacks[k]
    PROVE  /\ callbacks[k][p] \in Callbacks
           /\ owed[callbacks[k][p]] \in Int
           /\ owed'[callbacks[k][p]] =
                  owed[callbacks[k][p]] + (IF k = kind THEN n ELSE 0)
  <1>1. callbacks[k] \in Seq(Callbacks) /\ owed \in [Callbacks -> Int]
    BY DEF TypeOK
  <1>2. callbacks[k][p] \in Callbacks
    BY <1>1
  <1>3. callbacks[k][p] \in ToSet(callbacks[kind]) <=> k = kind
    BY DEF Vectors, InItsVector, ToSet
  <1> HIDE DEF Kinds
  <1> QED
    BY <1>1, <1>2, <1>3 DEF OwedMore

LEMMA RegisterOwed ==
    ASSUME TypeOK, Vectors, OwedIsToCome, ~fault', ~disturbed',
           NEW c \in Callbacks, Register(c),
           NEW kind \in Kinds, NEW p \in DOMAIN callbacks'[kind]
    PROVE  owed'[callbacks'[kind][p]] <= ToCome(kind, p)'
  <1> DEFINE k == KindOf[c]
             s == callbacks[k]
  <1>1. /\ callbacks' = [callbacks EXCEPT ![k] = Append(s, c)]
        /\ c \notin ToSet(s) /\ UNCHANGED <<owed, events, walk>> /\ alive /\ ~fault
        /\ ~disturbed
    BY DEF Register, Free
  <1>2. callbacks \in [Kinds -> Seq(Callbacks)] /\ k \in Kinds
    BY DEF TypeOK
  <1>3. ToCome(kind, p)' = ToCome(kind, p)
    BY <1>1 DEF ToCome, Ahead
  <1>4. CASE p \in DOMAIN callbacks[kind]
    <2>1. callbacks'[kind][p] = callbacks[kind][p]
      <3>1. callbacks'[kind] \in {callbacks[kind], Append(callbacks[kind], c)}
        BY <1>1, <1>2
      <3>2. callbacks[kind] \in Seq(Callbacks) /\ p \in 1..Len(callbacks[kind])
        <4>1. callbacks[kind] \in Seq(Callbacks)
          BY <1>2
        <4> QED
          BY <1>4, <4>1
      <3> QED
        BY <3>1, <3>2, AppendType
    <2> QED
      BY <1>1, <1>3, <1>4, <2>1 DEF OwedIsToCome
  <1>5. CASE p \notin DOMAIN callbacks[kind]
    <2>1. kind = k /\ callbacks'[kind][p] = c
      BY <1>1, <1>2, <1>5
    <2>2. owed[c] = 0
      BY <1>1 DEF Vectors, OthersHearNothing
    <2> QED
      BY <1>1, <1>3, <2>1, <2>2, ToComeType
  <1> QED
    BY <1>4, <1>5

\* Nobody is in the vector that an unregister changes, and what it leaves there
\* has been there before.
LEMMA UnregisterLeaves ==
    ASSUME TypeOK, Stages, Vectors, ~disturbed', NEW c \in Callbacks, Unregister(c),
           NEW kind \in Kinds, NEW p \in DOMAIN callbacks'[kind]
    PROVE  \E q \in DOMAIN callbacks[kind] :
             /\ callbacks'[kind][p] = callbacks[kind][q]
             /\ owed'[callbacks'[kind][p]] = owed[callbacks[kind][q]]
             /\ heard'[callbacks'[kind][p]] = heard[callbacks[kind][q]]
             /\ \A t \in Threads : Ahead(t, kind, q) => q = p /\ Ahead(t, kind, p)'
  <1> DEFINE k == KindOf[c]
             s == callbacks[k]
             i == handle[c] + 1
  <1>1. /\ callbacks' = [callbacks EXCEPT ![k] = RemoveAt(s, i)]
        /\ owed' = [owed EXCEPT ![s[i]] = 0] /\ heard' = [heard EXCEPT ![s[i]] = "nothing"]
        /\ Held(c) /\ i <= Len(s) /\ connecting = "no" /\ UNCHANGED walk /\ ~Disturbs(k)
    BY DEF Unregister, Free
  <1>2. /\ callbacks \in [Kinds -> Seq(Callbacks)] /\ k \in Kinds
        /\ handle \in [Callbacks -> {NoHandle} \cup Nat]
        /\ owed \in [Callbacks -> Int]
        /\ heard \in [Callbacks -> ConnectionStatus \cup {"nothing", "error"}]
        /\ walk \in [Threads -> Record]
    BY DEF TypeOK, Record
  <1>3. s \in Seq(Callbacks) /\ i \in 1..Len(s)
    <2>1. handle[c] \in Nat
      BY <1>1, <1>2 DEF Held
    <2> QED
      BY <1>1, <1>2, <2>1
  <1>4. /\ \A j \in DOMAIN s : KindOf[s[j]] = k
        /\ \A j, l \in DOMAIN s : s[j] = s[l] => j = l
    BY <1>2 DEF Vectors, InItsVector, InOnePlace
  <1>5. callbacks'[k] = RemoveAt(s, i) /\ \A l \in Kinds \ {k} : callbacks'[l] = callbacks[l]
    BY <1>1, <1>2
  <1>6. \A t \in Threads, q \in Nat : ~Ahead(t, k, q)
    <2> SUFFICES ASSUME NEW t \in Threads, NEW q \in Nat, Ahead(t, k, q) PROVE FALSE
      OBVIOUS
    <2>1. Walking(t) /\ walk[t].kind = k
      <3>1. walk[t] \in Record
        BY <1>2
      <3> HIDE DEF k
      <3> QED
        BY <3>1 DEF Ahead, Walking, Record
    <2>2. t = "library"
      BY <1>1, <2>1 DEF Stages
    <2> QED
      BY <1>1, <2>1, <2>2 DEF Disturbs
  <1>7. DOMAIN s = 1..Len(s) /\ Len(s) \in Nat
    BY <1>3
  <1>8. CASE kind = k
    <2>1. p \in DOMAIN RemoveAt(s, i)
      BY <1>5, <1>8
    <2>2. /\ RemoveAt(s, i)[p] # s[i]
          /\ \E l \in DOMAIN s \ {i} : RemoveAt(s, i)[p] = s[l]
      <3> HIDE DEF s, i
      <3> QED
        BY <1>3, <1>4, <2>1, Remaining
    <2>3. PICK q \in DOMAIN s : q # i /\ RemoveAt(s, i)[p] = s[q]
      BY <2>2
    <2>4. s[q] # s[i] /\ q \in Nat
      BY <1>7, <2>2, <2>3
    <2>5. callbacks'[kind][p] = callbacks[kind][q]
      BY <1>5, <1>8, <2>3
    <2>6. owed'[s[q]] = owed[s[q]] /\ heard'[s[q]] = heard[s[q]]
      <3>1. s[q] \in Callbacks
        BY <1>3
      <3> HIDE DEF s, i
      <3> QED
        BY <1>1, <1>2, <2>4, <3>1
    <2>7. q \in DOMAIN callbacks[kind] /\ s[q] = callbacks[kind][q]
      BY <1>8
    <2> HIDE DEF s, i
    <2> QED
      BY <1>6, <1>8, <2>4, <2>5, <2>6, <2>7
  <1>9. CASE kind # k
    <2>1. callbacks'[kind] = callbacks[kind]
      BY <1>5, <1>9
    <2>2. callbacks[kind][p] # s[i]
      BY <1>3, <1>4, <1>7, <1>9, <2>1 DEF Vectors, InItsVector
    <2>3. callbacks[kind][p] \in Callbacks
      BY <1>2, <2>1
    <2>4. /\ owed'[callbacks[kind][p]] = owed[callbacks[kind][p]]
          /\ heard'[callbacks[kind][p]] = heard[callbacks[kind][p]]
      <3> HIDE DEF s, i
      <3> QED
        BY <1>1, <1>2, <2>2, <2>3
    <2>5. \A t \in Threads : Ahead(t, kind, p)' <=> Ahead(t, kind, p)
      BY <1>1 DEF Ahead
    <2> QED
      BY <2>1, <2>4, <2>5
  <1> QED
    BY <1>8, <1>9

LEMMA UnregisterOwed ==
    ASSUME TypeOK, Stages, Vectors, OwedIsToCome, ~fault', ~disturbed',
           NEW c \in Callbacks, Unregister(c),
           NEW kind \in Kinds, NEW p \in DOMAIN callbacks'[kind]
    PROVE  owed'[callbacks'[kind][p]] <= ToCome(kind, p)'
  <1>1. PICK q \in DOMAIN callbacks[kind] :
             /\ owed'[callbacks'[kind][p]] = owed[callbacks[kind][q]]
             /\ \A t \in Threads : Ahead(t, kind, q) => Ahead(t, kind, p)'
    BY UnregisterLeaves
  <1>2. UNCHANGED events /\ alive /\ ~fault /\ ~disturbed
    BY DEF Unregister, Free
  <1>3. owed[callbacks[kind][q]] <= ToCome(kind, q)
    BY <1>2 DEF OwedIsToCome
  <1>4. owed[callbacks[kind][q]] \in Int
    BY DEF TypeOK
  <1>5. Cardinality(Reports(events, kind)) \in Nat
    BY ToComeType
  <1>6. ToCome(kind, p)' >= ToCome(kind, q) /\ ToCome(kind, p)' \in Nat /\ ToCome(kind, q) \in Nat
    BY <1>1, <1>2, <1>5 DEF ToCome
  <1> QED
    BY <1>1, <1>3, <1>4, <1>6

\* A call takes its place from what the walk has ahead, and nothing else.
LEMMA CallNextAhead ==
    ASSUME TypeOK, NEW t \in Threads, CallNext(t),
           NEW u \in Threads, NEW kind \in Kinds, NEW p \in Nat
    PROVE  Ahead(u, kind, p)' <=>
               Ahead(u, kind, p) /\ ~(u = t /\ kind = walk[t].kind /\ p = walk[t].next)
  <1>1. walk \in [Threads -> Record]
    BY DEF TypeOK, Record
  <1>2. /\ Walking(t)
        /\ walk' = [walk EXCEPT ![t] = IF walk[t].next = walk[t].end THEN NoWalk
                                       ELSE [walk[t] EXCEPT !.next = @ + 1]]
    BY DEF CallNext
  <1>3. CASE u # t
    <2>1. walk'[u] = walk[u]
      BY <1>1, <1>2, <1>3
    <2> QED
      BY <1>3, <2>1 DEF Ahead
  <1>4. CASE u = t /\ walk[t].next = walk[t].end
    <2>1. walk'[t] = NoWalk
      BY <1>1, <1>2, <1>4
    <2>2. ~Ahead(u, kind, p)'
      BY <1>4, <2>1 DEF Ahead, NoWalk
    <2>3. walk[t].next \in Nat
      BY <1>1 DEF Record
    <2>4. Ahead(u, kind, p) => kind = walk[t].kind /\ p = walk[t].next
      BY <1>4, <2>3 DEF Ahead
    <2> QED
      BY <1>4, <2>2, <2>4
  <1>5. CASE u = t /\ walk[t].next # walk[t].end
    <2>1. walk'[t] = [walk[t] EXCEPT !.next = @ + 1]
      BY <1>1, <1>2, <1>5
    <2>2. walk[t] \in Record
      BY <1>1
    <2>3. walk'[t].kind = walk[t].kind /\ walk'[t].next = walk[t].next + 1
          /\ walk'[t].end = walk[t].end /\ walk[t].next \in Nat
      BY <2>1, <2>2 DEF Record
    <2> QED
      BY <1>5, <2>3 DEF Ahead
  <1> QED
    BY <1>3, <1>4, <1>5

\* As long as there is no fault, it reaches the callback at that place alone.
LEMMA CallNextReaches ==
    ASSUME TypeOK, Vectors, NEW t \in Threads, CallNext(t), ~fault',
           NEW kind \in Kinds, NEW p \in DOMAIN callbacks[kind]
    PROVE  /\ alive /\ UNCHANGED callbacks
           /\ IF kind = walk[t].kind /\ p = walk[t].next
              THEN /\ Ahead(t, kind, p)
                   /\ owed'[callbacks[kind][p]] = owed[callbacks[kind][p]] - 1
                   /\ heard'[callbacks[kind][p]] = walk[t].status
              ELSE /\ owed'[callbacks[kind][p]] = owed[callbacks[kind][p]]
                   /\ heard'[callbacks[kind][p]] = heard[callbacks[kind][p]]
  <1> DEFINE w == walk[t]
             d == callbacks[w.kind][w.next]
  <1>1. /\ UNCHANGED callbacks /\ Walking(t)
        /\ alive /\ w.next <= Len(callbacks[w.kind])
        /\ heard' = [heard EXCEPT ![d] = w.status]
        /\ owed' = [owed EXCEPT ![d] = @ - 1]
    BY DEF CallNext
  <1>2. /\ w \in Record /\ callbacks[w.kind] \in Seq(Callbacks)
        /\ callbacks[kind] \in Seq(Callbacks)
        /\ owed \in [Callbacks -> Int]
        /\ heard \in [Callbacks -> ConnectionStatus \cup {"nothing", "error"}]
    BY DEF TypeOK, Record
  <1>3. w.next \in DOMAIN callbacks[w.kind] /\ w.kind \in Kinds
    BY <1>1, <1>2 DEF Record
  <1>4. d \in Callbacks /\ callbacks[kind][p] \in Callbacks
    BY <1>2, <1>3
  <1>5. callbacks[kind][p] = d <=> kind = w.kind /\ p = w.next
    <2>1. callbacks[kind][p] = d => kind = w.kind
      BY <1>3 DEF Vectors, InItsVector
    <2> QED
      BY <1>3, <2>1 DEF Vectors, InOnePlace
  <1>6. kind = w.kind /\ p = w.next => Ahead(t, kind, p)
    BY <1>1, <1>2 DEF Ahead, Walking, Record
  <1> HIDE DEF d, w
  <1>7. CASE callbacks[kind][p] = d
    BY <1>1, <1>2, <1>4, <1>5, <1>6, <1>7 DEF w
  <1>8. CASE callbacks[kind][p] # d
    BY <1>1, <1>2, <1>4, <1>5, <1>8 DEF w
  <1> QED
    BY <1>7, <1>8

LEMMA CallNextOwed ==
    ASSUME TypeOK, Vectors, OwedIsToCome, ~fault', ~disturbed',
           NEW t \in Threads, CallNext(t),
           NEW kind \in Kinds, NEW p \in DOMAIN callbacks'[kind]
    PROVE  owed'[callbacks'[kind][p]] <= ToCome(kind, p)'
  <1>1. alive /\ ~fault /\ ~disturbed /\ UNCHANGED <<callbacks, events>>
    <2>1. UNCHANGED <<callbacks, events, disturbed>> /\ ~fault
      BY DEF CallNext
    <2>2. CASE alive
      BY <2>1, <2>2
    <2>3. CASE ~alive
      BY <2>3, Zenon DEF CallNext
    <2> QED
      BY <2>1, <2>2, <2>3
  <1>2. p \in DOMAIN callbacks[kind] /\ p \in Nat
    BY <1>1 DEF TypeOK
  <1>3. owed[callbacks[kind][p]] <= ToCome(kind, p) /\ owed[callbacks[kind][p]] \in Int
    BY <1>1, <1>2 DEF OwedIsToCome, TypeOK
  <1>4. Cardinality(Reports(events, kind)) \in Nat
    BY ToComeType
  <1>5. CASE kind = walk[t].kind /\ p = walk[t].next
    <2>1. Ahead(t, kind, p) /\ owed'[callbacks[kind][p]] = owed[callbacks[kind][p]] - 1
      BY <1>2, <1>5, CallNextReaches
    <2>2. ~Ahead(t, kind, p)' /\ \A u \in Threads \ {t} : Ahead(u, kind, p)' <=> Ahead(u, kind, p)
      BY <1>2, <1>5, CallNextAhead
    <2>3. ToCome(kind, p)' = ToCome(kind, p) - 1
      BY <1>1, <1>4, <2>1, <2>2 DEF ToCome
    <2> QED
      BY <1>1, <1>3, <2>1, <2>3, ToComeType
  <1>6. CASE ~(kind = walk[t].kind /\ p = walk[t].next)
    <2>1. owed'[callbacks[kind][p]] = owed[callbacks[kind][p]]
      BY <1>2, <1>6, CallNextReaches
    <2>2. \A u \in Threads : Ahead(u, kind, p)' <=> Ahead(u, kind, p)
      BY <1>2, <1>6, CallNextAhead
    <2>3. ToCome(kind, p)' = ToCome(kind, p)
      BY <1>1, <2>2 DEF ToCome
    <2> QED
      BY <1>1, <1>3, <2>1, <2>3
  <1> QED
    BY <1>5, <1>6

LEMMA NetworkOwed ==
    ASSUME TypeOK, Vectors, OwedIsToCome, alive, ~fault', ~disturbed',
           NEW k, Drop(k) \/ Reconnect(k) \/ Error(k),
           NEW kind \in Kinds, NEW p \in DOMAIN callbacks'[kind]
    PROVE  owed'[callbacks'[kind][p]] <= ToCome(kind, p)'
  <1>1. UNCHANGED <<callbacks, walk, disturbed>> /\ ~fault
    BY DEF Drop, Reconnect, Error, Cause
  <1>2. PICK e : Report(e) /\ e.kind \in Kinds
    <2>1. Report(Event("state", k)) \/ Report(Event("error", k))
      BY DEF Drop, Reconnect, Error
    <2>2. Event("state", k).kind \in Kinds /\ Event("error", k).kind \in Kinds
      OBVIOUS
    <2> QED
      BY <2>1, <2>2
  <1>3. events' = Append(events, e) /\ owed' = OwedMore(e.kind, 1)
    BY <1>2 DEF Report
  <1>4. Cardinality(Reports(events', kind)) =
            Cardinality(Reports(events, kind)) + (IF e.kind = kind THEN 1 ELSE 0)
    <2>1. events \in Events
      BY DEF TypeOK, Events
    <2> QED
      BY <1>3, <2>1, ReportsPosted
  <1>5. owed'[callbacks[kind][p]] = owed[callbacks[kind][p]] + (IF kind = e.kind THEN 1 ELSE 0)
        /\ owed[callbacks[kind][p]] \in Int
    BY <1>1, <1>2, <1>3, OwedMoreOf
  <1>6. owed[callbacks[kind][p]] <= ToCome(kind, p)
    BY <1>1 DEF OwedIsToCome
  <1>7. ToCome(kind, p)' = ToCome(kind, p) + (IF kind = e.kind THEN 1 ELSE 0)
    BY <1>1, <1>4, ToComeType DEF ToCome, Ahead
  <1> QED
    BY <1>1, <1>5, <1>6, <1>7, ToComeType

\* The end of a connection: a report if it was open, and the walks that begin.
LEMMA EndReports ==
    ASSUME TypeOK, Vectors, NEW k, NEW n \in Nat, ReportEnd(k, n),
           NEW kind \in Kinds, NEW p \in DOMAIN callbacks[kind]
    PROVE  \E m \in 0..1 :
             /\ Cardinality(Reports(events', kind)) =
                    Cardinality(Reports(events, kind)) + (IF kind = "state" THEN m ELSE 0)
             /\ owed'[callbacks[kind][p]] =
                    owed[callbacks[kind][p]] + (IF kind = "state" THEN m + n ELSE 0)
  <1>0. events \in Events /\ Cardinality(Reports(events, kind)) \in Nat
    BY ToComeType DEF TypeOK, Events
  <1>1. CASE k # 0 /\ status[k] = "connected"
    <2>1. events' = Append(events, Event("state", k)) /\ owed' = OwedMore("state", 1 + n)
      BY <1>1 DEF ReportEnd
    <2>2. Cardinality(Reports(events', kind)) =
              Cardinality(Reports(events, kind)) + (IF kind = "state" THEN 1 ELSE 0)
      <3>1. Event("state", k).kind = "state"
        OBVIOUS
      <3> QED
        BY <1>0, <2>1, <3>1, ReportsPosted
    <2>3. owed'[callbacks[kind][p]] =
              owed[callbacks[kind][p]] + (IF kind = "state" THEN 1 + n ELSE 0)
      BY <2>1, OwedMoreOf
    <2> QED
      BY <2>2, <2>3
  <1>2. CASE ~(k # 0 /\ status[k] = "connected")
    <2>1. events' = events /\ owed' = OwedMore("state", n)
      BY <1>2 DEF ReportEnd
    <2>2. owed'[callbacks[kind][p]] =
              owed[callbacks[kind][p]] + (IF kind = "state" THEN 0 + n ELSE 0)
      BY <2>1, OwedMoreOf
    <2> QED
      BY <1>0, <2>1, <2>2
  <1> QED
    BY <1>1, <1>2

LEMMA ConnectOwed ==
    ASSUME TypeOK, Stages, Vectors, OwedIsToCome, alive, ~fault', ~disturbed',
           Connect \/ ConnectDone,
           NEW kind \in Kinds, NEW p \in DOMAIN callbacks'[kind]
    PROVE  owed'[callbacks'[kind][p]] <= ToCome(kind, p)'
  <1>1. UNCHANGED <<callbacks, disturbed>> /\ ~fault /\ ReportEnd(conn, 1) /\ ~Walking("user")
    BY DEF Connect, ConnectDone, Free, Stages
  <1>2. PICK s : walk' = [walk EXCEPT !["user"] = WalkOf("state", s)]
    BY DEF Connect, ConnectDone
  <1>3. PICK m \in 0..1 :
             /\ Cardinality(Reports(events', kind)) =
                    Cardinality(Reports(events, kind)) + (IF kind = "state" THEN m ELSE 0)
             /\ owed'[callbacks[kind][p]] =
                    owed[callbacks[kind][p]] + (IF kind = "state" THEN m + 1 ELSE 0)
    BY <1>1, EndReports
  <1>4. p \in Nat /\ owed[callbacks[kind][p]] \in Int
    <2>1. callbacks[kind] \in Seq(Callbacks) /\ owed \in [Callbacks -> Int]
      BY DEF TypeOK
    <2>2. p \in Nat /\ callbacks[kind][p] \in Callbacks
      BY <1>1, <2>1
    <2> QED
      BY <2>1, <2>2
  <1>5. /\ ~Ahead("user", kind, p)
        /\ kind = "state" => Ahead("user", kind, p)'
        /\ Ahead("library", kind, p)' <=> Ahead("library", kind, p)
    BY <1>1, <1>2, <1>4, WalkBegins
  <1>6. owed[callbacks[kind][p]] <= ToCome(kind, p)
    BY <1>1 DEF OwedIsToCome
  <1>7. Cardinality(Reports(events, kind)) \in Nat
    BY ToComeType
  <1>8. CASE kind = "state"
    <2>1. ToCome(kind, p)' = ToCome(kind, p) + m + 1
      BY <1>3, <1>5, <1>7, <1>8 DEF ToCome
    <2> QED
      BY <1>1, <1>3, <1>4, <1>6, <1>8, <2>1, ToComeType
  <1>9. CASE kind # "state"
    <2>1. ToCome(kind, p)' >= ToCome(kind, p) /\ ToCome(kind, p)' \in Nat
      BY <1>3, <1>5, <1>7, <1>9 DEF ToCome
    <2> QED
      BY <1>1, <1>3, <1>4, <1>6, <1>9, <2>1, ToComeType
  <1> QED
    BY <1>8, <1>9

LEMMA DisconnectOwed ==
    ASSUME TypeOK, Vectors, OwedIsToCome, ~fault', ~disturbed', Disconnect,
           NEW kind \in Kinds, NEW p \in DOMAIN callbacks'[kind]
    PROVE  owed'[callbacks'[kind][p]] <= ToCome(kind, p)'
  <1>1. UNCHANGED <<callbacks, walk>> /\ alive /\ ~fault /\ ~disturbed /\ ReportEnd(conn, 0)
    BY DEF Disconnect, Free
  <1>2. PICK m \in 0..1 :
             /\ Cardinality(Reports(events', kind)) =
                    Cardinality(Reports(events, kind)) + (IF kind = "state" THEN m ELSE 0)
             /\ owed'[callbacks[kind][p]] =
                    owed[callbacks[kind][p]] + (IF kind = "state" THEN m + 0 ELSE 0)
    BY <1>1, EndReports
  <1>3. owed[callbacks[kind][p]] <= ToCome(kind, p) /\ owed[callbacks[kind][p]] \in Int
    BY <1>1 DEF OwedIsToCome, TypeOK
  <1>4. ToCome(kind, p)' = ToCome(kind, p) + (IF kind = "state" THEN m ELSE 0)
    BY <1>1, <1>2, ToComeType DEF ToCome, Ahead
  <1> QED
    BY <1>1, <1>2, <1>3, <1>4, ToComeType

LEMMA HandleEventOwed ==
    ASSUME TypeOK, Vectors, OwedIsToCome, ~fault', ~disturbed', HandleEvent,
           NEW kind \in Kinds, NEW p \in DOMAIN callbacks'[kind]
    PROVE  owed'[callbacks'[kind][p]] <= ToCome(kind, p)'
  <1>1. /\ UNCHANGED <<callbacks, owed>> /\ alive /\ ~fault /\ ~disturbed
        /\ events # << >> /\ ~Walking("library") /\ events' = Tail(events)
    BY DEF HandleEvent
  <1>2. PICK s : walk' = [walk EXCEPT !["library"] = WalkOf(Head(events).kind, s)]
    BY DEF HandleEvent
  <1>3. events \in Events /\ Tail(events) \in Events /\ Head(events).kind \in Kinds
    <2>1. events \in Events
      BY DEF TypeOK, Events
    <2>2. Head(events) \in [kind : Kinds, conn : 1..MaxConnects] /\ Tail(events) \in Events
      BY <1>1, <2>1, HeadTailType DEF Events
    <2> QED
      BY <2>1, <2>2
  <1>4. Cardinality(Reports(events, kind)) <=
            Cardinality(Reports(events', kind)) + (IF Head(events).kind = kind THEN 1 ELSE 0)
    BY <1>1, <1>3, ReportsTaken
  <1>5. p \in Nat /\ owed[callbacks[kind][p]] \in Int
    <2>1. callbacks[kind] \in Seq(Callbacks) /\ owed \in [Callbacks -> Int]
      BY DEF TypeOK
    <2>2. p \in Nat /\ callbacks[kind][p] \in Callbacks
      BY <1>1, <2>1
    <2> QED
      BY <2>1, <2>2
  <1>6. /\ ~Ahead("library", kind, p)
        /\ kind = Head(events).kind => Ahead("library", kind, p)'
        /\ Ahead("user", kind, p)' <=> Ahead("user", kind, p)
    BY <1>1, <1>2, <1>3, <1>5, WalkBegins
  <1>7. owed[callbacks[kind][p]] <= ToCome(kind, p)
    BY <1>1 DEF OwedIsToCome
  <1>8. Cardinality(Reports(events, kind)) \in Nat /\ Cardinality(Reports(events', kind)) \in Nat
    BY <1>1, <1>3, ReportsFinite
  <1>9. ToCome(kind, p) <= ToCome(kind, p)' /\ ToCome(kind, p) \in Nat /\ ToCome(kind, p)' \in Nat
    BY <1>4, <1>6, <1>8 DEF ToCome
  <1> QED
    BY <1>1, <1>5, <1>7, <1>9

LEMMA OwedStep == IInv /\ Vectors /\ OwedIsToCome /\ [Next]_vars => OwedIsToCome'
  <1> SUFFICES ASSUME IInv, Vectors, OwedIsToCome, [Next]_vars, alive', ~fault', ~disturbed',
                      NEW kind \in Kinds, NEW p \in DOMAIN callbacks'[kind]
               PROVE  owed'[callbacks'[kind][p]] <= ToCome(kind, p)'
    BY DEF OwedIsToCome
  <1>0. TypeOK /\ Stages
    BY DEF IInv
  <1>1. alive
    BY DEF Next, vars, Application, OtherThread, EventThread, Register, Unregister,
           UnregisterBehindEnd, Disconnect, DestroyClient, CallNext, RawConnection,
           UseRawConnection, HandleEvent, HandleEventTooLate, Drop, Reconnect, GiveUp, Error,
           Connect, ConnectFails, ConnectDone, ConnectReturn
  <1>2. ASSUME UNCHANGED <<callbacks, owed, events, walk, fault, disturbed>>
        PROVE  owed'[callbacks'[kind][p]] <= ToCome(kind, p)'
    BY <1>1, <1>2 DEF OwedIsToCome, ToCome, Ahead
  <1>3. CASE UseRawConnection
    BY <1>2, <1>3 DEF UseRawConnection
  <1>4. CASE RawConnection \/ ConnectFails \/ ConnectReturn \/ UNCHANGED vars
    BY <1>2, <1>4 DEF RawConnection, ConnectFails, ConnectReturn, vars
  <1>5. ASSUME NEW k \in 1..MaxConnects, GiveUp(k)
        PROVE  owed'[callbacks'[kind][p]] <= ToCome(kind, p)'
    BY <1>2, <1>5 DEF GiveUp
  <1>6. CASE HandleEventTooLate \/ DestroyClient
    BY <1>1, <1>6 DEF HandleEventTooLate, DestroyClient
  <1>7. ASSUME NEW c \in Callbacks, UnregisterBehindEnd(c) PROVE FALSE
    BY <1>7 DEF UnregisterBehindEnd
  <1> QED
    BY <1>0, <1>1, <1>3, <1>4, <1>5, <1>6, <1>7, RegisterOwed, UnregisterOwed, CallNextOwed,
       NetworkOwed, ConnectOwed, DisconnectOwed, HandleEventOwed
    DEF Next, Application, OtherThread, EventThread

\* No report is lost, however many drops, reconnections, errors, connects and
\* disconnects there are and whichever thread walks: once all is quiet each
\* callback has been called for every event posted and every walk begun while it
\* was in its vector, unless the registry was changed under a walk.
THEOREM ReportsAreHeard == Spec => []EveryReportIsHeard
  <1>1. Init => OwedIsToCome
    BY DEF Init, OwedIsToCome
  <1>2. TypeOK /\ OwedIsToCome => EveryReportIsHeard
    <2> SUFFICES ASSUME TypeOK, OwedIsToCome, alive, ~fault, ~disturbed, Quiet,
                        NEW kind \in Kinds, NEW c \in ToSet(callbacks[kind])
                 PROVE  owed[c] <= 0
      BY DEF EveryReportIsHeard
    <2>1. PICK p \in DOMAIN callbacks[kind] : callbacks[kind][p] = c
      BY DEF ToSet
    <2>2. p \in Nat /\ walk \in [Threads -> Record]
      BY DEF TypeOK, Record
    <2>3. \A t \in Threads : ~Ahead(t, kind, p)
      BY <2>2 DEF Quiet, Walking, Ahead, Record
    <2>4. Cardinality(Reports(events, kind)) = 0
      <3>1. Reports(events, kind) = {}
        BY DEF Quiet, Reports
      <3> QED
        BY <3>1, FS_EmptySet
    <2>5. ToCome(kind, p) = 0
      BY <2>3, <2>4 DEF ToCome
    <2> QED
      BY <2>1, <2>5 DEF OwedIsToCome
  <1> QED
    BY <1>1, <1>2, OwedStep, Invariance, TypeCorrect, VectorsHold, PTL DEF Spec

-----------------------------------------------------------------------------
(* The status callbacks know: what they were told last is the status of the  *)
(* connection, or an event about it is still to be handled, or a walk that   *)
(* tells it has still to come by.                                            *)

NewsToCome == \E i \in DOMAIN events : events[i] = Event("state", conn)

WalksTellTruth ==
    \A t \in Threads : Walking(t) /\ walk[t].kind = "state" => walk[t].status = status[conn]

AllToldOrAhead ==
    \A p \in DOMAIN callbacks["state"] :
        UpToDate(callbacks["state"][p]) \/ \E t \in Threads : Ahead(t, "state", p)

\* The condition of HeardIsTrue without Quiet.
Watched == alive /\ ~fault /\ ~disturbed /\ fresh /\ conn # 0 /\ status[conn] # "closed"

StatusIsToCome ==
    /\ connecting = "start" => ~fresh
    /\ Watched => NewsToCome \/ (WalksTellTruth /\ AllToldOrAhead)

LEMMA RegisterStatus ==
    ASSUME TypeOK, Vectors, StatusIsToCome, Watched', NEW c \in Callbacks, Register(c)
    PROVE  NewsToCome' \/ (WalksTellTruth /\ AllToldOrAhead)'
  <1> DEFINE k == KindOf[c]
             s == callbacks[k]
  <1>1. /\ callbacks' = [callbacks EXCEPT ![k] = Append(s, c)] /\ c \notin ToSet(s)
        /\ UNCHANGED <<heard, events, walk, conn, status, fresh>> /\ Watched
    BY DEF Register, Free, Watched
  <1>2. callbacks \in [Kinds -> Seq(Callbacks)] /\ k \in Kinds
    BY DEF TypeOK
  <1>3. CASE NewsToCome
    BY <1>1, <1>3 DEF NewsToCome
  <1>4. CASE WalksTellTruth /\ AllToldOrAhead
    <2>1. WalksTellTruth'
      BY <1>1, <1>4 DEF WalksTellTruth, Walking
    <2>2. ASSUME NEW p \in DOMAIN callbacks'["state"]
          PROVE  UpToDate(callbacks["state"][p])' \/ \E t \in Threads : Ahead(t, "state", p)'
      <3>1. CASE p \in DOMAIN callbacks["state"]
        <4>1. callbacks'["state"][p] = callbacks["state"][p]
          <5>1. callbacks'["state"] \in {callbacks["state"], Append(callbacks["state"], c)}
            BY <1>1, <1>2
          <5>2. callbacks["state"] \in Seq(Callbacks) /\ p \in 1..Len(callbacks["state"])
            <6>1. callbacks["state"] \in Seq(Callbacks)
              BY <1>2
            <6> QED
              BY <3>1, <6>1
          <5> QED
            BY <5>1, <5>2, AppendType
        <4> QED
          BY <1>1, <1>4, <3>1, <4>1 DEF AllToldOrAhead, UpToDate, Ahead
      <3>2. CASE p \notin DOMAIN callbacks["state"]
        <4>1. k = "state" /\ callbacks'["state"][p] = c
          BY <1>1, <1>2, <3>2
        <4>2. heard[c] = "nothing"
          BY <1>1 DEF Vectors, OthersHearNothing
        <4> QED
          BY <1>1, <4>1, <4>2 DEF UpToDate
      <3> QED
        BY <3>1, <3>2
    <2> QED
      BY <2>1, <2>2 DEF AllToldOrAhead
  <1> QED
    BY <1>1, <1>3, <1>4 DEF StatusIsToCome

LEMMA UnregisterStatus ==
    ASSUME TypeOK, Stages, Vectors, StatusIsToCome, Watched', NEW c \in Callbacks, Unregister(c)
    PROVE  NewsToCome' \/ (WalksTellTruth /\ AllToldOrAhead)'
  <1>1. UNCHANGED <<events, walk, conn, status, fresh>> /\ Watched /\ ~disturbed'
    BY DEF Unregister, Free, Watched
  <1>2. CASE NewsToCome
    BY <1>1, <1>2 DEF NewsToCome
  <1>3. CASE WalksTellTruth /\ AllToldOrAhead
    <2>1. WalksTellTruth'
      BY <1>1, <1>3 DEF WalksTellTruth, Walking
    <2>2. ASSUME NEW p \in DOMAIN callbacks'["state"]
          PROVE  UpToDate(callbacks["state"][p])' \/ \E t \in Threads : Ahead(t, "state", p)'
      <3>1. PICK q \in DOMAIN callbacks["state"] :
               /\ heard'[callbacks'["state"][p]] = heard[callbacks["state"][q]]
               /\ \A t \in Threads : Ahead(t, "state", q) => Ahead(t, "state", p)'
        BY <1>1, UnregisterLeaves
      <3>2. UpToDate(callbacks["state"][q]) \/ \E t \in Threads : Ahead(t, "state", q)
        BY <1>3 DEF AllToldOrAhead
      <3> QED
        BY <1>1, <3>1, <3>2 DEF UpToDate
    <2> QED
      BY <2>1, <2>2 DEF AllToldOrAhead
  <1> QED
    BY <1>1, <1>2, <1>3 DEF StatusIsToCome

LEMMA CallNextStatus ==
    ASSUME TypeOK, Vectors, StatusIsToCome, Watched', NEW t \in Threads, CallNext(t)
    PROVE  NewsToCome' \/ (WalksTellTruth /\ AllToldOrAhead)'
  <1>1. UNCHANGED <<events, conn, status, fresh, callbacks>> /\ ~fault /\ Watched /\ ~fault'
        /\ Walking(t)
    <2>1. UNCHANGED <<alive, events, conn, status, fresh, callbacks, disturbed>> /\ ~fault
          /\ Walking(t)
      BY DEF CallNext
    <2> QED
      BY <2>1 DEF Watched
  <1>2. CASE NewsToCome
    BY <1>1, <1>2 DEF NewsToCome
  <1>3. CASE WalksTellTruth /\ AllToldOrAhead
    <2>1. WalksTellTruth'
      <3> SUFFICES ASSUME NEW u \in Threads, Walking(u)', walk'[u].kind = "state"
                   PROVE  walk'[u].status = status[conn]
        BY <1>1 DEF WalksTellTruth
      <3>1. walk'[u] = NoWalk \/ walk'[u] = walk[u]
            \/ (u = t /\ walk'[u] = [walk[u] EXCEPT !.next = @ + 1])
        BY DEF CallNext, TypeOK
      <3>2. walk'[u] # NoWalk
        BY DEF Walking, NoWalk
      <3>3. walk[u] \in Record
        BY DEF TypeOK, Record
      <3>4. walk'[u].kind = walk[u].kind /\ walk'[u].status = walk[u].status /\ Walking(u)
        BY <1>1, <3>1, <3>2, <3>3 DEF Record, Walking
      <3> QED
        BY <1>3, <3>4 DEF WalksTellTruth
    <2>2. ASSUME NEW p \in DOMAIN callbacks["state"]
          PROVE  UpToDate(callbacks["state"][p])' \/ \E u \in Threads : Ahead(u, "state", p)'
      <3>0. p \in Nat
        BY DEF TypeOK
      <3>1. CASE "state" = walk[t].kind /\ p = walk[t].next
        <4>1. heard'[callbacks["state"][p]] = walk[t].status
          BY <1>1, <3>1, CallNextReaches
        <4>2. walk[t].status = status[conn]
          BY <1>1, <1>3, <3>1 DEF WalksTellTruth
        <4> QED
          BY <1>1, <4>1, <4>2 DEF UpToDate
      <3>2. CASE ~("state" = walk[t].kind /\ p = walk[t].next)
        <4>1. heard'[callbacks["state"][p]] = heard[callbacks["state"][p]]
          BY <1>1, <3>2, CallNextReaches
        <4>2. \A u \in Threads : Ahead(u, "state", p)' <=> Ahead(u, "state", p)
          BY <3>0, <3>2, CallNextAhead
        <4> QED
          BY <1>1, <1>3, <4>1, <4>2 DEF AllToldOrAhead, UpToDate
      <3> QED
        BY <3>1, <3>2
    <2> QED
      BY <1>1, <2>1, <2>2 DEF AllToldOrAhead
  <1> QED
    BY <1>1, <1>2, <1>3 DEF StatusIsToCome

LEMMA NetworkStatus ==
    ASSUME TypeOK, StatusIsToCome, Watched', NEW k \in 1..MaxConnects,
           Drop(k) \/ Reconnect(k) \/ GiveUp(k) \/ Error(k)
    PROVE  NewsToCome' \/ (WalksTellTruth /\ AllToldOrAhead)'
  <1>1. /\ UNCHANGED <<alive, conn, fresh, disturbed, walk, callbacks, heard>> /\ ~fault
        /\ status \in [1..MaxConnects -> {"connected", "reconnecting", "closed"}]
        /\ conn \in 1..MaxConnects /\ events \in Events
    <2>1. UNCHANGED <<alive, conn, fresh, disturbed, walk, callbacks, heard>> /\ ~fault
      BY DEF Drop, Reconnect, GiveUp, Error, Cause
    <2>2. conn \in 0..made /\ made \in 0..MaxConnects /\ conn # 0
      BY <2>1 DEF TypeOK, Watched
    <2> QED
      BY <2>1, <2>2 DEF TypeOK, Events
  <1>2. events' = events \/ \E e : events' = Append(events, e)
    BY DEF Drop, Reconnect, GiveUp, Error, Report
  <1>3. \A i \in DOMAIN events : i \in DOMAIN events' /\ events'[i] = events[i]
    <2>1. \A e : DOMAIN events \subseteq DOMAIN Append(events, e)
                /\ \A i \in DOMAIN events : Append(events, e)[i] = events[i]
      BY <1>1 DEF Events
    <2> QED
      BY <1>2, <2>1
  <1>4. CASE status'[conn] = status[conn]
    <2>1. Watched
      BY <1>1, <1>4 DEF Watched
    <2>2. NewsToCome => NewsToCome'
      BY <1>1, <1>3 DEF NewsToCome
    <2>3. WalksTellTruth /\ AllToldOrAhead => (WalksTellTruth /\ AllToldOrAhead)'
      BY <1>1, <1>4 DEF WalksTellTruth, AllToldOrAhead, Walking, Ahead, UpToDate
    <2> QED
      BY <2>1, <2>2, <2>3 DEF StatusIsToCome
  <1>5. CASE status'[conn] # status[conn]
    <2>1. k = conn /\ ~Error(k)
      BY <1>1, <1>5 DEF Drop, Reconnect, GiveUp, Error
    <2>2. ~GiveUp(k)
      BY <1>1, <2>1 DEF GiveUp, Watched
    <2>3. events' = Append(events, Event("state", conn))
      BY <2>1, <2>2 DEF Drop, Reconnect, Report
    <2>4. Len(events) + 1 \in DOMAIN events' /\ events'[Len(events) + 1] = Event("state", conn)
      BY <1>1, <2>3 DEF Events
    <2> QED
      BY <1>1, <2>4 DEF NewsToCome
  <1> QED
    BY <1>4, <1>5

LEMMA ConnectDoneStatus ==
    ASSUME TypeOK, Stages, Watched', ConnectDone
    PROVE  (WalksTellTruth /\ AllToldOrAhead)'
  <1>1. /\ conn' = made + 1 /\ status' = [Closed(conn) EXCEPT ![made + 1] = "connected"]
        /\ walk' = [walk EXCEPT !["user"] = WalkOf("state", "connected")]
        /\ ~Walking("user") /\ ~Walking("library") /\ UNCHANGED callbacks
    BY DEF ConnectDone, Watched
  <1>2. made + 1 \in 1..MaxConnects
    BY DEF ConnectDone, Stages, TypeOK
  <1>3. status'[conn'] = "connected"
    BY <1>1, <1>2 DEF Closed
  <1>4. /\ walk \in [Threads -> Record]
        /\ walk'["user"] = WalkOf("state", "connected") /\ walk'["library"] = walk["library"]
    BY <1>1 DEF TypeOK, Record
  <1>5. WalksTellTruth'
    BY <1>1, <1>3, <1>4 DEF WalksTellTruth, Walking, WalkOf
  <1>6. \A p \in DOMAIN callbacks["state"] : Ahead("user", "state", p)'
    BY <1>1, WalkBegins
  <1> QED
    BY <1>1, <1>5, <1>6 DEF AllToldOrAhead

LEMMA HandleEventStatus ==
    ASSUME TypeOK, Stages, StatusIsToCome, Watched', HandleEvent
    PROVE  NewsToCome' \/ (WalksTellTruth /\ AllToldOrAhead)'
  <1> DEFINE e == Head(events)
  <1>1. /\ UNCHANGED <<alive, fault, disturbed, conn, status, callbacks, heard, connecting>>
        /\ events # << >> /\ ~Walking("library") /\ events' = Tail(events)
        /\ walk' = [walk EXCEPT !["library"] =
                        WalkOf(e.kind, IF e.kind = "state" THEN status[e.conn] ELSE "error")]
        /\ fresh' = IF e.kind = "state" THEN e.conn = conn /\ connecting = "no" ELSE fresh
    BY DEF HandleEvent
  <1>2. events \in Events /\ e \in [kind : Kinds, conn : 1..MaxConnects] /\ e = events[1]
    <2>1. events \in Events
      BY DEF TypeOK, Events
    <2>2. e \in [kind : Kinds, conn : 1..MaxConnects]
      BY <1>1, <2>1, HeadTailType DEF Events
    <2>3. e = events[1]
      BY <1>1, <2>1 DEF Events
    <2> QED
      BY <2>1, <2>2, <2>3
  <1>3. walk \in [Threads -> Record]
    BY DEF TypeOK, Record
  <1>4. /\ walk'["library"] = WalkOf(e.kind, IF e.kind = "state" THEN status[e.conn] ELSE "error")
        /\ walk'["user"] = walk["user"]
    BY <1>1, <1>3
  <1>5. CASE e.kind = "state"
    <2>1. fresh' = (e.conn = conn /\ connecting = "no")
      BY <1>1, <1>5
    <2>2. e.conn = conn /\ connecting = "no"
      BY <2>1 DEF Watched
    <2>3. ~Walking("user")
      BY <2>2 DEF Stages
    <2>4. WalksTellTruth'
      BY <1>1, <1>4, <1>5, <2>2, <2>3 DEF WalksTellTruth, Walking, WalkOf
    <2>5. \A p \in DOMAIN callbacks["state"] : Ahead("library", "state", p)'
      BY <1>1, <1>5, WalkBegins
    <2> QED
      BY <1>1, <2>4, <2>5 DEF AllToldOrAhead
  <1>6. CASE e.kind = "error"
    <2>1. Watched
      BY <1>1, <1>6 DEF Watched
    <2>2. CASE NewsToCome
      <3>1. PICK i \in DOMAIN events : events[i] = Event("state", conn)
        BY <2>2 DEF NewsToCome
      <3>2. i \in 2..Len(events)
        BY <1>2, <1>6, <3>1 DEF Events
      <3>3. i - 1 \in DOMAIN Tail(events) /\ Tail(events)[i - 1] = events[i]
        BY <1>2, <3>2 DEF Events
      <3> QED
        BY <1>1, <3>1, <3>3 DEF NewsToCome
    <2>3. CASE WalksTellTruth /\ AllToldOrAhead
      <3>1. WalksTellTruth'
        BY <1>1, <1>4, <1>6, <2>3 DEF WalksTellTruth, Walking, WalkOf
      <3>2. ASSUME NEW p \in DOMAIN callbacks["state"]
            PROVE  UpToDate(callbacks["state"][p])' \/ \E t \in Threads : Ahead(t, "state", p)'
        <4>1. p \in Nat
          BY DEF TypeOK
        <4>2. ~Ahead("library", "state", p) /\ (Ahead("user", "state", p)' <=> Ahead("user", "state", p))
          BY <1>1, <1>6, <4>1, WalkBegins
        <4>3. UpToDate(callbacks["state"][p]) \/ Ahead("user", "state", p)
          BY <2>3, <4>2 DEF AllToldOrAhead
        <4> QED
          BY <1>1, <4>2, <4>3 DEF UpToDate
      <3> QED
        BY <1>1, <3>1, <3>2 DEF AllToldOrAhead
    <2> QED
      BY <2>1, <2>2, <2>3 DEF StatusIsToCome
  <1> QED
    BY <1>2, <1>5, <1>6

LEMMA FreshStep == TypeOK /\ StatusIsToCome /\ [Next]_vars => (connecting = "start" => ~fresh)'
  <1> SUFFICES ASSUME TypeOK, StatusIsToCome, [Next]_vars, connecting' = "start" PROVE ~fresh'
    OBVIOUS
  <1>1. CASE Connect
    BY <1>1 DEF Connect
  <1>2. CASE HandleEvent
    <2>1. connecting = "start" /\ ~fresh
      BY <1>2 DEF HandleEvent, StatusIsToCome
    <2> QED
      BY <1>2, <2>1, Zenon DEF HandleEvent
  <1>3. CASE ConnectDone \/ ConnectFails \/ ConnectReturn
    BY <1>3 DEF ConnectDone, ConnectFails, ConnectReturn
  <1>4. CASE UNCHANGED <<connecting, fresh>>
    BY <1>4 DEF StatusIsToCome
  <1> QED
    BY <1>1, <1>2, <1>3, <1>4
    DEF Next, vars, Application, OtherThread, EventThread, Register, Unregister,
        UnregisterBehindEnd, Disconnect, DestroyClient, CallNext, RawConnection,
        UseRawConnection, HandleEventTooLate, Drop, Reconnect, GiveUp, Error

LEMMA StatusStep == IInv /\ Vectors /\ StatusIsToCome /\ [Next]_vars => StatusIsToCome'
  <1> SUFFICES ASSUME IInv, Vectors, StatusIsToCome, [Next]_vars, Watched'
               PROVE  NewsToCome' \/ (WalksTellTruth /\ AllToldOrAhead)'
    BY FreshStep DEF StatusIsToCome, IInv
  <1>0. TypeOK /\ Stages
    BY DEF IInv
  <1>1. ASSUME UNCHANGED <<callbacks, heard, events, walk, conn, status>>, Watched
        PROVE  NewsToCome' \/ (WalksTellTruth /\ AllToldOrAhead)'
    BY <1>1 DEF StatusIsToCome, NewsToCome, WalksTellTruth, AllToldOrAhead, Walking, Ahead, UpToDate
  <1>2. CASE UseRawConnection
    BY <1>1, <1>2 DEF UseRawConnection, Watched
  <1>3. CASE RawConnection \/ ConnectFails \/ ConnectReturn \/ UNCHANGED vars
    <2>1. UNCHANGED <<alive, fault, disturbed, fresh, callbacks, heard, events, walk, conn, status>>
      BY <1>3 DEF RawConnection, ConnectFails, ConnectReturn, vars
    <2> QED
      BY <1>1, <2>1 DEF Watched
  <1>4. CASE HandleEventTooLate \/ DestroyClient \/ Disconnect \/ Connect
    BY <1>4 DEF HandleEventTooLate, DestroyClient, Disconnect, Connect, Watched
  <1>5. ASSUME NEW c \in Callbacks, UnregisterBehindEnd(c) PROVE FALSE
    BY <1>5 DEF UnregisterBehindEnd, Watched
  <1> QED
    BY <1>0, <1>2, <1>3, <1>4, <1>5, RegisterStatus, UnregisterStatus, CallNextStatus,
       NetworkStatus, ConnectDoneStatus, HandleEventStatus
    DEF Next, Application, OtherThread, EventThread

\* Once all is quiet every status callback that was told anything was last told
\* the status the open connection has, through any drops and reconnections in
\* between and though a handler asks for the status of the moment.
THEOREM LastHeardIsTrue == Spec => []HeardIsTrue
  <1>1. Init => StatusIsToCome
    BY DEF Init, StatusIsToCome, Watched
  <1>2. TypeOK /\ StatusIsToCome => HeardIsTrue
    <2> SUFFICES ASSUME TypeOK, StatusIsToCome, Watched, Quiet,
                        NEW c \in ToSet(callbacks["state"])
                 PROVE  UpToDate(c)
      BY DEF HeardIsTrue, Watched
    <2>1. PICK p \in DOMAIN callbacks["state"] : callbacks["state"][p] = c
      BY DEF ToSet
    <2>2. p \in Nat /\ walk \in [Threads -> Record]
      BY DEF TypeOK, Record
    <2>3. \A t \in Threads : ~Ahead(t, "state", p)
      BY <2>2 DEF Quiet, Walking, Ahead, Record
    <2>4. ~NewsToCome
      BY DEF Quiet, NewsToCome
    <2> QED
      BY <2>1, <2>3, <2>4 DEF StatusIsToCome, AllToldOrAhead
  <1> QED
    BY <1>1, <1>2, StatusStep, Invariance, TypeCorrect, VectorsHold, PTL DEF Spec
=============================================================================
