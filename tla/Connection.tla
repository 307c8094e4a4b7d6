------------------------------ MODULE Connection ------------------------------
(***************************************************************************)
(* The connection of NatsMq::Client and its callbacks                      *)
(* (src/src/core/Connection.cpp, src/src/core/Client.cpp).                 *)
(*                                                                         *)
(* The application's thread connects, disconnects, registers and           *)
(* unregisters.  Callbacks are called on that thread while it connects and *)
(* on the library's event thread when the connection drops, comes back or  *)
(* reports an error.  Both walk the same vectors without a lock, with the  *)
(* end they found when they began.  Other threads publish, request and     *)
(* subscribe meanwhile, with the natsConnection they find at first.        *)
(*                                                                         *)
(* A use of a destroyed element or object is a fault, after which nothing  *)
(* is said about the process.                                              *)
(***************************************************************************)
EXTENDS Integers, Sequences, FiniteSets, SequencesExt

CONSTANTS
    Callbacks,     \* callbacks the application registers
    KindOf,        \* callback -> "state" or "error"
    Options,       \* the options connect is called with
    MaxConnects,   \* bound: connections made
    MaxEvents      \* bound: drops, reconnections and errors

Kinds == {"state", "error"}
Threads == {"user", "library"}

\* Of the options, those that decide what becomes of a connection that is lost.
ConnectionOptions == [allowRecconect : BOOLEAN, maxReconnect : Int]

\* A connection of this class is never disconnected or draining.
ConnectionStatus == {"disconnected", "connecting", "connected", "closed",
                     "reconnecting", "drainingSubs", "drainingPubs"}

ASSUME KindOfAssumption == KindOf \in [Callbacks -> Kinds]
ASSUME OptionsAssumption == Options \subseteq ConnectionOptions
ASSUME BoundsAssumption == MaxConnects \in Nat /\ MaxEvents \in Nat

VARIABLES
    alive,      \* the Client and its Connection exist
    conn,       \* _connection: the number of its natsConnection, 0 for null
    made,       \* natsConnections made so far
    status,     \* natsConnection -> its state in the library
    options,    \* natsConnection -> the library's copy of its options, while it exists
    events,     \* events posted to the event thread, oldest first
    posted,     \* how many the network has caused
    callbacks,  \* kind -> the vector of its callbacks
    handle,     \* callback -> the index register returned, while it is held
    connecting, \* the application is in connect: "no", "start", "done"
    walk,       \* thread -> the walk of stateChanged or errorOccured it is in
    heard,      \* callback -> the status it was last called with
    owed,       \* history: callback -> reports and walks begun minus calls received
    fresh,      \* history: the last state walk begun was about conn, and alone
    moved,      \* history: callbacks that moved up when another was erased
    shifted,    \* history: an unregister did not find its callback
    disturbed,  \* history: a vector changed during a walk of it
    borrowed,   \* what another thread has of the natsConnection: "nothing", "held", "dangling"
    fault       \* destroyed memory was used

network == <<conn, made, status, options, events, posted>>
registry == <<callbacks, handle>>
hearing == <<heard, owed, fresh>>
flags == <<moved, shifted, disturbed>>
vars == <<alive, network, registry, connecting, walk, hearing, flags, borrowed, fault>>

NoHandle == -1
Held(c) == handle[c] # NoHandle

CreateNatsOptions(o) == [AllowReconnect |-> o.allowRecconect, MaxReconnect |-> o.maxReconnect]
NoOptions == CreateNatsOptions([allowRecconect |-> FALSE, maxReconnect |-> 0])

NoWalk == [kind |-> "state", status |-> "nothing", next |-> 1, end |-> 0]
Walking(t) == walk[t].next <= walk[t].end
Quiet == events = << >> /\ connecting = "no" /\ \A t \in Threads : ~Walking(t)

Init ==
    /\ alive = TRUE
    /\ conn = 0 /\ made = 0 /\ posted = 0
    /\ status = [k \in 1..MaxConnects |-> "closed"]
    /\ options = [k \in 1..MaxConnects |-> NoOptions]
    /\ events = << >>
    /\ callbacks = [k \in Kinds |-> << >>]
    /\ handle = [c \in Callbacks |-> NoHandle]
    /\ connecting = "no"
    /\ walk = [t \in Threads |-> NoWalk]
    /\ heard = [c \in Callbacks |-> "nothing"]
    /\ owed = [c \in Callbacks |-> 0]
    /\ fresh = FALSE /\ moved = {} /\ shifted = FALSE /\ disturbed = FALSE /\ fault = FALSE
    /\ borrowed = "nothing"

-----------------------------------------------------------------------------
(* registerConnectionCallback and its three siblings. *)

\* The application's thread is not inside another call of the client.
Free == alive /\ ~fault /\ connecting = "no"

\* The event thread walks the vector that is about to change.
Disturbs(kind) == Walking("library") /\ walk["library"].kind = kind

\* Mutant of NewHandle: the size instead of the last index.
NewHandleSize(kind) == Len(callbacks[kind]) + 1
NewHandle(kind) == Len(callbacks[kind])

\* push_back may move the elements to other memory.
Register(c) ==
    LET kind == KindOf[c]
    IN  /\ Free
        /\ ~Held(c)
        /\ c \notin ToSet(callbacks[kind])
        /\ callbacks' = [callbacks EXCEPT ![kind] = Append(@, c)]
        /\ handle' = [handle EXCEPT ![c] = NewHandle(kind)]
        /\ disturbed' = (disturbed \/ Disturbs(kind))
        /\ fault' \in IF Disturbs(kind) THEN BOOLEAN ELSE {FALSE}
        /\ moved' = moved \ {c}
        /\ UNCHANGED <<alive, network, connecting, walk, hearing, shifted, borrowed>>

\* erase(begin() + idx): what was behind moves up.
Unregister(c) ==
    LET kind == KindOf[c]
        idx == handle[c] + 1
        erased == callbacks[kind][idx]
    IN  /\ Free
        /\ Held(c)
        /\ idx <= Len(callbacks[kind])
        /\ callbacks' = [callbacks EXCEPT ![kind] = RemoveAt(@, idx)]
        /\ handle' = [handle EXCEPT ![c] = NoHandle]
        /\ heard' = [heard EXCEPT ![erased] = "nothing"]
        /\ owed' = [owed EXCEPT ![erased] = 0]
        /\ moved' = moved \cup {callbacks[kind][j] : j \in idx + 1..Len(callbacks[kind])}
        /\ shifted' = (shifted \/ erased # c)
        /\ disturbed' = (disturbed \/ Disturbs(kind))
        /\ UNCHANGED <<alive, network, connecting, walk, fresh, borrowed, fault>>

\* The handle is behind the end: erase does not say what happens.
UnregisterBehindEnd(c) ==
    /\ Free
    /\ Held(c)
    /\ handle[c] + 1 > Len(callbacks[KindOf[c]])
    /\ handle' = [handle EXCEPT ![c] = NoHandle]
    /\ shifted' = TRUE
    /\ fault' = TRUE
    /\ UNCHANGED <<alive, network, callbacks, connecting, walk, hearing,
                   moved, disturbed, borrowed>>

-----------------------------------------------------------------------------
(* stateChanged and errorOccured. *)

\* The callbacks of a kind have n more calls to expect.
OwedMore(kind, n) == [c \in Callbacks |->
    IF c \in ToSet(callbacks[kind]) THEN owed[c] + n ELSE owed[c]]

\* Mutants of WalkOf: the walk ends before the last callback, or behind it.
WalkButLast(kind, s) ==
    [kind |-> kind, status |-> s, next |-> 1, end |-> Len(callbacks[kind]) - 1]
WalkBehindEnd(kind, s) ==
    [kind |-> kind, status |-> s, next |-> 1, end |-> Len(callbacks[kind]) + 1]

\* A walk through the callbacks of a kind.
WalkOf(kind, s) ==
    [kind |-> kind, status |-> s, next |-> 1, end |-> Len(callbacks[kind])]

\* The next callback of the walk is called; an element that is gone, or a
\* vector that is, must not be.
CallNext(t) ==
    LET w == walk[t]
        cs == callbacks[w.kind]
    IN  /\ ~fault
        /\ Walking(t)
        /\ walk' = [walk EXCEPT ![t] = IF w.next = w.end THEN NoWalk
                                         ELSE [w EXCEPT !.next = @ + 1]]
        /\ IF alive /\ w.next <= Len(cs)
           THEN /\ heard' = [heard EXCEPT ![cs[w.next]] = w.status]
                /\ owed' = [owed EXCEPT ![cs[w.next]] = @ - 1]
                /\ UNCHANGED fault
           ELSE /\ fault' = TRUE
                /\ UNCHANGED <<heard, owed>>
        /\ UNCHANGED <<alive, network, registry, connecting, fresh, flags, borrowed>>

-----------------------------------------------------------------------------
(* connect and disconnect, on the application's thread. *)

Event(kind, k) == [kind |-> kind, conn |-> k]

Report(e) ==
    /\ events' = Append(events, e)
    /\ owed' = OwedMore(e.kind, 1)

\* natsConnection_Destroy reports the end of an open socket as a disconnection;
\* that of a connection that was reconnecting has been reported before.  Besides,
\* the caller begins so many walks of its own.
ReportEnd(k, walks) ==
    IF k # 0 /\ status[k] = "connected"
    THEN /\ events' = Append(events, Event("state", k))
         /\ owed' = OwedMore("state", 1 + walks)
    ELSE /\ UNCHANGED events
         /\ owed' = OwedMore("state", walks)

Closed(k) == [j \in 1..MaxConnects |-> IF j = k THEN "closed" ELSE status[j]]
OptionsWithout(k) == [j \in 1..MaxConnects |-> IF j = k THEN NoOptions ELSE options[j]]

\* What another thread holds of the connection that ends is good no more.
Overtake == borrowed' = IF borrowed = "held" THEN "dangling" ELSE borrowed

\* Client::connect disconnects first, but only if connected.
Status == IF conn = 0 THEN "closed" ELSE status[conn]
DisconnectsFirst == Status = "connected"

Connect ==
    /\ Free
    /\ made < MaxConnects
    /\ IF DisconnectsFirst
       THEN /\ status' = Closed(conn)
            /\ conn' = 0
            /\ Overtake
       ELSE UNCHANGED <<status, conn, borrowed>>
    /\ ReportEnd(conn, 1)
    /\ LET kept == IF DisconnectsFirst THEN OptionsWithout(conn) ELSE options
       IN  \E o \in Options : options' = [kept EXCEPT ![made + 1] = CreateNatsOptions(o)]
    /\ connecting' = "start"
    /\ walk' = [walk EXCEPT !["user"] = WalkOf("state", "connecting")]
    /\ fresh' = FALSE
    /\ UNCHANGED <<alive, made, posted, registry, heard, flags, fault>>

\* natsConnection_Connect throws.
ConnectFails ==
    /\ ~fault
    /\ connecting = "start" /\ ~Walking("user")
    /\ connecting' = "no"
    /\ UNCHANGED <<alive, network, registry, walk, hearing, flags, borrowed, fault>>

\* The new natsConnection replaces the old one, and the callbacks are told.
ConnectDone ==
    LET k == made + 1
    IN  /\ ~fault
        /\ connecting = "start" /\ ~Walking("user")
        /\ connecting' = "done"
        /\ made' = k /\ conn' = k
        /\ status' = [Closed(conn) EXCEPT ![k] = "connected"]
        /\ options' = OptionsWithout(conn)
        /\ ReportEnd(conn, 1) /\ Overtake
        /\ walk' = [walk EXCEPT !["user"] = WalkOf("state", "connected")]
        /\ fresh' = ~Walking("library")
        /\ UNCHANGED <<alive, posted, registry, heard, flags, fault>>

ConnectReturn ==
    /\ ~fault
    /\ connecting = "done" /\ ~Walking("user")
    /\ connecting' = "no"
    /\ UNCHANGED <<alive, network, registry, walk, hearing, flags, borrowed, fault>>

Disconnect ==
    /\ Free
    /\ conn # 0
    /\ status' = Closed(conn) /\ options' = OptionsWithout(conn)
    /\ ReportEnd(conn, 0) /\ Overtake
    /\ conn' = 0
    /\ UNCHANGED <<alive, made, posted, registry, connecting, walk, heard, fresh,
                   flags, fault>>

\* The Client goes with its vectors; nobody waits for the event thread.
DestroyClient ==
    /\ Free
    /\ status' = Closed(conn) /\ options' = OptionsWithout(conn)
    /\ ReportEnd(conn, 0) /\ Overtake
    /\ alive' = FALSE
    /\ conn' = 0
    /\ UNCHANGED <<made, posted, registry, connecting, walk, heard, fresh,
                   flags, fault>>

\* Another thread publishes, requests or subscribes: it takes the natsConnection
\* out of its unique_ptr and then calls the library with it.
\* Bound: it takes the first connection only, while nothing else goes on.
RawConnection ==
    /\ alive /\ ~fault
    /\ conn = 1 /\ borrowed = "nothing"
    /\ Quiet
    /\ borrowed' = "held"
    /\ UNCHANGED <<alive, network, registry, connecting, walk, hearing, flags, fault>>

UseRawConnection ==
    /\ ~fault /\ borrowed # "nothing"
    /\ IF borrowed = "held"
       THEN borrowed' = "nothing" /\ UNCHANGED fault
       ELSE fault' = TRUE /\ UNCHANGED borrowed
    /\ UNCHANGED <<alive, network, registry, connecting, walk, hearing, flags>>

-----------------------------------------------------------------------------
(* The library. *)

Cause == ~fault /\ posted < MaxEvents /\ posted' = posted + 1

\* The server is lost; a connection that may not reconnect is closed by that.
Drop(k) ==
    /\ Cause
    /\ status[k] = "connected"
    /\ status' = [status EXCEPT ![k] = IF options[k].AllowReconnect THEN "reconnecting" ELSE "closed"]
    /\ Report(Event("state", k))
    /\ UNCHANGED <<alive, conn, made, options, registry, connecting, walk, heard, fresh,
                   flags, borrowed, fault>>

\* Mutant of Reconnect: no handler is set for it.
ReconnectUnheard(k) ==
    /\ Cause
    /\ status[k] = "reconnecting"
    /\ status' = [status EXCEPT ![k] = "connected"]
    /\ UNCHANGED <<alive, conn, made, options, events, registry, connecting, walk, hearing, flags, borrowed, fault>>

Reconnect(k) ==
    /\ Cause
    /\ status[k] = "reconnecting"
    /\ status' = [status EXCEPT ![k] = "connected"]
    /\ Report(Event("state", k))
    /\ UNCHANGED <<alive, conn, made, options, registry, connecting, walk, heard, fresh,
                   flags, borrowed, fault>>

\* maxReconnect attempts have failed; a negative number is no limit.  The library
\* reports that to the closed handler, which setConnectionHandlers does not set.
GiveUp(k) ==
    /\ Cause
    /\ status[k] = "reconnecting" /\ options[k].MaxReconnect >= 0
    /\ status' = [status EXCEPT ![k] = "closed"]
    /\ UNCHANGED <<alive, conn, made, options, events, registry, connecting, walk, hearing, flags, borrowed, fault>>

Error(k) ==
    /\ Cause
    /\ status[k] # "closed"
    /\ Report(Event("error", k))
    /\ UNCHANGED <<alive, conn, made, status, options, registry, connecting, walk, heard,
                   fresh, flags, borrowed, fault>>

\* The event thread calls the handler, whose closure is the Connection.  The
\* status is the one of now, not the one the event was about.
HandleEvent ==
    LET e == Head(events)
    IN  /\ ~fault
        /\ alive
        /\ events # << >> /\ ~Walking("library")
        /\ events' = Tail(events)
        /\ walk' = [walk EXCEPT !["library"] =
                        WalkOf(e.kind, IF e.kind = "state" THEN status[e.conn] ELSE "error")]
        /\ fresh' = IF e.kind = "state" THEN e.conn = conn /\ connecting = "no" ELSE fresh
        /\ UNCHANGED <<alive, conn, made, status, options, posted, registry, connecting,
                       heard, owed, flags, borrowed, fault>>

\* The Connection is gone.
HandleEventTooLate ==
    /\ ~fault
    /\ ~alive
    /\ events # << >>
    /\ events' = Tail(events)
    /\ fault' = TRUE
    /\ UNCHANGED <<alive, conn, made, status, options, posted, registry, connecting, walk,
                   hearing, flags, borrowed>>

-----------------------------------------------------------------------------
Application ==
    \/ \E c \in Callbacks : Register(c) \/ Unregister(c) \/ UnregisterBehindEnd(c)
    \/ Connect \/ ConnectFails \/ ConnectDone \/ ConnectReturn
    \/ Disconnect \/ DestroyClient
    \/ CallNext("user")

OtherThread == RawConnection \/ UseRawConnection

EventThread == HandleEvent \/ HandleEventTooLate \/ CallNext("library")

Next ==
    \/ Application
    \/ OtherThread
    \/ EventThread
    \/ \E k \in 1..MaxConnects : Drop(k) \/ Reconnect(k) \/ GiveUp(k) \/ Error(k)

Spec == Init /\ [][Next]_vars

-----------------------------------------------------------------------------
(* Properties *)

TypeOK ==
    /\ alive \in BOOLEAN
    /\ conn \in 0..made /\ made \in 0..MaxConnects /\ posted \in 0..MaxEvents
    /\ status \in [1..MaxConnects -> {"connected", "reconnecting", "closed"}]
    /\ options \in [1..MaxConnects -> [AllowReconnect : BOOLEAN, MaxReconnect : Int]]
    /\ \A k \in 1..MaxConnects : status[k] = "reconnecting" => options[k].AllowReconnect
    /\ events \in Seq([kind : Kinds, conn : 1..MaxConnects])
    /\ callbacks \in [Kinds -> Seq(Callbacks)]
    /\ handle \in [Callbacks -> {NoHandle} \cup Nat]
    /\ connecting \in {"no", "start", "done"}
    /\ walk \in [Threads -> [kind : Kinds, next : Nat \ {0}, end : Nat,
                             status : ConnectionStatus \cup {"nothing", "error"}]]
    /\ heard \in [Callbacks -> ConnectionStatus \cup {"nothing", "error"}]
    /\ owed \in [Callbacks -> Int]
    /\ fresh \in BOOLEAN /\ shifted \in BOOLEAN
    /\ disturbed \in BOOLEAN /\ fault \in BOOLEAN
    /\ borrowed \in {"nothing", "held", "dangling"}
    /\ borrowed = "held" => conn # 0

\* Without an unregister that hit another callback, a callback that none has
\* moved is where its handle says.
HandleFindsCallback ==
    ~shifted =>
        \A c \in {d \in Callbacks : Held(d)} \ moved :
            /\ handle[c] + 1 <= Len(callbacks[KindOf[c]])
            /\ callbacks[KindOf[c]][handle[c] + 1] = c

\* Destroyed memory is used in four ways only: by an unregister with a handle
\* that an earlier one made wrong, by a change of a vector the event thread is
\* walking, by an event that is handled after the Client is gone, and by another
\* thread's call that a disconnect or a connect has overtaken.
FaultsHaveACause == fault => shifted \/ disturbed \/ ~alive \/ borrowed = "dangling"

\* Nothing is lost on the way: once all is quiet, each callback has been called
\* for every event that was posted, and every walk connect began, while it was
\* registered.
EveryReportIsHeard ==
    alive /\ ~fault /\ ~disturbed /\ Quiet =>
        \A k \in Kinds : \A c \in ToSet(callbacks[k]) : owed[c] <= 0

UpToDate(c) == heard[c] \in {"nothing", status[conn]}

\* Once all is quiet the callbacks know the status of an open connection, though
\* each was told the status of the moment and not the one the event was about.
\* What can leave them with an old one: an event of a connection that connect
\* replaced, and an event handled while connect is not finished.
HeardIsTrue ==
    alive /\ ~fault /\ ~disturbed /\ Quiet /\ fresh /\ conn # 0 /\ status[conn] # "closed" =>
        \A c \in ToSet(callbacks["state"]) : UpToDate(c)

\* Client.h:86, "Remove registred callback": what an unregister takes away is the
\* callback the handle was given for.
UnregisterRemoves ==
    [][\A c \in Callbacks :
        Held(c) /\ ~Held(c)' => c \notin ToSet(callbacks'[KindOf[c]])]_vars

\* Client.h:83, "Called all times when connection status changed": once all is
\* quiet the callbacks know the status of the connection, also of a closed one.
StatusIsTold ==
    alive /\ ~fault /\ ~disturbed /\ Quiet /\ fresh /\ conn # 0 =>
        \A c \in ToSet(callbacks["state"]) : UpToDate(c)

=============================================================================
