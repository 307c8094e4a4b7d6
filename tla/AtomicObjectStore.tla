-------------------------- MODULE AtomicObjectStore --------------------------
(***************************************************************************)
(* What an object store promises its callers.                              *)
(*                                                                         *)
(* A name holds nothing yet, the mark of a removal, or one object.  A put  *)
(* or a remove that succeeds takes effect in one instant during the call;  *)
(* one that throws takes effect at most once, perhaps after the call.  A   *)
(* get that succeeds returns the whole object the name held at one instant *)
(* during the call, or nothing when that was a removed name.               *)
(***************************************************************************)
CONSTANTS
    Clients, Names, Objects,
    NameOf,                     \* object -> the name it is put under
    NoObject,                   \* what a removed name holds, and get of it returns
    Absent,                     \* what a name never put holds
    NoData                      \* the result of a get that has none yet

VARIABLES
    value,      \* name -> what it holds
    call,       \* client -> its call
    pending     \* writes whose call has thrown and which may still happen, each
                \* with a mark that tells it from an equal one

vars == <<value, call, pending>>

NoCall == [kind |-> "idle"]
Write(n, v) == [kind |-> "write", name |-> n, value |-> v]
Reading(seen, result) == [kind |-> "read", seen |-> seen, result |-> result]

Init ==
    /\ value = [n \in Names |-> Absent]
    /\ call = [c \in Clients |-> NoCall]
    /\ pending = {}

Start(c, k) ==
    /\ call[c] = NoCall
    /\ call' = [call EXCEPT ![c] = k]
    /\ UNCHANGED <<value, pending>>

StartPut(c, o) == Start(c, Write(NameOf[o], o))

StartRemove(c, n) == value[n] # Absent /\ Start(c, Write(n, NoObject))

\* The name is read when the get starts; a removed name has no data to fetch.
StartGet(c, n) ==
    /\ value[n] # Absent
    /\ Start(c, Reading(value[n], IF value[n] = NoObject THEN NoObject ELSE NoData))

FinishRead(c) ==
    /\ call[c].kind = "read"
    /\ call[c].result = NoData
    /\ call' = [call EXCEPT ![c].result = call[c].seen]
    /\ UNCHANGED <<value, pending>>

\* A get returns its result, or throws.
EndRead(c) ==
    /\ call[c].kind = "read"
    /\ call' = [call EXCEPT ![c] = NoCall]
    /\ UNCHANGED <<value, pending>>

EndWrite(c) ==
    /\ call[c].kind = "write"
    /\ value' = [value EXCEPT ![call[c].name] = call[c].value]
    /\ call' = [call EXCEPT ![c] = NoCall]
    /\ UNCHANGED pending

ThrowWrite(c) ==
    /\ call[c].kind = "write"
    /\ call' = [call EXCEPT ![c] = NoCall]
    /\ \/ UNCHANGED pending
       \/ \E w \in pending' : w.write = call[c] /\ pending' = pending \cup {w}
    /\ UNCHANGED value

LateWrite(w) ==
    /\ value' = [value EXCEPT ![w.write.name] = w.write.value]
    /\ pending' = pending \ {w}
    /\ UNCHANGED call

Next ==
    \/ \E c \in Clients :
        \/ \E o \in Objects : StartPut(c, o)
        \/ \E n \in Names : StartRemove(c, n) \/ StartGet(c, n)
        \/ FinishRead(c) \/ EndRead(c) \/ EndWrite(c) \/ ThrowWrite(c)
    \/ \E w \in pending : LateWrite(w)

Spec == Init /\ [][Next]_vars
=============================================================================
