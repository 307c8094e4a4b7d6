-------------------------- MODULE ObjectStoreAtomic --------------------------
(***************************************************************************)
(* The object store implements AtomicObjectStore, when callers give every  *)
(* put a uid of its own.                                                   *)
(*                                                                         *)
(* A name holds what the last message of its metadata subject describes;   *)
(* a put takes effect when its metadata is stored and a remove when its    *)
(* delete marker is.  The result of a get is the object whose bytes the    *)
(* chunks it received tile.                                                *)
(***************************************************************************)
EXTENDS ObjectStore

CONSTANTS Absent, NoData

\* The marks of the abstraction are no objects.
ASSUME AbstractionAssumption == {Absent, NoData, "corrupt"} \cap (Objects \cup {NoObject}) = {}

Held(n) == IF HasInfo(n) THEN Info(n).obj ELSE Absent

\* What the received chunks amount to: an object, or nothing anyone ever put.
Received(s) ==
    IF s = << >> THEN NoObject
    ELSE CHOOSE o \in Objects \cup {"corrupt"} :
            IF o = "corrupt"
            THEN \A p \in Objects : ~Tiles(s, p, SizeOf[p])
            ELSE Tiles(s, o, SizeOf[o])

AbstractCall(call) ==
    CASE call.pc = "idle" -> [kind |-> "idle"]
      [] call.pc = "put" -> [kind |-> "write", name |-> call.name, value |-> call.obj]
      [] call.pc \in {"purge", "mark"} ->
            [kind |-> "write", name |-> call.name, value |-> NoObject]
      [] call.pc = "get" ->
            [kind |-> "read", seen |-> call.meta.obj,
             result |-> IF Wanted(call) THEN NoData ELSE Received(call.arrived)]

AbstractValue == [n \in Names |-> Held(n)]
AbstractCalls == [c \in Clients |-> AbstractCall(op[c])]
AbstractWrite(r) ==
    [number |-> r.number, write |-> [kind |-> "write", name |-> r.name, value |-> r.meta.obj]]
AbstractPending == {AbstractWrite(r) : r \in lateMetas}

Abstract == INSTANCE AtomicObjectStore WITH
    value <- AbstractValue, call <- AbstractCalls, pending <- AbstractPending

\* Every call of the object store is one atomic read or write of a name.
IsAtomic == Abstract!Spec
=============================================================================
