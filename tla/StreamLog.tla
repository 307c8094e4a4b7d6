------------------------------- MODULE StreamLog -------------------------------
(***************************************************************************)
(* The stream that the publishers of JetStream append to and its consumers *)
(* read: the part of the server that AsyncPublish and Consumer share.      *)
(***************************************************************************)
EXTENDS Integers, Sequences, FiniteSets

CONSTANTS
    Payloads,
    MaxLost    \* bound: messages lost on the wire, in either direction

VARIABLES
    stream,    \* the messages in the order of their sequence numbers
    lost

Stored == 1..Len(stream)

Lose == lost < MaxLost /\ lost' = lost + 1

\* A message with an id that the stream has seen is answered and not stored.
Duplicate(m) == m.id # "" /\ \E i \in Stored : stream[i].id = m.id
Append1(m) == stream' = IF Duplicate(m) THEN stream ELSE Append(stream, m)

\* Its answer to a publish, also to that of a duplicate.
PubAck(m) ==
    [Sequence |-> IF Duplicate(m) THEN CHOOSE i \in Stored : stream[i].id = m.id ELSE Len(stream) + 1,
     Duplicate |-> Duplicate(m)]
=============================================================================
