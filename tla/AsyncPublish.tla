------------------------------ MODULE AsyncPublish ------------------------------
(***************************************************************************)
(* Publishing to a stream (src/src/js/Publisher.cpp, Context.cpp,          *)
(* JetStream.cpp).                                                         *)
(*                                                                         *)
(* A synchronous publish waits for the server's answer.  An asynchronous   *)
(* one leaves the message with the library, which keeps it pending until   *)
(* the answer, an error or a timeout comes; the errors go to the handler,  *)
(* if one is registered.  The application publishes a payload again when   *)
(* it was told that it failed, or when it took it back.                    *)
(***************************************************************************)
EXTENDS StreamLog

CONSTANTS
    Identified,   \* the payloads that are published with an id, their own name
    MaxAttempts,  \* bound: publishes
    MaxPending    \* options.publishAsync.maxPending

\* An empty msgID is none.
ASSUME PublishAssumption ==
    /\ Identified \subseteq Payloads \ {""}
    /\ MaxAttempts \in Nat /\ MaxPending \in Nat \ {0} /\ MaxLost \in Nat

VARIABLES
    sent,      \* the publishes in order: their messages, and how each came out
    wire,      \* what is under way for each of them, and the server's answer
    pending,   \* those the library keeps
    handler,   \* an error handler is registered
    context    \* open or destroyed

publishVars == <<sent, wire, pending, handler, context>>

Attempts == 1..Len(sent)
Waiting == {i \in Attempts : sent[i].fate \in {"calling", "open"}}

\* The application's thread is in no synchronous publish.
AtHand == context = "open" /\ \A i \in Attempts : sent[i].fate # "calling"

\* What the application knows of the last publish of a payload lets it try again.
Retryable(p) ==
    \A i \in Attempts : sent[i].payload = p => sent[i].fate \in {"thrown", "reported", "returned"}

PublishOptions(p) == [msgID |-> IF p \in Identified THEN p ELSE "", expectStream |-> ""]
\* Mutant: the id is left out.
ToCnatsPublishOptionsNoId(options) == [MsgId |-> "", ExpectStream |-> options.expectStream]
ToCnatsPublishOptions(options) == [MsgId |-> options.msgID, ExpectStream |-> options.expectStream]

ToCnatsJsOptions(options) == [MaxPending |-> options.maxPending]
JsOptions == ToCnatsJsOptions([maxPending |-> MaxPending])

PublishInit ==
    /\ sent = << >> /\ wire = << >> /\ pending = {}
    /\ handler = FALSE /\ context = "open"

Nothing == [at |-> "none", ack |-> {}]

\* A publish that waits for its answer, or threw before anything was sent.
Attempt(p, fate) ==
    /\ AtHand /\ Len(sent) < MaxAttempts /\ Retryable(p)
    /\ sent' = Append(sent, [payload |-> p, fate |-> fate, ack |-> {},
                             handled |-> handler /\ fate = "open"])
    /\ wire' = Append(wire, IF fate = "thrown" THEN Nothing ELSE [at |-> "request", ack |-> {}])
    /\ UNCHANGED <<handler, context, stream, lost>>

Publish(p) == Attempt(p, "calling") /\ UNCHANGED pending

Full == Cardinality(pending) >= JsOptions.MaxPending

\* Mutant: the status of a publish that stalled is not looked at.
MakeAsyncPublishUnchecked(p) ==
    /\ Attempt(p, "open")
    /\ pending' = IF Full THEN pending ELSE pending \union {Len(sent) + 1}
\* js_PublishMsgAsync waits while the limit is reached, and fails after a time.
MakeAsyncPublish(p) ==
    IF Full
    THEN Attempt(p, "thrown") /\ UNCHANGED pending
    ELSE Attempt(p, "open") /\ pending' = pending \union {Len(sent) + 1}

\* Whether a handler was registered matters only of a failure nobody heard of.
Decided(i, fate) ==
    [sent[i] EXCEPT !.fate = fate, !.handled = @ /\ fate = "unheard"]

RegisterAsyncPublishErrorHandler ==
    /\ AtHand /\ ~handler
    /\ handler' = TRUE
    /\ UNCHANGED <<sent, wire, pending, context, stream, lost>>

\* What waitAsyncPublishComplete waits for; it changes nothing, and throws at its timeout.
PublishComplete == pending = {}

DecideAll(fate) ==
    /\ sent' = [i \in Attempts |-> IF i \in pending THEN Decided(i, fate) ELSE sent[i]]
    /\ wire' = [i \in Attempts |-> IF i \in pending /\ wire[i].at # "request" THEN Nothing ELSE wire[i]]
    /\ pending' = {}

\* The library gives all it keeps back, and forgets it.
AsyncPendingMessages ==
    /\ AtHand /\ pending # {}
    /\ DecideAll("returned")
    /\ UNCHANGED <<handler, context, stream, lost>>

DestroyContext ==
    /\ AtHand
    /\ context' = "destroyed"
    /\ DecideAll("abandoned")
    /\ UNCHANGED <<handler, stream, lost>>

-----------------------------------------------------------------------------
(* The server and the library's thread.                                    *)

\* An answer that nobody waits for any more is dropped where it arrives: it is
\* not followed on its way.
OnWire(i, answer) == wire' = [wire EXCEPT ![i] = IF i \in Waiting THEN answer ELSE Nothing]
Decide(i, fate) ==
    /\ sent' = [sent EXCEPT ![i] = Decided(i, fate)]
    /\ pending' = pending \ {i}

ServerStores(i) ==
    /\ wire[i].at = "request"
    /\ LET id == ToCnatsPublishOptions(PublishOptions(sent[i].payload)).MsgId
           m == [payload |-> sent[i].payload, id |-> id]
       IN  Append1(m) /\ OnWire(i, [at |-> "ack", ack |-> {PubAck(m)}])
    /\ UNCHANGED <<sent, pending, handler, context, lost>>

\* Counted as lost, though it is an answer: a limit of the stream is reached.
ServerRefuses(i) ==
    /\ wire[i].at = "request" /\ Lose
    /\ OnWire(i, [at |-> "error", ack |-> {}])
    /\ UNCHANGED <<sent, pending, handler, context, stream>>

LostOnWire(i) ==
    /\ wire[i] # Nothing /\ Lose
    /\ OnWire(i, Nothing)
    /\ UNCHANGED <<sent, pending, handler, context, stream>>

ToPublishAck(ack) == [sequence |-> ack.Sequence, duplicate |-> ack.Duplicate]

\* A synchronous publish returns it; of an asynchronous one nobody is told.
PubAckArrives(i) ==
    /\ wire[i].at = "ack"
    /\ OnWire(i, Nothing)
    /\ pending' = pending \ {i}
    /\ sent' = [sent EXCEPT ![i] =
                  [Decided(i, "acked") EXCEPT
                    !.ack = {ToPublishAck(a) : a \in IF sent[i].fate = "calling" THEN wire[i].ack ELSE {}}]]
    /\ UNCHANGED <<handler, context, stream, lost>>

AsyncPublishErrorHandler(i) == Decide(i, IF handler THEN "reported" ELSE "unheard")

Fails(i) == IF sent[i].fate = "calling" THEN Decide(i, "thrown") ELSE AsyncPublishErrorHandler(i)

ErrorArrives(i) ==
    /\ wire[i].at = "error"
    /\ OnWire(i, Nothing)
    /\ Fails(i)
    /\ UNCHANGED <<handler, context, stream, lost>>

\* options.timeout has passed.
PublishTimeout(i) ==
    /\ i \in Waiting
    /\ Fails(i)
    /\ wire' = IF wire[i].at = "request" THEN wire ELSE [wire EXCEPT ![i] = Nothing]
    /\ UNCHANGED <<handler, context, stream, lost>>

-----------------------------------------------------------------------------

JetStreamPublish ==
    \/ \E p \in Payloads : Publish(p) \/ MakeAsyncPublish(p)
    \/ RegisterAsyncPublishErrorHandler \/ AsyncPendingMessages

PublishNext ==
    \/ JetStreamPublish \/ DestroyContext
    \/ \E i \in Attempts : \/ ServerStores(i) \/ ServerRefuses(i) \/ LostOnWire(i)
                           \/ PubAckArrives(i) \/ ErrorArrives(i) \/ PublishTimeout(i)

-----------------------------------------------------------------------------
(* Properties.                                                             *)

Fates == {"calling", "open", "acked", "thrown", "reported", "unheard", "returned", "abandoned"}

PublishAck == [sequence : Nat \ {0}, duplicate : BOOLEAN]

PublishTypeOK ==
    /\ \A i \in Attempts : /\ sent[i].payload \in Payloads /\ sent[i].fate \in Fates
                           /\ sent[i].ack \subseteq PublishAck
                           /\ wire[i].at \in {"request", "ack", "error", "none"}
    /\ DOMAIN wire = Attempts
    /\ pending \subseteq Attempts /\ Cardinality(pending) <= MaxPending

\* No asynchronous publish is forgotten: a positive end means that its payload is
\* stored, a failure goes unheard only if no handler was registered when it was
\* published, and waitAsyncPublishComplete returns only when nothing is open.  The
\* answer a synchronous one returns names the message that was stored for it, and
\* calls it a duplicate if another publish of the payload stored it.
PublishedIsAccountedFor ==
    /\ \A i \in Attempts :
          /\ sent[i].fate = "acked" => \E j \in Stored : stream[j].payload = sent[i].payload
          /\ \A a \in sent[i].ack :
                /\ stream[a.sequence].payload = sent[i].payload
                /\ a.duplicate => \E j \in Attempts \ {i} : sent[j].payload = sent[i].payload
                /\ ~a.duplicate => \A j \in Attempts \ {i} :
                                      \A b \in sent[j].ack : b.sequence = a.sequence => b.duplicate
          /\ sent[i].fate = "unheard" => ~sent[i].handled
    /\ PublishComplete => \A i \in Attempts : sent[i].fate # "open"
=============================================================================
