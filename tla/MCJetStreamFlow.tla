---------------------------- MODULE MCJetStreamFlow ----------------------------
EXTENDS JetStreamFlow

Options(manual, durable, policy) ==
    [manualAck |-> manual, config |-> [durable |-> durable, ackPolicy |-> policy]]

SomeSubscriptions ==
    {[kind |-> "push", options |-> Options(FALSE, TRUE, "NotSet")],
     [kind |-> "sync", options |-> Options(TRUE, FALSE, "None")],
     [kind |-> "pull", options |-> Options(TRUE, FALSE, "Explicit")]}
=============================================================================
