----------------------------- MODULE MCMailbox -----------------------------
(***************************************************************************)
(* The mailbox of the brain on two small instances, in parts: part is      *)
(* chosen at the start and never changes.                                  *)
(*   client   a client updates the CM7 with an image of one unit and polls *)
(*            in between (BrainMailbox itself)                             *)
(*   asks     nothing but questions, chunks and a readback, at any time    *)
(* In both a frame is damaged in the shared memory, and the chip or the    *)
(* CM7 alone restarts.                                                     *)
(***************************************************************************)
EXTENDS BrainMailbox

VARIABLE part

Release(version, size) == [hw |-> 7, version |-> version, counter |-> 1, size |-> size, signed |-> TRUE]
OneUnit == [old |-> Release(<<1, 0, 0>>, 1), new |-> Release(<<1, 1, 0>>, 1)]
ThreeUnits == [old |-> Release(<<1, 0, 0>>, 3), new |-> Release(<<1, 1, 0>>, 3)]
UnitStart == {<<1, 7>>}
OldToken == {<<"old", 1>>}

\* What bootloader_client.py sends of an image of one unit.
Client == <<<<"start", 1, 7>>, <<"hmac", <<"new", 1>>>>, <<"header", <<"new", 1>>>>, <<"data", <<"new", 1>>>>, <<"end", "new">>>>
Between == {<<"poll">>}
Questions == {<<"start", 1, 7>>, <<"version">>, <<"errors">>, <<"nonce">>, <<"token", <<<<"old", 1>>, 1>>>>, <<"readback">>, <<"ack", 0>>}

Asks == INSTANCE BrainMailbox WITH
    Releases <- ThreeUnits, Tokens <- OldToken, Script <- <<>>, Sends <- Questions, MaxSessions <- 3, MaxCommands <- 3

ASSUME MailboxAssumption /\ ScriptAssumption /\ CM7!Assumptions
ASSUME Asks!MailboxAssumption /\ Asks!ScriptAssumption /\ Asks!CM7!Assumptions

MailboxInit ==
    \/ part = "client" /\ Init
    \/ part = "asks" /\ Asks!Init

MailboxNext ==
    /\ UNCHANGED part
    /\ \/ part = "client" /\ Next
       \/ part = "asks" /\ Asks!Next

MailboxSpec == MailboxInit /\ [][MailboxNext]_<<part, vars>>
=============================================================================
