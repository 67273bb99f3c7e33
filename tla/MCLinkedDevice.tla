---- MODULE MCLinkedDevice ----
(* Instance of the composition for TLC: the calls of setters by name.      *)
EXTENDS SenderCertificates, TLC

MCSlots == LinkSlots \cup {"session"}
MCCalls == DeviceCalls
MCOpener == <<"open">>
MCHostCalls == {<<"host", 1>>}
MCNone == {}
Symmetric == Permutations(Requests)
====
