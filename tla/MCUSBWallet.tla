---------------------------- MODULE MCUSBWallet ----------------------------
(* Instances of USBWallet for TLC. *)
EXTENDS USBWallet

CONSTANTS c1, c2, r1

\* The wallet is opened, torn down and opened again; one session in which accounts are
\* derived; callers and a refresher against each other; the hub's list while devices
\* come and go.
HubInstance ==
    [callers |-> {}, refreshers |-> {r1}, plugs |-> TRUE, signing |-> FALSE, opens |-> 0, bases |-> 1, index |-> 0, faults |-> 3]
MCInstances == {
    HubInstance,
    [callers |-> {c1}, refreshers |-> {}, plugs |-> FALSE, signing |-> TRUE, opens |-> 2, bases |-> 1, index |-> 0, faults |-> 1],
    [callers |-> {c1}, refreshers |-> {}, plugs |-> FALSE, signing |-> FALSE, opens |-> 1, bases |-> 2, index |-> 1, faults |-> 1],
    [callers |-> {c1, c2}, refreshers |-> {r1}, plugs |-> FALSE, signing |-> TRUE, opens |-> 1, bases |-> 1, index |-> 0, faults |-> 0]}
MCHub == {HubInstance}
=============================================================================
