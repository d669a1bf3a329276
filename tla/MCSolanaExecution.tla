------------------------- MODULE MCSolanaExecution -------------------------
(* Instances of SolanaExecution for TLC. *)
EXTENDS SolanaExecution

CONSTANTS t1, t2, m1, m2, a1, a2

MCProgram(m) == IF m = m1 THEN "P1" ELSE "P2"
MCSignatures == <<1, 2, 3>>
MCConfigs == {<<1, 2, 3>>, <<4, 5, 6>>}
\* Lengths around the chunk size of 323 bytes; accounts that repeat with other flags,
\* the payer of the transaction and the timelock's signer among them.
MCBatch == <<
    [program |-> "x", data |-> 323, accounts |-> <<Account("k", FALSE, FALSE), Account("timelockSigner", TRUE, TRUE)>>],
    [program |-> "y", data |-> 0, accounts |-> <<Account(a1, FALSE, TRUE), Account("k", FALSE, TRUE)>>],
    [program |-> "x", data |-> 648, accounts |-> <<Account("y", FALSE, FALSE)>>]>>

One == [threads |-> {t1}, mcms |-> [t \in Threads |-> {m1}], auth |-> [t \in Threads |-> a1],
        action |-> [m \in Mcms |-> "plain"], executePayer |-> a1, configs |-> {}, faults |-> 0, live |-> TRUE]
Bypass == [One EXCEPT !.action = [m \in Mcms |-> "bypass"]]
MCInstances == {
    [One EXCEPT !.faults = 3],
    [One EXCEPT !.action = [m \in Mcms |-> "schedule"], !.faults = 1],
    [Bypass EXCEPT !.faults = 1],
    \* Nobody is named and the payer is an account of the batch, or is not; the batch's
    \* account is named and another one pays; the one who pays is not the one named.
    [Bypass EXCEPT !.executePayer = NoPayer],
    [Bypass EXCEPT !.executePayer = NoPayer, !.auth = [t \in Threads |-> a2]],
    [Bypass EXCEPT !.auth = [t \in Threads |-> a2]],
    [Bypass EXCEPT !.executePayer = a2],
    \* One thread, two programs.
    [One EXCEPT !.mcms = [t \in Threads |-> {m1, m2}], !.faults = 1],
    \* Two threads, two programs: proposer and canceller.
    [One EXCEPT !.threads = {t1, t2}, !.mcms = [t \in Threads |-> IF t = t1 THEN {m1} ELSE {m2}],
                !.action = [m \in Mcms |-> IF m = m1 THEN "schedule" ELSE "cancel"], !.live = FALSE],
    \* Two threads on one MCM, with one key or two.
    [One EXCEPT !.threads = {t1, t2}, !.faults = 1, !.live = FALSE],
    [One EXCEPT !.threads = {t1, t2}, !.auth = [t \in Threads |-> IF t = t1 THEN a1 ELSE a2], !.faults = 1],
    \* Configurations.
    [One EXCEPT !.configs = MCConfigs, !.faults = 3, !.live = FALSE]}
=============================================================================
