-------------------------- MODULE MCChainFamilies --------------------------
(* Instances of ChainFamilies for TLC. *)
EXTENDS ChainFamilies

Family(name) == [family |-> name]

\* Aptos: lengths below, at and above the chunk size of 2; a batch of two transactions.
AptosTx(data) == [target |-> "x", data |-> data]
AptosInstance(actions, batches, curse, f) ==
    [actions |-> actions, batches |-> batches, salt |-> "s", curse |-> curse, faults |-> f, live |-> TRUE]
    @@ Family("aptos")
Large == <<<<AptosTx(3), AptosTx(2)>>, <<AptosTx(4)>>>>
Small == <<<<AptosTx(1), AptosTx(1)>>, <<AptosTx(0)>>>>
AptosInstances == {
    AptosInstance(<<"schedule">>, Large, FALSE, 0), AptosInstance(<<"bypass">>, Large, FALSE, 0),
    AptosInstance(<<"schedule", "cancel">>, Large, FALSE, 0),
    AptosInstance(<<"schedule", "cancel">>, Small, TRUE, 1), AptosInstance(<<"schedule">>, Small, FALSE, 2),
    [AptosInstance(<<"schedule">>, Large, FALSE, 1) EXCEPT !.live = FALSE]}

\* Canton: targets that are looked up or given by ID, one that nobody else moves, and MCMS itself.
CantonTx(address, cid, ids) ==
    [to |-> "to", address |-> address, function |-> "f", data |-> "d", targetCid |-> cid, contractIds |-> ids]
CantonInstance(actions, batches, moves, configs, f) ==
    [actions |-> actions, batches |-> batches, salt |-> "s", moves |-> moves, configs |-> configs, faults |-> f]
    @@ Family("canton")
LookedUp == <<<<CantonTx("x", {}, {}), CantonTx("y", {}, {})>>, <<CantonTx("x", {}, {})>>>>
Given == <<<<CantonTx("x", {}, {[id |-> 0]}), CantonTx("mcms", {}, {[address |-> "mcms"]})>>>>
CantonInstances == {
    CantonInstance(<<"schedule", "cancel">>, LookedUp, 0, 0, 0),
    CantonInstance(<<"schedule">>, LookedUp, 1, 1, 0),
    CantonInstance(<<"plain">>, LookedUp, 2, 1, 1),
    CantonInstance(<<"bypass">>, Given, 0, 1, 1)}

\* Sui: two calls of one module that differ in object and data, an upgraded target, calls to
\* MCMS, one of them to its account module and naming another object than the executor's.
SuiTx(to, latest, module, function, stateObj, data, modules) ==
    [to |-> to, latest |-> latest, module |-> module, function |-> function, stateObj |-> stateObj,
     data |-> data, modules |-> modules]
SuiInstance(actions, batches, f) ==
    [actions |-> actions, batches |-> batches, salt |-> "s", accountObj |-> "account",
     upgraded |-> [x2 |-> "x"], faults |-> f] @@ Family("sui")
SameModule == <<SuiTx("x", "", "m", "f", "o1", "d1", "none"), SuiTx("x", "x2", "m", "f", "o2", "d2", "none")>>
Upgrade == <<SuiTx("mcms", "", "mcms", "set_config", "o3", "d3", "none"),
             SuiTx("mcms", "", "mcms_deployer", "authorize_upgrade", "o4", "digest", "digest"),
             SuiTx("mcms", "", "mcms_account", "accept_ownership", "o5", "d4", "none")>>
Account == <<SuiTx("mcms", "", "mcms_account", "accept_ownership", "o5", "d4", "none")>>
SuiInstances == {
    SuiInstance(<<"schedule">>, <<SameModule, Upgrade>>, 2),
    SuiInstance(<<"schedule", "cancel">>, <<SameModule, Upgrade>>, 2),
    SuiInstance(<<"bypass">>, <<SameModule, Account>>, 2)}

TonInstance(action, wait, patient, f) ==
    [action |-> action, batches |-> <<<<[to |-> "x", data |-> "d"], [to |-> "x", data |-> "e"]>>, <<[to |-> "x", data |-> "d"]>>>>,
     salt |-> "s", delay |-> 2, wait |-> wait, patient |-> patient, faults |-> f] @@ Family("ton")
TonInstances ==
    {TonInstance(a, TRUE, TRUE, 1) : a \in {"schedule", "bypass", "cancel"}}
    \cup {TonInstance("schedule", FALSE, FALSE, 0), TonInstance("cancel", TRUE, FALSE, 0)}

MCInstances == AptosInstances \cup CantonInstances \cup SuiInstances \cup TonInstances
=============================================================================
