--------------------------- MODULE MCChainTrace ----------------------------
(* Instances of ChainTrace: a user u, a contract c and an account x that is *)
(* not selected.                                                            *)
EXTENDS ChainTrace

CONSTANTS u, c, x

Contract == [nonce |-> 1, balance |-> 1, code |-> "code", storage |-> [s \in Slots |-> 1]]

\* One transaction that creates, delegates, destroys, recreates and reverts.
Lifecycle ==
    [ops |-> {"write", "create", "delegate", "suicide", "revert"}, accounts |-> {x, c},
     senders |-> {None}, states |-> {NoAccount, Contract}, ordinals |-> 9, blocks |-> 1]

\* Two blocks with transactions, system calls and rewards.
Interleaved ==
    [ops |-> {"write", "create", "suicide", "system", "reward"}, accounts |-> {c},
     senders |-> {None}, states |-> {NoAccount, Contract}, ordinals |-> 6, blocks |-> 2]

\* Transactions that may fail after gas, authorizations and calls.
Failures ==
    [ops |-> {"gas", "authorize", "transfer", "call", "create", "revert", "suicide",
              "unreliable"}, accounts |-> {u, c},
     senders |-> {u}, states |-> {NoAccount}, ordinals |-> 11, blocks |-> 1]

Executions == {Lifecycle, Interleaved, Failures}
============================================================================
