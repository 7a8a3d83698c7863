------------------------------- MODULE MCSanction -------------------------------
(***************************************************************************)
(* Sanction with small transactions of two accounts: every combination of   *)
(* signers and fee granter, and of one or two inner messages.               *)
(***************************************************************************)
EXTENDS Sanction

CONSTANTS alice, bob

MCAccounts == {alice, bob}

InnerMsgs ==
    {[nested |-> FALSE, signers |-> s, within |-> {}] :
        s \in {<<>>, <<alice>>, <<bob>>, <<alice, bob>>}}
    \cup {[nested |-> TRUE, signers |-> <<alice>>, within |-> {bob}]}

Execs ==
    {<<>>} \cup {<< <<m>> >> : m \in InnerMsgs}
    \cup {<< <<m, n>> >> : m, n \in InnerMsgs}
    \cup {<< <<m>>, <<m>> >> : m \in InnerMsgs}

CosmosTx(signers, granter, execs, signedFor) ==
    [route |-> "cosmos", signers |-> signers, granter |-> granter,
     execs |-> execs, signedFor |-> signedFor]

MCTxs ==
    {CosmosTx({alice}, Nobody, e, "chain") : e \in Execs}
    \cup {CosmosTx(s, g, <<>>, f) : s \in {{alice}, {alice, bob}}, g \in {Nobody, bob},
                                    f \in {"chain", "evmChain", "other"}}
    \cup {[route |-> "evm", signers |-> {a}, granter |-> Nobody,
           execs |-> <<>>, signedFor |-> "chain"] : a \in {alice, bob}}
================================================================================
