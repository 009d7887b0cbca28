---------------------------- MODULE AtomicBooks ----------------------------
(***************************************************************************)
(* What the value ledger promises a node: every reward, settlement and     *)
(* transfer changes balances, supply and the rewards paid in one step, and *)
(* a reward is paid once.  The promise holds while calls come one after    *)
(* the other and none is cut short: from then on nothing is promised.      *)
(***************************************************************************)
EXTENDS Naturals

CONSTANTS Nodes, Claims, Amounts, Fees

VARIABLES balance, total, rewarded, kept

vars == <<balance, total, rewarded, kept>>

Init ==
    /\ balance = [n \in Nodes |-> 0]
    /\ total = 0
    /\ rewarded = {}
    /\ kept = TRUE

\* A reward of the node n: minted, against a claim never paid before.
Mint(n, amount) ==
    /\ total' = total + amount
    /\ balance' = [balance EXCEPT ![n] = @ + amount]
    /\ \E claim \in Claims \ rewarded : rewarded' = rewarded \cup {claim}
    /\ kept' = kept

\* A settlement: burned from the balance of n.
Burn(n, amount) ==
    /\ balance[n] >= amount
    /\ balance' = [balance EXCEPT ![n] = @ - amount]
    /\ total' = total - amount
    /\ UNCHANGED <<rewarded, kept>>

\* A transfer to another node; the sender pays the fee, which is burned.
Transfer(from, to, amount, fee) ==
    /\ from # to
    /\ balance[from] >= amount + fee
    /\ balance' = [balance EXCEPT ![from] = @ - (amount + fee), ![to] = @ + amount]
    /\ total' = total - fee
    /\ UNCHANGED <<rewarded, kept>>

\* Calls overlap or one is cut short: the promise is off.
Break == kept' = FALSE

Next ==
    \/ \E n \in Nodes, amount \in Amounts :
        \/ Mint(n, amount)
        \/ Burn(n, amount)
        \/ \E to \in Nodes, fee \in Fees : Transfer(n, to, amount, fee)
    \/ Break

Spec == Init /\ [][Next]_vars
=============================================================================
