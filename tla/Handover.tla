------------------------------ MODULE Handover ------------------------------
(***************************************************************************)
(* What the ownership protocol of the contracts promises, without proposals *)
(* and clocks: a contract has one owner; at any moment at most one other    *)
(* address may take over; taking over uses the permission up, and so does   *)
(* time, for any number of contracts at once.                               *)
(***************************************************************************)
CONSTANTS Contracts, Addresses
VARIABLES
    owner,   \* the owner of each contract
    heirs    \* the addresses that may take each contract over now

HandoverInit ==
    /\ owner \in [Contracts -> Addresses]
    /\ heirs = [c \in Contracts |-> {}]

Keep(c) == owner'[c] = owner[c] /\ heirs'[c] = heirs[c]

\* The owner names an address, in place of the one named before.
Offer(c) ==
    owner'[c] = owner[c] /\ \E a \in Addresses \ {owner[c]} : heirs'[c] = {a}

\* The permission is withdrawn, or expires.
Lapse(c) == owner'[c] = owner[c] /\ heirs'[c] = {}

TakeOver(c) == owner'[c] \in heirs[c] /\ heirs'[c] = {}

HandoverSpec ==
    HandoverInit
    /\ [][\A c \in Contracts : Keep(c) \/ Offer(c) \/ Lapse(c) \/ TakeOver(c)]_<<owner, heirs>>
=============================================================================
