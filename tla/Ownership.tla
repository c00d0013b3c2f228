----------------------------- MODULE Ownership -----------------------------
(***************************************************************************)
(* The three step change of ownership that the vesting and the lockdrop     *)
(* contracts share: the owner proposes, the proposed owner claims in time,  *)
(* and the owner may drop the proposal. Guards and values only; a contract  *)
(* keeps its owner and its OWNERSHIP_PROPOSAL in its own variables.         *)
(***************************************************************************)
EXTENDS TgeCommon

CONSTANTS
    MAX_PROPOSAL_TTL,   \* bound of the code on expires_in
    NewOwners,          \* addresses a proposal may name
    ExpiresIn           \* lifetimes a proposal may ask for

ASSUME ProposalAssumption ==
    /\ MAX_PROPOSAL_TTL \in Nat /\ ExpiresIn \subseteq Nat
    /\ NewOwners \subseteq Senders /\ NONE \notin Senders

\* What propose_new_owner accepts, and what it stores.
ProposalAccepted(sender, owner, new_owner, expires_in) ==
    /\ sender = owner
    /\ new_owner # owner
    /\ expires_in <= MAX_PROPOSAL_TTL

ProposalOf(new_owner, expires_in) == [owner |-> new_owner, ttl |-> now + expires_in]

\* What claim_ownership accepts.
OwnershipClaimable(sender, proposal) ==
    /\ proposal # NONE
    /\ sender = proposal.owner
    /\ now <= proposal.ttl

\* Whom a proposal lets take over now: the proposed owner, in the validity
\* period of the offer.
Heirs(proposal) ==
    IF proposal # NONE /\ now <= proposal.ttl THEN {proposal.owner} ELSE {}
=============================================================================
