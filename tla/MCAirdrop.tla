----------------------------- MODULE MCAirdrop -----------------------------
(***************************************************************************)
(* Instances of Airdrop for TLC.                                            *)
(***************************************************************************)
EXTENDS Airdrop

\* An amount that vests in unequal parts, and two leaves of one user.
MCMerkleLeaves == {<<1, 5>>, <<2, 2>>, <<2, 5>>}
=============================================================================
