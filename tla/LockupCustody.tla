--------------------------- MODULE LockupCustody ---------------------------
(***************************************************************************)
(* What the two lockdrop contracts together promise of the LP tokens of a   *)
(* lockup: they are in the custody of one contract at a time, a user's      *)
(* lockups move from the first to the second contract together, and they    *)
(* are returned to the user once, by the contract that has them, and not    *)
(* before the lockup has expired.                                           *)
(***************************************************************************)
CONSTANTS Lockups, Users, HolderOf(_)
VARIABLES
    place,     \* where a lockup is: "none", "xyk", "pcl" or "returned"
    expired    \* the lockups whose term is over

CustodyInit == place \in [Lockups -> {"none", "xyk"}] /\ expired = {}

Move(u) ==
    /\ place' = [k \in Lockups |->
           IF HolderOf(k) = u /\ place[k] = "xyk" THEN "pcl" ELSE place[k]]
    /\ UNCHANGED expired

Return(k) ==
    /\ k \in expired
    /\ place[k] \in {"xyk", "pcl"}
    /\ place' = [place EXCEPT ![k] = "returned"]
    /\ UNCHANGED expired

Expire == expired \subseteq expired' /\ UNCHANGED place

CustodyNext == (\E u \in Users : Move(u)) \/ (\E k \in Lockups : Return(k)) \/ Expire

CustodySpec == CustodyInit /\ [][CustodyNext]_<<place, expired>>
=============================================================================
