---------------------------- MODULE VestingBase ----------------------------
(***************************************************************************)
(* The vesting contracts that packages/vesting-base is the body of:         *)
(* vesting-investors, vesting-lti, vesting-lp and vesting-lp-pcl. They      *)
(* differ in the extensions their builder turns on. The state is a function *)
(* of the contract, so that two of them can be deployed on one chain.       *)
(*                                                                         *)
(* A registration names every account once (a message that names one twice  *)
(* is as good as two). The historical extension stores past values of       *)
(* VESTING_INFO and VESTING_STATE by height in a SnapshotMap (external):    *)
(* what holds of the two in every state holds of what it returns.           *)
(***************************************************************************)
EXTENDS Ownership, Sequences

CONSTANTS
    Deployments,        \* sets of contracts that are deployed together
    AdminDeployments,   \* the deployments explored with changes of owner and managers
    VestingAssets,      \* tokens a contract may vest
    VestingRequests,    \* vesting_accounts of a message: account to schedules
    VestingAmounts,     \* tokens sent with a registration
    ClaimAmounts,       \* amounts a claim may name
    MAX_REGISTRATIONS   \* bound: registrations explored

Vestings == {"investors", "lti", "lp", "pcl"}

ASSUME VestingAssumption ==
    /\ \A d \in Deployments : d \subseteq Vestings
    /\ AdminDeployments \subseteq Deployments
    /\ NONE \notin VestingAssets
    /\ VestingAmounts \subseteq Nat /\ ClaimAmounts \subseteq Nat
    /\ MAX_REGISTRATIONS \in Nat

\* VestingSchedule; its end point is optional.
SchedulePoints == [time : Nat, amount : Nat]
Schedules == [start_point : SchedulePoints, end_point : SchedulePoints \cup {NONE}]

\* VestingState.
VestingStates == [total_granted : Nat, total_released : Nat]

ASSUME OptionAssumption == NONE \notin SchedulePoints /\ NONE \notin VestingStates
ASSUME RequestAssumption ==
    \A accounts \in VestingRequests :
        /\ DOMAIN accounts \subseteq Users
        /\ accounts \in [DOMAIN accounts -> Seq(Schedules)]

VARIABLES
    deployed,            \* the contracts on this chain
    vesting_config,      \* Config of a contract
    ownership_proposal,  \* OWNERSHIP_PROPOSAL
    vesting_managers,    \* VESTING_MANAGERS
    vesting_info,        \* VESTING_INFO: a function of the stored accounts
    vesting_state,       \* VESTING_STATE
    token_balance,       \* the contract's balance of its vesting token
    registrations,       \* registrations so far
    unfunded,            \* history: the accounts of a contract that a message
                         \* without tokens has stored (vesting-lp-pcl only)
    unfunded_claims      \* history: what those accounts claimed

vestingAdmin  == <<deployed, vesting_config, ownership_proposal, vesting_managers>>
vestingHistory == <<unfunded, unfunded_claims>>
vestingLedger == <<vesting_info, vesting_state, token_balance, registrations, vestingHistory>>
vestingVars   == <<now, vestingAdmin, vestingLedger>>

\* The extensions each contract's instantiate asks the builder for.
extensions == [
    investors |-> [historical |-> TRUE,  managed |-> TRUE,  with_managers |-> FALSE],
    lti       |-> [historical |-> FALSE, managed |-> TRUE,  with_managers |-> FALSE],
    lp        |-> [historical |-> TRUE,  managed |-> FALSE, with_managers |-> TRUE],
    pcl       |-> [historical |-> TRUE,  managed |-> FALSE, with_managers |-> TRUE]]

\* VestingBaseBuilder::build, with the token info manager as the first vesting
\* manager. vesting-lp-pcl is given its token when it is instantiated.
VestingInit ==
    /\ now = 0
    /\ deployed \in Deployments
    /\ \E asset \in VestingAssets :
           vesting_config = [c \in Vestings |->
               [owner |-> OWNER, token_info_manager |-> MANAGER,
                vesting_token |-> IF c = "pcl" THEN asset ELSE NONE]]
    /\ ownership_proposal = [c \in Vestings |-> NONE]
    /\ vesting_managers = [c \in Vestings |->
           IF extensions[c].with_managers THEN {MANAGER} ELSE {}]
    /\ vesting_info = [c \in Vestings |-> [u \in {} |-> NONE]]
    /\ vesting_state = [c \in Vestings |-> NONE]
    /\ token_balance = [c \in Vestings |-> 0]
    /\ registrations = 0
    /\ unfunded = [c \in Vestings |-> {}]
    /\ unfunded_claims = [c \in Vestings |-> 0]
-----------------------------------------------------------------------------
\* What a schedule grants in the end.
GrantedBy(sch) ==
    IF sch.end_point # NONE THEN sch.end_point.amount ELSE sch.start_point.amount

SumOverSeq(f(_), s) == SumOver([i \in DOMAIN s |-> f(s[i])], DOMAIN s)

\* What all schedules of an account grant, and what is left of it:
\* compute_unclaimed_amount.
TotalGranted(schedules) == SumOverSeq(GrantedBy, schedules)
Unclaimed(info) == TotalGranted(info.schedules) - info.released_amount

\* assert_vesting_schedules.
ValidSchedule(sch) ==
    sch.end_point # NONE =>
        /\ sch.start_point.time < sch.end_point.time
        /\ sch.start_point.amount < sch.end_point.amount

Earlier(s, t) == IF s < t THEN s ELSE t

\* Fault: what vests between the two points is left out.
ReleasedBy_NoSlope(sch) ==
    IF sch.start_point.time > now THEN 0 ELSE sch.start_point.amount

\* What a schedule has released by now: the start amount at once, the rest
\* linearly until the end point, rounded down.
ReleasedBy(sch) ==
    IF sch.start_point.time > now THEN 0
    ELSE sch.start_point.amount
         + (IF sch.end_point = NONE \/ sch.end_point.time = sch.start_point.time THEN 0
            ELSE ((Earlier(now, sch.end_point.time) - sch.start_point.time)
                    * (sch.end_point.amount - sch.start_point.amount))
                 \div (sch.end_point.time - sch.start_point.time))

\* compute_available_amount fails on a schedule that has started and ends
\* before its start, or, once time has passed, below its start amount.
Releasable(sch) ==
    (sch.start_point.time <= now /\ sch.end_point # NONE) =>
        /\ sch.start_point.time <= sch.end_point.time
        /\ \/ sch.start_point.amount <= sch.end_point.amount
           \/ Earlier(now, sch.end_point.time) = sch.start_point.time

\* compute_available_amount; the subtraction is checked.
Available(info) == SumOverSeq(ReleasedBy, info.schedules) - info.released_amount

is_sender_whitelisted(c, sender) ==
    sender = vesting_config[c].owner \/ sender \in vesting_managers[c]

\* Fault: a registration replaces what an account had.
Registered_Replace(infos, accounts) ==
    [u \in DOMAIN infos \cup DOMAIN accounts |->
        IF u \in DOMAIN accounts
        THEN [schedules |-> accounts[u], released_amount |-> 0] ELSE infos[u]]

\* What accounts hold after a registration: the new schedules come first.
Registered(infos, accounts) ==
    [u \in DOMAIN infos \cup DOMAIN accounts |->
        IF u \notin DOMAIN accounts THEN infos[u]
        ELSE IF u \in DOMAIN infos
             THEN [infos[u] EXCEPT !.schedules = accounts[u] \o @]
             ELSE [schedules |-> accounts[u], released_amount |-> 0]]

-----------------------------------------------------------------------------
(***************************************************************************)
(* register_vesting_accounts, reached by the native message and by the cw20 *)
(* hook alike: a whitelisted sender, the vesting token, and as many of them *)
(* as the schedules grant. Neither kind of token can be sent in amount 0.   *)
(***************************************************************************)
register_vesting_accounts(c, sender, asset, accounts, amount) ==
    LET to_deposit == SumOver([u \in DOMAIN accounts |-> TotalGranted(accounts[u])],
                              DOMAIN accounts)
        old == IF vesting_state[c] = NONE
               THEN [total_granted |-> 0, total_released |-> 0] ELSE vesting_state[c]
    IN  /\ vesting_config[c].vesting_token = asset
        /\ is_sender_whitelisted(c, sender)
        /\ amount > 0
        /\ \A u \in DOMAIN accounts : \A i \in DOMAIN accounts[u] :
               ValidSchedule(accounts[u][i])
        /\ to_deposit = amount
        /\ vesting_info' = [vesting_info EXCEPT ![c] = Registered(@, accounts)]
        /\ vesting_state' = [vesting_state EXCEPT
               ![c] = [old EXCEPT !.total_granted = @ + to_deposit]]
        /\ token_balance' = [token_balance EXCEPT ![c] = @ + amount]
        /\ registrations' = registrations + 1
        /\ UNCHANGED <<now, vestingAdmin, vestingHistory>>

\* Claim by an account, of an amount or of all there is. Whom the tokens are
\* sent to is left out.
claim(c, sender, amount) ==
    /\ vesting_config[c].vesting_token # NONE
    /\ sender \in DOMAIN vesting_info[c]
    /\ \A i \in DOMAIN vesting_info[c][sender].schedules :
           Releasable(vesting_info[c][sender].schedules[i])
    /\ LET available    == Available(vesting_info[c][sender])
           claim_amount == IF amount = NONE THEN available ELSE amount
       IN  /\ available >= 0
           /\ claim_amount <= available /\ claim_amount <= token_balance[c]
           /\ vesting_info' = [vesting_info EXCEPT
                  ![c][sender].released_amount = @ + claim_amount]
           /\ vesting_state' = [vesting_state EXCEPT ![c].total_released = @ + claim_amount]
           /\ token_balance' = [token_balance EXCEPT ![c] = @ - claim_amount]
           /\ unfunded_claims' = IF sender \notin unfunded[c] THEN unfunded_claims
                  ELSE [unfunded_claims EXCEPT ![c] = @ + claim_amount]
    /\ UNCHANGED <<now, vestingAdmin, registrations, unfunded>>

\* Fault: what had been released stays in the total.
remove_vesting_accounts_KeepReleased(c, sender, accounts) ==
    LET removed  == accounts \cap DOMAIN vesting_info[c]
        clawback == SumOver([u \in removed |-> Unclaimed(vesting_info[c][u])], removed)
        granted  == SumOver([u \in removed |->
                        TotalGranted(vesting_info[c][u].schedules)], removed)
    IN  /\ extensions[c].managed
        /\ sender = vesting_config[c].owner
        /\ vesting_config[c].vesting_token # NONE
        /\ \A u \in removed : Unclaimed(vesting_info[c][u]) > 0
        /\ vesting_info' = [vesting_info EXCEPT ![c] =
               [u \in DOMAIN @ \ removed |-> @[u]]]
        /\ vesting_state' = IF removed = {} THEN vesting_state
               ELSE [vesting_state EXCEPT ![c].total_granted = @ - granted]
        /\ token_balance' = [token_balance EXCEPT ![c] = @ - clawback]
        /\ UNCHANGED <<now, vestingAdmin, registrations, vestingHistory>>

(***************************************************************************)
(* RemoveVestingAccounts of the managed extension. What is unclaimed of     *)
(* each account goes to the clawback account, in a transfer of its own,     *)
(* which the token refuses when nothing is left: then the whole message     *)
(* fails. Accounts that are not stored are passed over.                     *)
(***************************************************************************)
remove_vesting_accounts(c, sender, accounts) ==
    LET removed  == accounts \cap DOMAIN vesting_info[c]
        clawback == SumOver([u \in removed |-> Unclaimed(vesting_info[c][u])], removed)
        granted  == SumOver([u \in removed |->
                        TotalGranted(vesting_info[c][u].schedules)], removed)
        released == SumOver([u \in removed |->
                        vesting_info[c][u].released_amount], removed)
    IN  /\ extensions[c].managed
        /\ sender = vesting_config[c].owner
        /\ vesting_config[c].vesting_token # NONE
        /\ \A u \in removed : Unclaimed(vesting_info[c][u]) > 0
        /\ clawback <= token_balance[c]
        /\ vesting_info' = [vesting_info EXCEPT ![c] =
               [u \in DOMAIN @ \ removed |-> @[u]]]
        /\ \/ removed = {} /\ UNCHANGED vesting_state
           \/ /\ removed # {}
              /\ granted <= vesting_state[c].total_granted
              /\ released <= vesting_state[c].total_released
              /\ vesting_state' = [vesting_state EXCEPT
                     ![c].total_granted = @ - granted,
                     ![c].total_released = @ - released]
        /\ token_balance' = [token_balance EXCEPT ![c] = @ - clawback]
        /\ UNCHANGED <<now, vestingAdmin, registrations, vestingHistory>>
-----------------------------------------------------------------------------
set_vesting_token(c, sender, asset) ==
    /\ sender \in {vesting_config[c].owner, vesting_config[c].token_info_manager}
    /\ vesting_config[c].vesting_token = NONE
    /\ vesting_config' = [vesting_config EXCEPT ![c].vesting_token = asset]
    /\ UNCHANGED <<now, deployed, ownership_proposal, vesting_managers, vestingLedger>>

add_vesting_managers(c, sender, managers) ==
    /\ extensions[c].with_managers
    /\ sender = vesting_config[c].owner
    /\ vesting_managers' = [vesting_managers EXCEPT ![c] = @ \cup managers]
    /\ UNCHANGED <<now, deployed, vesting_config, ownership_proposal, vestingLedger>>

remove_vesting_managers(c, sender, managers) ==
    /\ extensions[c].with_managers
    /\ sender = vesting_config[c].owner
    /\ vesting_managers' = [vesting_managers EXCEPT ![c] = @ \ managers]
    /\ UNCHANGED <<now, deployed, vesting_config, ownership_proposal, vestingLedger>>

propose_new_owner(c, sender, new_owner, expires_in) ==
    /\ ProposalAccepted(sender, vesting_config[c].owner, new_owner, expires_in)
    /\ ownership_proposal' = [ownership_proposal EXCEPT
           ![c] = ProposalOf(new_owner, expires_in)]
    /\ UNCHANGED <<now, deployed, vesting_config, vesting_managers, vestingLedger>>

drop_ownership_proposal(c, sender) ==
    /\ sender = vesting_config[c].owner
    /\ ownership_proposal' = [ownership_proposal EXCEPT ![c] = NONE]
    /\ UNCHANGED <<now, deployed, vesting_config, vesting_managers, vestingLedger>>

\* Fault: the proposal survives its claim.
claim_ownership_KeepProposal(c, sender) ==
    /\ OwnershipClaimable(sender, ownership_proposal[c])
    /\ vesting_config' = [vesting_config EXCEPT ![c].owner = sender]
    /\ UNCHANGED <<now, deployed, ownership_proposal, vesting_managers, vestingLedger>>

claim_ownership(c, sender) ==
    /\ OwnershipClaimable(sender, ownership_proposal[c])
    /\ ownership_proposal' = [ownership_proposal EXCEPT ![c] = NONE]
    /\ vesting_config' = [vesting_config EXCEPT ![c].owner = ownership_proposal[c].owner]
    /\ UNCHANGED <<now, deployed, vesting_managers, vestingLedger>>
-----------------------------------------------------------------------------
VestingTick == NextBlock /\ UNCHANGED <<vestingAdmin, vestingLedger>>

VestingAdminStep(c, s) ==
    \/ \E managers \in {{a} : a \in NewOwners} :
           \/ add_vesting_managers(c, s, managers)
           \/ remove_vesting_managers(c, s, managers)
    \/ \E a \in NewOwners, t \in ExpiresIn : propose_new_owner(c, s, a, t)
    \/ drop_ownership_proposal(c, s)
    \/ claim_ownership(c, s)

VestingStep ==
    \E c \in deployed, s \in Senders :
        \/ /\ registrations < MAX_REGISTRATIONS
           /\ \E asset \in VestingAssets, accounts \in VestingRequests,
                 a \in VestingAmounts :
                  register_vesting_accounts(c, s, asset, accounts, a)
        \/ \E a \in ClaimAmounts \cup {NONE} : claim(c, s, a)
        \/ \E accounts \in SUBSET Users : remove_vesting_accounts(c, s, accounts)
        \/ \E asset \in VestingAssets : set_vesting_token(c, s, asset)
        \/ deployed \in AdminDeployments /\ VestingAdminStep(c, s)

VestingSpec == VestingInit /\ [][VestingTick \/ VestingStep]_vestingVars
-----------------------------------------------------------------------------
\* The contracts' fields have their types; no balance and no total is negative.
VestingTypeOK ==
    /\ now \in 0..MAX_TIME
    /\ deployed \in Deployments
    /\ vesting_config \in [Vestings -> [owner : Senders, token_info_manager : Senders,
                                        vesting_token : VestingAssets \cup {NONE}]]
    /\ ownership_proposal \in [Vestings -> [owner : Senders, ttl : Nat] \cup {NONE}]
    /\ vesting_managers \in [Vestings -> SUBSET Senders]
    /\ \A c \in Vestings :
           /\ DOMAIN vesting_info[c] \subseteq Users
           /\ \A u \in DOMAIN vesting_info[c] :
                  /\ vesting_info[c][u].released_amount \in Nat
                  /\ vesting_info[c][u].schedules \in Seq(Schedules)
    /\ vesting_state \in [Vestings -> VestingStates \cup {NONE}]
    /\ token_balance \in [Vestings -> Nat]
    /\ unfunded \in [Vestings -> SUBSET Users] /\ unfunded_claims \in [Vestings -> Nat]
    /\ registrations \in 0..MAX_REGISTRATIONS

\* The accounts of a contract that only messages with their tokens have written,
\* and what is left of them.
Funded(c) == DOMAIN vesting_info[c] \ unfunded[c]
UnclaimedOfAll(c) ==
    SumOver([u \in Funded(c) |-> Unclaimed(vesting_info[c][u])], Funded(c))

TotalUnclaimed(c) ==
    IF vesting_state[c] = NONE THEN 0
    ELSE vesting_state[c].total_granted - vesting_state[c].total_released

\* A contract holds what it still owes its accounts, whatever was registered
\* twice, claimed in part, clawed back or migrated. A managed contract, whose
\* accounts never leave any other way, holds nothing else. In vesting-lp-pcl,
\* whose hook also stores accounts that no tokens came for, the others are
\* short by no more than those accounts have claimed.
GrantsFunded ==
    \A c \in Vestings :
        /\ UnclaimedOfAll(c) <= token_balance[c] + unfunded_claims[c]
        /\ extensions[c].managed =>
               /\ UnclaimedOfAll(c) = token_balance[c]
               /\ Funded(c) = DOMAIN vesting_info[c] /\ unfunded_claims[c] = 0

\* The totals that UnclaimedTotalAmountAtHeight reports (the voting power in
\* the DAO) are never less than the accounts' own, but for what accounts that
\* no tokens came for have claimed; for a contract that never migrates accounts
\* granted and released are each the accounts' sum, as the "forget about
\* everything" strategy of RemoveVestingAccounts intends.
TotalsMatchAccounts ==
    \A c \in Vestings :
        /\ UnclaimedOfAll(c) <= TotalUnclaimed(c) + unfunded_claims[c]
        /\ (extensions[c].managed /\ vesting_state[c] # NONE) =>
               LET accounts == DOMAIN vesting_info[c]
               IN  /\ vesting_state[c].total_granted =
                          SumOver([u \in accounts |->
                              TotalGranted(vesting_info[c][u].schedules)], accounts)
                   /\ vesting_state[c].total_released =
                          SumOver([u \in accounts |->
                              vesting_info[c][u].released_amount], accounts)

\* Nobody whose tokens came has ever been paid ahead of the schedules, so that
\* compute_available_amount, in every claim and query, never fails for them:
\* schedules added later, accounts moved by a migration and the claims of
\* accounts that no tokens came for included.
NeverAheadOfSchedule ==
    \A c \in Vestings : \A u \in Funded(c) :
        /\ \A i \in DOMAIN vesting_info[c][u].schedules :
               Releasable(vesting_info[c][u].schedules[i])
        /\ Available(vesting_info[c][u]) >= 0

\* The ownership of each contract is handed over as module Handover says.
OwnerHandover == INSTANCE Handover WITH
    Contracts <- Vestings,
    Addresses <- Senders,
    owner     <- [c \in Vestings |-> vesting_config[c].owner],
    heirs     <- [c \in Vestings |-> Heirs(ownership_proposal[c])]

\* Ownership changes hands only by a live proposal of the owner, once:
\* propose_new_owner, drop_ownership_proposal and claim_ownership of the base
\* implement the abstract handover.
OwnershipHandedOver == OwnerHandover!HandoverSpec
=============================================================================
