---------------------------- MODULE ProposalLedger ----------------------------
(***************************************************************************)
(* What the kernel promises its host for each cycle key, and nothing of    *)
(* how: a key is open until one call either closes it without a proposal   *)
(* or offers its proposal and settles the outcome; a decided key stays as  *)
(* it is.  A call that ends without a verdict leaves the key open again,   *)
(* and only the host can make it do so after the offer.                    *)
(* GovernanceKernel implements this specification.                         *)
(***************************************************************************)
EXTENDS Naturals

CONSTANTS Keys, MayAbandon

VARIABLES
    phase,   \* of each key: open, offered, or the verdict it was decided with
    offers   \* proposals made for each key

ledgerVars == <<phase, offers>>

Refusals == {"rejected", "no_candidate"}
Outcomes == {"proposed", "delivery_unknown"}

LedgerInit ==
    /\ phase = [k \in Keys |-> "open"]
    /\ offers = [k \in Keys |-> 0]

Close(k, verdict) ==
    /\ phase[k] = "open"
    /\ phase' = [phase EXCEPT ![k] = verdict]
    /\ UNCHANGED offers

Offer(k) ==
    /\ phase[k] = "open"
    /\ phase' = [phase EXCEPT ![k] = "offered"]
    /\ offers' = [offers EXCEPT ![k] = @ + 1]

Settle(k, outcome) ==
    /\ phase[k] = "offered"
    /\ phase' = [phase EXCEPT ![k] = outcome]
    /\ UNCHANGED offers

Abandon(k) ==
    /\ MayAbandon
    /\ phase[k] = "offered"
    /\ phase' = [phase EXCEPT ![k] = "open"]
    /\ UNCHANGED offers

LedgerNext ==
    \E k \in Keys :
        \/ \E verdict \in Refusals : Close(k, verdict)
        \/ Offer(k)
        \/ \E outcome \in Outcomes : Settle(k, outcome)
        \/ Abandon(k)

LedgerSpec == LedgerInit /\ [][LedgerNext]_ledgerVars
===============================================================================
