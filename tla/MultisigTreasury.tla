-------------------------- MODULE MultisigTreasury --------------------------
(***************************************************************************)
(* What a mosque's treasury promises its donors, apart from how the        *)
(* contract keeps it: payments are opened, endorsed by distinct people,    *)
(* and each is paid at most once, in full, with enough endorsements for    *)
(* the rule in force at that time, or is void for good.  Statuses, roles,  *)
(* expiry, counters and nonces are the contract's means to that end.       *)
(***************************************************************************)
EXTENDS Naturals, FiniteSets

CONSTANTS
  Person,    \* who may endorse a payment
  Payment    \* names of payments

VARIABLES
  funds,      \* what the treasury holds
  required,   \* endorsements a payment needs
  phase,      \* of each payment: "none", "open", "paid" or "void"
  value,      \* what each payment takes out of the treasury
  endorsers   \* who has endorsed each payment

treasuryVars == <<funds, required, phase, value, endorsers>>

TreasuryInit ==
  /\ funds = 0
  /\ required \in Nat \ {0}
  /\ phase = [p \in Payment |-> "none"]
  /\ value = [p \in Payment |-> 0]
  /\ endorsers = [p \in Payment |-> {}]

Deposit ==
  /\ funds' \in Nat /\ funds' > funds
  /\ UNCHANGED <<required, phase, value, endorsers>>

Open(p) ==
  /\ phase[p] = "none"
  /\ phase' = [phase EXCEPT ![p] = "open"]
  /\ value'[p] \in Nat
  /\ value' = [value EXCEPT ![p] = value'[p]]
  /\ UNCHANGED <<funds, required, endorsers>>

Endorse(p, person) ==
  /\ phase[p] = "open"
  /\ person \notin endorsers[p]
  /\ endorsers' = [endorsers EXCEPT ![p] = @ \cup {person}]
  /\ UNCHANGED <<funds, required, phase, value>>

Pay(p) ==
  /\ phase[p] = "open"
  /\ Cardinality(endorsers[p]) >= required
  /\ value[p] <= funds
  /\ phase' = [phase EXCEPT ![p] = "paid"]
  /\ funds' = funds - value[p]
  /\ UNCHANGED <<required, value, endorsers>>

Void(p) ==
  /\ phase[p] = "open"
  /\ phase' = [phase EXCEPT ![p] = "void"]
  /\ UNCHANGED <<funds, required, value, endorsers>>

ChangeRule ==
  /\ required' \in Nat \ {0}
  /\ UNCHANGED <<funds, phase, value, endorsers>>

TreasuryNext ==
  \/ Deposit
  \/ ChangeRule
  \/ \E p \in Payment :
       \/ Open(p) \/ Pay(p) \/ Void(p)
       \/ \E person \in Person : Endorse(p, person)

TreasurySpec == TreasuryInit /\ [][TreasuryNext]_treasuryVars
=============================================================================
