------------------------------- MODULE Escrow -------------------------------
(***************************************************************************)
(* What the Supersymmetry contract promises about the ether it is given:   *)
(* an open deposit is handed back or released to the pot, once; an open    *)
(* claim is paid or closed, once; the oracles decide which while there is  *)
(* time.  Nothing is paid that is not there; whether the claims that are   *)
(* paid leave enough for the deposits is up to the oracles: the pot may be *)
(* negative.                                                               *)
(***************************************************************************)
EXTENDS Integers, Functions

CONSTANT Ids   \* deposits and claims

VARIABLES
    deposits,  \* open deposit -> amount
    claims,    \* open claim -> amount
    pot,       \* what the contract holds beyond the open deposits
    approved,  \* what the oracles have approved,
    refused,   \* what they have refused,
    overdue    \* and what they have taken too long for

escrowVars == <<deposits, claims, pot>>

Total(f) == FoldFunction(+, 0, f)

\* g is f with one entry more.
Opens(f, g, id) ==
    /\ id \in Ids \ DOMAIN f
    /\ DOMAIN g = DOMAIN f \cup {id} /\ g[id] \in Nat
    /\ \A x \in DOMAIN f : g[x] = f[x]

\* g is f with one entry less.
Settles(f, g, id) ==
    /\ id \in DOMAIN f
    /\ g = [x \in DOMAIN f \ {id} |-> f[x]]

Init == deposits = <<>> /\ claims = <<>> /\ pot = 0

Deposit(id) == Opens(deposits, deposits', id) /\ UNCHANGED <<claims, pot>>

InTime(id) == id \notin overdue
Failed(id) == id \in refused \/ ~InTime(id)
Passed(id) == InTime(id) /\ id \in approved

HandBack(id) ==
    /\ Failed(id) /\ Settles(deposits, deposits', id)
    /\ pot + Total(deposits) >= deposits[id]
    /\ UNCHANGED <<claims, pot>>

Release(id) ==
    /\ Passed(id) /\ Settles(deposits, deposits', id)
    /\ pot' = pot + deposits[id]
    /\ UNCHANGED claims

\* Ether that comes with a claim is a gift to the pot.
Claim(id) ==
    /\ Opens(claims, claims', id)
    /\ pot' >= pot
    /\ UNCHANGED deposits

Pay(id) ==
    /\ Passed(id) /\ Settles(claims, claims', id)
    /\ pot + Total(deposits) >= claims[id]
    /\ pot' = pot - claims[id]
    /\ UNCHANGED deposits

Close(id) ==
    /\ Failed(id) /\ Settles(claims, claims', id)
    /\ UNCHANGED <<deposits, pot>>

Next == \E id \in Ids :
    Deposit(id) \/ HandBack(id) \/ Release(id) \/ Claim(id) \/ Pay(id) \/ Close(id)

Spec == Init /\ [][Next]_escrowVars
=============================================================================
