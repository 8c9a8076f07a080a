----------------------------- MODULE RfqEscrow -----------------------------
(***************************************************************************)
(* What the escrow contract promises its users, with no deadlines, results *)
(* or signatures: funds go in while a request is open; closing it fixes,   *)
(* once, what every depositor gets, and that is either everybody's own     *)
(* deposit or one trade between the seller and one provider at a price     *)
(* within that provider's deposit; then everyone withdraws its share once. *)
(***************************************************************************)
EXTENDS Integers

CONSTANTS
  Accounts, Requests, InitialBalance,
  Lots, Caps, Prices   \* amounts of the two deposits and of a trade

VARIABLES
  phase,       \* "unused", "open" or "closed", for each request
  deposit,     \* what each account locked in each request
  share,       \* what each account gets from each request, fixed by closing it
  withdrawn,   \* who has taken its share
  wallet       \* what each account holds outside the escrow

escrowVars == <<phase, deposit, share, withdrawn, wallet>>

Nothing == [fxrp |-> 0, usdt0 |-> 0]
Plus(m, n) == [fxrp |-> m.fxrp + n.fxrp, usdt0 |-> m.usdt0 + n.usdt0]
Minus(m, n) == [fxrp |-> m.fxrp - n.fxrp, usdt0 |-> m.usdt0 - n.usdt0]

PromiseInit ==
  /\ phase = [r \in Requests |-> "unused"]
  /\ deposit = [r \in Requests |-> [a \in Accounts |-> Nothing]]
  /\ share = [r \in Requests |-> [a \in Accounts |-> Nothing]]
  /\ withdrawn = [r \in Requests |-> {}]
  /\ wallet = [a \in Accounts |-> [fxrp |-> InitialBalance, usdt0 |-> InitialBalance]]

\* Account a locks what in request r, once, out of its own wallet.
Lock(r, a, what) ==
  /\ deposit[r][a] = Nothing
  /\ what # Nothing
  /\ deposit' = [deposit EXCEPT ![r][a] = what]
  /\ wallet' = [wallet EXCEPT ![a] = Minus(@, what)]
  /\ UNCHANGED <<share, withdrawn>>

\* The seller opens a request with its lot; providers join it with USDT0.
Open(r, seller, lot) ==
  /\ phase[r] = "unused"
  /\ phase' = [phase EXCEPT ![r] = "open"]
  /\ Lock(r, seller, [fxrp |-> lot, usdt0 |-> 0])

Join(r, provider, cap) ==
  /\ phase[r] = "open"
  /\ Lock(r, provider, [fxrp |-> 0, usdt0 |-> cap])
  /\ UNCHANGED phase

Close(r, shares) ==
  /\ phase[r] = "open"
  /\ phase' = [phase EXCEPT ![r] = "closed"]
  /\ share' = [share EXCEPT ![r] = shares]
  /\ UNCHANGED <<deposit, withdrawn, wallet>>

\* Everybody gets its own deposit back.
Refund(r) == Close(r, deposit[r])

\* The seller's lot goes for part of one provider's deposit; the others lose nothing.
Trade(r, seller, winner, price) ==
  /\ seller # winner
  /\ deposit[r][seller].fxrp > 0
  /\ price <= deposit[r][winner].usdt0
  /\ Close(r, [deposit[r] EXCEPT
       ![seller] = [fxrp |-> 0, usdt0 |-> price],
       ![winner] = [fxrp |-> deposit[r][seller].fxrp, usdt0 |-> @.usdt0 - price]])

Withdraw(r, a) ==
  /\ phase[r] = "closed"
  /\ a \notin withdrawn[r]
  /\ share[r][a] # Nothing
  /\ withdrawn' = [withdrawn EXCEPT ![r] = @ \cup {a}]
  /\ wallet' = [wallet EXCEPT ![a] = Plus(@, share[r][a])]
  /\ UNCHANGED <<phase, deposit, share>>

PromiseNext ==
  \E r \in Requests, a \in Accounts :
    \/ \E lot \in Lots : Open(r, a, lot)
    \/ \E cap \in Caps : Join(r, a, cap)
    \/ Refund(r)
    \/ \E winner \in Accounts, price \in Prices : Trade(r, a, winner, price)
    \/ Withdraw(r, a)

PromiseSpec == PromiseInit /\ [][PromiseNext]_escrowVars
=============================================================================
