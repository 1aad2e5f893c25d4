---------------------------- MODULE AtomicStock ----------------------------
(***************************************************************************)
(* What StockService promises the rest of the application: the lots of a    *)
(* restaurant change as if every request were served alone, in one step.    *)
(* No sessions, no locks, no half-done consumption.                         *)
(***************************************************************************)
EXTENDS Integers, Sequences, FiniteSets, FiniteSetsExt

CONSTANTS Lots, NoLot, Products, ProductOf, Plans

VARIABLES remaining, status, ledger

vars == <<remaining, status, ledger>>

LotsOf(x) == {l \in Lots : ProductOf[l] = x}

\* What each line of plan pl asks of product x, and what they ask together.
Asked(pl, x) ==
  [i \in DOMAIN pl |-> IF pl[i].product = x /\ pl[i].need > 0 THEN pl[i].need ELSE 0]

Demand(pl, x) == FoldFunction(+, 0, Asked(pl, x))

Init ==
  /\ remaining = [l \in Lots |-> 0]
  /\ status = [l \in Lots |-> "none"]
  /\ ledger = [l \in Lots \cup {NoLot} |-> 0]

\* Reception, manual movement or adjustment: one lot moves by what the ledger says.
MoveOne(l) ==
  /\ \A m \in Lots \ {l} : remaining'[m] = remaining[m] /\ status'[m] = status[m]
  /\ remaining'[l] >= 0
  /\ ledger' = [ledger EXCEPT ![l] = @ + remaining'[l] - remaining[l]]

\* An adjustment that names no lot.
MoveNone ==
  /\ UNCHANGED <<remaining, status>>
  /\ ledger' = [ledger EXCEPT ![NoLot] = ledger'[NoLot]]

\* A plan is consumed: all of it, from active lots, never more than they hold.
Issue(pl) ==
  /\ \A l \in Lots :
       /\ remaining'[l] \in 0..remaining[l]
       /\ remaining'[l] < remaining[l] => status[l] = "active"
       /\ status'[l] = IF remaining'[l] < remaining[l] /\ remaining'[l] = 0
                       THEN "depleted" ELSE status[l]
  /\ \A x \in Products :
       FoldFunctionOnSet(+, 0, [l \in Lots |-> remaining[l] - remaining'[l]], LotsOf(x)) = Demand(pl, x)
  /\ ledger' = [l \in Lots \cup {NoLot} |->
                  IF l = NoLot THEN ledger[l] ELSE ledger[l] + remaining'[l] - remaining[l]]

\* A lot is thrown away.  The movement records a quantity the lot once held.
Discard(l) ==
  /\ \A m \in Lots \ {l} : remaining'[m] = remaining[m] /\ status'[m] = status[m]
  /\ remaining'[l] \in {0, remaining[l]}
  /\ status'[l] \in {"discarded", status[l]}
  /\ ledger'[l] <= ledger[l]
  /\ ledger' = [ledger EXCEPT ![l] = ledger'[l]]

Next ==
  \/ \E l \in Lots : MoveOne(l) \/ Discard(l)
  \/ MoveNone
  \/ \E pl \in Plans : Issue(pl)

Spec == Init /\ [][Next]_vars
=============================================================================
