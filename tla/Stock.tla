------------------------------- MODULE Stock -------------------------------
(***************************************************************************)
(* StockService (app/services/stock_service.py) over PostgreSQL at READ     *)
(* COMMITTED: the lots of a restaurant, the ledger of stock movements and   *)
(* the row locks that concurrent requests take.                             *)
(*                                                                         *)
(* A request that reads nothing before it holds its row lock (manual-in,    *)
(* manual-out of a lot, adjustment, expiry edit) is one step.  A request    *)
(* that consumes by FEFO - a recipe production, a POS sale, a manual-out    *)
(* without a lot - takes its snapshot, locks row by row, and serves line     *)
(* after line of its plan: each is a step, private until it commits.        *)
(* Discarding reads the lot before it locks it, so it is two steps.         *)
(***************************************************************************)
EXTENDS Integers, Sequences, FiniteSets, FiniteSetsExt

CONSTANTS
  Sessions,     \* database sessions serving multi-step requests
  Free,         \* the holder of a row nobody has locked
  Lots,         \* ids of stock_lots rows, in order of created_at
  NoLot,        \* the lot of an adjustment that names none
  Products,
  ProductOf,    \* the product a lot id is received for
  Plans,        \* sequences of [product, need] consumed in one transaction
  Quantities,   \* quantities of manual requests: the schemas check no sign
  Dates,        \* expiry and reception dates
  EditDates,    \* dates an expiry edit may set
  NoExpiry,     \* NULL expiry_date
  MaxStock,     \* bound: quantity a lot may reach
  MaxDiscards   \* bound: discard requests per lot

ASSUME StockAssumption ==
  /\ Lots \subseteq Nat /\ IsFiniteSet(Lots) /\ NoLot \notin Lots
  /\ Free \notin Sessions
  /\ ProductOf \in [Lots -> Products]
  /\ Plans \subseteq Seq([product : Products, need : Int])
  /\ Quantities \subseteq Int
  /\ Dates \subseteq Nat /\ EditDates \subseteq Dates /\ NoExpiry \notin Nat
  /\ MaxStock \in Nat /\ MaxDiscards \in Nat

VARIABLES
  \* committed rows of stock_lots
  remaining, status, expiry, received,
  \* committed stock_movements: their sum per lot, and how many are discards
  ledger, discards,
  \* row locks
  locks,
  \* the transaction of each session
  pc, plan, step, queue, chosen, work, took, target, seen

rows     == <<remaining, status, expiry, received>>
movement == <<ledger, discards>>
consumer == <<plan, step, queue, chosen, work, took>>
discarder == <<target, seen>>
vars     == <<rows, movement, locks, pc, consumer, discarder>>

Status == {"none", "active", "depleted", "discarded"}
Phases == {"idle", "locking", "discarding"}
Zero   == [l \in Lots |-> 0]
Nothing == [remaining |-> 0, status |-> "none"]

Init ==
  /\ remaining = Zero
  /\ status = [l \in Lots |-> "none"]
  /\ expiry = [l \in Lots |-> NoExpiry]
  /\ received = Zero
  /\ ledger = [l \in Lots \cup {NoLot} |-> 0]
  /\ discards = Zero
  /\ locks = [l \in Lots |-> Free]
  /\ pc = [p \in Sessions |-> "idle"]
  /\ plan = [p \in Sessions |-> <<>>]
  /\ step = [p \in Sessions |-> 1]
  /\ queue = [p \in Sessions |-> <<>>]
  /\ chosen = [p \in Sessions |-> <<>>]
  /\ work = [p \in Sessions |-> Zero]
  /\ took = [p \in Sessions |-> Zero]
  /\ target = [p \in Sessions |-> NoLot]
  /\ seen = [p \in Sessions |-> Nothing]
-----------------------------------------------------------------------------
(***************************************************************************)
(* Requests on one lot.  The lot is locked first, so nothing can happen     *)
(* between its read and its write.                                          *)
(***************************************************************************)
Exists(l)   == status[l] # "none"
Lockable(l) == Exists(l) /\ locks[l] = Free

\* A movement of q on lot l, and the remaining quantity it leaves: the CHECK
\* constraint of the table refuses a negative one, and the request rolls back.
Move(l, q) ==
  /\ remaining[l] + q \in 0..MaxStock
  /\ remaining' = [remaining EXCEPT ![l] = @ + q]
  /\ ledger' = [ledger EXCEPT ![l] = @ + q]
  /\ UNCHANGED <<discards, expiry, received, locks, pc, consumer, discarder>>

SetStatus(l, s) == status' = [status EXCEPT ![l] = s]

Receive(l, q, e, d) ==
  /\ ~Exists(l)
  /\ \A m \in Lots : m < l /\ ProductOf[m] = ProductOf[l] => Exists(m)
  /\ q \in 0..MaxStock
  /\ remaining' = [remaining EXCEPT ![l] = q]
  /\ SetStatus(l, "active")
  /\ expiry' = [expiry EXCEPT ![l] = e]
  /\ received' = [received EXCEPT ![l] = d]
  /\ ledger' = [ledger EXCEPT ![l] = q]
  /\ UNCHANGED <<discards, locks, pc, consumer, discarder>>

\* Mutant: an emptied lot that is refilled stays marked empty.
ManualInStillDepleted(l, q) ==
  /\ Lockable(l)
  /\ Move(l, q)
  /\ UNCHANGED status

ManualIn(l, q) ==
  /\ Lockable(l)
  /\ Move(l, q)
  /\ SetStatus(l, IF status[l] = "depleted" THEN "active" ELSE status[l])

ManualOut(l, q) ==
  /\ Lockable(l)
  /\ remaining[l] >= q
  /\ Move(l, -q)
  /\ SetStatus(l, IF remaining[l] = q THEN "depleted" ELSE status[l])

Adjust(l, q) ==
  /\ Lockable(l)
  /\ Move(l, q)
  /\ SetStatus(l, IF remaining[l] + q = 0 THEN "depleted"
                  ELSE IF status[l] = "depleted" THEN "active" ELSE status[l])

\* A stock count that names no lot writes a movement and touches no row.
AdjustWithoutLot(q) ==
  /\ ledger[NoLot] + q \in -MaxStock..MaxStock
  /\ ledger' = [ledger EXCEPT ![NoLot] = @ + q]
  /\ UNCHANGED <<rows, discards, locks, pc, consumer, discarder>>

EditExpiry(l, e) ==
  /\ Lockable(l)
  /\ expiry' = [expiry EXCEPT ![l] = e]
  /\ UNCHANGED <<remaining, status, received, movement, locks, pc, consumer, discarder>>
-----------------------------------------------------------------------------
(***************************************************************************)
(* FEFO consumption.                                                        *)
(***************************************************************************)
\* Mutants: NULLS FIRST; no tie-break after the dates.
FefoNullsFirst(l, m) ==
  \/ expiry[l] = NoExpiry /\ expiry[m] # NoExpiry
  \/ expiry[l] # NoExpiry /\ expiry[m] # NoExpiry /\ expiry[l] < expiry[m]
  \/ expiry[l] = expiry[m] /\ received[l] < received[m]
  \/ expiry[l] = expiry[m] /\ received[l] = received[m] /\ l < m

FefoWithTies(l, m) ==
  \/ expiry[l] # NoExpiry /\ (expiry[m] = NoExpiry \/ expiry[l] < expiry[m])
  \/ expiry[l] = expiry[m] /\ received[l] < received[m]

\* ORDER BY expiry_date ASC NULLS LAST, received_date ASC, created_at ASC.
FefoBefore(l, m) ==
  \/ expiry[l] # NoExpiry /\ (expiry[m] = NoExpiry \/ expiry[l] < expiry[m])
  \/ /\ expiry[l] = expiry[m]
     /\ \/ received[l] < received[m]
        \/ received[l] = received[m] /\ l < m

\* The rows the WHERE clause of the FEFO query accepts.  A transaction reads
\* its own uncommitted writes: w holds them for the rows it has locked.
Eligible(p, w, l) ==
  /\ status[l] = "active"
  /\ IF locks[l] = p THEN w[l] > 0 ELSE remaining[l] > 0

\* The orders in which ORDER BY may return the rows of S.
FefoOrders(S) ==
  {s \in [1..Cardinality(S) -> S] :
      \A i, j \in DOMAIN s : i < j => s[i] # s[j] /\ ~FefoBefore(s[j], s[i])}

\* FOR line IN plan: the SELECT ... FOR UPDATE of line i takes its snapshot.
\* Which rows it will lock, and in which order, is settled here, before the
\* first lock is granted.
SelectLots(p, w, line) ==
  /\ \E s \in FefoOrders({l \in Lots : ProductOf[l] = line.product /\ Eligible(p, w, l)}) :
       queue' = [queue EXCEPT ![p] = s]
  /\ chosen' = [chosen EXCEPT ![p] = <<>>]
  /\ UNCHANGED <<rows, movement, locks, discarder>>

Begin(p, pl) ==
  /\ pc[p] = "idle" /\ pl # <<>>
  /\ pc' = [pc EXCEPT ![p] = "locking"]
  /\ plan' = [plan EXCEPT ![p] = pl]
  /\ SelectLots(p, work[p], pl[1])
  /\ UNCHANGED <<step, work, took>>

\* Mutants: the rows are read without FOR UPDATE; the WHERE clause is not
\* evaluated again.
LockNextWithoutLock(p) ==
  /\ pc[p] = "locking" /\ queue[p] # <<>>
  /\ LET l == Head(queue[p]) IN
       /\ locks' = [locks EXCEPT ![l] = p]
       /\ work' = [work EXCEPT ![p][l] = IF locks[l] = p THEN @ ELSE remaining[l]]
       /\ chosen' = [chosen EXCEPT ![p] = IF Eligible(p, work[p], l) THEN Append(@, l) ELSE @]
  /\ queue' = [queue EXCEPT ![p] = Tail(@)]
  /\ UNCHANGED <<rows, movement, pc, plan, step, took, discarder>>

LockNextWithoutRecheck(p) ==
  /\ pc[p] = "locking" /\ queue[p] # <<>>
  /\ LET l == Head(queue[p]) IN
       /\ locks[l] \in {Free, p}
       /\ locks' = [locks EXCEPT ![l] = p]
       /\ work' = [work EXCEPT ![p][l] = IF locks[l] = p THEN @ ELSE remaining[l]]
       /\ chosen' = [chosen EXCEPT ![p] = Append(@, l)]
  /\ queue' = [queue EXCEPT ![p] = Tail(@)]
  /\ UNCHANGED <<rows, movement, pc, plan, step, took, discarder>>

\* The lock on the next row of the snapshot is granted.  The row's current
\* version is read under the lock and the WHERE clause evaluated again: a row
\* that no longer qualifies is left out, and stays locked.
LockNext(p) ==
  /\ pc[p] = "locking" /\ queue[p] # <<>>
  /\ LET l == Head(queue[p]) IN
       /\ locks[l] \in {Free, p}
       /\ locks' = [locks EXCEPT ![l] = p]
       /\ work' = [work EXCEPT ![p][l] = IF locks[l] = p THEN @ ELSE remaining[l]]
       /\ chosen' = [chosen EXCEPT ![p] = IF Eligible(p, work[p], l) THEN Append(@, l) ELSE @]
  /\ queue' = [queue EXCEPT ![p] = Tail(@)]
  /\ UNCHANGED <<rows, movement, pc, plan, step, took, discarder>>

Line(p)      == plan[p][step[p]]
AllLocked(p) == pc[p] = "locking" /\ queue[p] = <<>>
Held(p, I)   == FoldFunctionOnSet(+, 0, [i \in DOMAIN chosen[p] |-> work[p][chosen[p][i]]], I)
Enough(p)    == Held(p, DOMAIN chosen[p]) >= Line(p).need

\* Mutant: a lot gives all that is wanting, whatever it has.
GiveWithoutMin(p, l) ==
  IF \E i \in DOMAIN chosen[p] : chosen[p][i] = l THEN Line(p).need ELSE 0

\* The loop over the chosen lots: each gives what the lots before it left
\* wanting, and no more than it has.
Give(p, l) ==
  LET i == CHOOSE i \in DOMAIN chosen[p] : chosen[p][i] = l
      wanting == Line(p).need - Held(p, 1..(i - 1)) IN
  IF l \notin {chosen[p][k] : k \in DOMAIN chosen[p]} THEN 0
  ELSE IF wanting \in 0..work[p][l] THEN wanting
  ELSE IF wanting < 0 THEN 0 ELSE work[p][l]

Kept(p)  == [l \in Lots |-> work[p][l] - Give(p, l)]
Taken(p) == [l \in Lots |-> took[p][l] + Give(p, l)]

\* The line is served, and the transaction goes on with the next one.
NextLine(p) ==
  /\ AllLocked(p) /\ Enough(p) /\ step[p] < Len(plan[p])
  /\ step' = [step EXCEPT ![p] = @ + 1]
  /\ work' = [work EXCEPT ![p] = Kept(p)]
  /\ took' = [took EXCEPT ![p] = Taken(p)]
  /\ SelectLots(p, Kept(p), plan[p][step[p] + 1])
  /\ UNCHANGED <<pc, plan>>

\* Mutant: the transaction ends and its locks stay.
EndKeepingLocks(p) ==
  /\ pc' = [pc EXCEPT ![p] = "idle"]
  /\ plan' = [plan EXCEPT ![p] = <<>>]
  /\ step' = [step EXCEPT ![p] = 1]
  /\ queue' = [queue EXCEPT ![p] = <<>>]
  /\ chosen' = [chosen EXCEPT ![p] = <<>>]
  /\ work' = [work EXCEPT ![p] = Zero]
  /\ took' = [took EXCEPT ![p] = Zero]
  /\ target' = [target EXCEPT ![p] = NoLot]
  /\ seen' = [seen EXCEPT ![p] = Nothing]
  /\ UNCHANGED locks

\* The end of session p's transaction: its locks go and its memory with them.
End(p) ==
  /\ locks' = [l \in Lots |-> IF locks[l] = p THEN Free ELSE locks[l]]
  /\ pc' = [pc EXCEPT ![p] = "idle"]
  /\ plan' = [plan EXCEPT ![p] = <<>>]
  /\ step' = [step EXCEPT ![p] = 1]
  /\ queue' = [queue EXCEPT ![p] = <<>>]
  /\ chosen' = [chosen EXCEPT ![p] = <<>>]
  /\ work' = [work EXCEPT ![p] = Zero]
  /\ took' = [took EXCEPT ![p] = Zero]
  /\ target' = [target EXCEPT ![p] = NoLot]
  /\ seen' = [seen EXCEPT ![p] = Nothing]

\* The last line is served and the transaction commits.
Commit(p) ==
  /\ AllLocked(p) /\ Enough(p) /\ step[p] = Len(plan[p])
  /\ remaining' = [l \in Lots |-> IF Taken(p)[l] > 0 THEN Kept(p)[l] ELSE remaining[l]]
  /\ status' = [l \in Lots |-> IF Taken(p)[l] > 0 /\ Kept(p)[l] = 0 THEN "depleted" ELSE status[l]]
  /\ ledger' = [l \in Lots \cup {NoLot} |->
                  IF l = NoLot THEN ledger[l] ELSE ledger[l] - Taken(p)[l]]
  /\ UNCHANGED <<expiry, received, discards>>
  /\ End(p)

\* Mutant: the error is swallowed, and the lines already served are committed.
ShortWithoutRollback(p) ==
  /\ AllLocked(p) /\ ~Enough(p)
  /\ remaining' = [l \in Lots |-> IF took[p][l] > 0 THEN work[p][l] ELSE remaining[l]]
  /\ status' = [l \in Lots |-> IF took[p][l] > 0 /\ work[p][l] = 0 THEN "depleted" ELSE status[l]]
  /\ ledger' = [l \in Lots \cup {NoLot} |->
                  IF l = NoLot THEN ledger[l] ELSE ledger[l] - took[p][l]]
  /\ UNCHANGED <<expiry, received, discards>>
  /\ End(p)

\* InsufficientStockError reaches the session's handler, which rolls back.
Short(p) ==
  /\ AllLocked(p) /\ ~Enough(p)
  /\ UNCHANGED <<rows, movement>>
  /\ End(p)
-----------------------------------------------------------------------------
(***************************************************************************)
(* Discarding.  The endpoint loads the lot without a lock and keeps it; the *)
(* service then selects the same row FOR UPDATE, but the session already    *)
(* holds that object and does not refresh it, so the quantity discarded is  *)
(* the one the first read saw.  A flush writes the columns that differ from *)
(* what was loaded, and no others.                                          *)
(***************************************************************************)
ReadToDiscard(p, l) ==
  /\ pc[p] = "idle" /\ Exists(l)
  /\ discards[l] + Cardinality({x \in Sessions : target[x] = l}) < MaxDiscards
  /\ pc' = [pc EXCEPT ![p] = "discarding"]
  /\ target' = [target EXCEPT ![p] = l]
  /\ seen' = [seen EXCEPT ![p] = [remaining |-> remaining[l], status |-> status[l]]]
  /\ UNCHANGED <<rows, movement, locks, consumer>>

Discard(p) ==
  /\ pc[p] = "discarding"
  /\ LET l == target[p] IN
       /\ locks[l] = Free
       /\ remaining' = [remaining EXCEPT ![l] = IF seen[p].remaining = 0 THEN @ ELSE 0]
       /\ status' = [status EXCEPT ![l] = IF seen[p].status = "discarded" THEN @ ELSE "discarded"]
       /\ ledger' = [ledger EXCEPT ![l] = @ - seen[p].remaining]
       /\ discards' = [discards EXCEPT ![l] = @ + 1]
  /\ UNCHANGED <<expiry, received>>
  /\ End(p)
-----------------------------------------------------------------------------
\* The request dies before it commits: an exception, a lost connection, a
\* restart of the server, or PostgreSQL choosing it to break a deadlock.
Rollback(p) ==
  /\ pc[p] # "idle"
  /\ UNCHANGED <<rows, movement>>
  /\ End(p)

WaitsFor(p, q) ==
  /\ p # q
  /\ pc[p] = "locking" /\ queue[p] # <<>>
  /\ locks[Head(queue[p])] = q

\* S is a set of transactions that wait for each other in a circle.
Deadlocked(S) ==
  /\ S # {}
  /\ \A p \in S : \E q \in S : WaitsFor(p, q)
  /\ \A p \in S : \E q \in S : WaitsFor(q, p)

BreakDeadlock(p) ==
  /\ \E S \in SUBSET Sessions : p \in S /\ Deadlocked(S)
  /\ Rollback(p)

Consume(p) ==
  LockNext(p) \/ NextLine(p) \/ Commit(p) \/ Short(p)

LotRequest(l) ==
  \/ \E q \in Quantities, e \in Dates \cup {NoExpiry}, d \in Dates : Receive(l, q, e, d)
  \/ \E q \in Quantities : ManualIn(l, q) \/ ManualOut(l, q) \/ Adjust(l, q)
  \/ \E e \in EditDates : EditExpiry(l, e)

Next ==
  \/ \E l \in Lots : LotRequest(l)
  \/ \E q \in Quantities : AdjustWithoutLot(q)
  \/ \E p \in Sessions :
       \/ \E pl \in Plans : Begin(p, pl)
       \/ \E l \in Lots : ReadToDiscard(p, l)
       \/ Consume(p) \/ Discard(p) \/ Rollback(p)

Spec == Init /\ [][Next]_vars

\* PostgreSQL queues the sessions that wait for a row, so a row that is freed
\* again and again is granted in the end (SF); a session that waits for nothing
\* goes on; and the deadlock detector runs.  Users need never send a request.
Fairness ==
  \A p \in Sessions : /\ SF_vars(LockNext(p))
                      /\ WF_vars(NextLine(p) \/ Commit(p) \/ Short(p))
                      /\ WF_vars(BreakDeadlock(p))

FairSpec == Spec /\ Fairness
-----------------------------------------------------------------------------
(***************************************************************************)
(* Properties.                                                              *)
(***************************************************************************)
\* Types: no committed quantity is negative, nor is a pending one.
TypeOK ==
  /\ remaining \in [Lots -> Nat]
  /\ status \in [Lots -> Status]
  /\ expiry \in [Lots -> Dates \cup {NoExpiry}]
  /\ received \in [Lots -> Nat]
  /\ ledger \in [Lots \cup {NoLot} -> Int]
  /\ discards \in [Lots -> Nat]
  /\ locks \in [Lots -> Sessions \cup {Free}]
  /\ pc \in [Sessions -> Phases]
  /\ plan \in [Sessions -> Plans \cup {<<>>}]
  /\ step \in [Sessions -> Nat]
  /\ queue \in [Sessions -> Seq(Lots)]
  /\ chosen \in [Sessions -> Seq(Lots)]
  /\ work \in [Sessions -> [Lots -> Nat]]
  /\ took \in [Sessions -> [Lots -> Nat]]
  /\ target \in [Sessions -> Lots \cup {NoLot}]
  /\ seen \in [Sessions -> [remaining : Nat, status : Status]]

\* Until a lot is discarded, quantity_remaining is the sum of its movements:
\* no interleaving of consumptions and manual requests loses an update.
LedgerBalance ==
  \A l \in Lots : discards[l] = 0 => ledger[l] = remaining[l]

\* The same of every lot, discarded ones included.
LedgerExact == \A l \in Lots : ledger[l] = remaining[l]

\* What a transaction is about to take, it takes from a lot it holds locked,
\* that is still on sale, and whose current quantity it knows: a lot discarded
\* or emptied while the transaction waited for its lock is never sold.
ChosenIsFresh ==
  \A p \in Sessions : \A i \in DOMAIN chosen[p] :
    LET l == chosen[p][i] IN
      /\ locks[l] = p
      /\ status[l] = "active"
      /\ work[p][l] + took[p][l] = remaining[l]

\* No quantity is hidden in a lot that is marked empty, where FEFO would never
\* find it (when requests carry no negative quantity).
DepletedIsEmpty ==
  \A l \in Lots : status[l] = "depleted" => remaining[l] = 0

\* FEFO: a transaction that took from a lot leaves nothing in the lots of the
\* same product that it had selected and that expire earlier; an unknown expiry
\* comes last.
ExpiresBefore(l, m) ==
  expiry[l] # NoExpiry /\ (expiry[m] = NoExpiry \/ expiry[l] < expiry[m])

FefoRespected ==
  [][\A p \in Sessions :
       Commit(p) => \A l, m \in Lots :
         /\ locks[l] = p /\ ledger'[l] < ledger[l]
         /\ locks[m] = p /\ status[m] = "active"
         /\ ProductOf[m] = ProductOf[l] /\ ExpiresBefore(m, l)
         => remaining'[m] = 0]_vars

\* Transactions that consume one product each lock its lots in one order, so
\* they never wait for each other in a circle.
NoDeadlock == \A S \in SUBSET Sessions : ~Deadlocked(S)

\* Every transaction that consumes stock ends, committed or rolled back.
EveryConsumerEnds ==
  \A p \in Sessions : (pc[p] = "locking") ~> (pc[p] = "idle")

\* To a reader of committed rows the requests look atomic, and a consumption
\* that fails for one line of its plan leaves no trace of the others.
Atomic == INSTANCE AtomicStock
LooksAtomic == Atomic!Spec
=============================================================================
