---------------------------- MODULE StockProofs ----------------------------
(***************************************************************************)
(* Proofs about Stock, for any sets of lots, sessions, plans and           *)
(* quantities (quantities of either sign): types, the ledger, what a       *)
(* consumption takes; that Stock implements AtomicStock; FEFO; and the     *)
(* absence of deadlocks.  The argument is that of two-phase locking: a     *)
(* transaction only writes rows it holds, what it knows of a row it holds  *)
(* is that row's committed quantity less what it has taken, and nobody     *)
(* else changes a row that is held.                                        *)
(***************************************************************************)
EXTENDS Stock, FiniteSums, FiniteSetTheorems, TLAPS

\* What a session remembers of the rows it holds is up to date.
HeldIsFresh ==
  \A p \in Sessions, l \in Lots :
    locks[l] = p => /\ status[l] # "none"
                    /\ work[p][l] + took[p][l] = remaining[l]

\* A transaction has taken only from rows it holds.
TakenIsHeld ==
  \A p \in Sessions, l \in Lots : took[p][l] > 0 => locks[l] = p

\* The lots chosen for the current line are held and on sale.
ChosenIsHeld ==
  \A p \in Sessions : \A i \in DOMAIN chosen[p] :
    locks[chosen[p][i]] = p /\ status[chosen[p][i]] = "active"

\* The rows waited for exist.
QueuedExists ==
  \A p \in Sessions : \A i \in DOMAIN queue[p] : status[queue[p][i]] # "none"

IInv == TypeOK /\ HeldIsFresh /\ TakenIsHeld /\ ChosenIsHeld /\ QueuedExists /\ LedgerBalance
-----------------------------------------------------------------------------
\* The rows an ORDER BY returns are a sequence of the rows it was given.
LEMMA FefoOrdersAreSequences ==
  ASSUME NEW S \in SUBSET Lots, NEW s \in FefoOrders(S)
  PROVE  s \in Seq(Lots) /\ \A i \in DOMAIN s : s[i] \in S
<1>1. Cardinality(S) \in Nat
  BY StockAssumption, FS_Subset, FS_CardinalityType
<1>2. s \in [1..Cardinality(S) -> S]
  BY DEF FefoOrders
<1>3. QED
  BY <1>1, <1>2

\* A lot gives between nothing and all it has, and only a chosen lot gives.
LEMMA GiveBounds ==
  ASSUME TypeOK, NEW p \in Sessions, NEW l \in Lots
  PROVE  /\ work[p][l] \in Nat /\ took[p][l] \in Nat /\ Give(p, l) \in Nat
         /\ Give(p, l) \in 0..work[p][l]
         /\ Give(p, l) > 0 => \E i \in DOMAIN chosen[p] : chosen[p][i] = l
<1> DEFINE Goal == /\ Give(p, l) \in 0..work[p][l]
                   /\ Give(p, l) > 0 => \E i \in DOMAIN chosen[p] : chosen[p][i] = l
<1>1. work[p][l] \in Nat /\ took[p][l] \in Nat
  BY DEF TypeOK
<1>2. ASSUME l \notin {chosen[p][k] : k \in DOMAIN chosen[p]}
      PROVE  Goal
  BY <1>1, <1>2 DEF Give
<1>3. ASSUME l \in {chosen[p][k] : k \in DOMAIN chosen[p]}
      PROVE  Goal
  <2> DEFINE i == CHOOSE i \in DOMAIN chosen[p] : chosen[p][i] = l
             wanting == Line(p).need - Held(p, 1..(i - 1))
  <2>1. Give(p, l) = IF wanting \in 0..work[p][l] THEN wanting
                     ELSE IF wanting < 0 THEN 0 ELSE work[p][l]
    BY <1>3 DEF Give
  <2> HIDE DEF wanting
  <2>2. QED
    BY <1>1, <1>3, <2>1
<1>4. Goal
  BY <1>2, <1>3
<1>5. Give(p, l) \in Nat
  BY <1>1, <1>4
<1>6. QED
  BY <1>1, <1>4, <1>5

\* So a line leaves each lot a natural quantity, and moves what it leaves not.
LEMMA ServedTypes ==
  ASSUME TypeOK, NEW p \in Sessions
  PROVE  /\ Kept(p) \in [Lots -> Nat] /\ Taken(p) \in [Lots -> Nat]
         /\ \A l \in Lots : Kept(p)[l] + Taken(p)[l] = work[p][l] + took[p][l]
<1>1. ASSUME NEW l \in Lots
      PROVE  /\ work[p][l] \in Nat /\ took[p][l] \in Nat
             /\ Give(p, l) \in 0..work[p][l]
  BY GiveBounds
<1>2. QED
  BY <1>1 DEF Kept, Taken
-----------------------------------------------------------------------------
\* What a transaction has taken once the line is served, it holds.
LEMMA TakenRowsAreHeld ==
  ASSUME IInv, NEW p \in Sessions
  PROVE  \A l \in Lots : Taken(p)[l] > 0 => locks[l] = p
<1> SUFFICES ASSUME NEW l \in Lots, Taken(p)[l] > 0
             PROVE  locks[l] = p
  OBVIOUS
<1>1. took[p][l] \in Nat /\ Give(p, l) \in Nat /\ Taken(p)[l] = took[p][l] + Give(p, l)
  <2>1. took[p][l] \in Nat /\ work[p][l] \in Nat
    BY DEF IInv, TypeOK
  <2>2. Give(p, l) \in 0..work[p][l]
    BY GiveBounds DEF IInv
  <2>3. QED
    BY <2>1, <2>2 DEF Taken
<1>2. CASE took[p][l] > 0
  BY <1>2 DEF IInv, TakenIsHeld
<1>3. CASE Give(p, l) > 0
  BY <1>3, GiveBounds DEF IInv, ChosenIsHeld
<1>4. QED
  BY <1>1, <1>2, <1>3
-----------------------------------------------------------------------------
\* What a request on one lot does: it changes row l, which nobody holds, moves
\* the ledger with it, and touches no session.
RowStep(l) ==
  /\ status[l] = "none" \/ locks[l] = Free
  /\ remaining' \in [Lots -> Nat] /\ status' \in [Lots -> Status]
  /\ status'[l] # "none"
  /\ \A m \in Lots \ {l} : remaining'[m] = remaining[m] /\ status'[m] = status[m]
  /\ expiry' \in [Lots -> Dates \cup {NoExpiry}] /\ received' \in [Lots -> Nat]
  /\ ledger' \in [Lots \cup {NoLot} -> Int] /\ discards' \in [Lots -> Nat]
  /\ \A m \in Lots \ {l} : ledger'[m] = ledger[m] /\ discards'[m] = discards[m]
  /\ discards'[l] = 0 => ledger'[l] = remaining'[l]

LEMMA RowStepKeepsInv ==
  ASSUME IInv, NEW l \in Lots, RowStep(l), UNCHANGED <<locks, pc, consumer, discarder>>
  PROVE  IInv'
<1> USE DEF consumer, discarder
<1>1. TypeOK'
  BY DEF IInv, TypeOK, RowStep
<1>2. \A p \in Sessions : locks[l] # p
  BY StockAssumption DEF IInv, HeldIsFresh, RowStep
<1>3. HeldIsFresh'
  BY <1>2 DEF IInv, HeldIsFresh, RowStep
<1>4. TakenIsHeld'
  BY DEF IInv, TakenIsHeld
<1>5. ChosenIsHeld'
  <2> SUFFICES ASSUME NEW p \in Sessions, NEW i \in DOMAIN chosen[p]
               PROVE  locks[chosen[p][i]] = p /\ status'[chosen[p][i]] = "active"
    BY DEF ChosenIsHeld
  <2>1. chosen[p][i] \in Lots
    BY DEF IInv, TypeOK
  <2>2. QED
    BY <1>2, <2>1 DEF IInv, ChosenIsHeld, RowStep
<1>6. QueuedExists'
  <2> SUFFICES ASSUME NEW p \in Sessions, NEW i \in DOMAIN queue[p]
               PROVE  status'[queue[p][i]] # "none"
    BY DEF QueuedExists
  <2>1. queue[p][i] \in Lots
    BY DEF IInv, TypeOK
  <2>2. QED
    BY <2>1 DEF IInv, QueuedExists, RowStep
<1>7. LedgerBalance'
  BY DEF IInv, LedgerBalance, RowStep
<1>8. QED
  BY <1>1, <1>3, <1>4, <1>5, <1>6, <1>7 DEF IInv

\* A movement on an unlocked lot that exists, whatever status it sets.
LEMMA MoveKeepsInv ==
  ASSUME IInv, NEW l \in Lots, NEW q \in Int, Lockable(l), Move(l, q),
         NEW s \in Status \ {"none"}, status' = [status EXCEPT ![l] = s]
  PROVE  IInv'
<1>1. remaining[l] \in Nat /\ ledger[l] \in Int /\ remaining[l] + q \in Nat
  BY StockAssumption DEF IInv, TypeOK, Move
<1>2. remaining' \in [Lots -> Nat] /\ status' \in [Lots -> Status]
  BY <1>1 DEF IInv, TypeOK, Move
<1>3. ledger' \in [Lots \cup {NoLot} -> Int]
  BY <1>1 DEF IInv, TypeOK, Move
<1>4. discards'[l] = 0 => ledger'[l] = remaining'[l]
  BY <1>1 DEF IInv, TypeOK, Move, LedgerBalance
<1>5. RowStep(l)
  BY <1>2, <1>3, <1>4 DEF IInv, TypeOK, Move, Lockable, RowStep
<1>6. QED
  BY <1>5, RowStepKeepsInv DEF Move

LEMMA LotRequestKeepsInv ==
  ASSUME IInv, NEW l \in Lots, LotRequest(l)
  PROVE  IInv'
<1> USE StockAssumption DEF IInv, TypeOK, Status, LedgerBalance, RowStep
<1>1. ASSUME NEW q \in Quantities, NEW e \in Dates \cup {NoExpiry}, NEW d \in Dates,
             Receive(l, q, e, d)
      PROVE  IInv'
  <2>1. RowStep(l)
    BY <1>1 DEF Receive, SetStatus, Exists
  <2>2. QED
    BY <1>1, <2>1, RowStepKeepsInv DEF Receive
<1>2. ASSUME NEW q \in Quantities, ManualIn(l, q)
      PROVE  IInv'
  BY <1>2, MoveKeepsInv DEF ManualIn, SetStatus, Lockable, Exists
<1>3. ASSUME NEW q \in Quantities, ManualOut(l, q)
      PROVE  IInv'
  <2>1. -q \in Int /\ Lockable(l) /\ Move(l, -q)
    BY <1>3 DEF ManualOut
  <2>2. PICK s \in Status \ {"none"} : status' = [status EXCEPT ![l] = s]
    BY <1>3 DEF ManualOut, SetStatus, Lockable, Exists
  <2>3. QED
    BY <2>1, <2>2, MoveKeepsInv
<1>4. ASSUME NEW q \in Quantities, Adjust(l, q)
      PROVE  IInv'
  BY <1>4, MoveKeepsInv DEF Adjust, SetStatus, Lockable, Exists
<1>5. ASSUME NEW e \in EditDates, EditExpiry(l, e)
      PROVE  IInv'
  <2>1. RowStep(l)
    BY <1>5 DEF EditExpiry, Lockable, Exists, movement
  <2>2. QED
    BY <1>5, <2>1, RowStepKeepsInv DEF EditExpiry
<1>6. QED
  BY <1>1, <1>2, <1>3, <1>4, <1>5 DEF LotRequest
-----------------------------------------------------------------------------
\* An adjustment that names no lot leaves every lot as it was.
LEMMA AdjustWithoutLotKeepsInv ==
  ASSUME IInv, NEW q \in Quantities, AdjustWithoutLot(q)
  PROVE  IInv'
<1> USE AdjustWithoutLot(q) DEF IInv, AdjustWithoutLot, rows, consumer, discarder
<1>1. TypeOK'
  <2>1. q \in Int /\ ledger[NoLot] \in Int
    BY StockAssumption DEF TypeOK
  <2>2. ledger' \in [Lots \cup {NoLot} -> Int]
    BY <2>1 DEF TypeOK
  <2>3. QED
    BY <2>2 DEF TypeOK
<1>2. HeldIsFresh' /\ TakenIsHeld' /\ ChosenIsHeld' /\ QueuedExists'
  BY DEF HeldIsFresh, TakenIsHeld, ChosenIsHeld, QueuedExists
<1>3. LedgerBalance'
  BY StockAssumption DEF LedgerBalance, TypeOK
<1>4. QED
  BY <1>1, <1>2, <1>3

\* The first or the next line is selected: its rows exist, and none is chosen yet.
LEMMA SelectLotsKeeps ==
  ASSUME IInv, NEW p \in Sessions, NEW w, NEW line, SelectLots(p, w, line)
  PROVE  /\ queue' \in [Sessions -> Seq(Lots)] /\ chosen' \in [Sessions -> Seq(Lots)]
         /\ \A r \in Sessions : \A i \in DOMAIN chosen'[r] :
              locks[chosen'[r][i]] = r /\ status[chosen'[r][i]] = "active"
         /\ \A r \in Sessions : \A i \in DOMAIN queue'[r] : status[queue'[r][i]] # "none"
<1> DEFINE S == {l \in Lots : ProductOf[l] = line.product /\ Eligible(p, w, l)}
<1>1. PICK s \in FefoOrders(S) : queue' = [queue EXCEPT ![p] = s]
  BY DEF SelectLots
<1>2. s \in Seq(Lots) /\ \A i \in DOMAIN s : s[i] \in S
  <2>1. S \in SUBSET Lots
    OBVIOUS
  <2> HIDE DEF S
  <2>2. QED
    BY <2>1, FefoOrdersAreSequences
<1>3. \A i \in DOMAIN s : status[s[i]] # "none"
  BY <1>2 DEF Eligible
<1>4. chosen' = [chosen EXCEPT ![p] = <<>>]
  BY DEF SelectLots
<1> HIDE DEF S
<1>5. queue' \in [Sessions -> Seq(Lots)] /\ chosen' \in [Sessions -> Seq(Lots)]
  BY <1>1, <1>2, <1>4 DEF IInv, TypeOK
<1>6. ASSUME NEW r \in Sessions, NEW i \in DOMAIN chosen'[r]
      PROVE  locks[chosen'[r][i]] = r /\ status[chosen'[r][i]] = "active"
  <2>1. CASE r = p
    <3>1. chosen'[r] = <<>>
      BY <1>4, <2>1 DEF IInv, TypeOK
    <3>2. QED
      BY <1>6, <3>1
  <2>2. CASE r # p
    BY <1>4, <1>6, <2>2 DEF IInv, TypeOK, ChosenIsHeld
  <2>3. QED
    BY <2>1, <2>2
<1>7. ASSUME NEW r \in Sessions, NEW i \in DOMAIN queue'[r]
      PROVE  status[queue'[r][i]] # "none"
  <2>1. CASE r = p
    BY <1>1, <1>3, <1>7, <2>1 DEF IInv, TypeOK
  <2>2. CASE r # p
    BY <1>1, <1>7, <2>2 DEF IInv, TypeOK, QueuedExists
  <2>3. QED
    BY <2>1, <2>2
<1>8. QED
  BY <1>5, <1>6, <1>7

LEMMA BeginKeepsInv ==
  ASSUME IInv, NEW p \in Sessions, NEW pl \in Plans, Begin(p, pl)
  PROVE  IInv'
<1>1. SelectLots(p, work[p], pl[1])
  BY DEF Begin
<1>2. UNCHANGED <<rows, movement, locks, step, work, took, discarder>>
  BY DEF Begin, SelectLots
<1>3. /\ queue' \in [Sessions -> Seq(Lots)] /\ chosen' \in [Sessions -> Seq(Lots)]
      /\ \A r \in Sessions : \A i \in DOMAIN chosen'[r] :
           locks[chosen'[r][i]] = r /\ status[chosen'[r][i]] = "active"
      /\ \A r \in Sessions : \A i \in DOMAIN queue'[r] : status[queue'[r][i]] # "none"
  BY <1>1, SelectLotsKeeps
<1> USE <1>2 DEF IInv, rows, movement, discarder
<1>4. TypeOK'
  <2>1. pc' \in [Sessions -> Phases] /\ plan' \in [Sessions -> Plans \cup {<<>>}]
    BY DEF TypeOK, Begin, Phases
  <2>2. QED
    BY <1>3, <2>1 DEF TypeOK
<1>5. HeldIsFresh' /\ TakenIsHeld' /\ LedgerBalance'
  BY DEF HeldIsFresh, TakenIsHeld, LedgerBalance
<1>6. ChosenIsHeld' /\ QueuedExists'
  BY <1>3 DEF ChosenIsHeld, QueuedExists
<1>7. QED
  BY <1>4, <1>5, <1>6

LEMMA NextLineKeepsInv ==
  ASSUME IInv, NEW p \in Sessions, NextLine(p)
  PROVE  IInv'
<1>1. SelectLots(p, Kept(p), plan[p][step[p] + 1])
  BY DEF NextLine
<1>2. UNCHANGED <<rows, movement, locks, pc, plan, discarder>>
  BY DEF NextLine, SelectLots
<1>3. /\ queue' \in [Sessions -> Seq(Lots)] /\ chosen' \in [Sessions -> Seq(Lots)]
      /\ \A r \in Sessions : \A i \in DOMAIN chosen'[r] :
           locks[chosen'[r][i]] = r /\ status[chosen'[r][i]] = "active"
      /\ \A r \in Sessions : \A i \in DOMAIN queue'[r] : status[queue'[r][i]] # "none"
  BY <1>1, SelectLotsKeeps
<1>4. /\ Kept(p) \in [Lots -> Nat] /\ Taken(p) \in [Lots -> Nat]
      /\ \A l \in Lots : Kept(p)[l] + Taken(p)[l] = work[p][l] + took[p][l]
  BY ServedTypes DEF IInv
<1>5. \A l \in Lots : Taken(p)[l] > 0 => locks[l] = p
  BY TakenRowsAreHeld
<1>6. work' = [work EXCEPT ![p] = Kept(p)] /\ took' = [took EXCEPT ![p] = Taken(p)]
  BY DEF NextLine
<1> USE <1>2 DEF IInv, rows, movement, discarder
<1>7. TypeOK'
  <2>1. step' \in [Sessions -> Nat]
    BY DEF TypeOK, NextLine
  <2>2. work' \in [Sessions -> [Lots -> Nat]] /\ took' \in [Sessions -> [Lots -> Nat]]
    BY <1>4, <1>6 DEF TypeOK
  <2>3. QED
    BY <1>3, <2>1, <2>2 DEF TypeOK
<1>8. HeldIsFresh'
  BY <1>4, <1>6 DEF HeldIsFresh, TypeOK
<1>9. TakenIsHeld'
  BY <1>5, <1>6 DEF TakenIsHeld, TypeOK
<1>10. ChosenIsHeld' /\ QueuedExists'
  BY <1>3 DEF ChosenIsHeld, QueuedExists
<1>11. LedgerBalance'
  BY DEF LedgerBalance
<1>12. QED
  BY <1>7, <1>8, <1>9, <1>10, <1>11

LEMMA LockNextKeepsInv ==
  ASSUME IInv, NEW p \in Sessions, LockNext(p)
  PROVE  IInv'
<1> DEFINE l == Head(queue[p])
<1>1. queue[p] \in Seq(Lots) /\ queue[p] # <<>> /\ chosen[p] \in Seq(Lots)
  BY DEF IInv, TypeOK, LockNext
<1>2. l \in Lots /\ Tail(queue[p]) \in Seq(Lots) /\ l = queue[p][1] /\ 1 \in DOMAIN queue[p]
  BY <1>1
<1>3. /\ locks[l] \in {Free, p} /\ locks' = [locks EXCEPT ![l] = p]
      /\ work' = [work EXCEPT ![p][l] = IF locks[l] = p THEN @ ELSE remaining[l]]
      /\ chosen' = [chosen EXCEPT ![p] = IF Eligible(p, work[p], l) THEN Append(@, l) ELSE @]
      /\ queue' = [queue EXCEPT ![p] = Tail(@)]
      /\ UNCHANGED <<rows, movement, pc, plan, step, took, discarder>>
  BY DEF LockNext
<1>4. p \in Sessions /\ p # Free
  BY StockAssumption
<1> HIDE DEF l
<1> USE DEF IInv, rows, movement, discarder
<1>5. TypeOK'
  <2>1. work' \in [Sessions -> [Lots -> Nat]]
    <3> DEFINE v == IF locks[l] = p THEN work[p][l] ELSE remaining[l]
    <3>1. v \in Nat
      BY <1>2 DEF TypeOK
    <3>2. work' = [work EXCEPT ![p] = [work[p] EXCEPT ![l] = v]]
      BY <1>3
    <3> HIDE DEF v
    <3>3. QED
      BY <1>2, <3>1, <3>2 DEF TypeOK
  <2>2. chosen' \in [Sessions -> Seq(Lots)]
    <3>1. Append(chosen[p], l) \in Seq(Lots)
      BY <1>1, <1>2
    <3>2. QED
      BY <1>3, <3>1 DEF TypeOK
  <2>3. queue' \in [Sessions -> Seq(Lots)] /\ locks' \in [Lots -> Sessions \cup {Free}]
    BY <1>2, <1>3 DEF TypeOK
  <2>4. QED
    BY <1>3, <2>1, <2>2, <2>3 DEF TypeOK
<1>6. HeldIsFresh'
  <2>1. status[l] # "none"
    BY <1>2 DEF QueuedExists
  <2>2. locks[l] # p => took[p][l] = 0
    BY <1>2 DEF TakenIsHeld, TypeOK
  <2>3. locks[l] # p => work'[p][l] + took[p][l] = remaining[l]
    BY <1>2, <1>3, <2>2 DEF TypeOK
  <2>4. locks[l] = p => work'[p][l] + took[p][l] = remaining[l]
    BY <1>2, <1>3 DEF TypeOK, HeldIsFresh
  <2>5. ASSUME NEW r \in Sessions, NEW m \in Lots, locks'[m] = r
        PROVE  status[m] # "none" /\ work'[r][m] + took[r][m] = remaining[m]
    <3>1. CASE m = l
      BY <1>2, <1>3, <2>1, <2>3, <2>4, <2>5, <3>1 DEF TypeOK
    <3>2. CASE m # l
      BY <1>2, <1>3, <2>5, <3>2 DEF TypeOK, HeldIsFresh
    <3>3. QED
      BY <3>1, <3>2
  <2>6. QED
    BY <1>3, <2>5 DEF HeldIsFresh
<1>7. TakenIsHeld'
  <2>1. ASSUME NEW r \in Sessions, NEW m \in Lots, took[r][m] > 0
        PROVE  locks'[m] = r
    <3>1. locks[m] = r
      BY <2>1 DEF TakenIsHeld
    <3>2. QED
      BY <1>2, <1>3, <3>1, StockAssumption DEF TypeOK
  <2>2. QED
    BY <1>3, <2>1 DEF TakenIsHeld
<1>8. ChosenIsHeld'
  <2>1. \A r \in Sessions : \A m \in Lots : locks[m] = r => locks'[m] = r
    BY <1>2, <1>3, <1>4, StockAssumption DEF TypeOK
  <2>2. ASSUME NEW r \in Sessions, NEW i \in DOMAIN chosen'[r]
        PROVE  locks'[chosen'[r][i]] = r /\ status[chosen'[r][i]] = "active"
    <3>1. CASE i \in DOMAIN chosen[r] /\ chosen'[r][i] = chosen[r][i]
      <4>1. chosen[r][i] \in Lots
        BY <3>1 DEF TypeOK
      <4>2. QED
        BY <2>1, <2>2, <3>1, <4>1 DEF ChosenIsHeld
    <3>2. CASE r = p /\ chosen'[r][i] = l /\ Eligible(p, work[p], l)
      BY <1>2, <1>3, <3>2 DEF Eligible, TypeOK
    <3>3. \/ i \in DOMAIN chosen[r] /\ chosen'[r][i] = chosen[r][i]
          \/ r = p /\ chosen'[r][i] = l /\ Eligible(p, work[p], l)
      <4>1. CASE r # p
        BY <1>3, <2>2, <4>1 DEF TypeOK
      <4>2. CASE r = p /\ ~Eligible(p, work[p], l)
        BY <1>3, <2>2, <4>2 DEF TypeOK
      <4>3. CASE r = p /\ Eligible(p, work[p], l)
        <5>1. chosen'[r] = Append(chosen[p], l)
          BY <1>3, <4>3 DEF TypeOK
        <5>2. QED
          BY <1>1, <1>2, <2>2, <4>3, <5>1
      <4>4. QED
        BY <4>1, <4>2, <4>3
    <3>4. QED
      BY <3>1, <3>2, <3>3
  <2>3. QED
    BY <1>3, <2>2 DEF ChosenIsHeld
<1>9. QueuedExists'
  <2>1. ASSUME NEW r \in Sessions, NEW i \in DOMAIN queue'[r]
        PROVE  status[queue'[r][i]] # "none"
    <3>1. CASE r = p
      <4>1. queue'[r] = Tail(queue[p])
        BY <1>3, <3>1 DEF TypeOK
      <4>2. i + 1 \in DOMAIN queue[p] /\ queue'[r][i] = queue[p][i + 1]
        BY <1>1, <2>1, <4>1
      <4>3. QED
        BY <4>2 DEF QueuedExists
    <3>2. CASE r # p
      BY <1>3, <2>1, <3>2 DEF QueuedExists, TypeOK
    <3>3. QED
      BY <3>1, <3>2
  <2>2. QED
    BY <1>3, <2>1 DEF QueuedExists
<1>10. LedgerBalance'
  BY <1>3 DEF LedgerBalance
<1>11. QED
  BY <1>5, <1>6, <1>7, <1>8, <1>9, <1>10
-----------------------------------------------------------------------------
\* The end of a transaction gives its rows back and forgets all about them.
Forgets(p) ==
  /\ \A l \in Lots : locks'[l] = IF locks[l] = p THEN Free ELSE locks[l]
  /\ took'[p] = Zero /\ queue'[p] = <<>> /\ chosen'[p] = <<>>
  /\ \A r \in Sessions \ {p} : /\ queue'[r] = queue[r] /\ chosen'[r] = chosen[r]
                               /\ work'[r] = work[r] /\ took'[r] = took[r]

LEMMA EndForgets ==
  ASSUME IInv, NEW p \in Sessions, End(p)
  PROVE  /\ locks' \in [Lots -> Sessions \cup {Free}] /\ pc' \in [Sessions -> Phases]
         /\ plan' \in [Sessions -> Plans \cup {<<>>}] /\ step' \in [Sessions -> Nat]
         /\ queue' \in [Sessions -> Seq(Lots)] /\ chosen' \in [Sessions -> Seq(Lots)]
         /\ work' \in [Sessions -> [Lots -> Nat]] /\ took' \in [Sessions -> [Lots -> Nat]]
         /\ target' \in [Sessions -> Lots \cup {NoLot}]
         /\ seen' \in [Sessions -> [remaining : Nat, status : Status]]
         /\ Forgets(p)
<1> USE DEF IInv, TypeOK, End
<1>1. Zero \in [Lots -> Nat] /\ Nothing \in [remaining : Nat, status : Status]
  BY DEF Zero, Nothing, Status
<1>2. locks' \in [Lots -> Sessions \cup {Free}] /\ pc' \in [Sessions -> Phases]
  BY DEF Phases
<1>3. plan' \in [Sessions -> Plans \cup {<<>>}] /\ step' \in [Sessions -> Nat]
  OBVIOUS
<1>4. queue' \in [Sessions -> Seq(Lots)] /\ chosen' \in [Sessions -> Seq(Lots)]
  OBVIOUS
<1>5. work' \in [Sessions -> [Lots -> Nat]] /\ took' \in [Sessions -> [Lots -> Nat]]
  BY <1>1
<1>6. /\ target' \in [Sessions -> Lots \cup {NoLot}]
      /\ seen' \in [Sessions -> [remaining : Nat, status : Status]]
  BY <1>1
<1>7. Forgets(p)
  BY DEF Forgets
<1>8. QED
  BY <1>2, <1>3, <1>4, <1>5, <1>6, <1>7

\* A transaction ends having changed, if anything, rows that it held or that
\* nobody did, and no row has come to exist no more.
LEMMA EndKeepsInv ==
  ASSUME IInv, NEW p \in Sessions, End(p), UNCHANGED <<expiry, received>>,
         remaining' \in [Lots -> Nat], status' \in [Lots -> Status],
         ledger' \in [Lots \cup {NoLot} -> Int], discards' \in [Lots -> Nat],
         \A l \in Lots : /\ locks[l] \notin {p, Free} =>
                               remaining'[l] = remaining[l] /\ status'[l] = status[l]
                         /\ status[l] # "none" => status'[l] # "none",
         LedgerBalance'
  PROVE  IInv'
<1>1. TypeOK'
  BY EndForgets DEF IInv, TypeOK
<1>2. Forgets(p)
  BY EndForgets
<1>3. ASSUME NEW l \in Lots, NEW r \in Sessions, locks'[l] = r
      PROVE  r # p /\ locks[l] = r
  BY <1>2, <1>3, StockAssumption DEF Forgets
<1>4. ASSUME NEW l \in Lots, NEW r \in Sessions \ {p}, locks[l] = r
      PROVE  locks'[l] = r /\ remaining'[l] = remaining[l] /\ status'[l] = status[l]
  BY <1>2, <1>4, StockAssumption DEF Forgets
<1>5. HeldIsFresh'
  <2>1. ASSUME NEW l \in Lots, NEW r \in Sessions, locks'[l] = r
        PROVE  status'[l] # "none" /\ work'[r][l] + took'[r][l] = remaining'[l]
    <3>1. r # p /\ locks[l] = r
      BY <1>3, <2>1
    <3>2. remaining'[l] = remaining[l] /\ status'[l] = status[l]
      BY <1>4, <3>1
    <3>3. work'[r] = work[r] /\ took'[r] = took[r]
      BY <1>2, <3>1 DEF Forgets
    <3>4. QED
      BY <3>1, <3>2, <3>3 DEF IInv, HeldIsFresh
  <2>2. QED
    BY <2>1 DEF HeldIsFresh
<1>6. TakenIsHeld'
  <2>1. ASSUME NEW l \in Lots, NEW r \in Sessions, took'[r][l] > 0
        PROVE  locks'[l] = r
    <3>1. r # p
      BY <1>2, <2>1 DEF Forgets, Zero
    <3>2. locks[l] = r
      BY <1>2, <2>1, <3>1 DEF IInv, TakenIsHeld, Forgets
    <3>3. QED
      BY <1>4, <3>1, <3>2
  <2>2. QED
    BY <2>1 DEF TakenIsHeld
<1>7. ChosenIsHeld'
  <2>1. ASSUME NEW r \in Sessions, NEW i \in DOMAIN chosen'[r]
        PROVE  locks'[chosen'[r][i]] = r /\ status'[chosen'[r][i]] = "active"
    <3>1. r # p
      BY <1>2, <2>1 DEF Forgets
    <3>2. i \in DOMAIN chosen[r] /\ chosen'[r][i] = chosen[r][i]
      BY <1>2, <2>1, <3>1 DEF Forgets
    <3>3. chosen[r][i] \in Lots
      BY <3>2 DEF IInv, TypeOK
    <3>4. locks[chosen[r][i]] = r /\ status[chosen[r][i]] = "active"
      BY <3>2 DEF IInv, ChosenIsHeld
    <3>5. QED
      BY <1>4, <3>1, <3>2, <3>3, <3>4
  <2>2. QED
    BY <2>1 DEF ChosenIsHeld
<1>8. QueuedExists'
  <2>1. ASSUME NEW r \in Sessions, NEW i \in DOMAIN queue'[r]
        PROVE  status'[queue'[r][i]] # "none"
    <3>1. r # p
      BY <1>2, <2>1 DEF Forgets
    <3>2. i \in DOMAIN queue[r] /\ queue'[r][i] = queue[r][i]
      BY <1>2, <2>1, <3>1 DEF Forgets
    <3>3. queue[r][i] \in Lots /\ status[queue[r][i]] # "none"
      BY <3>2 DEF IInv, TypeOK, QueuedExists
    <3>4. QED
      BY <3>2, <3>3
  <2>2. QED
    BY <2>1 DEF QueuedExists
<1>9. QED
  BY <1>1, <1>5, <1>6, <1>7, <1>8 DEF IInv

LEMMA CommitKeepsInv ==
  ASSUME IInv, NEW p \in Sessions, Commit(p)
  PROVE  IInv'
<1>1. /\ Kept(p) \in [Lots -> Nat] /\ Taken(p) \in [Lots -> Nat]
      /\ \A l \in Lots : Kept(p)[l] + Taken(p)[l] = work[p][l] + took[p][l]
  BY ServedTypes DEF IInv
<1>2. \A l \in Lots : Taken(p)[l] > 0 => locks[l] = p
  BY TakenRowsAreHeld
<1>3. \A l \in Lots : Taken(p)[l] > 0 => Kept(p)[l] + Taken(p)[l] = remaining[l]
  BY <1>1, <1>2 DEF IInv, HeldIsFresh
<1>4. /\ remaining' = [l \in Lots |-> IF Taken(p)[l] > 0 THEN Kept(p)[l] ELSE remaining[l]]
      /\ status' = [l \in Lots |-> IF Taken(p)[l] > 0 /\ Kept(p)[l] = 0 THEN "depleted" ELSE status[l]]
      /\ ledger' = [l \in Lots \cup {NoLot} |->
                      IF l = NoLot THEN ledger[l] ELSE ledger[l] - Taken(p)[l]]
      /\ UNCHANGED <<expiry, received, discards>> /\ End(p)
  BY DEF Commit
<1>5. remaining' \in [Lots -> Nat] /\ status' \in [Lots -> Status]
  BY <1>1, <1>4 DEF IInv, TypeOK, Status
<1>6. ledger' \in [Lots \cup {NoLot} -> Int] /\ discards' \in [Lots -> Nat]
  BY <1>1, <1>4 DEF IInv, TypeOK
<1>7. LedgerBalance'
  <2>1. ASSUME NEW l \in Lots, discards[l] = 0
        PROVE  ledger'[l] = remaining'[l]
    <3>1. ledger[l] = remaining[l] /\ remaining[l] \in Nat /\ l # NoLot
      BY <2>1, StockAssumption DEF IInv, TypeOK, LedgerBalance
    <3>2. QED
      BY <1>1, <1>3, <1>4, <3>1
  <2>2. QED
    BY <1>4, <2>1 DEF LedgerBalance
<1>8. \A l \in Lots : /\ locks[l] \notin {p, Free} =>
                            remaining'[l] = remaining[l] /\ status'[l] = status[l]
                      /\ status[l] # "none" => status'[l] # "none"
  BY <1>1, <1>2, <1>4
<1>9. QED
  BY <1>4, <1>5, <1>6, <1>7, <1>8, EndKeepsInv

\* A failed request leaves the committed rows alone.
LEMMA RollbackKeepsInv ==
  ASSUME IInv, NEW p \in Sessions, End(p), UNCHANGED <<rows, movement>>
  PROVE  IInv'
<1> USE DEF rows, movement
<1>1. LedgerBalance'
  BY DEF IInv, LedgerBalance
<1>2. QED
  BY <1>1, EndKeepsInv DEF IInv, TypeOK

LEMMA DiscardKeepsInv ==
  ASSUME IInv, NEW p \in Sessions, Discard(p)
  PROVE  IInv'
<1> DEFINE l == target[p]
<1>1. /\ l \in Lots \cup {NoLot} /\ locks[l] = Free
      /\ remaining' = [remaining EXCEPT ![l] = IF seen[p].remaining = 0 THEN @ ELSE 0]
      /\ status' = [status EXCEPT ![l] = IF seen[p].status = "discarded" THEN @ ELSE "discarded"]
      /\ ledger' = [ledger EXCEPT ![l] = @ - seen[p].remaining]
      /\ discards' = [discards EXCEPT ![l] = @ + 1]
      /\ UNCHANGED <<expiry, received>> /\ End(p)
  BY DEF Discard, IInv, TypeOK
<1>2. seen[p].remaining \in Nat
  BY DEF IInv, TypeOK
<1> HIDE DEF l
<1>3. remaining' \in [Lots -> Nat] /\ status' \in [Lots -> Status]
  BY <1>1 DEF IInv, TypeOK, Status
<1>4. ledger' \in [Lots \cup {NoLot} -> Int] /\ discards' \in [Lots -> Nat]
  <2> DEFINE v == ledger[l] - seen[p].remaining
  <2>1. v \in Int
    BY <1>1, <1>2 DEF IInv, TypeOK
  <2>2. ledger' = [ledger EXCEPT ![l] = v]
    BY <1>1
  <2> HIDE DEF v
  <2>3. ledger' \in [Lots \cup {NoLot} -> Int]
    BY <2>1, <2>2 DEF IInv, TypeOK
  <2>4. discards' \in [Lots -> Nat]
    <3>1. discards' = [m \in Lots |-> IF m = l THEN discards[m] + 1 ELSE discards[m]]
      BY <1>1 DEF IInv, TypeOK
    <3>2. QED
      BY <3>1 DEF IInv, TypeOK
  <2>5. QED
    BY <2>3, <2>4
<1>5. LedgerBalance'
  BY <1>1 DEF IInv, TypeOK, LedgerBalance
<1>6. \A m \in Lots : /\ locks[m] \notin {p, Free} =>
                            remaining'[m] = remaining[m] /\ status'[m] = status[m]
                      /\ status[m] # "none" => status'[m] # "none"
  BY <1>1 DEF IInv, TypeOK
<1>7. QED
  BY <1>1, <1>3, <1>4, <1>5, <1>6, EndKeepsInv

LEMMA ReadToDiscardKeepsInv ==
  ASSUME IInv, NEW p \in Sessions, NEW l \in Lots, ReadToDiscard(p, l)
  PROVE  IInv'
<1> USE DEF IInv, ReadToDiscard, rows, movement, consumer
<1>1. TypeOK'
  <2>1. [remaining |-> remaining[l], status |-> status[l]] \in [remaining : Nat, status : Status]
    BY DEF TypeOK
  <2>2. QED
    BY <2>1 DEF TypeOK, Phases
<1>2. HeldIsFresh' /\ TakenIsHeld' /\ ChosenIsHeld' /\ QueuedExists' /\ LedgerBalance'
  BY DEF HeldIsFresh, TakenIsHeld, ChosenIsHeld, QueuedExists, LedgerBalance
<1>3. QED
  BY <1>1, <1>2
-----------------------------------------------------------------------------
LEMMA InitInv == Init => IInv
<1> SUFFICES ASSUME Init PROVE IInv
  OBVIOUS
<1> USE StockAssumption DEF Init
<1>1. TypeOK
  BY DEF TypeOK, Zero, Nothing, Status, Phases
<1>2. HeldIsFresh /\ TakenIsHeld /\ ChosenIsHeld /\ QueuedExists
  BY DEF HeldIsFresh, TakenIsHeld, ChosenIsHeld, QueuedExists, Zero
<1>3. LedgerBalance
  BY DEF LedgerBalance, Zero
<1>4. QED
  BY <1>1, <1>2, <1>3 DEF IInv

LEMMA NextKeepsInv == IInv /\ [Next]_vars => IInv'
<1> SUFFICES ASSUME IInv, [Next]_vars PROVE IInv'
  OBVIOUS
<1>1. ASSUME NEW l \in Lots, LotRequest(l) PROVE IInv'
  BY <1>1, LotRequestKeepsInv
<1>2. ASSUME NEW q \in Quantities, AdjustWithoutLot(q) PROVE IInv'
  BY <1>2, AdjustWithoutLotKeepsInv
<1>3. ASSUME NEW p \in Sessions, NEW pl \in Plans, Begin(p, pl) PROVE IInv'
  BY <1>3, BeginKeepsInv
<1>4. ASSUME NEW p \in Sessions, NEW l \in Lots, ReadToDiscard(p, l) PROVE IInv'
  BY <1>4, ReadToDiscardKeepsInv
<1>5. ASSUME NEW p \in Sessions, Consume(p) PROVE IInv'
  BY <1>5, LockNextKeepsInv, NextLineKeepsInv, CommitKeepsInv, RollbackKeepsInv
  DEF Consume, Short
<1>6. ASSUME NEW p \in Sessions, Discard(p) PROVE IInv'
  BY <1>6, DiscardKeepsInv
<1>7. ASSUME NEW p \in Sessions, Rollback(p) PROVE IInv'
  BY <1>7, RollbackKeepsInv DEF Rollback
<1>8. CASE UNCHANGED vars
  BY <1>8 DEF vars, rows, movement, consumer, discarder, IInv, TypeOK, HeldIsFresh,
              TakenIsHeld, ChosenIsHeld, QueuedExists, LedgerBalance
<1>9. QED
  BY <1>1, <1>2, <1>3, <1>4, <1>5, <1>6, <1>7, <1>8 DEF Next

LEMMA Inductive == Spec => []IInv
  BY InitInv, NextKeepsInv, PTL DEF Spec

\* Committed quantities, and those a transaction is about to write, are never
\* negative, whatever the sign of the requests: the CHECK constraint stops a
\* manual movement, the row locks stop a consumption.
THEOREM TypeCorrect == Spec => []TypeOK
  BY Inductive, PTL DEF IInv

\* Whatever requests run side by side, the remaining quantity of a lot is the
\* sum of its movements until the lot is discarded: no update is lost.
THEOREM NoLostUpdate == Spec => []LedgerBalance
  BY Inductive, PTL DEF IInv

\* What the FEFO loop takes from, it holds locked, on sale and up to date.
THEOREM ConsumesFreshStock == Spec => []ChosenIsFresh
<1>1. IInv => ChosenIsFresh
  <2> SUFFICES ASSUME IInv, NEW p \in Sessions, NEW i \in DOMAIN chosen[p]
               PROVE  LET l == chosen[p][i] IN
                        /\ locks[l] = p /\ status[l] = "active"
                        /\ work[p][l] + took[p][l] = remaining[l]
    BY DEF ChosenIsFresh
  <2>1. chosen[p][i] \in Lots
    BY DEF IInv, TypeOK
  <2>2. QED
    BY <2>1 DEF IInv, ChosenIsHeld, HeldIsFresh
<1>2. QED
  BY <1>1, Inductive, PTL
-----------------------------------------------------------------------------
(***************************************************************************)
(* Empty lots, when no request carries a negative quantity.                *)
(***************************************************************************)
NoNegatives == Quantities \subseteq Nat

\* A movement that sets the status its quantity calls for hides nothing.
LEMMA LotRequestKeepsEmpty ==
  ASSUME NoNegatives, IInv, DepletedIsEmpty, NEW l \in Lots, LotRequest(l)
  PROVE  DepletedIsEmpty'
<1>1. remaining \in [Lots -> Nat] /\ status \in [Lots -> Status]
  BY DEF IInv, TypeOK
<1>2. ASSUME NEW q \in Quantities, NEW e \in Dates \cup {NoExpiry}, NEW d \in Dates,
             Receive(l, q, e, d)
      PROVE  DepletedIsEmpty'
  BY <1>1, <1>2 DEF Receive, SetStatus, DepletedIsEmpty
<1>3. ASSUME NEW q \in Quantities, ManualIn(l, q)
      PROVE  DepletedIsEmpty'
  BY <1>1, <1>3 DEF ManualIn, Move, SetStatus, DepletedIsEmpty
<1>4. ASSUME NEW q \in Quantities, ManualOut(l, q)
      PROVE  DepletedIsEmpty'
  BY <1>1, <1>4 DEF ManualOut, Move, SetStatus, DepletedIsEmpty, NoNegatives
<1>5. ASSUME NEW q \in Quantities, Adjust(l, q)
      PROVE  DepletedIsEmpty'
  BY <1>1, <1>5 DEF Adjust, Move, SetStatus, DepletedIsEmpty, NoNegatives
<1>6. ASSUME NEW e \in EditDates, EditExpiry(l, e)
      PROVE  DepletedIsEmpty'
  BY <1>6 DEF EditExpiry, DepletedIsEmpty
<1>7. QED
  BY <1>2, <1>3, <1>4, <1>5, <1>6 DEF LotRequest

\* A consumption takes from a lot that has something, so not from an empty one.
LEMMA CommitKeepsEmpty ==
  ASSUME IInv, DepletedIsEmpty, NEW p \in Sessions, Commit(p)
  PROVE  DepletedIsEmpty'
<1>1. remaining \in [Lots -> Nat] /\ status \in [Lots -> Status]
  BY DEF IInv, TypeOK
<1>2. /\ Kept(p) \in [Lots -> Nat] /\ Taken(p) \in [Lots -> Nat]
      /\ \A l \in Lots : Kept(p)[l] + Taken(p)[l] = work[p][l] + took[p][l]
  BY ServedTypes DEF IInv
<1>3. \A l \in Lots : Taken(p)[l] > 0 => Kept(p)[l] + Taken(p)[l] = remaining[l]
  BY <1>2, TakenRowsAreHeld DEF IInv, HeldIsFresh
<1>4. \A l \in Lots : Taken(p)[l] > 0 => status[l] # "depleted"
  BY <1>1, <1>2, <1>3 DEF DepletedIsEmpty
<1>5. QED
  BY <1>1, <1>2, <1>4 DEF Commit, DepletedIsEmpty

LEMMA NextKeepsEmpty ==
  ASSUME NoNegatives
  PROVE  IInv /\ DepletedIsEmpty /\ [Next]_vars => DepletedIsEmpty'
<1> SUFFICES ASSUME IInv, DepletedIsEmpty, [Next]_vars
             PROVE  DepletedIsEmpty'
  OBVIOUS
<1>1. remaining \in [Lots -> Nat] /\ status \in [Lots -> Status]
  BY DEF IInv, TypeOK
<1>2. CASE UNCHANGED <<remaining, status>>
  BY <1>2 DEF DepletedIsEmpty
<1>3. ASSUME NEW p \in Sessions, Discard(p) PROVE DepletedIsEmpty'
  BY <1>1, <1>3 DEF Discard, DepletedIsEmpty
<1>4. ASSUME NEW p \in Sessions,
             \/ \E pl \in Plans : Begin(p, pl)
             \/ \E l \in Lots : ReadToDiscard(p, l)
             \/ LockNext(p) \/ NextLine(p) \/ Short(p) \/ Rollback(p)
      PROVE  UNCHANGED <<remaining, status>>
  BY <1>4 DEF Begin, SelectLots, ReadToDiscard, LockNext, NextLine, Short, Rollback, rows
<1>5. QED
  BY <1>2, <1>3, <1>4, LotRequestKeepsEmpty, CommitKeepsEmpty
  DEF Next, Consume, AdjustWithoutLot, vars, rows

\* As long as quantities are not negative, no quantity is hidden in a lot that
\* is marked empty, where FEFO would never find it: every request sets the
\* status its quantity calls for (stock_service.py:235 and 301-451).
THEOREM NothingHidden ==
  ASSUME NoNegatives
  PROVE  Spec => []DepletedIsEmpty
<1>1. Init => DepletedIsEmpty
  BY DEF Init, DepletedIsEmpty
<1>2. QED
  BY <1>1, NextKeepsEmpty, Inductive, PTL DEF Spec
-----------------------------------------------------------------------------
(***************************************************************************)
(* How a session works through its plan, and what it takes for a line.     *)
(***************************************************************************)
\* The session is at a line of its plan, and the lots it chose for it and those
\* it waits for are different lots of the line's product.
AtLine(p) ==
  /\ step[p] \in DOMAIN plan[p]
  /\ \A i \in DOMAIN chosen[p] : ProductOf[chosen[p][i]] = Line(p).product
  /\ \A i \in DOMAIN queue[p] : ProductOf[queue[p][i]] = Line(p).product
  /\ \A i, j \in DOMAIN chosen[p] : chosen[p][i] = chosen[p][j] => i = j
  /\ \A i, j \in DOMAIN queue[p] : queue[p][i] = queue[p][j] => i = j
  /\ \A i \in DOMAIN chosen[p], j \in DOMAIN queue[p] : chosen[p][i] # queue[p][j]

\* Other sessions consume nothing.
Quiet(p) ==
  /\ step[p] = 1 /\ took[p] = Zero /\ \A l \in Lots : locks[l] # p
  /\ pc[p] = "discarding" => target[p] \in Lots

InLine == \A p \in Sessions : IF pc[p] = "locking" THEN AtLine(p) ELSE Quiet(p)

\* What a session keeps while others work.
Stays(p) ==
  /\ pc'[p] = pc[p] /\ plan'[p] = plan[p] /\ step'[p] = step[p] /\ queue'[p] = queue[p]
  /\ chosen'[p] = chosen[p] /\ work'[p] = work[p] /\ took'[p] = took[p] /\ target'[p] = target[p]
  /\ \A l \in Lots : locks'[l] = p <=> locks[l] = p

LEMMA TailEntries ==
  ASSUME NEW s \in Seq(Lots), s # <<>>
  PROVE  /\ 1 \in DOMAIN s /\ Head(s) = s[1]
         /\ \A i \in DOMAIN Tail(s) : i \in Nat /\ i # 0 /\ i + 1 \in DOMAIN s /\ Tail(s)[i] = s[i + 1]
  OBVIOUS

LEMMA AppendEntries ==
  ASSUME NEW s \in Seq(Lots), NEW x \in Lots
  PROVE  \A i \in DOMAIN Append(s, x) :
           \/ i \in DOMAIN s /\ Append(s, x)[i] = s[i]
           \/ i = Len(s) + 1 /\ i \notin DOMAIN s /\ Append(s, x)[i] = x
  OBVIOUS

LEMMA SessionSteps ==
  ASSUME IInv, [Next]_vars, NEW p \in Sessions
  PROVE  \/ Stays(p)
         \/ \E pl \in Plans : Begin(p, pl)
         \/ \E l \in Lots : ReadToDiscard(p, l)
         \/ LockNext(p) \/ NextLine(p) \/ End(p)
<1> USE StockAssumption DEF IInv, TypeOK
<1>1. ASSUME NEW l \in Lots, LotRequest(l)
      PROVE  Stays(p)
  BY <1>1 DEF LotRequest, Receive, ManualIn, ManualOut, Adjust, EditExpiry, Move, Stays,
              consumer, discarder
<1>2. ASSUME NEW q \in Quantities, AdjustWithoutLot(q)
      PROVE  Stays(p)
  BY <1>2 DEF AdjustWithoutLot, Stays, consumer, discarder
<1>3. ASSUME NEW r \in Sessions \ {p}, NEW pl \in Plans, Begin(r, pl)
      PROVE  Stays(p)
  <2>1. /\ pc' = [pc EXCEPT ![r] = "locking"] /\ plan' = [plan EXCEPT ![r] = pl]
        /\ chosen' = [chosen EXCEPT ![r] = <<>>] /\ UNCHANGED <<step, work, took, locks, target>>
        /\ \E s : queue' = [queue EXCEPT ![r] = s]
    BY <1>3 DEF Begin, SelectLots, discarder
  <2>2. QED
    BY <2>1 DEF Stays
<1>4. ASSUME NEW r \in Sessions \ {p}, NEW l \in Lots, ReadToDiscard(r, l)
      PROVE  Stays(p)
  BY <1>4 DEF ReadToDiscard, Stays, consumer
<1>5. ASSUME NEW r \in Sessions \ {p}, LockNext(r)
      PROVE  Stays(p)
  <2>1. /\ UNCHANGED <<pc, plan, step, took, target>>
        /\ chosen'[p] = chosen[p] /\ work'[p] = work[p] /\ queue'[p] = queue[p]
    BY <1>5 DEF LockNext, discarder
  <2>2. locks[Head(queue[r])] \in {Free, r} /\ locks' = [locks EXCEPT ![Head(queue[r])] = r]
    BY <1>5 DEF LockNext
  <2>3. r # p /\ p # Free
    OBVIOUS
  <2>4. \A l \in Lots : locks'[l] = p <=> locks[l] = p
    BY <2>2, <2>3
  <2>5. QED
    BY <2>1, <2>4 DEF Stays
<1>6. ASSUME NEW r \in Sessions \ {p}, NextLine(r)
      PROVE  Stays(p)
  <2>1. /\ UNCHANGED <<pc, plan, locks, target>>
        /\ step'[p] = step[p] /\ work'[p] = work[p] /\ took'[p] = took[p]
        /\ chosen'[p] = chosen[p]
        /\ \E s : queue' = [queue EXCEPT ![r] = s]
    BY <1>6 DEF NextLine, SelectLots, discarder
  <2>2. QED
    BY <2>1 DEF Stays
<1>7. ASSUME NEW r \in Sessions \ {p}, End(r)
      PROVE  Stays(p)
  BY <1>7 DEF End, Stays
<1>8. CASE UNCHANGED vars
  BY <1>8 DEF vars, consumer, discarder, Stays
<1>9. \A r \in Sessions : Commit(r) \/ Short(r) \/ Discard(r) \/ Rollback(r) => End(r)
  BY DEF Commit, Short, Discard, Rollback
<1> DEFINE Moves(r) == \/ \E pl \in Plans : Begin(r, pl)
                       \/ \E l \in Lots : ReadToDiscard(r, l)
                       \/ LockNext(r) \/ NextLine(r) \/ End(r)
<1>10. \A r \in Sessions \ {p} : Moves(r) => Stays(p)
  BY ONLY <1>3, <1>4, <1>5, <1>6, <1>7
<1>11. Next => \/ \E l \in Lots : LotRequest(l)
               \/ \E q \in Quantities : AdjustWithoutLot(q)
               \/ \E r \in Sessions : Moves(r)
  BY ONLY <1>9 DEF Next, Consume
<1> HIDE DEF Moves
<1>12. Next => Stays(p) \/ Moves(p)
  BY ONLY <1>1, <1>2, <1>10, <1>11, p \in Sessions
<1>13. QED
  BY <1>8, <1>12 DEF Moves

\* What a new line waits for: lots of its product, each once, in FEFO order.
LEMMA Selected ==
  ASSUME IInv, NEW p \in Sessions, NEW w, NEW line, SelectLots(p, w, line)
  PROVE  /\ queue'[p] \in Seq(Lots) /\ chosen'[p] = <<>>
         /\ \A i \in DOMAIN queue'[p] : ProductOf[queue'[p][i]] = line.product
         /\ \A i, j \in DOMAIN queue'[p] :
              /\ queue'[p][i] = queue'[p][j] => i = j
              /\ i < j => ~FefoBefore(queue'[p][j], queue'[p][i])
<1> DEFINE S == {l \in Lots : ProductOf[l] = line.product /\ Eligible(p, w, l)}
<1>1. PICK s \in FefoOrders(S) : queue' = [queue EXCEPT ![p] = s]
  BY DEF SelectLots
<1>2. \A l \in S : ProductOf[l] = line.product
  OBVIOUS
<1>3. S \in SUBSET Lots
  OBVIOUS
<1> HIDE DEF S
<1>4. s \in Seq(Lots) /\ \A i \in DOMAIN s : s[i] \in S
  BY <1>3, FefoOrdersAreSequences
<1>5. \A i, j \in DOMAIN s : i < j => s[i] # s[j] /\ ~FefoBefore(s[j], s[i])
  BY DEF FefoOrders
<1>6. \A i, j \in DOMAIN s : s[i] = s[j] => i = j
  BY <1>4, <1>5
<1>7. queue'[p] = s /\ chosen'[p] = <<>>
  BY <1>1 DEF SelectLots, IInv, TypeOK
<1>8. QED
  BY <1>2, <1>4, <1>5, <1>6, <1>7

LEMMA LineSteps ==
  ASSUME IInv, [Next]_vars, InLine, NEW p \in Sessions
  PROVE  IF pc'[p] = "locking" THEN AtLine(p)' ELSE Quiet(p)'
<1>0. /\ pc \in [Sessions -> Phases] /\ plan \in [Sessions -> Plans \cup {<<>>}]
      /\ step \in [Sessions -> Nat] /\ work \in [Sessions -> [Lots -> Nat]]
      /\ queue \in [Sessions -> Seq(Lots)] /\ chosen \in [Sessions -> Seq(Lots)]
      /\ took \in [Sessions -> [Lots -> Nat]] /\ target \in [Sessions -> Lots \cup {NoLot}]
      /\ locks \in [Lots -> Sessions \cup {Free}]
  BY DEF IInv, TypeOK
<1>1. CASE Stays(p)
  BY <1>1 DEF Stays, InLine, AtLine, Quiet, Line
<1>2. ASSUME NEW pl \in Plans, Begin(p, pl)
      PROVE  pc'[p] = "locking" /\ AtLine(p)'
  <2>1. pc'[p] = "locking" /\ plan'[p] = pl /\ step'[p] = 1 /\ pl # <<>>
    BY <1>0, <1>2 DEF Begin, InLine, Quiet
  <2>2. pl \in Seq([product : Products, need : Int])
    BY StockAssumption
  <2>3. 1 \in DOMAIN pl
    BY <2>1, <2>2
  <2>4. Line(p)' = pl[1]
    BY <2>1 DEF Line
  <2>5. SelectLots(p, work[p], pl[1])
    BY <1>2 DEF Begin
  <2>6. /\ queue'[p] \in Seq(Lots) /\ chosen'[p] = <<>>
        /\ \A i \in DOMAIN queue'[p] : ProductOf[queue'[p][i]] = pl[1].product
        /\ \A i, j \in DOMAIN queue'[p] : queue'[p][i] = queue'[p][j] => i = j
    BY <2>5, Selected
  <2>7. QED
    BY ONLY <2>1, <2>3, <2>4, <2>6 DEF AtLine
<1>3. ASSUME NEW l \in Lots, ReadToDiscard(p, l)
      PROVE  pc'[p] # "locking" /\ Quiet(p)'
  BY <1>0, <1>3 DEF ReadToDiscard, InLine, Quiet, consumer
<1>4. ASSUME LockNext(p)
      PROVE  pc'[p] = "locking" /\ AtLine(p)'
  <2>1. /\ pc'[p] = "locking" /\ plan'[p] = plan[p] /\ step'[p] = step[p] /\ AtLine(p)
        /\ queue'[p] = Tail(queue[p])
        /\ chosen'[p] \in {chosen[p], Append(chosen[p], Head(queue[p]))}
    BY <1>0, <1>4 DEF LockNext, InLine
  <2>2. Line(p)' = Line(p)
    BY <2>1 DEF Line
  <2>3. queue[p] \in Seq(Lots) /\ queue[p] # <<>> /\ chosen[p] \in Seq(Lots)
    BY <1>0, <1>4 DEF LockNext
  <2>4. \A i \in DOMAIN queue'[p] : i \in Nat /\ i # 0 /\ i + 1 \in DOMAIN queue[p] /\ queue'[p][i] = queue[p][i + 1]
    BY <2>1, <2>3, TailEntries
  <2>5. 1 \in DOMAIN queue[p] /\ Head(queue[p]) = queue[p][1] /\ queue[p][1] \in Lots
    BY <2>3
  <2>6. /\ \A i \in DOMAIN queue'[p] : ProductOf[queue'[p][i]] = Line(p).product
        /\ \A i, j \in DOMAIN queue'[p] : queue'[p][i] = queue'[p][j] => i = j
    BY ONLY <2>1, <2>3, <2>4 DEF AtLine
  <2>7. \A i \in DOMAIN queue'[p] : queue'[p][i] # queue[p][1]
    BY ONLY <2>1, <2>4, <2>5 DEF AtLine
  <2>8. CASE chosen'[p] = chosen[p]
    BY ONLY <2>1, <2>2, <2>4, <2>6, <2>8 DEF AtLine
  <2>9. CASE chosen'[p] = Append(chosen[p], Head(queue[p]))
    <3>1. \A i \in DOMAIN chosen'[p] :
            \/ i \in DOMAIN chosen[p] /\ chosen'[p][i] = chosen[p][i]
            \/ i = Len(chosen[p]) + 1 /\ i \notin DOMAIN chosen[p] /\ chosen'[p][i] = queue[p][1]
      <4>1. chosen'[p] = Append(chosen[p], queue[p][1])
        BY <2>5, <2>9
      <4>2. QED
        BY ONLY <2>3, <2>5, <4>1, AppendEntries
    <3>2. \A i \in DOMAIN chosen'[p] : ProductOf[chosen'[p][i]] = Line(p).product
      BY ONLY <2>1, <2>5, <3>1 DEF AtLine
    <3>3. \A i, j \in DOMAIN chosen'[p] : chosen'[p][i] = chosen'[p][j] => i = j
      BY ONLY <2>1, <2>5, <3>1 DEF AtLine
    <3>4. \A i \in DOMAIN chosen'[p], j \in DOMAIN queue'[p] : chosen'[p][i] # queue'[p][j]
      BY ONLY <2>1, <2>4, <2>7, <3>1 DEF AtLine
    <3>5. QED
      BY ONLY <2>1, <2>2, <2>6, <3>2, <3>3, <3>4 DEF AtLine
  <2>10. QED
    BY <2>1, <2>8, <2>9
<1>5. ASSUME NextLine(p)
      PROVE  pc'[p] = "locking" /\ AtLine(p)'
  <2>1. /\ pc'[p] = "locking" /\ plan'[p] = plan[p] /\ step'[p] = step[p] + 1
        /\ step[p] < Len(plan[p]) /\ AtLine(p)
    BY <1>0, <1>5 DEF NextLine, AllLocked, InLine
  <2>2. plan[p] \in Seq([product : Products, need : Int])
    <3>1. <<>> \in Seq([product : Products, need : Int])
      OBVIOUS
    <3>2. QED
      BY <1>0, <3>1, StockAssumption
  <2>3. step[p] + 1 \in DOMAIN plan[p]
    BY <2>1, <2>2 DEF AtLine
  <2>4. Line(p)' = plan[p][step[p] + 1]
    BY <2>1 DEF Line
  <2>5. SelectLots(p, Kept(p), plan[p][step[p] + 1])
    BY <1>5 DEF NextLine
  <2>6. /\ queue'[p] \in Seq(Lots) /\ chosen'[p] = <<>>
        /\ \A i \in DOMAIN queue'[p] : ProductOf[queue'[p][i]] = plan[p][step[p] + 1].product
        /\ \A i, j \in DOMAIN queue'[p] : queue'[p][i] = queue'[p][j] => i = j
    BY <2>5, Selected
  <2>7. QED
    BY ONLY <2>1, <2>3, <2>4, <2>6 DEF AtLine
<1>6. CASE End(p)
  BY <1>0, <1>6, StockAssumption DEF End, Quiet
<1>7. QED
  BY <1>1, <1>2, <1>3, <1>4, <1>5, <1>6, SessionSteps

(***************************************************************************)
(* What the consumption loop takes.                                        *)
(***************************************************************************)
Gives(p) == [l \in Lots |-> Give(p, l)]
Has(p)   == [i \in DOMAIN chosen[p] |-> work[p][chosen[p][i]]]
Needs(p) == IF Line(p).need > 0 THEN Line(p).need ELSE 0

\* The lots chosen first have what they have, each more than those before it.
LEMMA HeldAdds ==
  ASSUME TypeOK, NEW p \in Sessions
  PROVE  /\ Held(p, 1..0) = 0
         /\ \A i \in 1..Len(chosen[p]) :
              /\ Held(p, 1..(i - 1)) \in Nat
              /\ Held(p, 1..i) = Held(p, 1..(i - 1)) + work[p][chosen[p][i]]
              /\ work[p][chosen[p][i]] \in Nat
<1>1. chosen[p] \in Seq(Lots) /\ work[p] \in [Lots -> Nat]
  BY DEF TypeOK
<1>2. DOMAIN chosen[p] = 1..Len(chosen[p]) /\ Len(chosen[p]) \in Nat
  BY <1>1
<1>3. \A i \in 1..Len(chosen[p]) : Has(p)[i] = work[p][chosen[p][i]] /\ Has(p)[i] \in Nat
  BY <1>1, <1>2 DEF Has
<1>4. \A I : Held(p, I) = Total(Has(p), I)
  BY DEF Held, Total, Has
<1>5. Held(p, 1..0) = 0
  <2>1. 1..0 = {}
    OBVIOUS
  <2>2. QED
    BY <1>4, <2>1, TotalOfNone
<1>6. ASSUME NEW i \in 1..Len(chosen[p])
      PROVE  /\ Held(p, 1..(i - 1)) \in Nat
             /\ Held(p, 1..i) = Held(p, 1..(i - 1)) + work[p][chosen[p][i]]
             /\ work[p][chosen[p][i]] \in Nat
  <2>1. IsFiniteSet(1..(i - 1)) /\ i \notin 1..(i - 1) /\ 1..i = (1..(i - 1)) \cup {i}
    <3>1. i \in Nat /\ i - 1 \in Nat
      BY <1>2
    <3>2. IsFiniteSet(1..(i - 1))
      BY <3>1, FS_Interval
    <3>3. QED
      BY <3>1, <3>2
  <2>2. \A k \in 1..(i - 1) : Has(p)[k] \in Nat
    BY <1>2, <1>3
  <2>3. \A k \in (1..(i - 1)) \cup {i} : Has(p)[k] \in Int
    BY <1>3, <2>2
  <2>4. Total(Has(p), 1..(i - 1)) \in Nat
    BY <2>1, <2>2, TotalOfNaturals
  <2>5. Total(Has(p), (1..(i - 1)) \cup {i}) = Has(p)[i] + Total(Has(p), 1..(i - 1))
    BY <2>1, <2>3, TotalAdd
  <2>6. Held(p, 1..(i - 1)) \in Nat
    BY <1>4, <2>4
  <2>7. Held(p, 1..i) = Has(p)[i] + Held(p, 1..(i - 1))
    BY <1>4, <2>1, <2>5
  <2>8. QED
    BY <1>3, <2>6, <2>7
<1>7. QED
  BY <1>5, <1>6

\* Each chosen lot gives what those before it left wanting, if it has that much.
LEMMA GiveOfChosen ==
  ASSUME TypeOK, NEW p \in Sessions, AtLine(p), NEW i \in 1..Len(chosen[p])
  PROVE  LET wanting == Line(p).need - Held(p, 1..(i - 1))
             has     == work[p][chosen[p][i]] IN
         /\ chosen[p][i] \in Lots /\ i \in DOMAIN chosen[p]
         /\ Give(p, chosen[p][i]) = IF wanting \in 0..has THEN wanting
                                    ELSE IF wanting < 0 THEN 0 ELSE has
<1>1. chosen[p] \in Seq(Lots)
  BY DEF TypeOK
<1>2. i \in DOMAIN chosen[p] /\ chosen[p][i] \in Lots
  BY <1>1
<1> DEFINE l == chosen[p][i]
           j == CHOOSE k \in DOMAIN chosen[p] : chosen[p][k] = l
<1>3. j \in DOMAIN chosen[p] /\ chosen[p][j] = l
  BY <1>2
<1>4. j = i
  BY <1>2, <1>3 DEF AtLine
<1>5. l \in {chosen[p][k] : k \in DOMAIN chosen[p]}
  BY <1>2
<1>6. Give(p, l) = LET wanting == Line(p).need - Held(p, 1..(j - 1)) IN
                   IF wanting \in 0..work[p][l] THEN wanting
                   ELSE IF wanting < 0 THEN 0 ELSE work[p][l]
  BY <1>5 DEF Give
<1> HIDE DEF j
<1>7. QED
  BY <1>2, <1>4, <1>6

\* A line that is served takes what it needs from lots of its product, and
\* nothing from others.
LEMMA LineTakesItsNeed ==
  ASSUME TypeOK, NEW p \in Sessions, AtLine(p), Enough(p), Line(p).need \in Int, NEW x
  PROVE  Total(Gives(p), {l \in Lots : ProductOf[l] = x}) = IF Line(p).product = x THEN Needs(p) ELSE 0
<1> DEFINE n == Len(chosen[p])
           need == Line(p).need
           First(i) == {chosen[p][k] : k \in 1..i}
           W(i) == Held(p, 1..i)
           Sum(i) == Total(Gives(p), First(i)) =
                       IF need <= 0 THEN 0 ELSE IF need <= W(i) THEN need ELSE W(i)
           N == {i \in Nat : i <= n => Sum(i)}
<1>1. chosen[p] \in Seq(Lots) /\ work[p] \in [Lots -> Nat] /\ n \in Nat /\ DOMAIN chosen[p] = 1..n
  BY DEF TypeOK
<1>2. \A l \in Lots : /\ Gives(p)[l] = Give(p, l) /\ Give(p, l) \in Nat
                      /\ l \notin First(n) => Give(p, l) = 0
  <2> SUFFICES ASSUME NEW l \in Lots
               PROVE  /\ Gives(p)[l] = Give(p, l) /\ Give(p, l) \in Nat
                      /\ l \notin First(n) => Give(p, l) = 0
    OBVIOUS
  <2>1. Give(p, l) \in 0..work[p][l]
    BY GiveBounds
  <2>2. Give(p, l) \in Nat
    BY <1>1, <2>1
  <2>3. l \notin First(n) => Give(p, l) = 0
    BY <1>1 DEF Give
  <2>4. QED
    BY <2>2, <2>3 DEF Gives
<1>3. 0 \in N
  <2>1. First(0) = {}
    OBVIOUS
  <2>2. W(0) = 0
    BY HeldAdds
  <2>3. Total(Gives(p), First(0)) = 0
    BY <2>1, TotalOfNone
  <2> HIDE DEF First, W
  <2>4. QED
    BY <2>2, <2>3
<1>4. ASSUME NEW i \in Nat, i \in N
      PROVE  i + 1 \in N
  <2> SUFFICES ASSUME i + 1 <= n
               PROVE  Sum(i + 1)
    OBVIOUS
  <2>1. Sum(i)
    BY <1>1, <1>4
  <2>2. i + 1 \in 1..n /\ (i + 1) - 1 = i
    BY <1>1
  <2> DEFINE l == chosen[p][i + 1]
             has == work[p][l]
  <2>3. /\ l \in Lots /\ i + 1 \in DOMAIN chosen[p]
        /\ Give(p, l) = IF need - W(i) \in 0..has THEN need - W(i)
                        ELSE IF need - W(i) < 0 THEN 0 ELSE has
    BY <2>2, GiveOfChosen
  <2>4. W(i) \in Nat /\ W(i + 1) = W(i) + has /\ has \in Nat
    BY <2>2, HeldAdds
  <2>5. First(i + 1) = First(i) \cup {l}
    BY <1>1, <2>2
  <2>6. l \notin First(i)
    <3>1. \A k \in 1..i : k \in DOMAIN chosen[p] /\ k # i + 1
      BY <1>1
    <3>2. QED
      BY <2>3, <3>1 DEF AtLine
  <2>7. First(i + 1) \in SUBSET Lots
    BY <1>1
  <2>8. IsFiniteSet(First(i))
    BY <2>5, <2>7, StockAssumption, FS_Subset
  <2> HIDE DEF First
  <2>9. \A m \in First(i) \cup {l} : Gives(p)[m] \in Int
    BY <1>2, <2>5, <2>7
  <2>10. Total(Gives(p), First(i + 1)) = Give(p, l) + Total(Gives(p), First(i))
    <3>1. Total(Gives(p), First(i) \cup {l}) = Gives(p)[l] + Total(Gives(p), First(i))
      BY <2>6, <2>8, <2>9, TotalAdd
    <3>2. QED
      BY <1>2, <2>3, <2>5, <3>1
  <2> HIDE DEF l, has, W
  <2>11. need \in Int
    OBVIOUS
  <2> HIDE DEF need
  <2>12. QED
    BY ONLY <2>1, <2>3, <2>4, <2>10, <2>11
<1>5. Sum(n)
  <2> HIDE DEF N
  <2>1. n \in N
    BY <1>1, <1>3, <1>4, NaturalInduction
  <2> HIDE DEF Sum
  <2>2. n <= n
    BY <1>1
  <2>3. QED
    BY <2>1, <2>2 DEF N
<1>6. W(n) >= need
  BY <1>1 DEF Enough
<1>7. Total(Gives(p), First(n)) = Needs(p)
  BY <1>5, <1>6 DEF Needs
<1> DEFINE Of == {l \in Lots : ProductOf[l] = x}
<1>8. IsFiniteSet(Of) /\ \A l \in Of : Gives(p)[l] \in Int
  BY <1>2, StockAssumption, FS_Subset
<1>9. First(n) \subseteq Lots /\ \A l \in First(n) : ProductOf[l] = Line(p).product
  BY <1>1 DEF AtLine
<1>10. CASE Line(p).product = x
  <2>1. First(n) \in SUBSET Of /\ \A l \in Of \ First(n) : Gives(p)[l] = 0
    BY <1>2, <1>9, <1>10
  <2>2. Total(Gives(p), Of) = Total(Gives(p), First(n))
    BY <1>8, <2>1, TotalWhereNotZero
  <2>3. QED
    BY <1>7, <1>10, <2>2
<1>11. CASE Line(p).product # x
  <2>1. {} \in SUBSET Of /\ \A l \in Of \ {} : Gives(p)[l] = 0
    BY <1>2, <1>9, <1>11
  <2>2. Total(Gives(p), Of) = Total(Gives(p), {})
    BY <1>8, <2>1, TotalWhereNotZero
  <2>3. QED
    BY <1>11, <2>2, TotalOfNone
<1>12. QED
  BY <1>10, <1>11
-----------------------------------------------------------------------------
(***************************************************************************)
(* Stock implements AtomicStock.  The argument: what a transaction has     *)
(* taken of a product is what the lines it has served asked of it, and it  *)
(* only takes from lots that were on sale when it locked them and, being   *)
(* locked, still are.                                                      *)
(***************************************************************************)
\* So far a transaction has taken of each product what its lines asked for.
Accounted ==
  \A p \in Sessions : pc[p] = "locking" =>
    \A x \in Products :
      Total(took[p], Atomic!LotsOf(x)) = Total(Atomic!Asked(plan[p], x), 1..(step[p] - 1))

\* It took from lots on sale.
OnSale == \A p \in Sessions, l \in Lots : took[p][l] > 0 => status[l] = "active"

\* A lot that was not received yet has no quantity and no movement.
Unborn == \A l \in Lots : status[l] = "none" => remaining[l] = 0 /\ ledger[l] = 0

\* A lot about to be discarded exists.
TargetExists ==
  \A p \in Sessions : pc[p] = "discarding" => target[p] \in Lots /\ status[target[p]] # "none"

RInv == IInv /\ InLine /\ Accounted /\ OnSale /\ Unborn /\ TargetExists
-----------------------------------------------------------------------------
\* Taken row by row: what exists stays, and what is held and stays held keeps
\* its status.
LEMMA RowsStay ==
  ASSUME IInv, TargetExists, [Next]_vars, NEW l \in Lots
  PROVE  /\ status[l] # "none" => status'[l] # "none"
         /\ \A p \in Sessions : locks[l] = p /\ locks'[l] = p => status'[l] = status[l]
         /\ status'[l] = "none" => remaining'[l] = remaining[l] /\ ledger'[l] = ledger[l]
<1> DEFINE Goal == /\ status[l] # "none" => status'[l] # "none"
                   /\ \A p \in Sessions : locks[l] = p /\ locks'[l] = p => status'[l] = status[l]
                   /\ status'[l] = "none" => remaining'[l] = remaining[l] /\ ledger'[l] = ledger[l]
<1>0. /\ remaining \in [Lots -> Nat] /\ status \in [Lots -> Status]
      /\ ledger \in [Lots \cup {NoLot} -> Int] /\ locks \in [Lots -> Sessions \cup {Free}]
      /\ NoLot \notin Lots /\ Free \notin Sessions
  BY StockAssumption DEF IInv, TypeOK
<1>1. ASSUME UNCHANGED <<remaining, status, ledger>>
      PROVE  Goal
  BY <1>1
<1>2. ASSUME NEW m \in Lots, status[m] = "none" \/ locks[m] = Free, status'[m] # "none",
             \A k \in Lots \ {m} : remaining'[k] = remaining[k] /\ status'[k] = status[k]
                                   /\ ledger'[k] = ledger[k],
             status[m] = "none" => \A p \in Sessions : locks[m] # p
      PROVE  Goal
  BY <1>0, <1>2
<1>3. \A m \in Lots : status[m] = "none" => \A p \in Sessions : locks[m] # p
  BY DEF IInv, HeldIsFresh
<1>4. ASSUME NEW m \in Lots, LotRequest(m)
      PROVE  Goal
  <2>1. CASE UNCHANGED <<remaining, status, ledger>>
    BY <1>1, <2>1
  <2>2. ASSUME ~ UNCHANGED <<remaining, status, ledger>>
        PROVE  /\ status[m] = "none" \/ locks[m] = Free
               /\ status'[m] # "none"
               /\ \A k \in Lots \ {m} : remaining'[k] = remaining[k] /\ status'[k] = status[k]
                                        /\ ledger'[k] = ledger[k]
    BY <1>0, <1>4, <2>2 DEF LotRequest, Receive, ManualIn, ManualOut, Adjust, EditExpiry, Move,
       SetStatus, Lockable, Exists, movement
  <2>3. QED
    BY <1>2, <1>3, <2>1, <2>2
<1>5. ASSUME NEW q \in Quantities, AdjustWithoutLot(q)
      PROVE  Goal
  BY <1>0, <1>5 DEF AdjustWithoutLot, rows
<1>6. ASSUME NEW p \in Sessions, Commit(p)
      PROVE  Goal
  <2>1. \A k \in Lots : Taken(p)[k] > 0 => locks[k] = p /\ status[k] # "none"
    BY TakenRowsAreHeld DEF IInv, HeldIsFresh
  <2>2. /\ remaining'[l] = IF Taken(p)[l] > 0 THEN Kept(p)[l] ELSE remaining[l]
        /\ status'[l] = IF Taken(p)[l] > 0 /\ Kept(p)[l] = 0 THEN "depleted" ELSE status[l]
        /\ ledger'[l] = ledger[l] - Taken(p)[l]
        /\ locks'[l] = IF locks[l] = p THEN Free ELSE locks[l]
    BY <1>0, <1>6 DEF Commit, End
  <2>3. Taken(p)[l] \in Nat /\ ledger[l] \in Int
    BY <1>0, ServedTypes DEF IInv
  <2>4. QED
    BY <1>0, <2>1, <2>2, <2>3
<1>7. ASSUME NEW p \in Sessions, Discard(p)
      PROVE  Goal
  <2>1. /\ pc[p] = "discarding" /\ locks[target[p]] = Free
        /\ \A k \in Lots \ {target[p]} : remaining'[k] = remaining[k] /\ status'[k] = status[k]
                                         /\ ledger'[k] = ledger[k]
        /\ status'[target[p]] \in {"discarded", status[target[p]]}
    BY <1>0, <1>7 DEF Discard, TargetExists
  <2>2. target[p] \in Lots /\ status[target[p]] # "none"
    BY <2>1 DEF TargetExists
  <2>3. QED
    BY <1>0, <2>1, <2>2, <1>2
<1> DEFINE Other(p) == \/ \E pl \in Plans : Begin(p, pl)
                       \/ \E m \in Lots : ReadToDiscard(p, m)
                       \/ LockNext(p) \/ NextLine(p) \/ Short(p) \/ Rollback(p)
<1>8. ASSUME NEW p \in Sessions, Other(p)
      PROVE  Goal
  <2>1. UNCHANGED <<remaining, status, ledger>>
    BY <1>8 DEF Begin, SelectLots, ReadToDiscard, LockNext, NextLine, Short, Rollback, rows, movement
  <2>2. QED
    BY <1>1, <2>1
<1>9. UNCHANGED vars => Goal
  <2>1. UNCHANGED vars => UNCHANGED <<remaining, status, ledger>>
    BY DEF vars, rows, movement
  <2>2. QED
    BY <1>1, <2>1
<1>10. Next => \/ \E m \in Lots : LotRequest(m)
               \/ \E q \in Quantities : AdjustWithoutLot(q)
               \/ \E p \in Sessions : Commit(p) \/ Discard(p) \/ Other(p)
  BY ONLY DEF Next, Consume
<1> HIDE DEF Goal, Other
<1>11. Next => Goal
  BY ONLY <1>4, <1>5, <1>6, <1>7, <1>8, <1>10
<1>12. Goal
  BY <1>9, <1>11
<1>13. QED
  BY <1>12 DEF Goal

LEMMA UnbornStep ==
  ASSUME IInv, Unborn, TargetExists, [Next]_vars
  PROVE  Unborn'
<1> SUFFICES ASSUME NEW l \in Lots, status'[l] = "none"
             PROVE  remaining'[l] = 0 /\ ledger'[l] = 0
  BY DEF Unborn
<1>1. QED
  BY RowsStay DEF Unborn

LEMMA TargetExistsStep ==
  ASSUME IInv, InLine, TargetExists, [Next]_vars
  PROVE  TargetExists'
<1> SUFFICES ASSUME NEW p \in Sessions, pc'[p] = "discarding"
             PROVE  target'[p] \in Lots /\ status'[target'[p]] # "none"
  BY DEF TargetExists
<1>1. pc \in [Sessions -> Phases] /\ target \in [Sessions -> Lots \cup {NoLot}]
  BY DEF IInv, TypeOK
<1>2. CASE Stays(p)
  BY <1>2, RowsStay DEF Stays, TargetExists
<1>3. ASSUME NEW l \in Lots, ReadToDiscard(p, l)
      PROVE  target'[p] \in Lots /\ status'[target'[p]] # "none"
  BY <1>1, <1>3 DEF ReadToDiscard, Exists, rows
<1>4. ~ (\E pl \in Plans : Begin(p, pl)) /\ ~ LockNext(p) /\ ~ NextLine(p) /\ ~ End(p)
  BY <1>1 DEF Begin, LockNext, NextLine, AllLocked, End
<1>5. QED
  BY <1>2, <1>3, <1>4, SessionSteps

LEMMA OnSaleStep ==
  ASSUME IInv, IInv', OnSale, TargetExists, [Next]_vars
  PROVE  OnSale'
<1> SUFFICES ASSUME NEW p \in Sessions, NEW l \in Lots, took'[p][l] > 0
             PROVE  status'[l] = "active"
  BY DEF OnSale
<1>0. /\ took \in [Sessions -> [Lots -> Nat]] /\ locks' \in [Lots -> Sessions \cup {Free}]
      /\ locks'[l] = p
  BY DEF IInv, TypeOK, TakenIsHeld
<1>1. ASSUME took[p][l] > 0
      PROVE  status'[l] = "active"
  <2>1. locks[l] = p /\ status[l] = "active"
    BY <1>1 DEF IInv, TakenIsHeld, OnSale
  <2>2. QED
    BY <1>0, <2>1, RowsStay
<1>2. CASE Stays(p)
  BY <1>1, <1>2 DEF Stays
<1>3. CASE NextLine(p)
  <2>1. took'[p][l] = took[p][l] + Give(p, l) /\ status' = status
    BY <1>0, <1>3 DEF NextLine, SelectLots, Taken, rows
  <2>2. CASE Give(p, l) > 0
    BY <2>1, <2>2, GiveBounds DEF IInv, ChosenIsHeld
  <2>3. CASE ~ (Give(p, l) > 0)
    <3>1. Give(p, l) \in 0..work[p][l] /\ work[p][l] \in Nat
      BY GiveBounds DEF IInv
    <3>2. Give(p, l) = 0
      BY <2>3, <3>1
    <3>3. QED
      BY <1>0, <1>1, <2>1, <3>2
  <2>4. QED
    BY <2>2, <2>3
<1>4. CASE LockNext(p)
  BY <1>1, <1>4 DEF LockNext
<1>5. ASSUME NEW pl \in Plans, Begin(p, pl)
      PROVE  status'[l] = "active"
  BY <1>1, <1>5 DEF Begin
<1>6. ASSUME NEW m \in Lots, ReadToDiscard(p, m)
      PROVE  status'[l] = "active"
  BY <1>1, <1>6 DEF ReadToDiscard, consumer
<1>7. ~ End(p)
  BY <1>0 DEF End, Zero
<1>8. QED
  BY <1>2, <1>3, <1>4, <1>5, <1>6, <1>7, SessionSteps

LEMMA EntryOfSeq ==
  ASSUME NEW R, NEW s \in Seq(R), NEW i \in DOMAIN s
  PROVE  s[i] \in R
  OBVIOUS

\* Once its line is served, a transaction has taken what it was asked up to here.
LEMMA TakesWhatWasAsked ==
  ASSUME IInv, InLine, Accounted, NEW p \in Sessions, AllLocked(p), Enough(p), NEW x \in Products
  PROVE  Total(Taken(p), Atomic!LotsOf(x)) = Total(Atomic!Asked(plan[p], x), 1..step[p])
<1> DEFINE Of == {l \in Lots : ProductOf[l] = x}
           asked == Atomic!Asked(plan[p], x)
           now == step[p]
<1>1. /\ took[p] \in [Lots -> Nat] /\ plan[p] \in Plans \cup {<<>>} /\ now \in Nat
      /\ AtLine(p) /\ pc[p] = "locking" /\ TypeOK
  BY DEF IInv, TypeOK, AllLocked, InLine
<1>2. plan[p] \in Seq([product : Products, need : Int])
  <2>1. <<>> \in Seq([product : Products, need : Int])
    OBVIOUS
  <2>2. QED
    BY <1>1, <2>1, StockAssumption
<1>3. now \in 1..Len(plan[p]) /\ DOMAIN plan[p] = 1..Len(plan[p]) /\ Len(plan[p]) \in Nat
  BY <1>1, <1>2 DEF AtLine
<1>4. Line(p) = plan[p][now] /\ Line(p) \in [product : Products, need : Int]
  <2>1. plan[p][now] \in [product : Products, need : Int]
    BY <1>2, <1>3, EntryOfSeq
  <2>2. QED
    BY <2>1 DEF Line
<1>5. Line(p).need \in Int
  BY <1>4
<1>6. \A i \in DOMAIN plan[p] :
        asked[i] = IF plan[p][i].product = x /\ plan[p][i].need > 0 THEN plan[p][i].need ELSE 0
  BY DEF Atomic!Asked
<1>7. \A i \in DOMAIN plan[p] : asked[i] \in Int
  <2> SUFFICES ASSUME NEW i \in DOMAIN plan[p]
               PROVE  asked[i] \in Int
    OBVIOUS
  <2>1. plan[p][i] \in [product : Products, need : Int]
    BY <1>2, EntryOfSeq
  <2>2. plan[p][i].need \in Int
    BY <2>1
  <2>3. QED
    BY <1>6, <2>2
<1>8. asked[now] = IF Line(p).product = x THEN Needs(p) ELSE 0
  BY <1>3, <1>4, <1>6 DEF Needs
<1> HIDE DEF asked, now
<1>9. Total(asked, 1..now) = asked[now] + Total(asked, 1..(now - 1))
  <2>1. now \in Nat /\ now # 0 /\ now \in DOMAIN plan[p]
    BY <1>3
  <2>2. IsFiniteSet(1..(now - 1)) /\ now \notin 1..(now - 1) /\ 1..now = (1..(now - 1)) \cup {now}
    <3>1. now - 1 \in Nat
      BY <2>1
    <3>2. IsFiniteSet(1..(now - 1))
      BY <3>1, FS_Interval
    <3>3. now \notin 1..(now - 1) /\ 1..now = (1..(now - 1)) \cup {now}
      BY <2>1
    <3>4. QED
      BY <3>2, <3>3
  <2>3. \A y \in (1..(now - 1)) \cup {now} : asked[y] \in Int
    BY <1>3, <1>7
  <2>4. QED
    BY <2>2, <2>3, TotalAdd
<1>10. Total(Gives(p), Of) = IF Line(p).product = x THEN Needs(p) ELSE 0
  BY <1>1, <1>5, LineTakesItsNeed
<1>11. Total(Taken(p), Of) = Total(took[p], Of) + Total(Gives(p), Of)
  <2>1. IsFiniteSet(Of)
    BY StockAssumption, FS_Subset
  <2>2. ASSUME NEW l \in Of
        PROVE  /\ took[p][l] \in Int /\ Gives(p)[l] \in Int
               /\ Taken(p)[l] = took[p][l] + Gives(p)[l]
    <3>1. Give(p, l) \in 0..work[p][l] /\ work[p][l] \in Nat
      BY <1>1, GiveBounds
    <3>2. Gives(p)[l] = Give(p, l) /\ Taken(p)[l] = took[p][l] + Give(p, l)
      BY DEF Gives, Taken
    <3>3. QED
      BY <1>1, <3>1, <3>2
  <2>3. QED
    BY <2>1, <2>2, TotalPlus
<1>12. Total(took[p], Of) = Total(asked, 1..(now - 1))
  BY <1>1 DEF Accounted, Atomic!LotsOf, asked, now
<1>13. Total(asked, 1..(now - 1)) \in Int
  <2>1. now - 1 \in Nat /\ \A y \in 1..(now - 1) : asked[y] \in Int
    BY <1>3, <1>7
  <2>2. IsFiniteSet(1..(now - 1))
    BY <2>1, FS_Interval
  <2>3. QED
    BY <2>1, <2>2, TotalType
<1>14. asked[now] \in Int
  BY <1>3, <1>7
<1>15. Total(Taken(p), Of) = Total(asked, 1..now)
  BY <1>8, <1>9, <1>10, <1>11, <1>12, <1>13, <1>14
<1>16. QED
  BY <1>15 DEF asked, now, Atomic!LotsOf

LEMMA AccountedStep ==
  ASSUME IInv, InLine, Accounted, [Next]_vars
  PROVE  Accounted'
<1> SUFFICES ASSUME NEW p \in Sessions, pc'[p] = "locking", NEW x \in Products
             PROVE  Total(took'[p], Atomic!LotsOf(x)) = Total(Atomic!Asked(plan'[p], x), 1..(step'[p] - 1))
  BY DEF Accounted
<1>1. /\ pc \in [Sessions -> Phases] /\ step \in [Sessions -> Nat]
      /\ took \in [Sessions -> [Lots -> Nat]] /\ plan \in [Sessions -> Plans \cup {<<>>}]
  BY DEF IInv, TypeOK
<1>2. CASE Stays(p)
  BY <1>2 DEF Stays, Accounted
<1>3. CASE LockNext(p)
  BY <1>1, <1>3 DEF LockNext, Accounted
<1>4. CASE NextLine(p)
  <2>1. /\ AllLocked(p) /\ Enough(p) /\ plan'[p] = plan[p] /\ took'[p] = Taken(p)
        /\ step'[p] - 1 = step[p]
    BY <1>1, <1>4 DEF NextLine
  <2>2. QED
    BY <2>1, TakesWhatWasAsked
<1>5. ASSUME NEW pl \in Plans, Begin(p, pl)
      PROVE  Total(took'[p], Atomic!LotsOf(x)) = Total(Atomic!Asked(plan'[p], x), 1..(step'[p] - 1))
  <2>1. took'[p] = Zero /\ step'[p] = 1
    BY <1>1, <1>5 DEF Begin, InLine, Quiet
  <2>2. 1..(step'[p] - 1) = {}
    BY <2>1
  <2>3. Total(Atomic!Asked(plan'[p], x), 1..(step'[p] - 1)) = 0
    BY <2>2, TotalOfNone
  <2>4. Total(Zero, Atomic!LotsOf(x)) = Total(Zero, {})
    <3>1. Atomic!LotsOf(x) \subseteq Lots
      BY DEF Atomic!LotsOf
    <3>2. IsFiniteSet(Atomic!LotsOf(x)) /\ {} \in SUBSET Atomic!LotsOf(x)
      BY <3>1, StockAssumption, FS_Subset
    <3>3. \A l \in Atomic!LotsOf(x) : Zero[l] = 0 /\ Zero[l] \in Int
      BY <3>1 DEF Zero
    <3>4. QED
      BY <3>2, <3>3, TotalWhereNotZero
  <2>5. QED
    BY <2>1, <2>3, <2>4, TotalOfNone
<1>6. ~ End(p) /\ \A l \in Lots : ~ ReadToDiscard(p, l)
  BY <1>1 DEF End, ReadToDiscard
<1>7. QED
  BY <1>2, <1>3, <1>4, <1>5, <1>6, SessionSteps

LEMMA RefinementInv == Spec => []RInv
<1>1. Init => RInv
  <2> SUFFICES ASSUME Init PROVE RInv
    OBVIOUS
  <2>1. IInv
    BY InitInv
  <2>2. InLine /\ Accounted /\ OnSale /\ Unborn /\ TargetExists
    BY StockAssumption DEF Init, InLine, Quiet, Accounted, OnSale, Unborn, TargetExists, Zero
  <2>3. QED
    BY <2>1, <2>2 DEF RInv
<1>2. RInv /\ [Next]_vars => RInv'
  <2> SUFFICES ASSUME RInv, [Next]_vars PROVE RInv'
    OBVIOUS
  <2>1. IInv'
    BY NextKeepsInv DEF RInv
  <2>2. InLine'
    BY LineSteps DEF RInv, InLine
  <2>3. Accounted' /\ OnSale' /\ Unborn' /\ TargetExists'
    BY <2>1, AccountedStep, OnSaleStep, UnbornStep, TargetExistsStep DEF RInv
  <2>4. QED
    BY <2>1, <2>2, <2>3 DEF RInv
<1>3. QED
  BY <1>1, <1>2, PTL DEF Spec
-----------------------------------------------------------------------------
\* A request on one lot moves it by what the ledger says, or changes its dates.
LEMMA LotRequestIsAtomic ==
  ASSUME RInv, NEW l \in Lots, LotRequest(l)
  PROVE  Atomic!MoveOne(l) \/ UNCHANGED Atomic!vars
<1>0. /\ remaining \in [Lots -> Nat] /\ status \in [Lots -> Status]
      /\ ledger \in [Lots \cup {NoLot} -> Int] /\ Quantities \subseteq Int
  BY StockAssumption DEF RInv, IInv, TypeOK
<1>1. ASSUME NEW q \in Quantities, NEW e \in Dates \cup {NoExpiry}, NEW d \in Dates,
             Receive(l, q, e, d)
      PROVE  Atomic!MoveOne(l)
  <2>1. remaining[l] = 0 /\ ledger[l] = 0
    BY <1>1 DEF Receive, Exists, RInv, Unborn
  <2>2. /\ q \in Nat /\ remaining' = [remaining EXCEPT ![l] = q]
        /\ ledger' = [ledger EXCEPT ![l] = q] /\ status' = [status EXCEPT ![l] = "active"]
    BY <1>1, StockAssumption DEF Receive, SetStatus
  <2>3. remaining'[l] = q /\ ledger[l] + remaining'[l] - remaining[l] = q
    BY <1>0, <2>1, <2>2
  <2>4. \A m \in Lots \ {l} : remaining'[m] = remaining[m] /\ status'[m] = status[m]
    BY <1>0, <2>2
  <2>5. remaining'[l] >= 0
    BY <2>2, <2>3
  <2>6. ledger' = [ledger EXCEPT ![l] = ledger[l] + remaining'[l] - remaining[l]]
    BY <2>2, <2>3
  <2>7. QED
    BY <2>4, <2>5, <2>6 DEF Atomic!MoveOne
<1>2. ASSUME NEW q \in Int, Move(l, q), NEW s, SetStatus(l, s)
      PROVE  Atomic!MoveOne(l)
  <2>1. /\ remaining[l] + q \in Nat /\ remaining' = [remaining EXCEPT ![l] = remaining[l] + q]
        /\ ledger' = [ledger EXCEPT ![l] = ledger[l] + q] /\ status' = [status EXCEPT ![l] = s]
    BY <1>2, StockAssumption DEF Move, SetStatus
  <2>2. remaining'[l] = remaining[l] + q
    BY <1>0, <2>1
  <2>3. ledger[l] + remaining'[l] - remaining[l] = ledger[l] + q
    BY <1>0, <2>2
  <2>4. \A m \in Lots \ {l} : remaining'[m] = remaining[m] /\ status'[m] = status[m]
    BY <1>0, <2>1
  <2>5. remaining'[l] >= 0
    BY <2>1, <2>2
  <2>6. ledger' = [ledger EXCEPT ![l] = ledger[l] + remaining'[l] - remaining[l]]
    BY <2>1, <2>3
  <2>7. QED
    BY <2>4, <2>5, <2>6 DEF Atomic!MoveOne
<1>3. ASSUME NEW q \in Quantities, ManualIn(l, q) \/ ManualOut(l, q) \/ Adjust(l, q)
      PROVE  Atomic!MoveOne(l)
  <2>1. q \in Int /\ -q \in Int
    BY <1>0
  <2>2. QED
    BY <1>2, <1>3, <2>1 DEF ManualIn, ManualOut, Adjust
<1>4. ASSUME NEW e \in EditDates, EditExpiry(l, e)
      PROVE  UNCHANGED Atomic!vars
  BY <1>4 DEF EditExpiry, Atomic!vars, movement
<1>5. QED
  BY <1>1, <1>3, <1>4 DEF LotRequest

\* AtomicStock folds with its own instance of the library; the folds are the same.
LEMMA AtomicTotal ==
  ASSUME NEW f, NEW S
  PROVE  Atomic!FoldFunctionOnSet(+, 0, f, S) = Total(f, S)
  BY DEF Total, FoldFunctionOnSet, MapThenFoldSet, Atomic!FoldFunctionOnSet, Atomic!MapThenFoldSet

\* The commit of a consumption issues its whole plan.
LEMMA CommitIsAtomic ==
  ASSUME RInv, NEW p \in Sessions, Commit(p)
  PROVE  plan[p] \in Plans /\ Atomic!Issue(plan[p])
<1>0. /\ remaining \in [Lots -> Nat] /\ status \in [Lots -> Status]
      /\ ledger \in [Lots \cup {NoLot} -> Int] /\ NoLot \notin Lots /\ IInv
      /\ plan[p] \in Plans \cup {<<>>}
  BY StockAssumption DEF RInv, IInv, TypeOK
<1>1. /\ AllLocked(p) /\ Enough(p) /\ step[p] = Len(plan[p])
      /\ remaining' = [l \in Lots |-> IF Taken(p)[l] > 0 THEN Kept(p)[l] ELSE remaining[l]]
      /\ status' = [l \in Lots |-> IF Taken(p)[l] > 0 /\ Kept(p)[l] = 0 THEN "depleted" ELSE status[l]]
      /\ ledger' = [l \in Lots \cup {NoLot} |-> IF l = NoLot THEN ledger[l] ELSE ledger[l] - Taken(p)[l]]
  BY DEF Commit
<1>2. plan[p] \in Plans /\ plan[p] \in Seq([product : Products, need : Int])
  <2>1. step[p] \in DOMAIN plan[p]
    BY <1>1 DEF RInv, InLine, AtLine, AllLocked
  <2>2. plan[p] # <<>>
    BY <2>1
  <2>3. QED
    BY <1>0, <2>2, StockAssumption
<1>3. ASSUME NEW l \in Lots
      PROVE  /\ Taken(p)[l] \in Nat /\ Kept(p)[l] \in Nat
             /\ Taken(p)[l] > 0 => Kept(p)[l] + Taken(p)[l] = remaining[l] /\ status[l] = "active"
  <2>1. Taken(p)[l] \in Nat /\ Kept(p)[l] \in Nat /\ Kept(p)[l] + Taken(p)[l] = work[p][l] + took[p][l]
    BY <1>0, ServedTypes DEF IInv
  <2>2. took[p][l] \in Nat /\ Taken(p)[l] = took[p][l] + Give(p, l) /\ Give(p, l) \in Nat
    <3>1. Give(p, l) \in Nat /\ took[p][l] \in Nat
      BY <1>0, GiveBounds DEF IInv
    <3>2. QED
      BY <3>1 DEF Taken
  <2>3. ASSUME Taken(p)[l] > 0
        PROVE  locks[l] = p /\ status[l] = "active"
    <3>1. locks[l] = p
      BY <1>0, <2>3, TakenRowsAreHeld
    <3>2. CASE took[p][l] > 0
      BY <3>1, <3>2 DEF RInv, OnSale
    <3>3. CASE Give(p, l) > 0
      BY <1>0, <3>1, <3>3, GiveBounds DEF IInv, ChosenIsHeld
    <3>4. QED
      BY <2>2, <2>3, <3>2, <3>3
  <2>4. QED
    BY <1>0, <2>1, <2>3 DEF IInv, HeldIsFresh
<1>4. \A l \in Lots : remaining[l] - remaining'[l] = Taken(p)[l]
  <2> SUFFICES ASSUME NEW l \in Lots
               PROVE  remaining[l] - remaining'[l] = Taken(p)[l]
    OBVIOUS
  <2>1. remaining'[l] = IF Taken(p)[l] > 0 THEN Kept(p)[l] ELSE remaining[l]
    BY <1>1
  <2>2. QED
    BY <1>0, <1>3, <2>1
<1>5. ASSUME NEW l \in Lots
      PROVE  /\ remaining'[l] \in 0..remaining[l]
             /\ remaining'[l] < remaining[l] => status[l] = "active"
             /\ status'[l] = IF remaining'[l] < remaining[l] /\ remaining'[l] = 0
                             THEN "depleted" ELSE status[l]
             /\ ledger'[l] = ledger[l] + remaining'[l] - remaining[l]
  <2>1. /\ remaining'[l] = IF Taken(p)[l] > 0 THEN Kept(p)[l] ELSE remaining[l]
        /\ status'[l] = IF Taken(p)[l] > 0 /\ Kept(p)[l] = 0 THEN "depleted" ELSE status[l]
        /\ ledger'[l] = ledger[l] - Taken(p)[l]
    BY <1>0, <1>1
  <2>2. remaining[l] \in Nat /\ ledger[l] \in Int
    BY <1>0
  <2>3. QED
    BY <1>3, <2>1, <2>2
<1>6. ledger' = [l \in Lots \cup {NoLot} |->
                   IF l = NoLot THEN ledger[l] ELSE ledger[l] + remaining'[l] - remaining[l]]
  <2> DEFINE after(l) == IF l = NoLot THEN ledger[l] ELSE ledger[l] + remaining'[l] - remaining[l]
  <2>1. ASSUME NEW l \in Lots
        PROVE  ledger'[l] = after(l)
    <3>1. ledger'[l] = ledger[l] + remaining'[l] - remaining[l] /\ l # NoLot
      BY <1>0, <1>5
    <3>2. QED
      BY <3>1
  <2>2. ledger'[NoLot] = after(NoLot)
    BY <1>1
  <2>3. DOMAIN ledger' = Lots \cup {NoLot} /\ ledger' = [l \in Lots \cup {NoLot} |-> ledger'[l]]
    BY <1>1
  <2> HIDE DEF after
  <2>4. \A l \in Lots \cup {NoLot} : ledger'[l] = after(l)
    BY <2>1, <2>2
  <2>5. ledger' = [l \in Lots \cup {NoLot} |-> after(l)]
    BY <2>3, <2>4, Zenon
  <2>6. QED
    BY <2>5 DEF after
<1>7. ASSUME NEW x \in Products
      PROVE  Total([l \in Lots |-> remaining[l] - remaining'[l]], Atomic!LotsOf(x)) =
               Total(Atomic!Asked(plan[p], x), DOMAIN Atomic!Asked(plan[p], x))
  <2>1. Total(Taken(p), Atomic!LotsOf(x)) = Total(Atomic!Asked(plan[p], x), 1..step[p])
    BY <1>0, <1>1, TakesWhatWasAsked DEF RInv
  <2>2. DOMAIN Atomic!Asked(plan[p], x) = 1..step[p]
    BY <1>1, <1>2 DEF Atomic!Asked
  <2>3. Total([l \in Lots |-> remaining[l] - remaining'[l]], Atomic!LotsOf(x)) = Total(Taken(p), Atomic!LotsOf(x))
    <3>1. IsFiniteSet(Atomic!LotsOf(x)) /\ Atomic!LotsOf(x) \subseteq Lots
      BY StockAssumption, FS_Subset DEF Atomic!LotsOf
    <3>2. \A l \in Atomic!LotsOf(x) : [m \in Lots |-> remaining[m] - remaining'[m]][l] = Taken(p)[l]
      BY <1>4, <3>1
    <3>3. QED
      BY <3>1, <3>2, TotalSame
  <2>4. QED
    BY <2>1, <2>2, <2>3
<1>8. ASSUME NEW x \in Products
      PROVE  Atomic!FoldFunctionOnSet(+, 0, [l \in Lots |-> remaining[l] - remaining'[l]], Atomic!LotsOf(x)) =
               Atomic!Demand(plan[p], x)
  <2>1. Atomic!Demand(plan[p], x) =
          Atomic!FoldFunctionOnSet(+, 0, Atomic!Asked(plan[p], x), DOMAIN Atomic!Asked(plan[p], x))
    BY DEF Atomic!Demand, Atomic!FoldFunction
  <2>2. QED
    BY <1>7, <2>1, AtomicTotal
<1>9. \A l \in Lots :
        /\ remaining'[l] \in 0..remaining[l]
        /\ remaining'[l] < remaining[l] => status[l] = "active"
        /\ status'[l] = IF remaining'[l] < remaining[l] /\ remaining'[l] = 0
                        THEN "depleted" ELSE status[l]
  BY <1>5
<1>10. Atomic!Issue(plan[p])
  BY ONLY <1>6, <1>8, <1>9, Zenon DEF Atomic!Issue
<1>11. QED
  BY <1>2, <1>10

LEMMA DiscardIsAtomic ==
  ASSUME RInv, NEW p \in Sessions, Discard(p)
  PROVE  target[p] \in Lots /\ Atomic!Discard(target[p])
<1> DEFINE l == target[p]
<1>0. /\ remaining \in [Lots -> Nat] /\ status \in [Lots -> Status] /\ l \in Lots
      /\ ledger \in [Lots \cup {NoLot} -> Int] /\ seen[p].remaining \in Nat
  BY DEF RInv, IInv, TypeOK, TargetExists, Discard
<1>1. /\ remaining' = [remaining EXCEPT ![l] = IF seen[p].remaining = 0 THEN remaining[l] ELSE 0]
      /\ status' = [status EXCEPT ![l] = IF seen[p].status = "discarded" THEN status[l] ELSE "discarded"]
      /\ ledger' = [ledger EXCEPT ![l] = ledger[l] - seen[p].remaining]
  BY DEF Discard
<1> HIDE DEF l
<1>2. ledger'[l] <= ledger[l] /\ ledger' = [ledger EXCEPT ![l] = ledger'[l]]
  BY <1>0, <1>1
<1>3. Atomic!Discard(l)
  BY <1>0, <1>1, <1>2 DEF Atomic!Discard
<1>4. QED
  BY <1>0, <1>3 DEF l

\* Whatever the interleaving, the committed rows change as if each request were
\* served alone, and a consumption issues all of its plan or nothing
\* (stock_service.py:235-299, recipe_production_service.py:142,
\* pos_event_processor_service.py:433).
THEOREM RequestsLookAtomic == Spec => LooksAtomic
<1>1. Init => Atomic!Init
  BY DEF Init, Atomic!Init, Zero
<1>2. RInv /\ [Next]_vars => [Atomic!Next]_(Atomic!vars)
  <2> SUFFICES ASSUME RInv, [Next]_vars
               PROVE  Atomic!Next \/ UNCHANGED Atomic!vars
    OBVIOUS
  <2> DEFINE Goal == Atomic!Next \/ UNCHANGED Atomic!vars
  <2>1. ASSUME NEW l \in Lots, LotRequest(l)
        PROVE  Goal
    BY <2>1, LotRequestIsAtomic DEF Atomic!Next
  <2>2. ASSUME NEW q \in Quantities, AdjustWithoutLot(q)
        PROVE  Goal
    <3>1. UNCHANGED <<remaining, status>> /\ ledger' = [ledger EXCEPT ![NoLot] = ledger[NoLot] + q]
      BY <2>2 DEF AdjustWithoutLot, rows
    <3>2. ledger' = [ledger EXCEPT ![NoLot] = ledger'[NoLot]]
      BY <3>1 DEF RInv, IInv, TypeOK
    <3>3. QED
      BY <3>1, <3>2 DEF Atomic!Next, Atomic!MoveNone
  <2>3. ASSUME NEW p \in Sessions, Commit(p)
        PROVE  Goal
    BY <2>3, CommitIsAtomic DEF Atomic!Next
  <2>4. ASSUME NEW p \in Sessions, Discard(p)
        PROVE  Goal
    BY <2>4, DiscardIsAtomic DEF Atomic!Next
  <2> DEFINE Other(p) == \/ \E pl \in Plans : Begin(p, pl)
                         \/ \E m \in Lots : ReadToDiscard(p, m)
                         \/ LockNext(p) \/ NextLine(p) \/ Short(p) \/ Rollback(p)
  <2>5. ASSUME NEW p \in Sessions, Other(p)
        PROVE  Goal
    BY <2>5 DEF Begin, SelectLots, ReadToDiscard, LockNext, NextLine, Short, Rollback, rows, movement,
       Atomic!vars
  <2>6. UNCHANGED vars => Goal
    BY DEF vars, rows, movement, Atomic!vars
  <2>7. Next => \/ \E m \in Lots : LotRequest(m)
                \/ \E q \in Quantities : AdjustWithoutLot(q)
                \/ \E p \in Sessions : Commit(p) \/ Discard(p) \/ Other(p)
    BY ONLY DEF Next, Consume
  <2> HIDE DEF Goal, Other
  <2>8. Next => Goal
    BY ONLY <2>1, <2>2, <2>3, <2>4, <2>5, <2>7
  <2>9. Goal
    BY <2>6, <2>8
  <2>10. QED
    BY <2>9 DEF Goal
<1>3. QED
  BY <1>1, <1>2, RefinementInv, PTL DEF Spec, LooksAtomic, Atomic!Spec
-----------------------------------------------------------------------------
(***************************************************************************)
(* FEFO, while nobody edits an expiry.  The argument: a session locks the  *)
(* lots of a product in FEFO order and takes from the first before it      *)
(* takes from the next; what it holds keeps its dates and its status; and  *)
(* lots of products it has finished with it takes no more.                 *)
(***************************************************************************)
\* Nobody edits an expiry, and a plan has one line for each product.
NoEdits == EditDates = {}
OneLineEach ==
  \A pl \in Plans : \A i, j \in DOMAIN pl : pl[i].product = pl[j].product => i = j

\* The session locks the lots of its line in FEFO order: what it chose is in that
\* order, and what it holds of the line's product comes before what it waits for.
InOrder(p) ==
  /\ \A i, j \in DOMAIN queue[p] : i < j => ~FefoBefore(queue[p][j], queue[p][i])
  /\ \A i, j \in DOMAIN chosen[p] : i < j => ~FefoBefore(chosen[p][j], chosen[p][i])
  /\ \A l \in Lots : locks[l] = p /\ ProductOf[l] = Line(p).product =>
       \A j \in DOMAIN queue[p] : queue[p][j] # l /\ ~FefoBefore(queue[p][j], l)

\* Of the line's product, what it holds on sale and not empty, it chose.
Considered(p) ==
  \A l \in Lots :
    /\ locks[l] = p /\ ProductOf[l] = Line(p).product
    /\ status[l] = "active" /\ work[p][l] > 0
    => \E i \in DOMAIN chosen[p] : chosen[p][i] = l

\* It holds lots of the products of its lines so far, and took from those of the
\* lines it has served.
ByLine(p) ==
  \A l \in Lots :
    /\ locks[l] = p => \E i \in 1..step[p] : plan[p][i].product = ProductOf[l]
    /\ took[p][l] > 0 => \E i \in 1..(step[p] - 1) : plan[p][i].product = ProductOf[l]

\* The lines served respected FEFO.
Emptied(p) ==
  \A l, m \in Lots :
    /\ locks[l] = p /\ took[p][l] > 0
    /\ locks[m] = p /\ status[m] = "active"
    /\ ProductOf[m] = ProductOf[l] /\ ExpiresBefore(m, l)
    => work[p][m] = 0

Queueing ==
  \A p \in Sessions : pc[p] = "locking" =>
    InOrder(p) /\ Considered(p) /\ ByLine(p) /\ Emptied(p)
-----------------------------------------------------------------------------
(***************************************************************************)
(* The FEFO order.                                                         *)
(***************************************************************************)
\* Any two lots are in order, and the order is transitive.
LEMMA FefoIsAnOrder ==
  ASSUME TypeOK, NEW l \in Lots, NEW m \in Lots, NEW n \in Lots
  PROVE  /\ ~FefoBefore(l, l)
         /\ FefoBefore(l, m) => ~FefoBefore(m, l)
         /\ l # m => FefoBefore(l, m) \/ FefoBefore(m, l)
         /\ FefoBefore(l, m) /\ FefoBefore(m, n) => FefoBefore(l, n)
<1>1. ASSUME NEW k \in Lots
      PROVE  (expiry[k] = NoExpiry \/ expiry[k] \in Nat) /\ received[k] \in Nat /\ k \in Nat
  BY StockAssumption DEF TypeOK
<1>2. QED
  BY <1>1 DEF FefoBefore

\* The dates of a lot that exists do not change, if nobody edits them.
LEMMA DatesStay ==
  ASSUME NoEdits, IInv, [Next]_vars, NEW l \in Lots, status[l] # "none"
  PROVE  expiry'[l] = expiry[l] /\ received'[l] = received[l]
<1> DEFINE Goal == expiry'[l] = expiry[l] /\ received'[l] = received[l]
<1>1. ASSUME UNCHANGED <<expiry, received>>
      PROVE  Goal
  BY <1>1
<1>2. ASSUME NEW m \in Lots, LotRequest(m)
      PROVE  Goal
  <2>1. ASSUME NEW q \in Quantities, NEW e \in Dates \cup {NoExpiry}, NEW d \in Dates, Receive(m, q, e, d)
        PROVE  Goal
    <3>1. m # l
      BY <2>1 DEF Receive, Exists
    <3>2. QED
      BY <2>1, <3>1 DEF Receive, IInv, TypeOK
  <2>2. ASSUME NEW q \in Quantities, ManualIn(m, q) \/ ManualOut(m, q) \/ Adjust(m, q)
        PROVE  Goal
    BY <2>2 DEF ManualIn, ManualOut, Adjust, Move
  <2>3. QED
    BY <1>2, <2>1, <2>2 DEF LotRequest, NoEdits
<1>3. ASSUME NEW q \in Quantities, AdjustWithoutLot(q)
      PROVE  Goal
  BY <1>3 DEF AdjustWithoutLot, rows
<1> DEFINE Other(p) == \/ \E pl \in Plans : Begin(p, pl)
                       \/ \E m \in Lots : ReadToDiscard(p, m)
                       \/ LockNext(p) \/ NextLine(p) \/ Commit(p) \/ Short(p) \/ Discard(p) \/ Rollback(p)
<1>4. ASSUME NEW p \in Sessions, Other(p)
      PROVE  Goal
  BY <1>4 DEF Begin, SelectLots, ReadToDiscard, LockNext, NextLine, Commit, Short, Discard, Rollback, rows
<1>5. UNCHANGED vars => Goal
  BY DEF vars, rows
<1>6. Next => \/ \E m \in Lots : LotRequest(m)
              \/ \E q \in Quantities : AdjustWithoutLot(q)
              \/ \E p \in Sessions : Other(p)
  BY ONLY DEF Next, Consume
<1> HIDE DEF Goal, Other
<1>7. Next => Goal
  BY ONLY <1>2, <1>3, <1>4, <1>6
<1>8. Goal
  BY <1>5, <1>7
<1>9. QED
  BY <1>8 DEF Goal

LEMMA OrderStays ==
  ASSUME NoEdits, IInv, [Next]_vars, NEW l \in Lots, NEW m \in Lots,
         status[l] # "none", status[m] # "none"
  PROVE  /\ FefoBefore(l, m)' <=> FefoBefore(l, m)
         /\ ExpiresBefore(l, m)' <=> ExpiresBefore(l, m)
<1>1. /\ expiry'[l] = expiry[l] /\ received'[l] = received[l]
      /\ expiry'[m] = expiry[m] /\ received'[m] = received[m]
  BY DatesStay
<1>2. QED
  BY <1>1 DEF FefoBefore, ExpiresBefore
-----------------------------------------------------------------------------
(***************************************************************************)
(* FEFO within a line, and from line to line.                              *)
(***************************************************************************)
\* If a chosen lot gives anything, the lots chosen before it give all they have.
LEMMA EarlierGiveAll ==
  ASSUME TypeOK, NEW p \in Sessions, AtLine(p), Line(p).need \in Int,
         NEW i \in DOMAIN chosen[p], NEW k \in DOMAIN chosen[p], k < i, Give(p, chosen[p][i]) > 0
  PROVE  Give(p, chosen[p][k]) = work[p][chosen[p][k]]
<1>1. chosen[p] \in Seq(Lots)
  BY DEF TypeOK
<1>2. i \in 1..Len(chosen[p]) /\ k \in 1..Len(chosen[p]) /\ Len(chosen[p]) \in Nat
  BY <1>1
<1> DEFINE W(j) == Held(p, 1..j)
           need == Line(p).need
<1>3. /\ W(i - 1) \in Nat /\ W(k - 1) \in Nat /\ W(k) = W(k - 1) + work[p][chosen[p][k]]
      /\ work[p][chosen[p][k]] \in Nat /\ work[p][chosen[p][i]] \in Nat
  BY <1>2, HeldAdds
<1>4. W(k) <= W(i - 1)
  <2>1. \A I : Held(p, I) = Total(Has(p), I)
    BY DEF Held, Total, Has
  <2>2. 1..k \in SUBSET (1..(i - 1)) /\ IsFiniteSet(1..(i - 1))
    <3>1. k \in Nat /\ i \in Nat /\ i - 1 \in Nat /\ k <= i - 1
      BY <1>2
    <3>2. 1..k \in SUBSET (1..(i - 1))
      BY <3>1
    <3>3. IsFiniteSet(1..(i - 1))
      BY <3>1, FS_Interval
    <3>4. QED
      BY <3>2, <3>3
  <2>3. \A j \in 1..(i - 1) : Has(p)[j] \in Nat
    <3> SUFFICES ASSUME NEW j \in 1..(i - 1)
                 PROVE  Has(p)[j] \in Nat
      OBVIOUS
    <3>1. j \in 1..Len(chosen[p]) /\ j \in DOMAIN chosen[p]
      BY <1>1, <1>2
    <3>2. Has(p)[j] = work[p][chosen[p][j]] /\ work[p][chosen[p][j]] \in Nat
      BY <3>1, HeldAdds DEF Has
    <3>3. QED
      BY <3>2
  <2>4. Total(Has(p), 1..k) <= Total(Has(p), 1..(i - 1))
    BY <2>2, <2>3, TotalOfPart
  <2>5. QED
    BY <2>1, <2>4
<1>5. need - W(i - 1) > 0
  <2>1. Give(p, chosen[p][i]) = IF need - W(i - 1) \in 0..work[p][chosen[p][i]] THEN need - W(i - 1)
                                ELSE IF need - W(i - 1) < 0 THEN 0 ELSE work[p][chosen[p][i]]
    BY <1>2, GiveOfChosen
  <2> HIDE DEF W, need
  <2>2. need \in Int
    BY DEF need
  <2>3. QED
    BY <1>3, <2>1, <2>2
<1>6. Give(p, chosen[p][k]) = IF need - W(k - 1) \in 0..work[p][chosen[p][k]] THEN need - W(k - 1)
                              ELSE IF need - W(k - 1) < 0 THEN 0 ELSE work[p][chosen[p][k]]
  BY <1>2, GiveOfChosen
<1>7. need \in Int
  OBVIOUS
<1> HIDE DEF W, need
<1>8. QED
  BY <1>3, <1>4, <1>5, <1>6, <1>7

\* Once its line is served, what was taken respects FEFO for this line too.
LEMMA ServedByFefo ==
  ASSUME RInv, Queueing, NEW p \in Sessions, AllLocked(p),
         NEW l \in Lots, NEW m \in Lots,
         locks[l] = p, Taken(p)[l] > 0, locks[m] = p, status[m] = "active",
         ProductOf[m] = ProductOf[l], ExpiresBefore(m, l)
  PROVE  Kept(p)[m] = 0
<1>1. /\ IInv /\ TypeOK /\ AtLine(p) /\ InOrder(p) /\ Considered(p) /\ ByLine(p) /\ Emptied(p)
      /\ plan[p] \in Plans /\ plan[p] \in Seq([product : Products, need : Int])
  <2>1. pc[p] = "locking" /\ IInv /\ TypeOK /\ AtLine(p)
    BY DEF RInv, IInv, InLine, AllLocked
  <2>2. plan[p] \in Plans \cup {<<>>} /\ plan[p] # <<>>
    BY <2>1 DEF TypeOK, AtLine
  <2>3. QED
    BY <2>1, <2>2, StockAssumption DEF Queueing
<1>2. /\ work[p][m] \in Nat /\ Give(p, m) \in 0..work[p][m] /\ Kept(p)[m] = work[p][m] - Give(p, m)
      /\ took[p][l] \in Nat /\ Give(p, l) \in Nat /\ Taken(p)[l] = took[p][l] + Give(p, l)
  <2>1. /\ work[p][m] \in Nat /\ Give(p, m) \in 0..work[p][m]
        /\ took[p][l] \in Nat /\ Give(p, l) \in Nat
    BY <1>1, GiveBounds
  <2>2. Kept(p)[m] = work[p][m] - Give(p, m) /\ Taken(p)[l] = took[p][l] + Give(p, l)
    BY DEF Kept, Taken
  <2>3. QED
    BY <2>1, <2>2
<1>3. CASE took[p][l] > 0
  <2>1. work[p][m] = 0
    BY <1>1, <1>3 DEF Emptied
  <2>2. QED
    BY <1>2, <2>1
<1>4. CASE Give(p, l) > 0
  <2>1. PICK i \in DOMAIN chosen[p] : chosen[p][i] = l
    BY <1>1, <1>4, GiveBounds
  <2>2. CASE work[p][m] = 0
    BY <1>2, <2>2
  <2>3. CASE work[p][m] > 0
    <3>1. ProductOf[m] = Line(p).product
      BY <1>1, <2>1 DEF AtLine
    <3>2. PICK k \in DOMAIN chosen[p] : chosen[p][k] = m
      BY <1>1, <2>3, <3>1 DEF Considered
    <3>3. k \in Nat /\ i \in Nat /\ chosen[p] \in Seq(Lots)
      <4>1. chosen[p] \in Seq(Lots)
        BY <1>1 DEF TypeOK
      <4>2. QED
        BY <4>1
    <3>4. FefoBefore(m, l)
      BY DEF FefoBefore, ExpiresBefore
    <3>5. ~(i < k)
      BY <1>1, <2>1, <3>2, <3>4 DEF InOrder
    <3>6. k # i
      BY <1>1, <2>1, <3>2, <3>4, FefoIsAnOrder
    <3>7. k < i
      BY <3>3, <3>5, <3>6
    <3>8. Line(p).need \in Int
      <4>1. Line(p) \in [product : Products, need : Int]
        BY <1>1, EntryOfSeq DEF Line, AtLine
      <4>2. QED
        BY <4>1
    <3>9. Give(p, m) = work[p][m]
      BY <1>1, <1>4, <2>1, <3>2, <3>7, <3>8, EarlierGiveAll
    <3>10. QED
      BY <1>2, <3>9
  <2>4. QED
    BY <1>2, <2>2, <2>3
<1>5. QED
  BY <1>2, <1>3, <1>4

LEMMA PlansAreSequences ==
  ASSUME NEW pl \in Plans \cup {<<>>}
  PROVE  pl \in Seq([product : Products, need : Int])
<1>1. <<>> \in Seq([product : Products, need : Int])
  OBVIOUS
<1>2. QED
  BY <1>1, StockAssumption

\* What was taken is of other products than the line's.
LEMMA ServedLinesAreOthers ==
  ASSUME OneLineEach, TypeOK, NEW p \in Sessions, AtLine(p), ByLine(p), NEW l \in Lots, took[p][l] > 0
  PROVE  ProductOf[l] # Line(p).product
<1>1. PICK i \in 1..(step[p] - 1) : plan[p][i].product = ProductOf[l]
  BY DEF ByLine
<1>2. /\ plan[p] \in Plans \cup {<<>>} /\ step[p] \in DOMAIN plan[p]
  BY DEF TypeOK, AtLine
<1>3. plan[p] \in Seq([product : Products, need : Int])
  BY <1>2, PlansAreSequences
<1>4. i \in DOMAIN plan[p] /\ i # step[p] /\ plan[p] # <<>>
  BY <1>2, <1>3
<1>5. plan[p][i].product # plan[p][step[p]].product
  BY <1>2, <1>4 DEF OneLineEach
<1>6. QED
  BY <1>1, <1>5 DEF Line

\* What the steps of a session do to its place in the queues, and the steps of the
\* others leave as it is.
LEMMA QueueingStep ==
  ASSUME NoEdits, OneLineEach, RInv, RInv', Queueing, [Next]_vars,
         NEW p \in Sessions, pc'[p] = "locking"
  PROVE  InOrder(p)' /\ Considered(p)' /\ ByLine(p)' /\ Emptied(p)'
<1>0. /\ pc \in [Sessions -> Phases] /\ plan \in [Sessions -> Plans \cup {<<>>}]
      /\ step \in [Sessions -> Nat] /\ work \in [Sessions -> [Lots -> Nat]]
      /\ queue \in [Sessions -> Seq(Lots)] /\ chosen \in [Sessions -> Seq(Lots)]
      /\ took \in [Sessions -> [Lots -> Nat]] /\ locks \in [Lots -> Sessions \cup {Free}]
      /\ status \in [Lots -> Status] /\ remaining \in [Lots -> Nat]
      /\ IInv /\ TypeOK /\ InLine /\ TargetExists
  BY DEF RInv, IInv, TypeOK
<1>1. \A l, m \in Lots : status[l] # "none" /\ status[m] # "none" =>
        /\ FefoBefore(l, m)' <=> FefoBefore(l, m)
        /\ ExpiresBefore(l, m)' <=> ExpiresBefore(l, m)
  BY <1>0, OrderStays
<1>2. \A l \in Lots : locks[l] = p => status[l] # "none" /\ (locks'[l] = p => status'[l] = status[l])
  BY <1>0, RowsStay DEF IInv, HeldIsFresh
<1>3. CASE Stays(p)
  <2>1. /\ InOrder(p) /\ Considered(p) /\ ByLine(p) /\ Emptied(p)
        /\ pc'[p] = pc[p] /\ plan'[p] = plan[p] /\ step'[p] = step[p] /\ queue'[p] = queue[p]
        /\ chosen'[p] = chosen[p] /\ work'[p] = work[p] /\ took'[p] = took[p]
        /\ \A l \in Lots : locks'[l] = p <=> locks[l] = p
    BY <1>3 DEF Stays, Queueing
  <2>2. Line(p)' = Line(p)
    BY <2>1 DEF Line
  <2>3. /\ \A i \in DOMAIN queue[p] : queue[p][i] \in Lots /\ status[queue[p][i]] # "none"
        /\ \A i \in DOMAIN chosen[p] : chosen[p][i] \in Lots /\ status[chosen[p][i]] # "none"
    BY <1>0 DEF IInv, QueuedExists, ChosenIsHeld
  <2>4. InOrder(p)'
    BY <1>1, <1>2, <2>1, <2>2, <2>3 DEF InOrder
  <2>5. Considered(p)'
    BY <1>2, <2>1, <2>2 DEF Considered
  <2>6. ByLine(p)'
    BY <2>1 DEF ByLine
  <2>7. Emptied(p)'
    BY <1>1, <1>2, <2>1 DEF Emptied
  <2>8. QED
    BY <2>4, <2>5, <2>6, <2>7
<1>4. ASSUME NEW pl \in Plans, Begin(p, pl)
      PROVE  InOrder(p)' /\ Considered(p)' /\ ByLine(p)' /\ Emptied(p)'
  <2>1. /\ UNCHANGED <<expiry, received, status, locks>> /\ \A l \in Lots : locks[l] # p
        /\ took'[p] = Zero
    BY <1>0, <1>4 DEF Begin, SelectLots, rows, InLine, Quiet
  <2>2. SelectLots(p, work[p], pl[1])
    BY <1>4 DEF Begin
  <2>3. /\ chosen'[p] = <<>>
        /\ \A i, j \in DOMAIN queue'[p] : i < j => ~FefoBefore(queue'[p][j], queue'[p][i])
    BY <1>0, <2>2, Selected
  <2>4. QED
    BY <2>1, <2>3 DEF InOrder, Considered, ByLine, Emptied, FefoBefore, Zero
<1>5. CASE LockNext(p)
  <2> DEFINE h == queue[p][1]
  <2>1. /\ InOrder(p) /\ Considered(p) /\ ByLine(p) /\ Emptied(p) /\ AtLine(p)
        /\ pc[p] = "locking" /\ queue[p] # <<>> /\ queue[p] \in Seq(Lots) /\ chosen[p] \in Seq(Lots)
        /\ 1 \in DOMAIN queue[p] /\ Head(queue[p]) = h /\ h \in Lots
    BY <1>0, <1>5 DEF LockNext, Queueing, InLine
  <2>2. /\ plan'[p] = plan[p] /\ step'[p] = step[p] /\ took'[p] = took[p] /\ queue'[p] = Tail(queue[p])
        /\ UNCHANGED <<expiry, received, status, remaining>>
        /\ locks' = [locks EXCEPT ![h] = p] /\ locks[h] \in {Free, p}
        /\ chosen'[p] = IF Eligible(p, work[p], h) THEN Append(chosen[p], h) ELSE chosen[p]
        /\ work'[p] = [work[p] EXCEPT ![h] = IF locks[h] = p THEN work[p][h] ELSE remaining[h]]
    BY <1>0, <1>5, <2>1 DEF LockNext, rows
  <2>3. Line(p)' = Line(p)
    BY <2>2 DEF Line
  <2>4. /\ ProductOf[h] = Line(p).product
        /\ \A l \in Lots : locks'[l] = p <=> (locks[l] = p \/ l = h)
        /\ \A l \in Lots : l # h => work'[p][l] = work[p][l]
        /\ work'[p][h] = IF locks[h] = p THEN work[p][h] ELSE remaining[h]
    BY <1>0, <2>1, <2>2 DEF AtLine
  <2>5. \A i \in DOMAIN queue'[p] : /\ i \in Nat /\ i # 0 /\ 1 < i + 1 /\ i + 1 \in DOMAIN queue[p]
                                    /\ queue'[p][i] = queue[p][i + 1]
    BY <2>1, <2>2, TailEntries
  <2>6. \A i \in DOMAIN chosen'[p] :
          \/ i \in DOMAIN chosen[p] /\ chosen'[p][i] = chosen[p][i]
          \/ i = Len(chosen[p]) + 1 /\ i \notin DOMAIN chosen[p] /\ chosen'[p][i] = h
    BY <2>1, <2>2, AppendEntries
  <2>7. \A l, m \in Lots : ExpiresBefore(l, m)' <=> ExpiresBefore(l, m)
    BY <2>2 DEF ExpiresBefore
  <2>8. h = queue[p][1] /\ \A i \in DOMAIN queue[p] : queue[p][i] \in Lots /\ i \in Nat
    BY <2>1
  <2>9. \A i \in DOMAIN chosen[p] : /\ chosen[p][i] \in Lots /\ i \in Nat /\ i < Len(chosen[p]) + 1
                                     /\ locks[chosen[p][i]] = p /\ ProductOf[chosen[p][i]] = Line(p).product
    <3>1. \A i \in DOMAIN chosen[p] : chosen[p][i] \in Lots /\ i \in Nat /\ i < Len(chosen[p]) + 1
      BY <2>1
    <3>2. QED
      BY <1>0, <2>1, <3>1 DEF IInv, ChosenIsHeld, AtLine
  <2> HIDE DEF h
  <2>10. InOrder(p)'
    <3>1. ASSUME NEW i \in DOMAIN queue'[p], NEW j \in DOMAIN queue'[p], i < j
          PROVE  ~FefoBefore(queue'[p][j], queue'[p][i])
      <4>1. i + 1 < j + 1 /\ i + 1 \in DOMAIN queue[p] /\ j + 1 \in DOMAIN queue[p]
        BY <2>5, <3>1
      <4>2. ~FefoBefore(queue[p][j + 1], queue[p][i + 1])
        BY <2>1, <4>1 DEF InOrder
      <4>3. QED
        BY <2>5, <4>1, <4>2
    <3>2. ASSUME NEW i \in DOMAIN chosen'[p], NEW j \in DOMAIN chosen'[p], i < j
          PROVE  ~FefoBefore(chosen'[p][j], chosen'[p][i])
      <4>1. i \in DOMAIN chosen[p] /\ chosen'[p][i] = chosen[p][i]
        <5>1. Len(chosen[p]) \in Nat
          BY <2>1
        <5>2. j \in Nat /\ j <= Len(chosen[p]) + 1
          BY <2>6, <2>9, <5>1
        <5>3. i # Len(chosen[p]) + 1
          BY <3>2, <5>1, <5>2
        <5>4. QED
          BY <2>6, <5>3
      <4>2. CASE j \in DOMAIN chosen[p] /\ chosen'[p][j] = chosen[p][j]
        BY <2>1, <3>2, <4>1, <4>2 DEF InOrder
      <4>3. CASE chosen'[p][j] = h
        <5>1. ~FefoBefore(h, chosen[p][i])
          BY <2>1, <2>8, <2>9, <4>1 DEF InOrder
        <5>2. QED
          BY <4>1, <4>3, <5>1
      <4>4. QED
        BY <2>6, <4>2, <4>3
    <3>3. ASSUME NEW l \in Lots, locks'[l] = p, ProductOf[l] = Line(p).product, NEW j \in DOMAIN queue'[p]
          PROVE  queue'[p][j] # l /\ ~FefoBefore(queue'[p][j], l)
      <4>1. queue[p][j + 1] # l /\ ~FefoBefore(queue[p][j + 1], l)
        <5>1. CASE locks[l] = p
          BY <2>1, <2>5, <3>3, <5>1 DEF InOrder
        <5>2. CASE l = h
          BY <2>1, <2>5, <2>8, <5>2 DEF InOrder, AtLine
        <5>3. QED
          BY <2>4, <3>3, <5>1, <5>2
      <4>2. QED
        BY <2>5, <4>1
    <3>4. QED
      BY ONLY <2>2, <2>3, <3>1, <3>2, <3>3 DEF InOrder, FefoBefore
  <2>11. Considered(p)'
    <3> SUFFICES ASSUME NEW l \in Lots, locks'[l] = p, ProductOf[l] = Line(p).product,
                        status[l] = "active", work'[p][l] > 0
                 PROVE  \E i \in DOMAIN chosen'[p] : chosen'[p][i] = l
      BY <2>2, <2>3 DEF Considered
    <3>1. CASE l = h
      <4>1. Eligible(p, work[p], h)
        BY <1>0, <2>1, <2>2, <2>4, <3>1 DEF Eligible
      <4>2. chosen'[p] = Append(chosen[p], h)
        BY <2>2, <4>1
      <4>3. Len(chosen[p]) + 1 \in DOMAIN chosen'[p] /\ chosen'[p][Len(chosen[p]) + 1] = h
        BY <2>1, <4>2
      <4>4. QED
        BY <3>1, <4>3
    <3>2. CASE l # h
      <4>1. PICK i \in DOMAIN chosen[p] : chosen[p][i] = l
        BY <2>1, <2>4, <3>2 DEF Considered
      <4>2. i \in DOMAIN chosen'[p] /\ chosen'[p][i] = chosen[p][i]
        BY <2>1, <2>2
      <4>3. QED
        BY <4>1, <4>2
    <3>3. QED
      BY <3>1, <3>2
  <2>12. ByLine(p)'
    <3>1. step[p] \in 1..step[p]
      <4>1. plan[p] \in Seq([product : Products, need : Int])
        BY <1>0, PlansAreSequences
      <4>2. QED
        BY <2>1, <4>1 DEF AtLine
    <3>2. \A l \in Lots : locks'[l] = p => \E i \in 1..step[p] : plan[p][i].product = ProductOf[l]
      BY <2>1, <2>4, <3>1 DEF ByLine, Line
    <3>3. QED
      BY <2>1, <2>2, <3>2 DEF ByLine
  <2>13. Emptied(p)'
    <3> SUFFICES ASSUME NEW l \in Lots, NEW m \in Lots, locks'[l] = p, took[p][l] > 0, locks'[m] = p,
                        status[m] = "active", ProductOf[m] = ProductOf[l], ExpiresBefore(m, l)
                 PROVE  work'[p][m] = 0
      BY <2>2, <2>7 DEF Emptied
    <3>1. ProductOf[m] # Line(p).product
      BY <2>1, <1>0, ServedLinesAreOthers
    <3>2. m # h
      BY <2>4, <3>1
    <3>3. locks[m] = p /\ locks[l] = p
      BY <1>0, <2>4, <3>2 DEF IInv, TakenIsHeld
    <3>4. QED
      BY <2>1, <2>4, <3>2, <3>3 DEF Emptied
  <2>14. QED
    BY <2>10, <2>11, <2>12, <2>13
<1>6. CASE NextLine(p)
  <2>1. /\ InOrder(p) /\ Considered(p) /\ ByLine(p) /\ Emptied(p) /\ AtLine(p)
        /\ pc[p] = "locking" /\ AllLocked(p) /\ step[p] < Len(plan[p])
    BY <1>0, <1>6 DEF NextLine, AllLocked, Queueing, InLine
  <2>2. /\ plan'[p] = plan[p] /\ step'[p] = step[p] + 1 /\ work'[p] = Kept(p) /\ took'[p] = Taken(p)
        /\ UNCHANGED <<expiry, received, status, locks>>
        /\ SelectLots(p, Kept(p), plan[p][step[p] + 1])
    BY <1>0, <1>6 DEF NextLine, SelectLots, rows
  <2>3. /\ chosen'[p] = <<>>
        /\ \A i, j \in DOMAIN queue'[p] : i < j => ~FefoBefore(queue'[p][j], queue'[p][i])
    BY <1>0, <2>2, Selected
  <2>4. /\ step[p] \in Nat /\ step[p] # 0 /\ step[p] \in DOMAIN plan[p] /\ step[p] + 1 \in DOMAIN plan[p]
        /\ 1..step[p] \subseteq DOMAIN plan[p] /\ plan[p] \in Plans
    <3>1. plan[p] \in Seq([product : Products, need : Int])
      BY <1>0, PlansAreSequences
    <3>2. step[p] \in DOMAIN plan[p]
      BY <2>1 DEF AtLine
    <3>3. plan[p] # <<>>
      BY <3>2
    <3>4. plan[p] \in Plans
      BY <1>0, <3>3
    <3>5. QED
      BY <2>1, <3>1, <3>2, <3>4
  <2>5. \A l \in Lots : locks[l] = p => ProductOf[l] # plan[p][step[p] + 1].product
    <3> SUFFICES ASSUME NEW l \in Lots, locks[l] = p, ProductOf[l] = plan[p][step[p] + 1].product
                 PROVE  FALSE
      OBVIOUS
    <3>1. PICK i \in 1..step[p] : plan[p][i].product = ProductOf[l]
      BY <2>1 DEF ByLine
    <3>2. i = step[p] + 1
      BY <2>4, <3>1 DEF OneLineEach
    <3>3. QED
      BY <2>4, <3>2
  <2>6. Line(p)' = plan[p][step[p] + 1]
    BY <2>2 DEF Line
  <2>7. InOrder(p)' /\ Considered(p)'
    BY <2>2, <2>3, <2>5, <2>6 DEF InOrder, Considered, FefoBefore
  <2>8. ByLine(p)'
    <3>1. \A l \in Lots : locks[l] = p => \E i \in 1..(step[p] + 1) : plan[p][i].product = ProductOf[l]
      <4>1. 1..step[p] \subseteq 1..(step[p] + 1)
        BY <2>4
      <4>2. QED
        BY <2>1, <4>1 DEF ByLine
    <3>2. ASSUME NEW l \in Lots, Taken(p)[l] > 0
          PROVE  \E i \in 1..step[p] : plan[p][i].product = ProductOf[l]
      BY <1>0, <2>1, <3>2, TakenRowsAreHeld DEF ByLine
    <3>3. (step[p] + 1) - 1 = step[p]
      BY <2>4
    <3>4. QED
      BY <2>2, <3>1, <3>2, <3>3 DEF ByLine
  <2>9. Emptied(p)'
    <3> SUFFICES ASSUME NEW l \in Lots, NEW m \in Lots, locks[l] = p, Taken(p)[l] > 0, locks[m] = p,
                        status[m] = "active", ProductOf[m] = ProductOf[l], ExpiresBefore(m, l)
                 PROVE  Kept(p)[m] = 0
      BY <2>2 DEF Emptied, ExpiresBefore
    <3>1. QED
      BY <2>1, ServedByFefo
  <2>10. QED
    BY <2>7, <2>8, <2>9
<1>7. ~End(p) /\ \A l \in Lots : ~ReadToDiscard(p, l)
  BY <1>0 DEF End, ReadToDiscard
<1>8. QED
  BY <1>0, <1>3, <1>4, <1>5, <1>6, <1>7, SessionSteps

LEMMA QueueingInv ==
  ASSUME NoEdits, OneLineEach
  PROVE  Spec => [](RInv /\ Queueing)
<1>1. Init => Queueing
  BY DEF Init, Queueing
<1>2. RInv /\ RInv' /\ Queueing /\ [Next]_vars => Queueing'
  <2> SUFFICES ASSUME RInv, RInv', Queueing, [Next]_vars
               PROVE  Queueing'
    OBVIOUS
  <2>1. \A p \in Sessions : pc'[p] = "locking" => InOrder(p)' /\ Considered(p)' /\ ByLine(p)' /\ Emptied(p)'
    BY QueueingStep
  <2>2. QED
    BY <2>1 DEF Queueing
<1>3. QED
  BY <1>1, <1>2, RefinementInv, PTL DEF Spec

\* While nobody edits an expiry, and if a plan asks for each product once, a
\* transaction never commits a quantity from a lot while another lot of the product,
\* on sale and locked by it, expires earlier and still has something left
\* (stock_service.py:235-299).
THEOREM ConsumesByFefo ==
  ASSUME NoEdits, OneLineEach
  PROVE  Spec => FefoRespected
<1> DEFINE A == \A p \in Sessions :
       Commit(p) => \A l, m \in Lots :
         /\ locks[l] = p /\ ledger'[l] < ledger[l]
         /\ locks[m] = p /\ status[m] = "active"
         /\ ProductOf[m] = ProductOf[l] /\ ExpiresBefore(m, l)
         => remaining'[m] = 0
<1>1. RInv /\ Queueing => A
  <2> SUFFICES ASSUME RInv, Queueing, NEW p \in Sessions, Commit(p), NEW l \in Lots, NEW m \in Lots,
                      locks[l] = p, ledger'[l] < ledger[l], locks[m] = p, status[m] = "active",
                      ProductOf[m] = ProductOf[l], ExpiresBefore(m, l)
               PROVE  remaining'[m] = 0
    OBVIOUS
  <2>1. IInv /\ TypeOK /\ NoLot \notin Lots
    BY StockAssumption DEF RInv, IInv
  <2>2. ledger'[l] = ledger[l] - Taken(p)[l] /\ Taken(p)[l] \in Nat /\ ledger[l] \in Int
    <3>1. Taken(p)[l] \in Nat
      BY <2>1, ServedTypes
    <3>2. ledger'[l] = ledger[l] - Taken(p)[l]
      BY <2>1 DEF Commit
    <3>3. QED
      BY <2>1, <3>1, <3>2 DEF TypeOK
  <2>3. Taken(p)[l] > 0
    BY <2>2
  <2>4. AllLocked(p)
    BY DEF Commit
  <2>5. Kept(p)[m] = 0
    BY <2>3, <2>4, ServedByFefo
  <2>6. Taken(p)[m] \in Nat /\ Kept(p)[m] + Taken(p)[m] = remaining[m] /\ remaining[m] \in Nat
    <3>1. Taken(p)[m] \in Nat /\ Kept(p)[m] + Taken(p)[m] = work[p][m] + took[p][m]
      BY <2>1, ServedTypes
    <3>2. work[p][m] + took[p][m] = remaining[m] /\ remaining[m] \in Nat
      BY <2>1 DEF IInv, HeldIsFresh, TypeOK
    <3>3. QED
      BY <3>1, <3>2
  <2>7. remaining'[m] = IF Taken(p)[m] > 0 THEN Kept(p)[m] ELSE remaining[m]
    BY DEF Commit
  <2>8. QED
    BY <2>5, <2>6, <2>7
<1>2. RInv /\ Queueing /\ [Next]_vars => [A]_vars
  BY <1>1
<1>3. QED
  BY <1>2, QueueingInv, PTL DEF Spec, FefoRespected
-----------------------------------------------------------------------------
(***************************************************************************)
(* Deadlocks.  The argument: the lots are locked in one order, that of     *)
(* the products first and FEFO within a product, so in a circle of         *)
(* waiting transactions each would wait for a row after those of the one   *)
(* before.                                                                 *)
(***************************************************************************)
\* Every plan names its products in one common order, each once.
SortedPlans ==
  \E rank \in [Products -> Nat] :
    \A pl \in Plans : \A i, j \in DOMAIN pl : i < j => rank[pl[i].product] < rank[pl[j].product]

LEMMA SortedPlansAskOnce ==
  ASSUME SortedPlans
  PROVE  OneLineEach
<1> SUFFICES ASSUME NEW pl \in Plans, NEW i \in DOMAIN pl, NEW j \in DOMAIN pl,
                    pl[i].product = pl[j].product, i # j
             PROVE  FALSE
  BY DEF OneLineEach
<1>1. PICK rank \in [Products -> Nat] :
         \A k, n \in DOMAIN pl : k < n => rank[pl[k].product] < rank[pl[n].product]
  BY DEF SortedPlans
<1>2. pl \in Seq([product : Products, need : Int])
  BY StockAssumption
<1>3. i \in Nat /\ j \in Nat
  BY <1>2
<1>4. pl[i] \in [product : Products, need : Int]
  BY <1>2, EntryOfSeq
<1>5. rank[pl[i].product] \in Nat
  BY <1>4
<1>6. i < j \/ j < i
  BY <1>3
<1>7. QED
  BY <1>1, <1>5, <1>6

LEMMA NoCircle ==
  ASSUME SortedPlans, RInv, Queueing
  PROVE  NoDeadlock
<1> SUFFICES ASSUME NEW S \in SUBSET Sessions, Deadlocked(S)
             PROVE  FALSE
  BY DEF NoDeadlock
<1>1. PICK rank \in [Products -> Nat] :
         \A pl \in Plans : \A i, j \in DOMAIN pl : i < j => rank[pl[i].product] < rank[pl[j].product]
  BY DEF SortedPlans
<1> DEFINE Awaited(p) == queue[p][1]
           Lower(l, m) == \/ rank[ProductOf[l]] < rank[ProductOf[m]]
                          \/ ProductOf[l] = ProductOf[m] /\ FefoBefore(l, m)
           Above(l) == {m \in Lots : Lower(l, m)}
           Sizes == {Cardinality(Above(Awaited(p))) : p \in S}
<1>2. TypeOK /\ InLine
  BY DEF RInv, IInv
<1>3. ASSUME NEW p \in S
      PROVE  /\ pc[p] = "locking" /\ queue[p] # <<>> /\ queue[p] \in Seq(Lots) /\ 1 \in DOMAIN queue[p]
             /\ Awaited(p) \in Lots /\ Head(queue[p]) = Awaited(p)
  <2>1. pc[p] = "locking" /\ queue[p] # <<>>
    BY DEF Deadlocked, WaitsFor
  <2>2. queue[p] \in Seq(Lots)
    BY <1>2 DEF TypeOK
  <2>3. QED
    BY <2>1, <2>2
<1>4. ASSUME NEW p \in S
      PROVE  \E q \in S : Lower(Awaited(p), Awaited(q))
  <2>1. PICK q \in S : WaitsFor(p, q)
    BY DEF Deadlocked
  <2>2. /\ locks[Awaited(p)] = q /\ q \in Sessions /\ Awaited(p) \in Lots /\ Awaited(q) \in Lots
        /\ 1 \in DOMAIN queue[q]
    BY <1>3, <2>1 DEF WaitsFor
  <2>3. InOrder(q) /\ ByLine(q) /\ AtLine(q)
    BY <1>2, <1>3, <2>2 DEF Queueing, InLine
  <2>4. ProductOf[Awaited(q)] = Line(q).product
    BY <2>2, <2>3 DEF AtLine
  <2>5. PICK i \in 1..step[q] : plan[q][i].product = ProductOf[Awaited(p)]
    BY <2>2, <2>3 DEF ByLine
  <2>6. CASE i = step[q]
    <3>1. ProductOf[Awaited(p)] = Line(q).product
      BY <2>5, <2>6 DEF Line
    <3>2. Awaited(q) # Awaited(p) /\ ~FefoBefore(Awaited(q), Awaited(p))
      BY <2>2, <2>3, <3>1 DEF InOrder
    <3>3. FefoBefore(Awaited(p), Awaited(q))
      BY <1>2, <2>2, <3>2, FefoIsAnOrder
    <3>4. QED
      BY <2>4, <3>1, <3>3
  <2>7. CASE i # step[q]
    <3>1. plan[q] \in Plans \cup {<<>>} /\ step[q] \in DOMAIN plan[q]
      BY <1>2, <2>2, <2>3 DEF TypeOK, AtLine
    <3>2. plan[q] \in Seq([product : Products, need : Int])
      BY <3>1, PlansAreSequences
    <3>3. i \in DOMAIN plan[q] /\ i < step[q] /\ plan[q] # <<>>
      BY <2>7, <3>1, <3>2
    <3>4. rank[plan[q][i].product] < rank[plan[q][step[q]].product]
      BY <1>1, <3>1, <3>3
    <3>5. QED
      BY <2>4, <2>5, <3>4 DEF Line
  <2>8. QED
    BY <2>6, <2>7
<1>5. ASSUME NEW l \in Lots, NEW m \in Lots, NEW n \in Lots
      PROVE  ~Lower(l, l) /\ (Lower(l, m) /\ Lower(m, n) => Lower(l, n))
  <2>1. rank[ProductOf[l]] \in Nat /\ rank[ProductOf[m]] \in Nat /\ rank[ProductOf[n]] \in Nat
    BY StockAssumption
  <2>2. ~FefoBefore(l, l) /\ (FefoBefore(l, m) /\ FefoBefore(m, n) => FefoBefore(l, n))
    BY <1>2, FefoIsAnOrder
  <2>3. QED
    BY <2>1, <2>2
<1>6. \A l \in Lots : Above(l) \subseteq Lots /\ IsFiniteSet(Above(l)) /\ Cardinality(Above(l)) \in Nat
  BY StockAssumption, FS_Subset, FS_CardinalityType
<1>7. Sizes \in SUBSET Nat /\ Sizes # {}
  <2>1. S # {}
    BY DEF Deadlocked
  <2>2. \A p \in S : Awaited(p) \in Lots
    BY <1>3
  <2> HIDE DEF Above, Awaited
  <2>3. \A p \in S : Cardinality(Above(Awaited(p))) \in Nat
    BY <1>6, <2>2
  <2>4. QED
    BY <2>1, <2>3
<1>8. PICK c \in Sizes : \A d \in Sizes : c <= d
  <2> HIDE DEF Sizes
  <2>1. \E c \in Sizes : \A d \in Sizes : c <= d
    BY ONLY <1>7, LeastNatural
  <2>2. QED
    BY <2>1
<1>9. PICK p \in S : c = Cardinality(Above(Awaited(p)))
  BY <1>8
<1>10. PICK q \in S : Lower(Awaited(p), Awaited(q))
  BY <1>4
<1> DEFINE l == Awaited(p)
           m == Awaited(q)
<1>11. l \in Lots /\ m \in Lots /\ Lower(l, m)
  BY <1>3, <1>10
<1>12. Cardinality(Above(m)) \in Sizes /\ c = Cardinality(Above(l))
  BY <1>9
<1> HIDE DEF l, m, Sizes
<1>13. Above(m) \subseteq Above(l) /\ m \in Above(l) /\ m \notin Above(m)
  <2> HIDE DEF Lower
  <2>1. QED
    BY <1>5, <1>11
<1>14. Cardinality(Above(m)) < Cardinality(Above(l))
  <2> HIDE DEF Above
  <2>1. IsFiniteSet(Above(l)) /\ Above(m) # Above(l)
    BY <1>6, <1>11, <1>13
  <2>2. Cardinality(Above(m)) \in Nat /\ Cardinality(Above(l)) \in Nat
    BY <1>6, <1>11
  <2>3. QED
    BY <1>13, <2>1, <2>2, FS_Subset
<1>15. c <= Cardinality(Above(m)) /\ Cardinality(Above(m)) \in Nat /\ Cardinality(Above(l)) \in Nat
  BY <1>6, <1>8, <1>11, <1>12
<1> HIDE DEF Above
<1>16. QED
  BY <1>12, <1>14, <1>15

\* While nobody edits an expiry, transactions whose plans name the products in one
\* order never wait for each other in a circle: the FEFO order in which the rows of a
\* product are selected FOR UPDATE is the order in which they are locked
\* (stock_service.py:235-299).  Plans of one line are in order whatever they name.
THEOREM NeverDeadlocks ==
  ASSUME NoEdits, SortedPlans
  PROVE  Spec => []NoDeadlock
<1>1. OneLineEach
  BY SortedPlansAskOnce
<1>2. Spec => [](RInv /\ Queueing)
  BY <1>1, QueueingInv
<1>3. RInv /\ Queueing => NoDeadlock
  BY NoCircle
<1>4. QED
  BY <1>2, <1>3, PTL
=============================================================================
