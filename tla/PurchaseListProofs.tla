------------------------- MODULE PurchaseListProofs -------------------------
(***************************************************************************)
(* Proofs about PurchaseLists, for any sets of sessions, items and         *)
(* quantities.                                                             *)
(*                                                                         *)
(* Types hold whoever works on the list.  With one editor at a time, the   *)
(* list stays a draft while the editor is between its check and its write, *)
(* and receipts only start once it was sent: so a list that was sent is    *)
(* frozen, however many receive it.  With one receiver at a time as well,  *)
(* what the receipt read is still so when it writes, and the list, its     *)
(* items and the stock move together.                                      *)
(***************************************************************************)
EXTENDS PurchaseLists, TLAPS

OneEditor   == \A p, q \in Editors : p = q
OneReceiver == \A p, q \in Receivers : p = q

Receivable == {"sent", "partially_received"}

\* Where the two kinds of sessions can be.
RolesKept ==
  /\ \A p \in Editors : pc[p] \in {"idle", "add", "update", "delete", "send"}
  /\ \A p \in Receivers : pc[p] \in {"idle", "receive", "recorded"}

\* The editor works on a draft, the receivers on what is one no more.
SidesApart ==
  /\ \A p \in Editors : pc[p] # "idle" => list = "draft"
  /\ \A p \in Receivers :
       pc[p] # "idle" => /\ list # "draft" /\ seen[p].list \in Receivable
                         /\ item[p] \in Items /\ Exists(item[p])
                         /\ pc[p] = "recorded" => next[p] # "draft"

\* The invariant of one editor and any receivers.
EInv == TypeOK /\ RolesKept /\ SidesApart
-----------------------------------------------------------------------------
LEMMA StatusOfTypes ==
  ASSUME NEW S, NEW old \in ListStatus
  PROVE  /\ StatusOf(S, old) \in ListStatus
         /\ old # "draft" => StatusOf(S, old) # "draft"
BY DEF StatusOf, ListStatus

\* Every step keeps the types, whatever the sessions do to each other.
LEMMA EndKeepsTypes ==
  ASSUME TypeOK, NEW p \in Sessions, End(p)
  PROVE  /\ locks' \in [Items -> Sessions \cup {Free}]
         /\ pc' \in [Sessions -> Phases]
         /\ item' \in [Sessions -> Items \cup {NoItem}]
         /\ quantity' \in [Sessions -> Nat]
         /\ seen' \in [Sessions -> [list : ListStatus, state : ItemStatus, ordered : Nat, received : Nat]]
         /\ next' \in [Sessions -> ListStatus]
BY DEF TypeOK, End, Phases, Unread, ListStatus, ItemStatus

LEMMA ReadKeepsTypes ==
  ASSUME TypeOK, NEW p \in Sessions, NEW phase \in Phases, NEW i \in Items \cup {NoItem}, NEW q \in Nat,
         i = NoItem \/ phase = "add" \/ Exists(i), Read(p, phase, i, q)
  PROVE  TypeOK'
<1> DEFINE R == [list : ListStatus, state : ItemStatus, ordered : Nat, received : Nat]
<1>1. Unread \in R /\ [Unread EXCEPT !.list = list] \in R
  BY DEF TypeOK, Unread, ListStatus, ItemStatus
<1>2. i \in Items /\ Exists(i) =>
        [list |-> list, state |-> state[i], ordered |-> ordered[i], received |-> received[i]] \in R
  BY DEF TypeOK, Exists, ItemStatus
<1>3. seen' \in [Sessions -> R]
  BY <1>1, <1>2 DEF TypeOK, Read
<1>4. QED
  BY <1>3 DEF TypeOK, Read, rows, items

LEMMA NextKeepsTypes ==
  ASSUME TypeOK, [Next]_vars
  PROVE  TypeOK'
<1> USE ListAssumption
<1>1. ASSUME NEW p \in Editors, NEW i \in Items, NEW q \in Quantities, ReadToEdit(p, i, q)
      PROVE  TypeOK'
  BY <1>1, ReadKeepsTypes DEF ReadToEdit, Sessions, Phases
<1>2. ASSUME NEW p \in Editors, Add(p) \/ Update(p) \/ Delete(p) \/ Send(p)
      PROVE  TypeOK'
  BY <1>2, EndKeepsTypes DEF TypeOK, Add, Update, Delete, Send, Sessions, items, ItemStatus, ListStatus
<1>3. ASSUME NEW p \in Editors, ReadToSend(p)
      PROVE  TypeOK'
  BY <1>3, ReadKeepsTypes DEF ReadToSend, Sessions, Phases
<1>4. ASSUME NEW p \in Receivers, NEW i \in Items, NEW q \in Quantities, ReadToReceive(p, i, q)
      PROVE  TypeOK'
  BY <1>4, ReadKeepsTypes DEF ReadToReceive, Exists, Sessions, Phases
<1>5. ASSUME NEW p \in Receivers, Record(p)
      PROVE  TypeOK'
  <2>1. seen[p].list \in ListStatus
    BY DEF TypeOK, Sessions
  <2>2. next' \in [Sessions -> ListStatus]
    BY <1>5, <2>1, StatusOfTypes DEF TypeOK, Record, Sessions
  <2>3. locks' \in [Items -> Sessions \cup {Free}] /\ pc' \in [Sessions -> Phases]
    BY <1>5 DEF TypeOK, Record, Sessions, Phases
  <2>4. UNCHANGED <<list, state, ordered, received, stocked, item, quantity, seen>>
    BY <1>5 DEF Record, rows, items
  <2>5. QED
    BY <2>2, <2>3, <2>4 DEF TypeOK
<1>6. ASSUME NEW p \in Receivers, Commit(p)
      PROVE  TypeOK'
  <2>1. NewState(p) \in ItemStatus /\ Total(p) \in Nat
    BY DEF NewState, Total, ItemStatus, TypeOK, Sessions
  <2>2. stocked' \in [Items -> Nat] /\ received' \in [Items -> Nat]
    <3>1. quantity[p] \in Nat
      BY DEF TypeOK, Sessions
    <3>2. /\ stocked' = [stocked EXCEPT ![item[p]] = @ + quantity[p]]
          /\ received' = [received EXCEPT ![item[p]] = Total(p)]
      BY <1>6 DEF Commit
    <3>3. CASE item[p] \in Items
      BY <2>1, <3>1, <3>2, <3>3 DEF TypeOK
    <3>4. CASE item[p] \notin Items
      BY <3>2, <3>4 DEF TypeOK
    <3>5. QED
      BY <3>3, <3>4
  <2>3. state' \in [Items -> ItemStatus \cup {"none", "deleted"}] /\ list' \in ListStatus
    BY <1>6, <2>1 DEF TypeOK, Commit, Sessions
  <2>4. ordered' = ordered
    BY <1>6 DEF Commit
  <2>5. QED
    BY <1>6, <2>2, <2>3, <2>4, EndKeepsTypes DEF TypeOK, Commit, Sessions
<1>7. ASSUME NEW p \in Sessions, Rollback(p)
      PROVE  TypeOK'
  BY <1>7, EndKeepsTypes DEF TypeOK, Rollback, rows, items
<1>8. CASE UNCHANGED vars
  BY <1>8 DEF TypeOK, vars, rows, items
<1>9. QED
  BY <1>1, <1>2, <1>3, <1>4, <1>5, <1>6, <1>7, <1>8 DEF Next

\* Types: the list, its items and the requests are only ever in the states
\* the tables and the code name, for any sessions, items and quantities.
THEOREM ListTypes == Spec => []TypeOK
<1>1. Init => TypeOK
  BY DEF Init, TypeOK, ListStatus, ItemStatus, Phases, Unread
<1>2. TypeOK /\ [Next]_vars => TypeOK'
  BY NextKeepsTypes
<1>3. QED
  BY <1>1, <1>2, PTL DEF Spec
-----------------------------------------------------------------------------
(***************************************************************************)
(* One editor: the two sides never overlap.                                *)
(***************************************************************************)
\* A session that stops changes no row.
LEMMA StopKeepsSides ==
  ASSUME EInv, TypeOK', NEW p \in Sessions, End(p), UNCHANGED rows
  PROVE  EInv'
BY DEF EInv, TypeOK, RolesKept, SidesApart, Sessions, End, Unread, rows, items, Exists, ListStatus

LEMMA EditorKeepsSides ==
  ASSUME OneEditor, EInv, TypeOK', NEW p \in Editors,
         \/ \E i \in Items, q \in Quantities : ReadToEdit(p, i, q)
         \/ Add(p) \/ Update(p) \/ Delete(p) \/ ReadToSend(p) \/ Send(p)
  PROVE  EInv'
<1> USE ListAssumption DEF EInv, TypeOK, Sessions, OneEditor
<1>1. list = "draft"
  BY DEF SidesApart, ReadToEdit, Add, Update, Delete, ReadToSend, Send
<1>2. \A r \in Receivers : pc[r] = "idle" /\ r # p
  BY <1>1 DEF SidesApart
<1>3. ASSUME NEW i \in Items \cup {NoItem}, NEW q, NEW phase \in {"add", "update", "delete", "send"},
             Read(p, phase, i, q)
      PROVE  EInv'
  BY <1>1, <1>2, <1>3 DEF Read, RolesKept, SidesApart, rows, items
<1>4. CASE End(p)
  BY <1>2, <1>4 DEF End, RolesKept, SidesApart
<1>5. QED
  BY <1>3, <1>4 DEF ReadToEdit, Add, Update, Delete, ReadToSend, Send

LEMMA ReceiverKeepsSides ==
  ASSUME EInv, TypeOK', NEW p \in Receivers,
         \/ \E i \in Items, q \in Quantities : ReadToReceive(p, i, q)
         \/ Record(p) \/ Commit(p)
  PROVE  EInv'
<1> USE ListAssumption DEF EInv, TypeOK, Sessions
<1>1. \A e \in Editors : e # p
  OBVIOUS
<1>2. ASSUME NEW i \in Items, NEW q \in Quantities, ReadToReceive(p, i, q)
      PROVE  EInv'
  BY <1>1, <1>2 DEF ReadToReceive, Read, RolesKept, SidesApart, Receivable, Unread, rows, items, Exists
<1>3. CASE Record(p)
  <2>1. next'[p] # "draft"
    BY <1>3, StatusOfTypes DEF Record, SidesApart, Receivable
  <2>2. QED
    BY <1>1, <1>3, <2>1 DEF Record, RolesKept, SidesApart, rows, items, Exists
<1>4. CASE Commit(p)
  <2>1. list # "draft" /\ list' # "draft" /\ item[p] \in Items
    BY <1>4 DEF Commit, SidesApart
  <2>2. \A i \in Items : Exists(i) => Exists(i)'
    BY <1>4 DEF Commit, Exists, NewState
  <2>3. \A e \in Editors : pc[e] = "idle"
    BY <2>1 DEF SidesApart
  <2>4. QED
    BY <1>1, <1>4, <2>1, <2>2, <2>3 DEF Commit, End, RolesKept, SidesApart
<1>5. QED
  BY <1>2, <1>3, <1>4

LEMMA SidesStayApart ==
  ASSUME OneEditor
  PROVE  Spec => []EInv
<1>1. Init => EInv
  BY DEF Init, EInv, TypeOK, ListStatus, ItemStatus, Phases, Unread, RolesKept, SidesApart, Sessions
<1>2. ASSUME EInv, [Next]_vars
      PROVE  EInv'
  <2>1. TypeOK'
    BY <1>2, NextKeepsTypes DEF EInv
  <2>2. CASE UNCHANGED vars
    BY <2>2, <1>2 DEF EInv, TypeOK, RolesKept, SidesApart, vars, rows, items, Exists
  <2>3. QED
    BY <1>2, <2>1, <2>2, StopKeepsSides, EditorKeepsSides, ReceiverKeepsSides DEF Next, Rollback
<1>3. QED
  BY <1>1, <1>2, PTL DEF Spec

\* Once the list is sent, its items are received and no longer edited,
\* however many people receive it, as long as one at a time edited the draft.
THEOREM SentListIsFrozen ==
  ASSUME OneEditor
  PROVE  Spec => SentIsFrozen
<1> DEFINE Frozen == \A i \in Items : ordered'[i] = ordered[i] /\ (Exists(i) <=> Exists(i)')
<1>1. ASSUME EInv, [Next]_vars, list # "draft"
      PROVE  Frozen
  <2>1. \A e \in Editors : pc[e] = "idle"
    BY <1>1 DEF EInv, SidesApart
  <2>2. ASSUME NEW p \in Receivers, Commit(p)
        PROVE  Frozen
    <3>1. item[p] \in Items /\ Exists(item[p])
      BY <1>1, <2>2 DEF Commit, EInv, SidesApart
    <3>2. state' = [state EXCEPT ![item[p]] = IF NewState(p) # seen[p].state THEN NewState(p) ELSE @]
      BY <2>2 DEF Commit
    <3>3. NewState(p) \in {"received", "partial"}
      BY DEF NewState
    <3>4. QED
      BY <2>2, <3>1, <3>2, <3>3, <1>1 DEF Commit, EInv, TypeOK, Exists
  <2>3. QED
    BY <1>1, <2>1, <2>2 DEF Next, vars, rows, items, Exists, ReadToEdit, Add, Update, Delete, ReadToSend, Send,
       ReadToReceive, Read, Record, Rollback
<1>2. EInv /\ [Next]_vars => [list # "draft" => Frozen]_vars
  BY <1>1
<1>3. QED
  BY <1>2, SidesStayApart, PTL DEF Spec, SentIsFrozen
-----------------------------------------------------------------------------
(***************************************************************************)
(* One editor and one receiver: the list, its items and the stock.         *)
(***************************************************************************)
\* Nothing was received for what is not on the list.
UnlistedIsEmpty == \A i \in Items : ~Exists(i) => received[i] = 0

\* The statuses a receipt gives the list its items.
Foreseen(p) ==
  {IF i = item[p] THEN NewState(p) ELSE state[i] : i \in {j \in Items : Exists(j)}}

\* What a receipt read is still so, and what it foresees is to come.
ReceiptInStep ==
  \A p \in Receivers :
    pc[p] # "idle" =>
      /\ quantity[p] > 0
      /\ seen[p] = [list |-> list, state |-> state[item[p]],
                    ordered |-> ordered[item[p]], received |-> received[item[p]]]
      /\ pc[p] = "recorded" => next[p] = StatusOf(Foreseen(p), list)

\* The invariant of one editor and one receiver.
IInv == EInv /\ UnlistedIsEmpty /\ ReceiptInStep /\ ListInStep /\ StockInStep

AllPending(st) == \A i \in Items : st[i] \in {"none", "deleted", "pending"}

\* Nothing was received for a draft or a list just sent.
LEMMA DraftIsPending ==
  ASSUME IInv, list \in {"draft", "sent"}
  PROVE  AllPending(state) /\ \A i \in Items : received[i] = 0 /\ stocked[i] = 0
<1>1. AllPending(state)
  BY DEF IInv, EInv, TypeOK, ListInStep, AllPending, Exists, ItemStatus
<1>2. \A i \in Items : received[i] = 0
  BY <1>1 DEF IInv, AllPending, StockInStep, UnlistedIsEmpty, Exists
<1>3. QED
  BY <1>1, <1>2 DEF IInv, StockInStep

\* While nothing was received, list, items and stock are in step.
LEMMA PendingIsInStep ==
  ASSUME AllPending(state'), list' \in {"draft", "sent"},
         \A i \in Items : received'[i] = 0 /\ stocked'[i] = 0
  PROVE  UnlistedIsEmpty' /\ ListInStep' /\ StockInStep'
BY DEF AllPending, UnlistedIsEmpty, ListInStep, StockInStep, Exists

LEMMA StopKeepsInv ==
  ASSUME IInv, EInv', NEW p \in Sessions, End(p), UNCHANGED rows
  PROVE  IInv'
<1>1. UnlistedIsEmpty' /\ ListInStep' /\ StockInStep'
  BY DEF IInv, UnlistedIsEmpty, ListInStep, StockInStep, rows, items, Exists
<1>2. ReceiptInStep'
  <2> SUFFICES ASSUME NEW r \in Receivers, pc'[r] # "idle"
               PROVE  /\ quantity'[r] > 0
                      /\ seen'[r] = [list |-> list, state |-> state[item'[r]],
                                     ordered |-> ordered[item'[r]], received |-> received[item'[r]]]
                      /\ pc'[r] = "recorded" => next'[r] = StatusOf(Foreseen(r)', list)
    BY DEF ReceiptInStep, rows, items
  <2>1. /\ pc'[r] = pc[r] /\ item'[r] = item[r] /\ quantity'[r] = quantity[r]
        /\ seen'[r] = seen[r] /\ next'[r] = next[r]
    BY DEF IInv, EInv, TypeOK, End, Sessions
  <2>2. Foreseen(r)' = Foreseen(r)
    BY <2>1 DEF Foreseen, NewState, Total, Exists, rows, items
  <2>3. QED
    BY <2>1, <2>2 DEF IInv, ReceiptInStep
<1>3. QED
  BY <1>1, <1>2 DEF IInv

LEMMA EditorKeepsInv ==
  ASSUME IInv, EInv', NEW p \in Editors,
         \/ \E i \in Items, q \in Quantities : ReadToEdit(p, i, q)
         \/ Add(p) \/ Update(p) \/ Delete(p) \/ ReadToSend(p) \/ Send(p)
  PROVE  IInv'
<1>1. list = "draft"
  BY DEF IInv, EInv, SidesApart, ReadToEdit, Add, Update, Delete, ReadToSend, Send
<1>2. AllPending(state) /\ \A i \in Items : received[i] = 0 /\ stocked[i] = 0
  BY <1>1, DraftIsPending
<1>3. /\ list' \in {"draft", "sent"} /\ received' = received /\ stocked' = stocked
      /\ state' = state \/ \E s \in {"pending", "deleted"} : state' = [state EXCEPT ![item[p]] = s]
  BY <1>1 DEF ReadToEdit, Read, Add, Update, Delete, ReadToSend, Send, rows, items
<1>4. AllPending(state')
  BY <1>2, <1>3 DEF IInv, EInv, TypeOK, AllPending
<1>5. UnlistedIsEmpty' /\ ListInStep' /\ StockInStep'
  BY <1>2, <1>3, <1>4, PendingIsInStep
<1>6. \A r \in Receivers : pc[r] = "idle" /\ r # p
  BY <1>1, ListAssumption DEF IInv, EInv, SidesApart
<1>7. \A r \in Receivers : pc'[r] = "idle"
  BY <1>6 DEF IInv, EInv, TypeOK, Sessions, ReadToEdit, Read, Add, Update, Delete, ReadToSend, Send, End
<1>8. ReceiptInStep'
  BY <1>7 DEF ReceiptInStep
<1>9. QED
  BY <1>5, <1>8 DEF IInv

\* A receipt that is written gives the list the status its items then have.
LEMMA CommitKeepsInv ==
  ASSUME OneReceiver, IInv, EInv', NEW p \in Receivers, Commit(p)
  PROVE  IInv'
<1> DEFINE i == item[p]
           S == {state'[j] : j \in {k \in Items : Exists(k)'}}
<1>0. /\ pc[p] = "recorded" /\ quantity[p] > 0
      /\ seen[p].list = list /\ seen[p].state = state[i]
      /\ seen[p].ordered = ordered[i] /\ seen[p].received = received[i]
      /\ next[p] = StatusOf(Foreseen(p), list)
  <2>1. pc[p] = "recorded"
    BY DEF Commit
  <2>2. /\ quantity[p] > 0 /\ next[p] = StatusOf(Foreseen(p), list)
        /\ seen[p] = [list |-> list, state |-> state[i], ordered |-> ordered[i], received |-> received[i]]
    BY <2>1 DEF IInv, ReceiptInStep
  <2>3. QED
    BY <2>1, <2>2
<1>1. /\ i \in Items /\ Exists(i) /\ list \in Receivable
      /\ NewState(p) \in {"received", "partial"}
      /\ Total(p) = received[i] + quantity[p] /\ Total(p) \in Nat \ {0}
      /\ NewState(p) = IF Total(p) >= ordered[i] THEN "received" ELSE "partial"
  BY <1>0 DEF IInv, EInv, TypeOK, SidesApart, Sessions, NewState, Total
<1>2. /\ state' = [state EXCEPT ![i] = NewState(p)]
      /\ received' = [received EXCEPT ![i] = Total(p)]
      /\ stocked' = [stocked EXCEPT ![i] = @ + quantity[p]]
      /\ ordered' = ordered
  <2>1. state' = [state EXCEPT ![i] = IF NewState(p) # seen[p].state THEN NewState(p) ELSE @]
    BY DEF Commit
  <2>2. state' = [state EXCEPT ![i] = NewState(p)]
    BY <1>0, <1>1, <2>1 DEF IInv, EInv, TypeOK
  <2>3. QED
    BY <2>2 DEF Commit
<1>3. \A j \in Items : Exists(j)' <=> Exists(j)
  BY <1>1, <1>2 DEF IInv, EInv, TypeOK, Exists
<1>4. S = Foreseen(p) /\ NewState(p) \in S
  <2>1. \A j \in Items : state'[j] = IF j = i THEN NewState(p) ELSE state[j]
    BY <1>1, <1>2 DEF IInv, EInv, TypeOK
  <2>2. S = {IF j = i THEN NewState(p) ELSE state[j] : j \in {k \in Items : Exists(k)}}
    BY <1>3, <2>1
  <2>3. NewState(p) \in S
    BY <1>1, <1>3, <2>1
  <2>4. QED
    BY <2>2, <2>3 DEF Foreseen
<1>5. list' = StatusOf(S, list)
  <2>1. list' = IF next[p] # seen[p].list THEN next[p] ELSE list
    BY DEF Commit
  <2>2. QED
    BY <1>0, <1>4, <2>1
<1>6. ListInStep'
  <2> HIDE DEF S
  <2>1. /\ list' = "received" <=> S # {} /\ S \subseteq {"received"}
        /\ list' = "partially_received" <=> S \cap {"received", "partial"} # {} /\ ~(S \subseteq {"received"})
    BY <1>1, <1>4, <1>5 DEF StatusOf, Receivable
  <2>2. QED
    BY <2>1 DEF S, ListInStep
<1>7. StockInStep' /\ UnlistedIsEmpty'
  BY <1>1, <1>2, <1>3 DEF IInv, EInv, TypeOK, StockInStep, UnlistedIsEmpty, Exists, Sessions
<1>8. \A r \in Receivers : pc'[r] = "idle"
  BY DEF OneReceiver, Commit, End, IInv, EInv, TypeOK, Sessions
<1>9. QED
  BY <1>6, <1>7, <1>8 DEF IInv, ReceiptInStep

LEMMA ReceiverKeepsInv ==
  ASSUME OneReceiver, IInv, EInv', NEW p \in Receivers,
         \/ \E i \in Items, q \in Quantities : ReadToReceive(p, i, q)
         \/ Record(p)
  PROVE  IInv'
<1>1. \A r \in Receivers : r = p
  BY DEF OneReceiver
<1>2. UNCHANGED <<list, state, ordered, received, stocked>>
  BY DEF ReadToReceive, Read, Record, rows, items
<1>3. UnlistedIsEmpty' /\ ListInStep' /\ StockInStep'
  BY <1>2 DEF IInv, UnlistedIsEmpty, ListInStep, StockInStep, Exists
<1>4. ReceiptInStep'
  <2>1. ASSUME NEW i \in Items, NEW q \in Quantities, ReadToReceive(p, i, q)
        PROVE  ReceiptInStep'
    <3>1. /\ pc'[p] = "receive" /\ item'[p] = i /\ quantity'[p] = q
          /\ seen'[p] = [list |-> list, state |-> state[i], ordered |-> ordered[i], received |-> received[i]]
      BY <2>1, ListAssumption DEF IInv, EInv, TypeOK, Sessions, ReadToReceive, Read
    <3>2. q > 0
      BY ListAssumption
    <3>3. QED
      BY <1>1, <1>2, <3>1, <3>2 DEF ReceiptInStep
  <2>2. CASE Record(p)
    <3>1. /\ pc[p] = "receive" /\ item'[p] = item[p] /\ quantity'[p] = quantity[p] /\ seen'[p] = seen[p]
          /\ next'[p] = StatusOf(Foreseen(p), seen[p].list)
      BY <2>2 DEF IInv, EInv, TypeOK, Sessions, Record, Foreseen
    <3>2. Foreseen(p)' = Foreseen(p)
      BY <1>2, <3>1 DEF Foreseen, NewState, Total, Exists
    <3>3. /\ quantity[p] > 0
          /\ seen[p] = [list |-> list, state |-> state[item[p]],
                        ordered |-> ordered[item[p]], received |-> received[item[p]]]
      BY <3>1 DEF IInv, ReceiptInStep
    <3>4. seen[p].list = list
      BY <3>3
    <3>5. QED
      BY <1>1, <1>2, <3>1, <3>2, <3>3, <3>4 DEF ReceiptInStep
  <2>3. QED
    BY <2>1, <2>2
<1>5. QED
  BY <1>3, <1>4 DEF IInv

LEMMA Inductive ==
  ASSUME OneEditor, OneReceiver
  PROVE  Spec => []IInv
<1>1. Init => IInv
  BY DEF Init, IInv, EInv, TypeOK, ListStatus, ItemStatus, Phases, Unread, RolesKept, SidesApart,
     Sessions, Exists, UnlistedIsEmpty, ReceiptInStep, ListInStep, StockInStep
<1>2. ASSUME IInv, EInv', [Next]_vars
      PROVE  IInv'
  <2>1. CASE UNCHANGED vars
    <3>1. UnlistedIsEmpty' /\ ListInStep' /\ StockInStep'
      BY <1>2, <2>1 DEF IInv, UnlistedIsEmpty, ListInStep, StockInStep, vars, rows, items, Exists
    <3>2. \A r \in Receivers : Foreseen(r)' = Foreseen(r)
      BY <2>1 DEF Foreseen, NewState, Total, Exists, vars, rows, items
    <3>3. ReceiptInStep'
      BY <1>2, <2>1, <3>2 DEF IInv, ReceiptInStep, vars, rows, items
    <3>4. QED
      BY <1>2, <3>1, <3>3 DEF IInv
  <2>2. QED
    BY <1>2, <2>1, StopKeepsInv, EditorKeepsInv, ReceiverKeepsInv, CommitKeepsInv DEF Next, Rollback
<1>3. QED
  BY <1>1, <1>2, SidesStayApart, PTL DEF Spec

\* The status of the list is the one its items give it
\* (_recalculate_list_status), when one person edits it and one receives it.
THEOREM ListFollowsItems ==
  ASSUME OneEditor, OneReceiver
  PROVE  Spec => []ListInStep
<1>1. IInv => ListInStep
  BY DEF IInv
<1>2. QED
  BY <1>1, Inductive, PTL

\* What the list says was received is what went into stock for it
\* (record_receipt), when one person edits it and one receives it.
THEOREM StockFollowsItems ==
  ASSUME OneEditor, OneReceiver
  PROVE  Spec => []StockInStep
<1>1. IInv => StockInStep
  BY DEF IInv
<1>2. QED
  BY <1>1, Inductive, PTL
=============================================================================
