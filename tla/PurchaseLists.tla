--------------------------- MODULE PurchaseLists ---------------------------
(***************************************************************************)
(* One purchase list (app/services/purchase_list_service.py): items are     *)
(* edited while it is a draft, received into stock once it is sent, and its *)
(* status follows from theirs.                                              *)
(*                                                                         *)
(* Every request reads the list and the item without a lock and writes      *)
(* later; the session writes only the columns that differ from what it      *)
(* loaded.  A receipt writes its item, which locks that row, works out the  *)
(* status of the list from the items it then sees, and commits.             *)
(***************************************************************************)
EXTENDS Integers, FiniteSets

CONSTANTS
  Editors,     \* sessions that edit the draft and send it
  Receivers,   \* sessions that record receipts
  Items,       \* ids of purchase_list_items rows
  Quantities,  \* quantities ordered, and received at a time
  Free,        \* the holder of an item nobody has locked
  NoItem,      \* the item of a session that has none
  MaxReceived  \* bound: quantity received for an item

ASSUME ListAssumption ==
  /\ Editors \cap Receivers = {} /\ Free \notin Editors \cup Receivers
  /\ NoItem \notin Items
  /\ Quantities \subseteq Nat \ {0} /\ MaxReceived \in Nat

VARIABLES
  list,                         \* the status of the list
  state, ordered, received,     \* the rows of its items
  stocked,                      \* quantity in the lots received for an item
  locks,                        \* row locks on items
  pc, item, quantity, seen, next

items == <<state, ordered, received>>
rows  == <<list, items, stocked>>
vars  == <<rows, locks, pc, item, quantity, seen, next>>

Sessions   == Editors \cup Receivers
ListStatus == {"draft", "sent", "partially_received", "received"}
ItemStatus == {"pending", "partial", "received"}
Phases     == {"idle", "add", "update", "delete", "send", "receive", "recorded"}
Unread     == [list |-> "draft", state |-> "pending", ordered |-> 0, received |-> 0]

Exists(i) == state[i] \notin {"none", "deleted"}

Init ==
  /\ list = "draft"
  /\ state = [i \in Items |-> "none"]
  /\ ordered = [i \in Items |-> 0]
  /\ received = [i \in Items |-> 0]
  /\ stocked = [i \in Items |-> 0]
  /\ locks = [i \in Items |-> Free]
  /\ pc = [p \in Sessions |-> "idle"]
  /\ item = [p \in Sessions |-> NoItem]
  /\ quantity = [p \in Sessions |-> 0]
  /\ seen = [p \in Sessions |-> Unread]
  /\ next = [p \in Sessions |-> "draft"]

End(p) ==
  /\ locks' = [i \in Items |-> IF locks[i] = p THEN Free ELSE locks[i]]
  /\ pc' = [pc EXCEPT ![p] = "idle"]
  /\ item' = [item EXCEPT ![p] = NoItem]
  /\ quantity' = [quantity EXCEPT ![p] = 0]
  /\ seen' = [seen EXCEPT ![p] = Unread]
  /\ next' = [next EXCEPT ![p] = "draft"]

\* The request reads the list, and the item it is about.
Read(p, phase, i, q) ==
  /\ pc[p] = "idle"
  /\ pc' = [pc EXCEPT ![p] = phase]
  /\ item' = [item EXCEPT ![p] = i]
  /\ quantity' = [quantity EXCEPT ![p] = q]
  /\ seen' = [seen EXCEPT ![p] =
                IF i = NoItem \/ phase = "add" THEN [Unread EXCEPT !.list = list]
                ELSE [list |-> list, state |-> state[i],
                      ordered |-> ordered[i], received |-> received[i]]]
  /\ UNCHANGED <<rows, locks, next>>
-----------------------------------------------------------------------------
(***************************************************************************)
(* The draft.                                                               *)
(***************************************************************************)
\* Mutant: a list that was sent can still be edited.
ReadToEditSent(p, i, q) ==
  /\ list \in {"draft", "sent"}
  /\ \/ state[i] = "none" /\ Read(p, "add", i, q)
     \/ Exists(i) /\ (Read(p, "update", i, q) \/ Read(p, "delete", i, q))

ReadToEdit(p, i, q) ==
  /\ list = "draft"
  /\ \/ state[i] = "none" /\ Read(p, "add", i, q)
     \/ Exists(i) /\ (Read(p, "update", i, q) \/ Read(p, "delete", i, q))

Add(p) ==
  /\ pc[p] = "add"
  /\ state' = [state EXCEPT ![item[p]] = "pending"]
  /\ ordered' = [ordered EXCEPT ![item[p]] = quantity[p]]
  /\ End(p) /\ UNCHANGED <<list, received, stocked>>

\* An item deleted meanwhile makes an update fail.
Update(p) ==
  /\ pc[p] = "update" /\ Exists(item[p]) /\ locks[item[p]] = Free
  /\ ordered' = [ordered EXCEPT ![item[p]] =
                   IF quantity[p] # seen[p].ordered THEN quantity[p] ELSE @]
  /\ End(p) /\ UNCHANGED <<list, state, received, stocked>>

Delete(p) ==
  /\ pc[p] = "delete" /\ locks[item[p]] = Free
  /\ state' = [state EXCEPT ![item[p]] = "deleted"]
  /\ End(p) /\ UNCHANGED <<list, ordered, received, stocked>>

ReadToSend(p) ==
  /\ list = "draft" /\ \E i \in Items : Exists(i)
  /\ Read(p, "send", NoItem, 0)

Send(p) ==
  /\ pc[p] = "send" /\ list' = "sent"
  /\ End(p) /\ UNCHANGED <<items, stocked>>
-----------------------------------------------------------------------------
(***************************************************************************)
(* Receipts.                                                                *)
(***************************************************************************)
ReadToReceive(p, i, q) ==
  /\ list \in {"sent", "partially_received"}
  /\ state[i] \in {"pending", "partial"}
  /\ received[i] + q <= MaxReceived
  /\ Read(p, "receive", i, q)

Total(p)    == seen[p].received + quantity[p]

NewState(p) == IF Total(p) >= seen[p].ordered THEN "received" ELSE "partial"

\* Mutant: one item received in full closes the list.
StatusOfAny(S, old) ==
  IF "received" \in S THEN "received"
  ELSE IF "partial" \in S THEN "partially_received" ELSE old

\* Mutant: the status of an item where that of a list belongs.
StatusOfItems(S, old) ==
  IF S \subseteq {"received"} THEN "received"
  ELSE IF S \cap {"received", "partial"} # {} THEN "partial" ELSE old

\* _recalculate_list_status over the set S of item statuses.
StatusOf(S, old) ==
  IF S \subseteq {"received"} THEN "received"
  ELSE IF S \cap {"received", "partial"} # {} THEN "partially_received" ELSE old

\* The lot and the item are written, and the other items read as committed.
Record(p) ==
  /\ pc[p] = "receive" /\ Exists(item[p]) /\ locks[item[p]] = Free
  /\ locks' = [locks EXCEPT ![item[p]] = p]
  /\ next' = [next EXCEPT ![p] =
                StatusOf({IF i = item[p] THEN NewState(p) ELSE state[i] :
                            i \in {j \in Items : Exists(j)}},
                         seen[p].list)]
  /\ pc' = [pc EXCEPT ![p] = "recorded"]
  /\ UNCHANGED <<rows, item, quantity, seen>>

\* Mutant: the quantity received replaces the one before it.
CommitReplacing(p) ==
  /\ pc[p] = "recorded"
  /\ stocked' = [stocked EXCEPT ![item[p]] = @ + quantity[p]]
  /\ received' = [received EXCEPT ![item[p]] = quantity[p]]
  /\ state' = [state EXCEPT ![item[p]] = NewState(p)]
  /\ list' = next[p]
  /\ End(p) /\ UNCHANGED ordered

Commit(p) ==
  /\ pc[p] = "recorded"
  /\ stocked' = [stocked EXCEPT ![item[p]] = @ + quantity[p]]
  /\ received' = [received EXCEPT ![item[p]] = Total(p)]
  /\ state' = [state EXCEPT ![item[p]] = IF NewState(p) # seen[p].state THEN NewState(p) ELSE @]
  /\ list' = IF next[p] # seen[p].list THEN next[p] ELSE list
  /\ End(p) /\ UNCHANGED ordered

\* The request fails or dies before it commits.
Rollback(p) ==
  /\ pc[p] # "idle"
  /\ End(p) /\ UNCHANGED rows

Next ==
  \/ \E p \in Editors :
       \/ \E i \in Items, q \in Quantities : ReadToEdit(p, i, q)
       \/ Add(p) \/ Update(p) \/ Delete(p) \/ ReadToSend(p) \/ Send(p)
  \/ \E p \in Receivers :
       \/ \E i \in Items, q \in Quantities : ReadToReceive(p, i, q)
       \/ Record(p) \/ Commit(p)
  \/ \E p \in Sessions : Rollback(p)

Spec == Init /\ [][Next]_vars
-----------------------------------------------------------------------------
\* Types: a list and its items are only ever in the states the tables allow.
TypeOK ==
  /\ list \in ListStatus
  /\ state \in [Items -> ItemStatus \cup {"none", "deleted"}]
  /\ ordered \in [Items -> Nat] /\ received \in [Items -> Nat]
  /\ stocked \in [Items -> Nat]
  /\ locks \in [Items -> Sessions \cup {Free}]
  /\ pc \in [Sessions -> Phases]
  /\ item \in [Sessions -> Items \cup {NoItem}]
  /\ quantity \in [Sessions -> Nat]
  /\ seen \in [Sessions -> [list : ListStatus, state : ItemStatus, ordered : Nat, received : Nat]]
  /\ next \in [Sessions -> ListStatus]

\* The status of the list is the one its items give it: received when all of
\* them are, partially received when some are, in full or in part.
ListInStep ==
  LET S == {state[i] : i \in {j \in Items : Exists(j)}} IN
    /\ list = "received" <=> S # {} /\ S \subseteq {"received"}
    /\ list = "partially_received" <=>
         S \cap {"received", "partial"} # {} /\ ~(S \subseteq {"received"})

\* What the list says was received is what went into stock for it, and the
\* status of an item says whether that is all that was ordered.
StockInStep ==
  \A i \in Items :
    /\ received[i] = stocked[i]
    /\ Exists(i) => state[i] = IF received[i] = 0 THEN "pending"
                               ELSE IF received[i] >= ordered[i] THEN "received" ELSE "partial"

\* Once the list is sent, its items are received and no longer edited.
SentIsFrozen ==
  [][list # "draft" =>
       \A i \in Items : ordered'[i] = ordered[i] /\ (Exists(i) <=> Exists(i)')]_vars
=============================================================================
