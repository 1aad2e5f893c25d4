----------------------------- MODULE PosEvents -----------------------------
(***************************************************************************)
(* Sales reported by the point of sale: the webhook that stores an event    *)
(* (app/services/pos_webhook_service.py) and the processor that turns it     *)
(* into a deduction of stock (app/services/pos_event_processor_service.py), *)
(* started by a background task after the webhook, by an operator, or by     *)
(* several of them at once.                                                 *)
(*                                                                         *)
(* A run of the processor is one transaction: it locks the row of the event *)
(* and keeps it through a call to the provider, a look at the stock and the *)
(* deduction, while other requests edit the integration, the mappings and   *)
(* the stock.  The deduction itself is the atomic issue of AtomicStock,     *)
(* which Stock implements; one shelf stands for the products of an order.   *)
(***************************************************************************)
EXTENDS Integers, Sequences, FiniteSets

CONSTANTS
  Events,      \* external event ids of one integration
  Items,       \* catalogue items sold
  ItemsOf,     \* the items on the order of an event
  Sessions,    \* database sessions that can run the processor
  Free,        \* the holder of an event nobody has locked
  NoEvent,     \* the event of an idle session
  MaxStock,    \* bound: units on the shelf
  MaxStarts    \* bound: runs and dismissals per event

ASSUME PosAssumption ==
  /\ ItemsOf \in [Events -> SUBSET Items]
  /\ \A e \in Events : IsFiniteSet(ItemsOf[e])
  /\ Free \notin Sessions /\ NoEvent \notin Events
  /\ MaxStock \in Nat /\ MaxStarts \in Nat

VARIABLES
  \* the integration's row and its decrypted access token
  active, manual, token,
  \* what each item is mapped to, and the units on the shelf
  mapping, stock,
  \* pos_events, the units its movements took, its audit_logs rows
  status, taken, audit, starts,
  \* background tasks in the server's memory, and row locks
  queued, locks,
  \* the run of each session
  pc, event, force, previous, gated, need

settings == <<active, manual, token, mapping>>
eventRow == <<status, taken, audit>>
run      == <<event, force, previous, gated, need>>
vars     == <<settings, stock, eventRow, starts, queued, locks, pc, run>>

Terminal == {"processed", "ignored"}
Recorded == Terminal \cup
  {"pending", "pending_approval", "needs_mapping", "insufficient_stock", "failed"}
Tokens   == {"none", "readable", "unreadable"}
\* A recipe whose unit does not match its product serves no better than "none".
Targets  == {"none", "ignore", "recipe"}
Phases   == {"idle", "token", "enrich", "plan", "deduct"}
AuditRow == [from : Recorded, to : Recorded, moved : Nat]

Init ==
  /\ active = TRUE /\ manual = TRUE /\ token = "none"
  /\ mapping = [i \in Items |-> "none"]
  /\ stock = 0
  /\ status = [e \in Events |-> "none"]
  /\ taken = [e \in Events |-> 0]
  /\ audit = [e \in Events |-> <<>>]
  /\ starts = [e \in Events |-> 0]
  /\ queued = {}
  /\ locks = [e \in Events |-> Free]
  /\ pc = [p \in Sessions |-> "idle"]
  /\ event = [p \in Sessions |-> NoEvent]
  /\ force = [p \in Sessions |-> FALSE]
  /\ previous = [p \in Sessions |-> "pending"]
  /\ gated = [p \in Sessions |-> FALSE]
  /\ need = [p \in Sessions |-> 0]
-----------------------------------------------------------------------------
(***************************************************************************)
(* Requests that change what a run of the processor reads.                  *)
(***************************************************************************)
UpdateIntegration(a, m) ==
  /\ active' = a /\ manual' = m
  /\ UNCHANGED <<token, mapping, stock, eventRow, starts, queued, locks, pc, run>>

SetCredentials ==
  /\ token' = "readable"
  /\ UNCHANGED <<active, manual, mapping, stock, eventRow, starts, queued, locks, pc, run>>

\* The server is redeployed with another encryption key.
ChangeKey ==
  /\ token = "readable" /\ token' = "unreadable"
  /\ UNCHANGED <<active, manual, mapping, stock, eventRow, starts, queued, locks, pc, run>>

\* Mappings are created, edited and deactivated, recipes edited.
EditMapping(i, t) ==
  /\ mapping' = [mapping EXCEPT ![i] = t]
  /\ UNCHANGED <<active, manual, token, stock, eventRow, starts, queued, locks, pc, run>>

\* Any other request of the stock service that commits.
OtherMovement(n) ==
  /\ stock' = n
  /\ UNCHANGED <<settings, eventRow, starts, queued, locks, pc, run>>
-----------------------------------------------------------------------------
(***************************************************************************)
(* The webhook.  INSERT ... ON CONFLICT DO NOTHING stores an event once, and *)
(* queues its run; a replay, or an event the integration cannot accept,      *)
(* changes nothing.                                                         *)
(***************************************************************************)
\* Mutant: a replay overwrites the row it conflicts with.
AcceptReplay(e) ==
  /\ active /\ token = "readable"
  /\ status' = [status EXCEPT ![e] = "pending"]
  /\ queued' = queued \cup {e}
  /\ UNCHANGED <<settings, stock, taken, audit, starts, locks, pc, run>>

Accept(e) ==
  /\ status[e] = "none"
  /\ active /\ token = "readable"
  /\ status' = [status EXCEPT ![e] = "pending"]
  /\ queued' = queued \cup {e}
  /\ UNCHANGED <<settings, stock, taken, audit, starts, locks, pc, run>>
-----------------------------------------------------------------------------
(***************************************************************************)
(* The processor.                                                           *)
(***************************************************************************)
\* Mutant: the transaction ends and the row stays locked.
EndKeepingLock(p) ==
  /\ pc' = [pc EXCEPT ![p] = "idle"]
  /\ event' = [event EXCEPT ![p] = NoEvent]
  /\ force' = [force EXCEPT ![p] = FALSE]
  /\ previous' = [previous EXCEPT ![p] = "pending"]
  /\ gated' = [gated EXCEPT ![p] = FALSE]
  /\ need' = [need EXCEPT ![p] = 0]
  /\ UNCHANGED locks

End(p) ==
  /\ locks' = [e \in Events |-> IF locks[e] = p THEN Free ELSE locks[e]]
  /\ pc' = [pc EXCEPT ![p] = "idle"]
  /\ event' = [event EXCEPT ![p] = NoEvent]
  /\ force' = [force EXCEPT ![p] = FALSE]
  /\ previous' = [previous EXCEPT ![p] = "pending"]
  /\ gated' = [gated EXCEPT ![p] = FALSE]
  /\ need' = [need EXCEPT ![p] = 0]

Transition(e, from, to, moved) ==
  /\ status' = [status EXCEPT ![e] = to]
  /\ audit' = [audit EXCEPT ![e] = Append(@, [from |-> from, to |-> to, moved |-> moved])]

\* The new status, its audit row and the movements commit together.
Finalize(p, to, moved) ==
  /\ Transition(event[p], previous[p], to, moved)
  /\ taken' = [taken EXCEPT ![event[p]] = @ + moved]
  /\ stock' = stock - moved
  /\ End(p)
  /\ UNCHANGED <<settings, starts, queued>>

\* Mutant: the event is read without FOR UPDATE.
LoadWithoutLock(p, e, f) ==
  /\ pc[p] = "idle" /\ status[e] \in Recorded \ Terminal
  /\ locks' = [locks EXCEPT ![e] = p]
  /\ pc' = [pc EXCEPT ![p] = "token"]
  /\ event' = [event EXCEPT ![p] = e]
  /\ force' = [force EXCEPT ![p] = f]
  /\ previous' = [previous EXCEPT ![p] = status[e]]
  /\ gated' = [gated EXCEPT ![p] = manual]
  /\ UNCHANGED <<settings, stock, eventRow, need>>

\* The event is locked and read, and then the integration.
Load(p, e, f) ==
  /\ pc[p] = "idle" /\ locks[e] = Free
  /\ status[e] \in Recorded \ Terminal
  /\ locks' = [locks EXCEPT ![e] = p]
  /\ pc' = [pc EXCEPT ![p] = "token"]
  /\ event' = [event EXCEPT ![p] = e]
  /\ force' = [force EXCEPT ![p] = f]
  /\ previous' = [previous EXCEPT ![p] = status[e]]
  /\ gated' = [gated EXCEPT ![p] = manual]
  /\ UNCHANGED <<settings, stock, eventRow, need>>

\* The integration is inactive: the event is closed in the same transaction.
LoadInactive(e) ==
  /\ ~active /\ locks[e] = Free
  /\ status[e] \in Recorded \ Terminal
  /\ Transition(e, status[e], "ignored", 0)
  /\ UNCHANGED <<settings, stock, taken, locks, pc, run>>

\* The background task runs once; an event already closed is left alone.
RunInBackground(p, e) ==
  /\ e \in queued /\ queued' = queued \ {e}
  /\ UNCHANGED starts
  /\ \/ active /\ Load(p, e, FALSE)
     \/ LoadInactive(e)
     \/ /\ status[e] \in Terminal
        /\ UNCHANGED <<settings, stock, eventRow, locks, pc, run>>

RunByOperator(p, e, f) ==
  /\ starts[e] < MaxStarts
  /\ starts' = [starts EXCEPT ![e] = @ + 1]
  /\ UNCHANGED queued
  /\ (active /\ Load(p, e, f)) \/ LoadInactive(e)

\* Mutant: a dismissal does not wait for the row lock.
DismissWithoutLock(e) ==
  /\ starts[e] < MaxStarts
  /\ starts' = [starts EXCEPT ![e] = @ + 1]
  /\ status[e] \in Recorded \ Terminal
  /\ Transition(e, status[e], "ignored", 0)
  /\ UNCHANGED <<settings, stock, taken, queued, locks, pc, run>>

Dismiss(e) ==
  /\ starts[e] < MaxStarts
  /\ starts' = [starts EXCEPT ![e] = @ + 1]
  /\ locks[e] = Free
  /\ status[e] \in Recorded \ Terminal
  /\ Transition(e, status[e], "ignored", 0)
  /\ UNCHANGED <<settings, stock, taken, queued, locks, pc, run>>

Goto(p, phase) ==
  /\ pc' = [pc EXCEPT ![p] = phase]
  /\ UNCHANGED <<settings, stock, eventRow, starts, queued, locks, event, force, previous, gated>>

ReadToken(p) ==
  /\ pc[p] = "token"
  /\ \/ token = "none" /\ Finalize(p, "failed", 0)
     \/ token = "readable" /\ Goto(p, "enrich") /\ UNCHANGED need

\* The provider is asked for the order: it fails, it knows no items, it answers.
Enrich(p) ==
  /\ pc[p] = "enrich"
  /\ \/ Finalize(p, "failed", 0)
     \/ Finalize(p, "ignored", 0)
     \/ ItemsOf[event[p]] # {} /\ Goto(p, "plan") /\ UNCHANGED need

\* The manual gate parks the event without an audit row.
AwaitApproval(p) ==
  /\ status' = [status EXCEPT ![event[p]] = "pending_approval"]
  /\ End(p)
  /\ UNCHANGED <<settings, stock, taken, audit, starts, queued>>

Mapped(e, t) == {i \in ItemsOf[e] : mapping[i] = t}

\* The mappings are read and the units wanted added up: an item nobody mapped,
\* or a unit that does not match, goes to the operator; nothing wanted is done.
\* Then the shelf is looked at, without a lock, and the manual gate decides.
Plan(p) ==
  /\ pc[p] = "plan"
  /\ LET e == event[p]
         n == Cardinality(Mapped(e, "recipe")) IN
       \/ /\ Mapped(e, "none") # {}
          /\ Finalize(p, "needs_mapping", 0)
       \/ /\ Mapped(e, "none") = {}
          /\ \/ n = 0 /\ Finalize(p, "processed", 0)
             \/ stock < n /\ Finalize(p, "insufficient_stock", 0)
             \/ n > 0 /\ stock >= n /\ gated[p] /\ ~force[p] /\ AwaitApproval(p)
             \/ /\ n > 0 /\ stock >= n /\ (force[p] \/ ~gated[p])
                /\ Goto(p, "deduct")
                /\ need' = [need EXCEPT ![p] = n]

\* Mutant: the look at the shelf is trusted.
DeductUnchecked(p) ==
  /\ pc[p] = "deduct"
  /\ Finalize(p, "processed", need[p])

\* The stock is issued and the event closed by one commit.
Deduct(p) ==
  /\ pc[p] = "deduct" /\ stock >= need[p]
  /\ Finalize(p, "processed", need[p])

\* The run dies: its transaction is rolled back and the event stays as it was.
Rollback(p) ==
  /\ pc[p] # "idle"
  /\ End(p)
  /\ UNCHANGED <<settings, stock, eventRow, starts, queued>>

\* Another request took the stock after the look: InsufficientStockError is
\* not caught.
DeductShort(p) ==
  /\ pc[p] = "deduct" /\ stock < need[p]
  /\ Rollback(p)

\* A statement that fails aborts the transaction: the failed status that the
\* handler tries to write cannot be committed.
DecryptFails(p) ==
  /\ pc[p] = "token" /\ token = "unreadable"
  /\ Rollback(p)

\* The server restarts: every run is rolled back and the queued tasks are lost.
Crash ==
  /\ queued \cup {p \in Sessions : pc[p] # "idle"} # {}
  /\ queued' = {}
  /\ locks' = [e \in Events |-> Free]
  /\ pc' = [p \in Sessions |-> "idle"]
  /\ event' = [p \in Sessions |-> NoEvent]
  /\ force' = [p \in Sessions |-> FALSE]
  /\ previous' = [p \in Sessions |-> "pending"]
  /\ gated' = [p \in Sessions |-> FALSE]
  /\ need' = [p \in Sessions |-> 0]
  /\ UNCHANGED <<settings, stock, eventRow, starts>>

Process(p) ==
  ReadToken(p) \/ DecryptFails(p) \/ Enrich(p) \/ Plan(p) \/ Deduct(p) \/ DeductShort(p)

Next ==
  \/ \E a, m \in BOOLEAN : UpdateIntegration(a, m)
  \/ SetCredentials \/ ChangeKey
  \/ \E i \in Items, t \in Targets : EditMapping(i, t)
  \/ \E n \in 0..MaxStock : OtherMovement(n)
  \/ \E e \in Events :
       \/ Accept(e) \/ Dismiss(e)
       \/ \E p \in Sessions :
            RunInBackground(p, e) \/ \E f \in BOOLEAN : RunByOperator(p, e, f)
  \/ \E p \in Sessions : Process(p) \/ Rollback(p)
  \/ Crash

Spec == Init /\ [][Next]_vars

\* The server runs its queued tasks when the row is free (PostgreSQL queues the
\* sessions that wait for it: SF), and a run goes on: the call to the provider
\* has a timeout.  Nobody has to send anything.
Fairness ==
  /\ \A e \in Events : SF_vars(\E p \in Sessions : RunInBackground(p, e))
  /\ \A p \in Sessions : WF_vars(Process(p))

FairSpec == Spec /\ Fairness
-----------------------------------------------------------------------------
\* Types: the shelf never holds less than nothing.
TypeOK ==
  /\ active \in BOOLEAN /\ manual \in BOOLEAN /\ token \in Tokens
  /\ mapping \in [Items -> Targets]
  /\ stock \in 0..MaxStock
  /\ status \in [Events -> Recorded \cup {"none"}]
  /\ taken \in [Events -> Nat]
  /\ audit \in [Events -> Seq(AuditRow)]
  /\ starts \in [Events -> 0..MaxStarts]
  /\ queued \subseteq Events
  /\ locks \in [Events -> Sessions \cup {Free}]
  /\ pc \in [Sessions -> Phases]
  /\ event \in [Sessions -> Events \cup {NoEvent}]
  /\ force \in [Sessions -> BOOLEAN]
  /\ previous \in [Sessions -> Recorded]
  /\ gated \in [Sessions -> BOOLEAN]
  /\ need \in [Sessions -> 0..MaxStock]

\* A sale leaves the stock at most once, however often its event is delivered,
\* retried, approved and dismissed: what its movements took is what one audit
\* row says, the last one, which closes the event as processed.
TakenOnce ==
  \A e \in Events :
    taken[e] > 0 =>
      LET last == audit[e][Len(audit[e])] IN
        /\ status[e] = "processed"
        /\ last.to = "processed" /\ last.moved = taken[e]
        /\ \A k \in DOMAIN audit[e] : k < Len(audit[e]) => audit[e][k].moved = 0

\* The audit rows of an event tell its history: each starts where the one
\* before it ended, but for a wait for approval, and the last one is where the
\* event is now.
AuditTimeline ==
  \A e \in Events :
    /\ status[e] \notin {"none", "pending", "pending_approval"} =>
         audit[e] # <<>> /\ audit[e][Len(audit[e])].to = status[e]
    /\ \A k \in DOMAIN audit[e] :
         audit[e][k].from \in
           {"pending_approval", IF k = 1 THEN "pending" ELSE audit[e][k - 1].to}

\* A processed or ignored event stays so, whoever was working on it.
TerminalIsFinal ==
  [][\A e \in Events : status[e] \in Terminal => status'[e] = status[e]]_vars

\* Every run ends, the queued ones too: no event stays locked.
RunsEnd ==
  \A e \in Events :
    (e \in queued \/ locks[e] # Free) ~> (e \notin queued /\ locks[e] = Free)

\* A replay is skipped because the event was processed, is about to be, waits
\* for approval, or was seen by an operator.
SkippedReplaysAreHandled ==
  \A e \in Events :
    status[e] = "pending" => e \in queued \/ locks[e] # Free \/ starts[e] > 0
=============================================================================
