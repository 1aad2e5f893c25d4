----------------------------- MODULE PosProofs -----------------------------
(***************************************************************************)
(* Proofs about PosEvents, for any sets of events, items and sessions.     *)
(* The argument: a run of the processor holds the row of its event, so     *)
(* what it read of it stays true until it commits, and only an open event  *)
(* can be locked, dismissed or closed.                                     *)
(***************************************************************************)
EXTENDS PosEvents, FiniteSetTheorems, TLAPS

Open == Recorded \ Terminal

LastRow(e) == audit[e][Len(audit[e])]

\* A run holds its event, which is as open as when the run read it.
RunHoldsItsEvent ==
  \A p \in Sessions : pc[p] # "idle" =>
    /\ event[p] \in Events
    /\ locks[event[p]] = p
    /\ status[event[p]] = previous[p]
    /\ previous[p] \in Open

\* What an event is now is what its last audit row says, except while it waits
\* for approval, or has no row yet.
StatusIsAudited ==
  \A e \in Events :
    /\ status[e] \in {"none", "pending"} => audit[e] = <<>>
    /\ status[e] \notin {"none", "pending", "pending_approval"} =>
         audit[e] # <<>> /\ LastRow(e).to = status[e]

\* The rows follow on each other.
RowsFollow ==
  \A e \in Events : \A k \in DOMAIN audit[e] :
    audit[e][k].from \in
      {"pending_approval", IF k = 1 THEN "pending" ELSE audit[e][k - 1].to}

\* Units leave by the last row of a processed event, and by no other.
TakenByLastRow ==
  \A e \in Events :
    /\ taken[e] = 0 => \A k \in DOMAIN audit[e] : audit[e][k].moved = 0
    /\ taken[e] > 0 =>
         /\ status[e] = "processed"
         /\ LastRow(e).to = "processed" /\ LastRow(e).moved = taken[e]
         /\ \A k \in DOMAIN audit[e] : k < Len(audit[e]) => audit[e][k].moved = 0

History == StatusIsAudited /\ RowsFollow /\ TakenByLastRow

IInv == TypeOK /\ RunHoldsItsEvent /\ History
-----------------------------------------------------------------------------
\* The history of an event depends on nothing but its row.
LEMMA RowsUnchanged ==
  ASSUME History, UNCHANGED eventRow
  PROVE  History'
  BY DEF History, StatusIsAudited, RowsFollow, TakenByLastRow, LastRow, eventRow

\* An open event is closed, or sent back to the operator, by a row that starts
\* from its status: its history stays in order, and units leave only with the
\* row that closes it as processed.
LEMMA TransitionKeepsHistory ==
  ASSUME TypeOK, History,
         NEW e \in Events, status[e] \in Open,
         NEW to \in Recorded \ {"pending", "pending_approval"},
         NEW moved \in Nat, moved > 0 => to = "processed",
         Transition(e, status[e], to, moved),
         taken' = [taken EXCEPT ![e] = @ + moved]
  PROVE  History' /\ audit' \in [Events -> Seq(AuditRow)] /\ taken' \in [Events -> Nat]
<1> DEFINE row == [from |-> status[e], to |-> to, moved |-> moved]
           n == Len(audit[e])
<1>1. audit \in [Events -> Seq(AuditRow)] /\ status \in [Events -> Recorded \cup {"none"}]
      /\ taken \in [Events -> Nat]
  BY DEF TypeOK
<1>2. row \in AuditRow
  BY DEF AuditRow, Open
<1>3. status' = [status EXCEPT ![e] = to] /\ audit' = [audit EXCEPT ![e] = Append(@, row)]
  BY DEF Transition
<1>4. \A x \in Events \ {e} : status'[x] = status[x] /\ audit'[x] = audit[x] /\ taken'[x] = taken[x]
  BY <1>1, <1>3
<1>5. status'[e] = to /\ audit'[e] = Append(audit[e], row) /\ taken'[e] = taken[e] + moved
  BY <1>1, <1>3
<1>6. audit[e] \in Seq(AuditRow) /\ n \in Nat /\ DOMAIN audit[e] = 1..n
  BY <1>1
<1> HIDE DEF row
<1>7. /\ Len(audit'[e]) = n + 1 /\ DOMAIN audit'[e] = 1..(n + 1)
      /\ audit'[e][n + 1] = row
      /\ \A k \in 1..n : audit'[e][k] = audit[e][k]
      /\ audit'[e] # <<>>
  BY <1>2, <1>5, <1>6
<1>8. row.from = status[e] /\ row.to = to /\ row.moved = moved
  BY DEF row
<1>9. StatusIsAudited'
  <2> SUFFICES ASSUME NEW x \in Events
               PROVE  /\ status'[x] \in {"none", "pending"} => audit'[x] = <<>>
                      /\ status'[x] \notin {"none", "pending", "pending_approval"} =>
                           audit'[x] # <<>> /\ audit'[x][Len(audit'[x])].to = status'[x]
    BY DEF StatusIsAudited, LastRow
  <2>1. CASE x = e
    BY <1>5, <1>7, <1>8, <2>1 DEF Recorded, Terminal
  <2>2. CASE x # e
    BY <1>4, <2>2 DEF History, StatusIsAudited, LastRow
  <2>3. QED
    BY <2>1, <2>2
<1>10. RowsFollow'
  <2> SUFFICES ASSUME NEW x \in Events, NEW k \in DOMAIN audit'[x]
               PROVE  audit'[x][k].from \in
                        {"pending_approval", IF k = 1 THEN "pending" ELSE audit'[x][k - 1].to}
    BY DEF RowsFollow
  <2>1. CASE x # e
    BY <1>4, <2>1 DEF History, RowsFollow
  <2>2. CASE x = e /\ k # n + 1
    <3>1. k \in 1..n /\ (k = 1 \/ k - 1 \in 1..n)
      BY <1>6, <1>7, <2>2
    <3>2. audit[e][k].from \in {"pending_approval", IF k = 1 THEN "pending" ELSE audit[e][k - 1].to}
      BY <1>6, <3>1 DEF History, RowsFollow
    <3>3. QED
      BY <1>7, <2>2, <3>1, <3>2
  <2>3. CASE x = e /\ k = n + 1 /\ n = 0
    <3>1. audit[e] = <<>>
      BY <1>6, <2>3
    <3>2. status[e] \in {"pending", "pending_approval"}
      BY <3>1 DEF History, StatusIsAudited, Open, Recorded
    <3>3. QED
      BY <1>7, <1>8, <2>3, <3>2
  <2>4. CASE x = e /\ k = n + 1 /\ n > 0
    <3>1. audit[e] # <<>> /\ n \in 1..n
      BY <1>6, <2>4
    <3>2. status[e] = "pending_approval" \/ audit[e][n].to = status[e]
      BY <3>1 DEF History, StatusIsAudited, LastRow, Open, Recorded
    <3>3. QED
      BY <1>6, <1>7, <1>8, <2>4, <3>1, <3>2
  <2>5. QED
    BY <1>6, <2>1, <2>2, <2>3, <2>4
<1>11. TakenByLastRow'
  <2>1. taken[e] = 0
    BY <1>1 DEF History, TakenByLastRow, Open, Terminal
  <2>2. \A k \in 1..n : audit[e][k].moved = 0
    BY <1>6, <2>1 DEF History, TakenByLastRow
  <2> SUFFICES ASSUME NEW x \in Events
               PROVE  /\ taken'[x] = 0 => \A k \in DOMAIN audit'[x] : audit'[x][k].moved = 0
                      /\ taken'[x] > 0 =>
                           /\ status'[x] = "processed"
                           /\ audit'[x][Len(audit'[x])].to = "processed"
                           /\ audit'[x][Len(audit'[x])].moved = taken'[x]
                           /\ \A k \in DOMAIN audit'[x] :
                                k < Len(audit'[x]) => audit'[x][k].moved = 0
    BY DEF TakenByLastRow, LastRow
  <2>3. CASE x # e
    BY <1>4, <2>3 DEF History, TakenByLastRow, LastRow
  <2>4. CASE x = e
    <3>1. \A k \in DOMAIN audit'[e] : k < n + 1 => audit'[e][k].moved = 0
      <4> SUFFICES ASSUME NEW k \in 1..(n + 1), k < n + 1 PROVE audit'[e][k].moved = 0
        BY <1>7
      <4>1. k \in 1..n
        BY <1>6
      <4>2. QED
        BY <1>7, <2>2, <4>1
    <3>2. taken'[e] = moved
      BY <1>5, <2>1
    <3>3. CASE moved = 0
      <4>1. \A k \in DOMAIN audit'[e] : k < n + 1 \/ k = n + 1
        BY <1>6, <1>7
      <4>2. audit'[e][n + 1].moved = 0
        BY <1>7, <1>8, <3>3
      <4>3. QED
        BY <2>4, <3>1, <3>2, <3>3, <4>1, <4>2
    <3>4. CASE moved > 0
      <4>1. status'[e] = "processed" /\ audit'[e][Len(audit'[e])].to = "processed"
        BY <1>5, <1>7, <1>8, <3>4
      <4>2. audit'[e][Len(audit'[e])].moved = taken'[e]
        BY <1>7, <1>8, <3>2
      <4>3. \A k \in DOMAIN audit'[e] : k < Len(audit'[e]) => audit'[e][k].moved = 0
        BY <1>7, <3>1
      <4>4. QED
        BY <2>4, <3>2, <3>4, <4>1, <4>2, <4>3
    <3>5. QED
      BY <3>3, <3>4
  <2>5. QED
    BY <2>3, <2>4
<1>12. QED
  BY <1>1, <1>2, <1>3, <1>9, <1>10, <1>11 DEF History
-----------------------------------------------------------------------------
\* The end of a transaction forgets the run and frees its event; the runs of
\* other sessions keep theirs.
LEMMA EndForgets ==
  ASSUME TypeOK, RunHoldsItsEvent, NEW p \in Sessions, End(p)
  PROVE  /\ locks' \in [Events -> Sessions \cup {Free}]
         /\ pc' \in [Sessions -> Phases]
         /\ event' \in [Sessions -> Events \cup {NoEvent}]
         /\ force' \in [Sessions -> BOOLEAN]
         /\ previous' \in [Sessions -> Recorded]
         /\ gated' \in [Sessions -> BOOLEAN]
         /\ need' \in [Sessions -> 0..MaxStock]
         /\ pc'[p] = "idle"
         /\ \A q \in Sessions \ {p} : pc[q] # "idle" =>
              /\ event'[q] = event[q] /\ previous'[q] = previous[q]
              /\ event[q] \in Events /\ locks'[event[q]] = q
         /\ \A q \in Sessions \ {p} : pc'[q] = pc[q]
<1>1. MaxStock \in Nat /\ 0 \in 0..MaxStock
  BY PosAssumption
<1>2. "pending" \in Recorded /\ "idle" \in Phases
  BY DEF Recorded, Phases
<1>3. /\ locks' \in [Events -> Sessions \cup {Free}]
      /\ pc' \in [Sessions -> Phases]
      /\ event' \in [Sessions -> Events \cup {NoEvent}]
      /\ force' \in [Sessions -> BOOLEAN]
      /\ previous' \in [Sessions -> Recorded]
      /\ gated' \in [Sessions -> BOOLEAN]
      /\ need' \in [Sessions -> 0..MaxStock]
  BY <1>1, <1>2 DEF End, TypeOK
<1>4. pc'[p] = "idle" /\ \A q \in Sessions \ {p} : pc'[q] = pc[q]
  BY DEF End, TypeOK
<1>5. ASSUME NEW q \in Sessions \ {p}, pc[q] # "idle"
      PROVE  /\ event'[q] = event[q] /\ previous'[q] = previous[q]
             /\ event[q] \in Events /\ locks'[event[q]] = q
  <2>1. event[q] \in Events /\ locks[event[q]] = q
    BY <1>5 DEF RunHoldsItsEvent
  <2>2. QED
    BY <2>1 DEF End, TypeOK
<1>6. QED
  BY <1>3, <1>4, <1>5

\* A step that ends the run of one session and touches no event but the one
\* it held.
LEMMA EndKeepsRuns ==
  ASSUME TypeOK, RunHoldsItsEvent, NEW p \in Sessions, End(p),
         \A e \in Events : locks[e] # p => status'[e] = status[e]
  PROVE  RunHoldsItsEvent'
<1> SUFFICES ASSUME NEW q \in Sessions, pc'[q] # "idle"
             PROVE  /\ event'[q] \in Events
                    /\ locks'[event'[q]] = q
                    /\ status'[event'[q]] = previous'[q]
                    /\ previous'[q] \in Open
  BY DEF RunHoldsItsEvent, Open, Terminal, Recorded
<1>1. q # p /\ pc[q] # "idle"
  BY EndForgets
<1>2. /\ event[q] \in Events /\ locks[event[q]] = q
      /\ status[event[q]] = previous[q] /\ previous[q] \in Open
  BY <1>1 DEF RunHoldsItsEvent
<1>3. event'[q] = event[q] /\ previous'[q] = previous[q] /\ locks'[event[q]] = q
  BY <1>1, EndForgets
<1>4. status'[event[q]] = status[event[q]]
  BY <1>1, <1>2
<1>5. QED
  BY <1>2, <1>3, <1>4

\* A run that commits a new status.
LEMMA FinalizeKeepsInv ==
  ASSUME IInv, NEW p \in Sessions, pc[p] # "idle",
         NEW to \in Recorded \ {"pending", "pending_approval"},
         NEW moved \in 0..stock, moved > 0 => to = "processed",
         Finalize(p, to, moved)
  PROVE  IInv'
<1> DEFINE e == event[p]
<1>1. /\ TypeOK /\ RunHoldsItsEvent /\ History
      /\ e \in Events /\ locks[e] = p /\ status[e] = previous[p] /\ status[e] \in Open
  BY DEF IInv, RunHoldsItsEvent
<1>2. moved \in Nat /\ stock \in 0..MaxStock /\ MaxStock \in Nat
  BY <1>1, PosAssumption DEF TypeOK
<1>3. /\ Transition(e, status[e], to, moved)
      /\ taken' = [taken EXCEPT ![e] = @ + moved]
      /\ stock' = stock - moved
      /\ End(p) /\ UNCHANGED <<settings, starts, queued>>
  BY <1>1 DEF Finalize
<1>4. History' /\ audit' \in [Events -> Seq(AuditRow)] /\ taken' \in [Events -> Nat]
  <2> HIDE DEF e
  <2>1. QED
    BY <1>1, <1>2, <1>3, TransitionKeepsHistory
<1>5. stock' \in 0..MaxStock
  BY <1>2, <1>3
<1>6. status' \in [Events -> Recorded \cup {"none"}]
      /\ \A x \in Events : locks[x] # p => status'[x] = status[x]
  BY <1>1, <1>3 DEF Transition, TypeOK
<1>7. TypeOK'
  BY <1>1, <1>3, <1>4, <1>5, <1>6, EndForgets DEF TypeOK, settings
<1>8. RunHoldsItsEvent'
  BY <1>1, <1>3, <1>6, EndKeepsRuns
<1>9. QED
  BY <1>4, <1>7, <1>8 DEF IInv

\* A run that dies.
LEMMA RollbackKeepsInv ==
  ASSUME IInv, NEW p \in Sessions, Rollback(p)
  PROVE  IInv'
<1>1. TypeOK /\ RunHoldsItsEvent /\ History
  BY DEF IInv
<1>2. End(p) /\ UNCHANGED <<settings, stock, eventRow, starts, queued>>
  BY DEF Rollback
<1>3. TypeOK'
  BY <1>1, <1>2, EndForgets DEF TypeOK, settings, eventRow
<1>4. RunHoldsItsEvent'
  BY <1>1, <1>2, EndKeepsRuns DEF eventRow
<1>5. History'
  BY <1>1, <1>2, RowsUnchanged
<1>6. QED
  BY <1>3, <1>4, <1>5 DEF IInv

\* A run that parks its event: no audit row, and nothing was taken.
LEMMA AwaitApprovalKeepsInv ==
  ASSUME IInv, NEW p \in Sessions, pc[p] # "idle", AwaitApproval(p)
  PROVE  IInv'
<1> DEFINE e == event[p]
<1>1. /\ TypeOK /\ RunHoldsItsEvent /\ History
      /\ e \in Events /\ locks[e] = p /\ status[e] \in Open
  BY DEF IInv, RunHoldsItsEvent
<1>2. /\ status' = [status EXCEPT ![e] = "pending_approval"]
      /\ End(p) /\ UNCHANGED <<settings, stock, taken, audit, starts, queued>>
  BY DEF AwaitApproval
<1>3. /\ status' \in [Events -> Recorded \cup {"none"}]
      /\ status'[e] = "pending_approval"
      /\ \A x \in Events : x # e => status'[x] = status[x]
  BY <1>1, <1>2 DEF TypeOK, Recorded
<1>4. TypeOK'
  BY <1>1, <1>2, <1>3, EndForgets DEF TypeOK, settings
<1>5. RunHoldsItsEvent'
  BY <1>1, <1>2, <1>3, EndKeepsRuns
<1>6. taken[e] = 0
  BY <1>1 DEF History, TakenByLastRow, TypeOK, Open, Terminal
<1>7. History'
  BY <1>1, <1>2, <1>3, <1>6
     DEF History, StatusIsAudited, RowsFollow, TakenByLastRow, LastRow
<1>8. QED
  BY <1>4, <1>5, <1>7 DEF IInv

\* A run that goes on.
LEMMA GotoKeepsInv ==
  ASSUME IInv, NEW p \in Sessions, pc[p] # "idle", NEW phase \in Phases,
         Goto(p, phase), need' \in [Sessions -> 0..MaxStock]
  PROVE  IInv'
<1>1. TypeOK /\ RunHoldsItsEvent /\ History
  BY DEF IInv
<1>2. TypeOK'
  BY <1>1 DEF Goto, TypeOK, settings, eventRow
<1>3. RunHoldsItsEvent'
  BY <1>1 DEF Goto, TypeOK, RunHoldsItsEvent, eventRow
<1>4. History'
  BY <1>1, RowsUnchanged DEF Goto
<1>5. QED
  BY <1>2, <1>3, <1>4 DEF IInv

\* A run that starts.
LEMMA LoadKeepsInv ==
  ASSUME IInv, NEW p \in Sessions, NEW e \in Events, NEW f \in BOOLEAN, Load(p, e, f),
         starts' \in [Events -> 0..MaxStarts], queued' \subseteq Events
  PROVE  IInv'
<1>1. TypeOK /\ RunHoldsItsEvent /\ History
  BY DEF IInv
<1>2. /\ pc[p] = "idle" /\ locks[e] = Free /\ status[e] \in Open
      /\ locks' = [locks EXCEPT ![e] = p]
      /\ pc' = [pc EXCEPT ![p] = "token"]
      /\ event' = [event EXCEPT ![p] = e]
      /\ force' = [force EXCEPT ![p] = f]
      /\ previous' = [previous EXCEPT ![p] = status[e]]
      /\ gated' = [gated EXCEPT ![p] = manual]
      /\ UNCHANGED <<settings, stock, eventRow, need>>
  BY DEF Load, Open
<1>3. TypeOK'
  BY <1>1, <1>2 DEF TypeOK, settings, eventRow, Phases, Open
<1>4. RunHoldsItsEvent'
  <2> SUFFICES ASSUME NEW q \in Sessions, pc'[q] # "idle"
               PROVE  /\ event'[q] \in Events
                      /\ locks'[event'[q]] = q
                      /\ status'[event'[q]] = previous'[q]
                      /\ previous'[q] \in Open
    BY DEF RunHoldsItsEvent, Open, Terminal, Recorded
  <2>1. CASE q = p
    BY <1>1, <1>2, <2>1 DEF TypeOK, eventRow
  <2>2. CASE q # p
    <3>1. pc[q] # "idle" /\ event'[q] = event[q] /\ previous'[q] = previous[q]
      BY <1>1, <1>2, <2>2 DEF TypeOK
    <3>2. /\ event[q] \in Events /\ locks[event[q]] = q
          /\ status[event[q]] = previous[q] /\ previous[q] \in Open
      BY <1>1, <3>1 DEF RunHoldsItsEvent
    <3>3. event[q] # e
      BY <1>2, <3>2, PosAssumption
    <3>4. QED
      BY <1>1, <1>2, <3>1, <3>2, <3>3 DEF TypeOK, eventRow
  <2>3. QED
    BY <2>1, <2>2
<1>5. History'
  BY <1>1, <1>2, RowsUnchanged
<1>6. QED
  BY <1>3, <1>4, <1>5 DEF IInv

\* An event nobody holds is closed as ignored, by a dismissal or because its
\* integration is inactive.
LEMMA IgnoreKeepsInv ==
  ASSUME IInv, NEW e \in Events, locks[e] = Free, status[e] \in Open,
         Transition(e, status[e], "ignored", 0),
         UNCHANGED <<settings, stock, taken, locks, pc, run>>,
         starts' \in [Events -> 0..MaxStarts], queued' \subseteq Events
  PROVE  IInv'
<1>1. TypeOK /\ RunHoldsItsEvent /\ History
  BY DEF IInv
<1>2. "ignored" \in Recorded \ {"pending", "pending_approval"}
  BY DEF Recorded, Terminal
<1>3. 0 \in Nat /\ ~(0 > 0) /\ taken' = [taken EXCEPT ![e] = @ + 0]
  BY <1>1 DEF TypeOK
<1>4. History' /\ audit' \in [Events -> Seq(AuditRow)]
  BY <1>1, <1>2, <1>3, TransitionKeepsHistory, Zenon
<1>5. /\ status' \in [Events -> Recorded \cup {"none"}]
      /\ \A x \in Events : x # e => status'[x] = status[x]
  BY <1>1, <1>2 DEF Transition, TypeOK
<1>6. TypeOK'
  BY <1>1, <1>4, <1>5 DEF TypeOK, settings, run
<1>7. RunHoldsItsEvent'
  <2>1. \A q \in Sessions : pc[q] # "idle" => event[q] # e
    BY <1>1, PosAssumption DEF RunHoldsItsEvent
  <2>2. QED
    BY <1>1, <1>5, <2>1 DEF RunHoldsItsEvent, run
<1>8. QED
  BY <1>4, <1>6, <1>7 DEF IInv
-----------------------------------------------------------------------------
\* Requests on the settings, the shelf and the queue touch no event.
LEMMA SettingsKeepInv ==
  ASSUME IInv, TypeOK', UNCHANGED <<eventRow, locks, pc, run>>
  PROVE  IInv'
<1>1. RunHoldsItsEvent'
  BY DEF IInv, RunHoldsItsEvent, eventRow, run
<1>2. History'
  BY RowsUnchanged DEF IInv
<1>3. QED
  BY <1>1, <1>2 DEF IInv

\* A first delivery: no run can hold an event that was not there.
LEMMA AcceptKeepsInv ==
  ASSUME IInv, NEW e \in Events, Accept(e)
  PROVE  IInv'
<1>1. TypeOK /\ RunHoldsItsEvent /\ History
  BY DEF IInv
<1>2. /\ status[e] = "none"
      /\ status' = [status EXCEPT ![e] = "pending"]
      /\ queued' = queued \cup {e}
      /\ UNCHANGED <<settings, stock, taken, audit, starts, locks, pc, run>>
  BY DEF Accept
<1>3. /\ status' \in [Events -> Recorded \cup {"none"}]
      /\ status'[e] = "pending"
      /\ \A x \in Events : x # e => status'[x] = status[x]
  BY <1>1, <1>2 DEF TypeOK, Recorded
<1>4. TypeOK'
  BY <1>1, <1>2, <1>3 DEF TypeOK, settings, run
<1>5. RunHoldsItsEvent'
  <2>1. \A q \in Sessions : pc[q] # "idle" => event[q] # e
    BY <1>1, <1>2 DEF RunHoldsItsEvent, Open, Recorded, Terminal
  <2>2. QED
    BY <1>1, <1>2, <1>3, <2>1 DEF RunHoldsItsEvent, run
<1>6. taken[e] = 0 /\ audit[e] = <<>>
  <2>1. audit[e] = <<>>
    BY <1>1, <1>2 DEF History, StatusIsAudited
  <2>2. taken[e] \in Nat /\ ~(taken[e] > 0)
    BY <1>1, <1>2 DEF History, TakenByLastRow, TypeOK
  <2>3. QED
    BY <2>1, <2>2
<1>7. History'
  BY <1>1, <1>2, <1>3, <1>6
     DEF History, StatusIsAudited, RowsFollow, TakenByLastRow, LastRow
<1>8. QED
  BY <1>4, <1>5, <1>7 DEF IInv

\* A restart forgets every run and every queued task, and keeps the rows.
LEMMA CrashKeepsInv ==
  ASSUME IInv, Crash
  PROVE  IInv'
<1>1. TypeOK /\ RunHoldsItsEvent /\ History
  BY DEF IInv
<1>2. MaxStock \in Nat /\ 0 \in 0..MaxStock
  BY PosAssumption
<1>3. TypeOK'
  BY <1>1, <1>2 DEF Crash, TypeOK, settings, eventRow, Recorded, Phases
<1>4. RunHoldsItsEvent'
  BY DEF Crash, RunHoldsItsEvent
<1>5. History'
  BY <1>1, RowsUnchanged DEF Crash
<1>6. QED
  BY <1>3, <1>4, <1>5 DEF IInv

\* The steps of a run.
LEMMA ProcessKeepsInv ==
  ASSUME IInv, NEW p \in Sessions, Process(p)
  PROVE  IInv'
<1>1. TypeOK /\ RunHoldsItsEvent /\ need \in [Sessions -> 0..MaxStock]
      /\ stock \in 0..MaxStock /\ MaxStock \in Nat /\ 0 \in 0..stock
  BY PosAssumption DEF IInv, TypeOK
<1>2. {"failed", "ignored", "processed", "needs_mapping", "insufficient_stock"}
        \subseteq Recorded \ {"pending", "pending_approval"}
  BY DEF Recorded, Terminal
<1>3. {"enrich", "plan", "deduct"} \subseteq Phases
  BY DEF Phases
<1>4. ASSUME pc[p] # "idle", NEW to \in Recorded \ {"pending", "pending_approval"},
             Finalize(p, to, 0)
      PROVE  IInv'
  <2>1. 0 \in 0..stock /\ ~(0 > 0)
    BY <1>1
  <2>2. QED
    BY <1>4, <2>1, FinalizeKeepsInv, Zenon
<1>5. CASE ReadToken(p)
  <2>1. pc[p] # "idle"
    BY <1>5 DEF ReadToken
  <2>2. CASE Finalize(p, "failed", 0)
    BY <1>2, <1>4, <2>1, <2>2
  <2>3. CASE Goto(p, "enrich") /\ UNCHANGED need
    BY <1>1, <1>3, <2>1, <2>3, GotoKeepsInv
  <2>4. QED
    BY <1>5, <2>2, <2>3 DEF ReadToken
<1>6. CASE DecryptFails(p)
  BY <1>6, RollbackKeepsInv DEF DecryptFails
<1>7. CASE Enrich(p)
  <2>1. pc[p] # "idle"
    BY <1>7 DEF Enrich
  <2>2. CASE Finalize(p, "failed", 0)
    BY <1>2, <1>4, <2>1, <2>2
  <2>3. CASE Finalize(p, "ignored", 0)
    BY <1>2, <1>4, <2>1, <2>3
  <2>4. CASE Goto(p, "plan") /\ UNCHANGED need
    BY <1>1, <1>3, <2>1, <2>4, GotoKeepsInv
  <2>5. QED
    BY <1>7, <2>2, <2>3, <2>4 DEF Enrich
<1>8. CASE Plan(p)
  <2> DEFINE e == event[p]
             n == Cardinality(Mapped(e, "recipe"))
  <2>1. pc[p] # "idle" /\ e \in Events
    BY <1>1, <1>8 DEF Plan, RunHoldsItsEvent
  <2>2. n \in Nat
    <3>1. IsFiniteSet(ItemsOf[e]) /\ Mapped(e, "recipe") \subseteq ItemsOf[e]
      BY <2>1, PosAssumption DEF Mapped
    <3>2. QED
      BY <3>1, FS_Subset, FS_CardinalityType
  <2>3. \/ Finalize(p, "needs_mapping", 0)
        \/ Finalize(p, "processed", 0)
        \/ Finalize(p, "insufficient_stock", 0)
        \/ AwaitApproval(p)
        \/ n > 0 /\ stock >= n /\ Goto(p, "deduct") /\ need' = [need EXCEPT ![p] = n]
    BY <1>8 DEF Plan
  <2> HIDE DEF n
  <2>4. CASE Finalize(p, "needs_mapping", 0)
    BY <1>2, <1>4, <2>1, <2>4
  <2>5. CASE Finalize(p, "processed", 0)
    BY <1>2, <1>4, <2>1, <2>5
  <2>6. CASE Finalize(p, "insufficient_stock", 0)
    BY <1>2, <1>4, <2>1, <2>6
  <2>7. CASE AwaitApproval(p)
    BY <2>1, <2>7, AwaitApprovalKeepsInv
  <2>8. CASE stock >= n /\ Goto(p, "deduct") /\ need' = [need EXCEPT ![p] = n]
    <3>1. need' \in [Sessions -> 0..MaxStock]
      BY <1>1, <2>2, <2>8
    <3>2. QED
      BY <1>3, <2>1, <2>8, <3>1, GotoKeepsInv
  <2>9. QED
    BY <2>3, <2>4, <2>5, <2>6, <2>7, <2>8
<1>9. CASE Deduct(p)
  <2>1. pc[p] # "idle" /\ need[p] \in 0..stock /\ Finalize(p, "processed", need[p])
    BY <1>1, <1>9 DEF Deduct
  <2>2. QED
    BY <1>2, <2>1, FinalizeKeepsInv
<1>10. CASE DeductShort(p)
  BY <1>10, RollbackKeepsInv DEF DeductShort
<1>11. QED
  BY <1>5, <1>6, <1>7, <1>8, <1>9, <1>10 DEF Process

\* The steps that start a run, and those that close an event without one.
LEMMA StartKeepsInv ==
  ASSUME IInv, NEW p \in Sessions, NEW e \in Events, NEW f \in BOOLEAN,
         RunInBackground(p, e) \/ RunByOperator(p, e, f)
  PROVE  IInv'
<1>1. TypeOK /\ MaxStarts \in Nat
  BY PosAssumption DEF IInv
<1>2. starts' \in [Events -> 0..MaxStarts] /\ queued' \subseteq Events
  <2>1. starts \in [Events -> 0..MaxStarts] /\ queued \subseteq Events
    BY <1>1 DEF TypeOK
  <2>2. \/ queued' = queued \ {e} /\ starts' = starts
        \/ starts[e] < MaxStarts /\ starts' = [starts EXCEPT ![e] = @ + 1] /\ queued' = queued
    BY DEF RunInBackground, RunByOperator
  <2>3. QED
    BY <1>1, <2>1, <2>2
<1>3. CASE Load(p, e, FALSE) \/ Load(p, e, f)
  BY <1>2, <1>3, LoadKeepsInv
<1>4. CASE LoadInactive(e)
  <2>1. /\ locks[e] = Free /\ status[e] \in Open
        /\ Transition(e, status[e], "ignored", 0)
        /\ UNCHANGED <<settings, stock, taken, locks, pc, run>>
    BY <1>4 DEF LoadInactive, Open
  <2>2. QED
    BY <1>2, <2>1, IgnoreKeepsInv
<1>5. CASE UNCHANGED <<settings, stock, eventRow, locks, pc, run>>
  <2>1. TypeOK'
    BY <1>1, <1>2, <1>5 DEF TypeOK, settings, eventRow, run
  <2>2. QED
    BY <1>5, <2>1, SettingsKeepInv
<1>6. QED
  BY <1>3, <1>4, <1>5 DEF RunInBackground, RunByOperator

LEMMA DismissKeepsInv ==
  ASSUME IInv, NEW e \in Events, Dismiss(e)
  PROVE  IInv'
<1>1. TypeOK /\ MaxStarts \in Nat
  BY PosAssumption DEF IInv
<1>2. starts' \in [Events -> 0..MaxStarts] /\ queued' \subseteq Events
  BY <1>1 DEF Dismiss, TypeOK
<1>3. /\ locks[e] = Free /\ status[e] \in Open
      /\ Transition(e, status[e], "ignored", 0)
      /\ UNCHANGED <<settings, stock, taken, locks, pc, run>>
  BY DEF Dismiss, Open
<1>4. QED
  BY <1>2, <1>3, IgnoreKeepsInv

LEMMA InitInv == Init => IInv
<1> SUFFICES ASSUME Init PROVE IInv
  OBVIOUS
<1>1. MaxStock \in Nat /\ MaxStarts \in Nat
  BY PosAssumption
<1>2. TypeOK
  BY <1>1 DEF Init, TypeOK, Tokens, Targets, Recorded, Phases
<1>3. RunHoldsItsEvent /\ History
  BY DEF Init, RunHoldsItsEvent, History, StatusIsAudited, RowsFollow, TakenByLastRow
<1>4. QED
  BY <1>2, <1>3 DEF IInv

LEMMA NextKeepsInv == IInv /\ [Next]_vars => IInv'
<1> SUFFICES ASSUME IInv, [Next]_vars PROVE IInv'
  OBVIOUS
<1> USE DEF IInv
<1>1. ASSUME NEW a \in BOOLEAN, NEW m \in BOOLEAN, UpdateIntegration(a, m) PROVE IInv'
  <2>1. TypeOK'
    BY <1>1 DEF UpdateIntegration, TypeOK, eventRow, run
  <2>2. QED
    BY <1>1, <2>1, SettingsKeepInv DEF UpdateIntegration
<1>2. CASE SetCredentials
  <2>1. TypeOK'
    BY <1>2 DEF SetCredentials, TypeOK, Tokens, eventRow, run
  <2>2. QED
    BY <1>2, <2>1, SettingsKeepInv DEF SetCredentials
<1>3. CASE ChangeKey
  <2>1. TypeOK'
    BY <1>3 DEF ChangeKey, TypeOK, Tokens, eventRow, run
  <2>2. QED
    BY <1>3, <2>1, SettingsKeepInv DEF ChangeKey
<1>4. ASSUME NEW i \in Items, NEW t \in Targets, EditMapping(i, t) PROVE IInv'
  <2>1. TypeOK'
    BY <1>4 DEF EditMapping, TypeOK, eventRow, run
  <2>2. QED
    BY <1>4, <2>1, SettingsKeepInv DEF EditMapping
<1>5. ASSUME NEW n \in 0..MaxStock, OtherMovement(n) PROVE IInv'
  <2>1. TypeOK'
    BY <1>5 DEF OtherMovement, TypeOK, settings, eventRow, run
  <2>2. QED
    BY <1>5, <2>1, SettingsKeepInv DEF OtherMovement
<1>6. ASSUME NEW e \in Events, Accept(e) PROVE IInv'
  BY <1>6, AcceptKeepsInv
<1>7. ASSUME NEW e \in Events, Dismiss(e) PROVE IInv'
  BY <1>7, DismissKeepsInv
<1>8. ASSUME NEW e \in Events, NEW p \in Sessions, RunInBackground(p, e) PROVE IInv'
  BY <1>8, StartKeepsInv
<1>9. ASSUME NEW e \in Events, NEW p \in Sessions, NEW f \in BOOLEAN, RunByOperator(p, e, f)
      PROVE  IInv'
  BY <1>9, StartKeepsInv
<1>10. ASSUME NEW p \in Sessions, Process(p) PROVE IInv'
  BY <1>10, ProcessKeepsInv
<1>11. ASSUME NEW p \in Sessions, Rollback(p) PROVE IInv'
  BY <1>11, RollbackKeepsInv
<1>12. CASE Crash
  BY <1>12, CrashKeepsInv
<1>13. CASE UNCHANGED vars
  <2>1. TypeOK'
    BY <1>13 DEF vars, TypeOK, settings, eventRow, run
  <2>2. QED
    BY <1>13, <2>1, SettingsKeepInv DEF vars
<1>14. QED
  BY <1>1, <1>2, <1>3, <1>4, <1>5, <1>6, <1>7, <1>8, <1>9, <1>10, <1>11, <1>12, <1>13
     DEF Next

LEMMA Inductive == Spec => []IInv
<1>1. QED
  BY InitInv, NextKeepsInv, PTL DEF Spec
-----------------------------------------------------------------------------
\* A status changes only by a step that holds its event or finds it free, and
\* open: an event that was processed or ignored is never touched again.
LEMMA ClosedStaysClosed ==
  IInv /\ [Next]_vars => \A e \in Events : status[e] \in Terminal => status'[e] = status[e]
<1> SUFFICES ASSUME IInv, [Next]_vars, NEW e \in Events, status[e] \in Terminal
             PROVE  status'[e] = status[e]
  OBVIOUS
<1>1. TypeOK /\ RunHoldsItsEvent /\ status \in [Events -> Recorded \cup {"none"}]
      /\ status[e] \notin Open /\ status[e] # "none"
  BY DEF IInv, TypeOK, Open, Terminal
<1>2. ASSUME NEW x \in Events, status[x] \in Open \cup {"none"}, NEW s,
             status' = [status EXCEPT ![x] = s]
      PROVE  status'[e] = status[e]
  BY <1>1, <1>2
<1>3. ASSUME NEW p \in Sessions, pc[p] # "idle"
      PROVE  event[p] \in Events /\ status[event[p]] \in Open
  BY <1>1, <1>3 DEF RunHoldsItsEvent
<1>4. ASSUME NEW p \in Sessions, Process(p) PROVE status'[e] = status[e]
  <2>1. pc[p] # "idle"
    BY <1>4 DEF Process, ReadToken, DecryptFails, Enrich, Plan, Deduct, DeductShort
  <2>2. status' = status \/ \E s \in Recorded : status' = [status EXCEPT ![event[p]] = s]
    BY <1>4 DEF Process, ReadToken, DecryptFails, Enrich, Plan, Deduct, DeductShort, Rollback,
                Finalize, Transition, AwaitApproval, Goto, eventRow, Recorded, Terminal
  <2>3. QED
    BY <1>2, <1>3, <2>1, <2>2
<1>5. ASSUME NEW x \in Events, NEW p \in Sessions, NEW f \in BOOLEAN,
             RunInBackground(p, x) \/ RunByOperator(p, x, f)
      PROVE  status'[e] = status[e]
  <2>1. \/ UNCHANGED eventRow
        \/ status[x] \in Open /\ status' = [status EXCEPT ![x] = "ignored"]
    BY <1>5 DEF RunInBackground, RunByOperator, Load, LoadInactive, Transition, Open
  <2>2. QED
    BY <1>2, <2>1 DEF eventRow
<1>6. ASSUME NEW x \in Events, Accept(x) \/ Dismiss(x) PROVE status'[e] = status[e]
  <2>1. status[x] \in Open \cup {"none"} /\ \E s \in Recorded : status' = [status EXCEPT ![x] = s]
    BY <1>6 DEF Accept, Dismiss, Transition, Open, Recorded, Terminal
  <2>2. QED
    BY <1>2, <2>1
<1>7. CASE UNCHANGED status
  BY <1>7
<1>8. QED
  BY <1>4, <1>5, <1>6, <1>7
     DEF Next, UpdateIntegration, SetCredentials, ChangeKey, EditMapping, OtherMovement,
         Rollback, Crash, eventRow, vars

\* The types hold: no order takes more than the shelf has, although the stock
\* is looked at before it is taken.
THEOREM TypeCorrect == Spec => []TypeOK
<1>1. IInv => TypeOK
  BY DEF IInv
<1>2. QED
  BY Inductive, <1>1, PTL

\* The units of a sale leave the stock at most once, by the row that closes its
\* event, however often it is delivered, retried, approved or dismissed.
THEOREM SoldOnce == Spec => []TakenOnce
<1>1. IInv => TakenOnce
  BY DEF IInv, History, TakenByLastRow, TakenOnce, LastRow
<1>2. QED
  BY Inductive, <1>1, PTL

\* The audit rows of an event follow on each other, down to its status.
THEOREM AuditTellsHistory == Spec => []AuditTimeline
<1>1. IInv => AuditTimeline
  BY DEF IInv, History, StatusIsAudited, RowsFollow, AuditTimeline, LastRow
<1>2. QED
  BY Inductive, <1>1, PTL

\* A processed or ignored event stays so.
THEOREM ClosedForGood == Spec => TerminalIsFinal
<1>1. IInv /\ [Next]_vars =>
        [\A e \in Events : status[e] \in Terminal => status'[e] = status[e]]_vars
  BY ClosedStaysClosed
<1>2. QED
  BY Inductive, <1>1, PTL DEF Spec, TerminalIsFinal
=============================================================================
