--------------------------- MODULE InvoiceProofs ---------------------------
(***************************************************************************)
(* Proofs about Invoices, for any sets of sessions, lines and decisions.   *)
(*                                                                         *)
(* Types hold whoever works on the invoice.  The rest holds when one       *)
(* session at a time reads it with OCR and one at a time reviews it, and a *)
(* body decides once on each line: the status then says who may be between *)
(* its check and its write, so that a status found at the check is still   *)
(* that of the row when the write comes, or the row is gone.               *)
(***************************************************************************)
EXTENDS Invoices, FiniteSetTheorems, TLAPS

\* One session at a time serves each kind of request.
OneAtATime ==
  /\ \A p, q \in Processors : p = q
  /\ \A p, q \in Reviewers : p = q

\* A body decides once on a line.
OneDecisionPerLine == Decisions \subseteq {<<"confirm">>, <<"reject">>}

\* Where the two kinds of sessions can be.
RolesKept ==
  /\ \A p \in Processors : pc[p] \in {"idle", "mark", "refresh", "extract"}
  /\ \A p \in Reviewers : pc[p] \in {"idle", "confirm", "delete"}

\* What the status says of a session that reads the invoice ...
ProcessorInStep ==
  \A p \in Processors :
    /\ pc[p] = "mark" => status \in {"uploaded", "deleted"}
    /\ pc[p] \in {"refresh", "extract"} => status \in {"processing", "deleted"}
    /\ pc[p] = "extract" => seen[p] = "processing"

\* ... and of one that reviews it, whose view of the lines is up to date.
ReviewerInStep ==
  \A p \in Reviewers :
    /\ pc[p] = "confirm" => status = "needs_review" /\ view[p] = LinesNow
    /\ pc[p] = "delete" => status # "confirmed"

\* What the status says of the lines.
LinesInStep ==
  \A l \in Lines :
    /\ status \in {"none", "uploaded", "processing"} => line[l] = "none"
    /\ status = "needs_review" => line[l] \in {"none", "suggested"}
    /\ status = "deleted" => line[l] \in {"none", "deleted"}

IInv == TypeOK /\ RolesKept /\ ProcessorInStep /\ ReviewerInStep /\ LinesInStep /\ OneLotPerConfirmedLine
-----------------------------------------------------------------------------
\* A body names a line a natural number of times to confirm it.
LEMMA ConfirmsAreNatural ==
  ASSUME NEW d \in Decisions
  PROVE  Cardinality({k \in DOMAIN d : d[k] = "confirm"}) \in Nat
<1>1. d \in Seq({"confirm", "reject"})
  BY InvoiceAssumption
<1>2. Len(d) \in Nat /\ DOMAIN d = 1..Len(d)
  BY <1>1
<1>3. IsFiniteSet(1..Len(d))
  BY <1>2, FS_Interval
<1>4. {k \in DOMAIN d : d[k] = "confirm"} \subseteq 1..Len(d)
  BY <1>2
<1>5. QED
  BY <1>3, <1>4, FS_Subset, FS_CardinalityType

\* With one decision on the line, that is once or never, as it says.
LEMMA OneDecisionConfirmsOnce ==
  ASSUME OneDecisionPerLine, NEW d \in Decisions
  PROVE  Cardinality({k \in DOMAIN d : d[k] = "confirm"}) = IF Last(d) = "confirm" THEN 1 ELSE 0
<1>1. CASE d = <<"confirm">>
  <2>1. {k \in DOMAIN d : d[k] = "confirm"} = {1}
    BY <1>1
  <2>2. Last(d) = "confirm"
    BY <1>1 DEF Last
  <2>3. QED
    BY <2>1, <2>2, FS_Singleton
<1>2. CASE d = <<"reject">>
  <2>1. {k \in DOMAIN d : d[k] = "confirm"} = {}
    BY <1>2
  <2>2. Last(d) = "reject"
    BY <1>2 DEF Last
  <2>3. QED
    BY <2>1, <2>2, FS_EmptySet
<1>3. QED
  BY <1>1, <1>2 DEF OneDecisionPerLine
-----------------------------------------------------------------------------
\* Every step keeps the types, whatever the sessions do to each other.
LEMMA NextKeepsTypes ==
  ASSUME TypeOK, [Next]_vars
  PROVE  TypeOK'
<1> USE DEF TypeOK, Status, LineState, Phases, Sessions, LinesNow, Goto, End, row
<1>1. CASE Upload
  BY <1>1 DEF Upload
<1>2. ASSUME NEW p \in Processors,
             \/ ReadToProcess(p) \/ Mark(p) \/ Refresh(p) \/ ExtractFails(p)
             \/ \E new \in SUBSET Lines : Extract(p, new)
      PROVE  TypeOK'
  <2>1. CASE ReadToProcess(p)
    BY <2>1 DEF ReadToProcess
  <2>2. CASE Mark(p)
    BY <2>2 DEF Mark
  <2>3. CASE Refresh(p)
    BY <2>3 DEF Refresh
  <2>4. CASE ExtractFails(p)
    BY <2>4 DEF ExtractFails
  <2>5. ASSUME NEW new \in SUBSET Lines, Extract(p, new)
        PROVE  TypeOK'
    BY <2>5 DEF Extract
  <2>6. QED
    BY <1>2, <2>1, <2>2, <2>3, <2>4, <2>5
<1>3. ASSUME NEW p \in Reviewers,
             \/ ReadToConfirm(p) \/ ReadToDelete(p) \/ Delete(p)
             \/ \E d \in [view[p] -> Decisions] : Confirm(p, d)
      PROVE  TypeOK'
  <2>1. CASE ReadToConfirm(p)
    BY <2>1 DEF ReadToConfirm
  <2>2. CASE ReadToDelete(p)
    BY <2>2 DEF ReadToDelete
  <2>3. CASE Delete(p)
    BY <2>3 DEF Delete
  <2>4. ASSUME NEW d \in [view[p] -> Decisions], Confirm(p, d)
        PROVE  TypeOK'
    <3>1. \A l \in view[p] : Cardinality({k \in DOMAIN d[l] : d[l][k] = "confirm"}) \in Nat
      BY ConfirmsAreNatural
    <3>2. lots' \in [Lines -> Nat]
      BY <2>4, <3>1 DEF Confirm
    <3>3. QED
      BY <2>4, <3>2 DEF Confirm
  <2>5. QED
    BY <1>3, <2>1, <2>2, <2>3, <2>4
<1>4. ASSUME NEW p \in Sessions, Die(p)
      PROVE  TypeOK'
  BY <1>4 DEF Die
<1>5. CASE UNCHANGED vars
  BY <1>5 DEF vars
<1>6. QED
  BY <1>1, <1>2, <1>3, <1>4, <1>5 DEF Next

\* Types: the invoice, its lines and the requests are only ever in the states
\* the code names, for any sessions, lines and decisions.
THEOREM InvoiceTypes == Spec => []TypeOK
<1>1. Init => TypeOK
  BY DEF Init, TypeOK, Status, LineState, Phases, Sessions
<1>2. TypeOK /\ [Next]_vars => TypeOK'
  BY NextKeepsTypes
<1>3. QED
  BY <1>1, <1>2, PTL DEF Spec
-----------------------------------------------------------------------------
\* A session that ends leaves the others as they were; the row did not change.
LEMMA DieKeepsInv ==
  ASSUME IInv, NEW p \in Sessions, End(p), UNCHANGED row
  PROVE  IInv'
<1> USE DEF IInv, End, Goto, row, TypeOK
<1>1. TypeOK'
  BY DEF Status, Phases
<1>2. RolesKept'
  BY DEF RolesKept, Sessions
<1>3. ProcessorInStep'
  BY DEF ProcessorInStep, Sessions
<1>4. ReviewerInStep'
  BY DEF ReviewerInStep, Sessions, LinesNow
<1>5. LinesInStep' /\ OneLotPerConfirmedLine'
  BY DEF LinesInStep, OneLotPerConfirmedLine
<1>6. QED
  BY <1>1, <1>2, <1>3, <1>4, <1>5

\* What the two kinds of sessions do, one of each at a time.
LEMMA ProcessorKeepsInv ==
  ASSUME OneAtATime, IInv, TypeOK', NEW p \in Processors,
         \/ ReadToProcess(p) \/ Mark(p) \/ Refresh(p) \/ ExtractFails(p)
         \/ \E new \in SUBSET Lines : Extract(p, new)
  PROVE  IInv'
<1> USE InvoiceAssumption DEF IInv, End, Goto, row, TypeOK, Sessions, OneAtATime
<1>0. \A r \in Reviewers : r # p
  OBVIOUS
<1>1. CASE ReadToProcess(p)
  BY <1>0, <1>1 DEF ReadToProcess, RolesKept, ProcessorInStep, ReviewerInStep, LinesNow,
     LinesInStep, OneLotPerConfirmedLine
<1>2. CASE Mark(p)
  BY <1>0, <1>2 DEF Mark, RolesKept, ProcessorInStep, ReviewerInStep, LinesNow,
     LinesInStep, OneLotPerConfirmedLine
<1>3. CASE Refresh(p)
  BY <1>0, <1>3 DEF Refresh, RolesKept, ProcessorInStep, ReviewerInStep, LinesNow,
     LinesInStep, OneLotPerConfirmedLine
<1>4. CASE ExtractFails(p)
  BY <1>0, <1>4 DEF ExtractFails, RolesKept, ProcessorInStep, ReviewerInStep, LinesNow,
     LinesInStep, OneLotPerConfirmedLine
<1>5. ASSUME NEW new \in SUBSET Lines, Extract(p, new)
      PROVE  IInv'
  <2>1. status = "processing" /\ status' = "needs_review"
    BY <1>5 DEF Extract, ProcessorInStep
  <2>2. LinesInStep' /\ OneLotPerConfirmedLine'
    BY <1>5, <2>1 DEF Extract, LinesInStep, OneLotPerConfirmedLine
  <2>3. RolesKept' /\ ProcessorInStep' /\ ReviewerInStep'
    BY <1>0, <1>5, <2>1 DEF Extract, RolesKept, ProcessorInStep, ReviewerInStep
  <2>4. QED
    BY <2>2, <2>3
<1>6. QED
  BY <1>1, <1>2, <1>3, <1>4, <1>5

LEMMA ReviewerKeepsInv ==
  ASSUME OneAtATime, OneDecisionPerLine, IInv, TypeOK', NEW p \in Reviewers,
         \/ ReadToConfirm(p) \/ ReadToDelete(p) \/ Delete(p)
         \/ \E d \in [view[p] -> Decisions] : Confirm(p, d)
  PROVE  IInv'
<1> USE InvoiceAssumption DEF IInv, End, Goto, row, TypeOK, Sessions, OneAtATime
<1>0. \A q \in Processors : q # p
  OBVIOUS
<1>1. CASE ReadToConfirm(p)
  BY <1>0, <1>1 DEF ReadToConfirm, RolesKept, ProcessorInStep, ReviewerInStep, LinesNow,
     LinesInStep, OneLotPerConfirmedLine
<1>2. CASE ReadToDelete(p)
  BY <1>0, <1>2 DEF ReadToDelete, Deletable, RolesKept, ProcessorInStep, ReviewerInStep, LinesNow,
     LinesInStep, OneLotPerConfirmedLine
<1>3. CASE Delete(p)
  <2>1. \A l \in Lines : line[l] # "confirmed"
    BY <1>3 DEF Delete, ReviewerInStep, LinesInStep, Status, LineState, LinesNow
  <2>2. LinesInStep' /\ OneLotPerConfirmedLine'
    BY <1>3, <2>1 DEF Delete, LinesNow, LinesInStep, OneLotPerConfirmedLine
  <2>3. RolesKept' /\ ProcessorInStep' /\ ReviewerInStep'
    BY <1>0, <1>3 DEF Delete, RolesKept, ProcessorInStep, ReviewerInStep
  <2>4. QED
    BY <2>2, <2>3
<1>4. ASSUME NEW d \in [view[p] -> Decisions], Confirm(p, d)
      PROVE  IInv'
  <2>1. /\ status = "needs_review" /\ status' = "confirmed"
        /\ \A l \in view[p] : line[l] = "suggested" /\ lots[l] = 0
        /\ \A l \in Lines \ view[p] : line[l] = "none" /\ lots[l] = 0
    BY <1>4 DEF Confirm, ReviewerInStep, LinesInStep, LinesNow, OneLotPerConfirmedLine
  <2> DEFINE times(l) == Cardinality({k \in DOMAIN d[l] : d[l][k] = "confirm"})
  <2>2. \A l \in view[p] : times(l) = IF Last(d[l]) = "confirm" THEN 1 ELSE 0
    BY OneDecisionConfirmsOnce
  <2>3. lots' = [l \in Lines |-> lots[l] + IF l \in view[p] THEN times(l) ELSE 0]
    BY <1>4 DEF Confirm
  <2> HIDE DEF times
  <2>4. OneLotPerConfirmedLine'
    <3>1. ASSUME NEW l \in view[p]
          PROVE  lots'[l] = IF line'[l] = "confirmed" THEN 1 ELSE 0
      <4>1. l \in Lines /\ lots[l] = 0
        BY <2>1
      <4>2. lots'[l] = IF Last(d[l]) = "confirm" THEN 1 ELSE 0
        BY <2>2, <2>3, <4>1
      <4>3. line'[l] = IF Last(d[l]) = "confirm" THEN "confirmed" ELSE "rejected"
        BY <1>4, <4>1 DEF Confirm
      <4>4. QED
        BY <4>2, <4>3
    <3>2. ASSUME NEW l \in Lines \ view[p]
          PROVE  lots'[l] = 0 /\ line'[l] = "none"
      BY <1>4, <2>1, <2>3, <3>2 DEF Confirm
    <3>3. QED
      BY <3>1, <3>2 DEF OneLotPerConfirmedLine
  <2>5. LinesInStep'
    BY <2>1 DEF LinesInStep
  <2>6. RolesKept' /\ ProcessorInStep' /\ ReviewerInStep'
    BY <1>0, <1>4, <2>1 DEF Confirm, RolesKept, ProcessorInStep, ReviewerInStep
  <2>7. QED
    BY <2>4, <2>5, <2>6
<1>5. QED
  BY <1>1, <1>2, <1>3, <1>4

LEMMA NextKeepsInv ==
  ASSUME OneAtATime, OneDecisionPerLine, IInv, [Next]_vars
  PROVE  IInv'
<1>0. TypeOK'
  BY NextKeepsTypes DEF IInv
<1>1. CASE Upload
  BY <1>0, <1>1 DEF Upload, IInv, RolesKept, ProcessorInStep, ReviewerInStep, LinesNow, LinesInStep,
     OneLotPerConfirmedLine
<1>2. ASSUME NEW p \in Sessions, Die(p)
      PROVE  IInv'
  BY <1>2, DieKeepsInv DEF Die
<1>3. CASE UNCHANGED vars
  BY <1>0, <1>3 DEF vars, row, IInv, RolesKept, ProcessorInStep, ReviewerInStep, LinesNow, LinesInStep,
     OneLotPerConfirmedLine
<1>4. QED
  BY <1>0, <1>1, <1>2, <1>3, ProcessorKeepsInv, ReviewerKeepsInv DEF Next

LEMMA Inductive ==
  ASSUME OneAtATime, OneDecisionPerLine
  PROVE  Spec => []IInv
<1>1. Init => IInv
  BY DEF Init, IInv, TypeOK, Status, LineState, Phases, Sessions, RolesKept, ProcessorInStep,
     ReviewerInStep, LinesInStep, OneLotPerConfirmedLine
<1>2. IInv /\ [Next]_vars => IInv'
  BY NextKeepsInv
<1>3. QED
  BY <1>1, <1>2, PTL DEF Spec
-----------------------------------------------------------------------------
\* Stock comes from lines a person confirmed, one lot each (confirm_invoice),
\* when one session at a time reviews the invoice and one reads it.
THEOREM OneLotEach ==
  ASSUME OneAtATime, OneDecisionPerLine
  PROVE  Spec => []OneLotPerConfirmedLine
<1>1. IInv => OneLotPerConfirmedLine
  BY DEF IInv
<1>2. QED
  BY <1>1, Inductive, PTL

\* A confirmed invoice and its lines change no more: nobody is left between
\* its check and its write once the status is confirmed.
THEOREM ConfirmedForGood ==
  ASSUME OneAtATime, OneDecisionPerLine
  PROVE  Spec => ConfirmedIsFinal
<1>1. ASSUME IInv, [Next]_vars, status = "confirmed"
      PROVE  UNCHANGED row
  <2>1. /\ \A p \in Processors : pc[p] = "idle"
        /\ \A p \in Reviewers : pc[p] = "idle"
    BY <1>1 DEF IInv, RolesKept, ProcessorInStep, ReviewerInStep
  <2>2. QED
    BY <1>1, <2>1 DEF Next, vars, row, Upload, ReadToProcess, Mark, Refresh, ExtractFails, Extract,
       ReadToConfirm, ReadToDelete, Delete, Confirm, Die, End, Deletable
<1>2. IInv /\ [Next]_vars => [status = "confirmed" => UNCHANGED row]_vars
  BY <1>1
<1>3. QED
  BY <1>2, Inductive, PTL DEF Spec, ConfirmedIsFinal

\* The OCR's line items are only written to an invoice that has none
\* (process_invoice), so that no line is received twice for one delivery.
THEOREM LinesReadOnce ==
  ASSUME OneAtATime, OneDecisionPerLine
  PROVE  Spec => ReadOnce
<1>1. ASSUME IInv, [Next]_vars, NEW l \in Lines, line[l] = "none", line'[l] = "suggested"
      PROVE  LinesNow = {}
  <2>1. PICK p \in Processors, new \in SUBSET Lines : Extract(p, new)
    BY <1>1 DEF IInv, TypeOK, Next, vars, row, Upload, ReadToProcess, Mark, Refresh, ExtractFails,
       ReadToConfirm, ReadToDelete, Delete, Confirm, Die, End
  <2>2. status = "processing"
    BY <1>1, <2>1 DEF IInv, ProcessorInStep, Extract
  <2>3. QED
    BY <1>1, <2>2 DEF IInv, LinesInStep, LinesNow
<1>2. IInv /\ [Next]_vars =>
        [\A l \in Lines : line[l] = "none" /\ line'[l] = "suggested" => LinesNow = {}]_vars
  BY <1>1
<1>3. QED
  BY <1>2, Inductive, PTL DEF Spec, ReadOnce
=============================================================================
