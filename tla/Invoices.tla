------------------------------ MODULE Invoices ------------------------------
(***************************************************************************)
(* One supplier invoice, from upload to stock                               *)
(* (app/api/v1/endpoints/invoices.py): a request reads it with OCR, a        *)
(* person decides on each line, and every confirmed line becomes a lot.     *)
(*                                                                         *)
(* No request locks the invoice before it checks its status: each reads,    *)
(* and writes in a later step.  The session writes the columns that differ  *)
(* from what it loaded, whatever they have become since.                    *)
(***************************************************************************)
EXTENDS Integers, Sequences, FiniteSets, SequencesExt

CONSTANTS
  Processors,  \* sessions that serve POST /process
  Reviewers,   \* sessions that serve POST /confirm and DELETE
  Lines,       \* ids of invoice_line_items rows
  Decisions    \* what the body of a confirmation may say of a line, in order

ASSUME InvoiceAssumption ==
  /\ Processors \cap Reviewers = {}
  /\ Decisions \subseteq Seq({"confirm", "reject"}) \ {<<>>}

VARIABLES
  status,      \* the invoice's row
  line,        \* the row of each line
  lots,        \* lots received from each line
  pc, seen, view

row  == <<status, line, lots>>
vars == <<row, pc, seen, view>>

Sessions  == Processors \cup Reviewers
Status    == {"none", "uploaded", "processing", "needs_review", "confirmed", "deleted"}
LineState == {"none", "suggested", "confirmed", "rejected", "deleted"}
Phases    == {"idle", "mark", "refresh", "extract", "confirm", "delete"}
Deletable == {"uploaded", "needs_review"}

\* The line items a query returns now.
LinesNow == {l \in Lines : line[l] \notin {"none", "deleted"}}

Init ==
  /\ status = "none"
  /\ line = [l \in Lines |-> "none"]
  /\ lots = [l \in Lines |-> 0]
  /\ pc = [p \in Sessions |-> "idle"]
  /\ seen = [p \in Sessions |-> "none"]
  /\ view = [p \in Sessions |-> {}]

Goto(p, phase) == pc' = [pc EXCEPT ![p] = phase]

End(p) ==
  /\ Goto(p, "idle")
  /\ seen' = [seen EXCEPT ![p] = "none"]
  /\ view' = [view EXCEPT ![p] = {}]

Upload ==
  /\ status = "none" /\ status' = "uploaded"
  /\ UNCHANGED <<line, lots, pc, seen, view>>
-----------------------------------------------------------------------------
(***************************************************************************)
(* POST /process                                                            *)
(***************************************************************************)
\* Mutant: an invoice that awaits review may be read again.
ReadToProcessAgain(p) ==
  /\ pc[p] = "idle" /\ status \in {"uploaded", "needs_review"}
  /\ Goto(p, "mark")
  /\ UNCHANGED <<row, seen, view>>

ReadToProcess(p) ==
  /\ pc[p] = "idle" /\ status = "uploaded"
  /\ Goto(p, "mark")
  /\ UNCHANGED <<row, seen, view>>

\* The status is written and committed; a row deleted meanwhile is an error.
Mark(p) ==
  /\ pc[p] = "mark"
  /\ \/ /\ status = "deleted"
        /\ End(p) /\ UNCHANGED row
     \/ /\ status # "deleted" /\ status' = "processing"
        /\ Goto(p, "refresh")
        /\ UNCHANGED <<line, lots, seen, view>>

Refresh(p) ==
  /\ pc[p] = "refresh"
  /\ UNCHANGED row
  /\ \/ status = "deleted" /\ End(p)
     \/ /\ status # "deleted"
        /\ seen' = [seen EXCEPT ![p] = status]
        /\ Goto(p, "extract") /\ UNCHANGED view

\* OCR and matching succeed: new line items, and the invoice awaits review.
Extract(p, new) ==
  /\ pc[p] = "extract" /\ status # "deleted"
  /\ \A l \in new : line[l] = "none"
  /\ line' = [l \in Lines |-> IF l \in new THEN "suggested" ELSE line[l]]
  /\ status' = IF seen[p] = "needs_review" THEN status ELSE "needs_review"
  /\ End(p) /\ UNCHANGED lots

\* Mutant: a status the application does not know.
ExtractFailsAsFailed(p) ==
  /\ pc[p] = "extract"
  /\ status' = IF status = "deleted" THEN status ELSE "failed"
  /\ End(p) /\ UNCHANGED <<line, lots>>

\* Storage, OCR, matching or the insert fails: rolled back, and the invoice, if
\* it is still there, goes back to uploaded.
ExtractFails(p) ==
  /\ pc[p] = "extract"
  /\ status' = IF status = "deleted" THEN status ELSE "uploaded"
  /\ End(p) /\ UNCHANGED <<line, lots>>
-----------------------------------------------------------------------------
(***************************************************************************)
(* POST /confirm and DELETE                                                 *)
(***************************************************************************)
\* Mutant: any invoice that was read may be confirmed.
ReadToConfirmAgain(p) ==
  /\ pc[p] = "idle" /\ status \in {"needs_review", "confirmed"} /\ LinesNow # {}
  /\ view' = [view EXCEPT ![p] = LinesNow]
  /\ Goto(p, "confirm") /\ UNCHANGED <<row, seen>>

ReadToConfirm(p) ==
  /\ pc[p] = "idle" /\ status = "needs_review" /\ LinesNow # {}
  /\ view' = [view EXCEPT ![p] = LinesNow]
  /\ Goto(p, "confirm") /\ UNCHANGED <<row, seen>>

\* The decisions name every line that was read; each confirm receives a lot.
\* Lines and invoice are updated in the same transaction, which fails when
\* they are gone.
Confirm(p, d) ==
  /\ pc[p] = "confirm" /\ status # "deleted"
  /\ lots' = [l \in Lines |-> lots[l] +
                IF l \in view[p] THEN Cardinality({k \in DOMAIN d[l] : d[l][k] = "confirm"}) ELSE 0]
  /\ line' = [l \in Lines |->
                IF l \notin view[p] THEN line[l]
                ELSE IF Last(d[l]) = "confirm" THEN "confirmed" ELSE "rejected"]
  /\ status' = "confirmed"
  /\ End(p)

\* Mutant: every status is deletable.
ReadToDeleteAny(p) ==
  /\ pc[p] = "idle" /\ status \in Deletable \cup {"processing", "confirmed"}
  /\ view' = [view EXCEPT ![p] = LinesNow]
  /\ Goto(p, "delete") /\ UNCHANGED <<row, seen>>

ReadToDelete(p) ==
  /\ pc[p] = "idle" /\ status \in Deletable
  /\ view' = [view EXCEPT ![p] = LinesNow]
  /\ Goto(p, "delete") /\ UNCHANGED <<row, seen>>

\* The lines that were read go, and the invoice with them; a line that came
\* after the read makes the foreign key refuse.
Delete(p) ==
  /\ pc[p] = "delete" /\ LinesNow \subseteq view[p]
  /\ status' = "deleted"
  /\ line' = [l \in Lines |-> IF l \in view[p] THEN "deleted" ELSE line[l]]
  /\ End(p) /\ UNCHANGED lots

\* The request dies before it commits, with its server or alone.
Die(p) ==
  /\ pc[p] # "idle"
  /\ End(p) /\ UNCHANGED row

Next ==
  \/ Upload
  \/ \E p \in Processors :
       \/ ReadToProcess(p) \/ Mark(p) \/ Refresh(p) \/ ExtractFails(p)
       \/ \E new \in SUBSET Lines : Extract(p, new)
  \/ \E p \in Reviewers :
       \/ ReadToConfirm(p) \/ ReadToDelete(p) \/ Delete(p)
       \/ \E d \in [view[p] -> Decisions] : Confirm(p, d)
  \/ \E p \in Sessions : Die(p)

Spec == Init /\ [][Next]_vars
-----------------------------------------------------------------------------
\* Types: the invoice and its lines are only ever in the states the code names.
TypeOK ==
  /\ status \in Status
  /\ line \in [Lines -> LineState]
  /\ lots \in [Lines -> Nat]
  /\ pc \in [Sessions -> Phases]
  /\ seen \in [Sessions -> Status]
  /\ view \in [Sessions -> SUBSET Lines]

\* Stock comes from lines a person confirmed, one lot each: none from a line
\* that was rejected, only suggested by the OCR, or deleted.
OneLotPerConfirmedLine ==
  \A l \in Lines : lots[l] = IF line[l] = "confirmed" THEN 1 ELSE 0

\* A confirmed invoice is an audit record: it and its lines change no more.
ConfirmedIsFinal ==
  [][status = "confirmed" => UNCHANGED row]_vars

\* Line items are only ever written to an invoice that has none.
ReadOnce ==
  [][\A l \in Lines : line[l] = "none" /\ line'[l] = "suggested" => LinesNow = {}]_vars
=============================================================================
