-------------------------- MODULE ChecklistProofs --------------------------
(***************************************************************************)
(* The runs of the checklists: a completed run has what it asked for, runs *)
(* are a record book, races over a run are bounded, and so are the copies  *)
(* that overlapping reseeds make of a template.                            *)
(*                                                                         *)
(* The arguments: what a run needs is fixed when it is started and what it *)
(* has is only added to, so a check made before the commit still holds at  *)
(* the commit, whoever answered or completed in between.  And who may      *)
(* still do what a check refuses by now has checked before: so they are    *)
(* counted with what they may still do, and leave the count when they do.  *)
(***************************************************************************)
EXTENDS RestaurantProofs

\* What run r has is enough: asked required items, or its snapshot.
Evident(r, asked) ==
    IF NothingToRead(r)
    THEN asked <= runs[r].answered
    ELSE runs[r].snapshot \subseteq runs[r].readings

Evidence ==
    /\ \A r \in DOMAIN runs : Completed(r) => Evident(r, runs[r].asked)
    /\ \A p \in Procs : At(p, "commit", "complete") => Evident(req[p].on, req[p].seen)

\* Requests that can still answer or complete run r.
Serving(r) ==
    {p \in Procs : /\ pc[p] \in {"check", "commit"}
                   /\ req[p].kind \in {"answer", "complete"}
                   /\ req[p].on = r}

\* An answer or a completion of a completed run was a request being served
\* when it was completed.
Races ==
    \A r \in DOMAIN runs :
       IF Completed(r)
       THEN runs[r].late + runs[r].completions + Cardinality(Serving(r)) <= Cardinality(Procs)
       ELSE runs[r].late = 0 /\ runs[r].completions = 0
----------------------------------------------------------------------------
\* What the requests make of the runs.
LEMMA RunSteps ==
  ASSUME NEW p \in Procs, Request(p), UNCHANGED runs => FALSE
  PROVE  StartRun(p) \/ SubmitAnswer(p) \/ CompleteRun(p)
<1>1. ~Arrive(p) /\ ~Account(p) /\ ~CreateRestaurant(p)
  BY DEF Arrive, Account, CreateRestaurant, haccpVars
<1>2. ~TemplateStep(p)
  BY DEF TemplateStep, ReadNames, Reseed, CreateTemplate, CreateItem, ReadToWrite,
     UpdateTemplate, SetTemplateActive, DeleteTemplate, WriteTemplate, TemplateRequest, haccpVars
<1>3. ~EquipmentStep(p)
  BY DEF EquipmentStep, CreateEquipment, ReadEquipment, UpdateEquipment, DeleteEquipment,
     WriteEquipment, EquipmentRequest, LogTemperature, haccpVars
<1>4. RunStep(p)
  BY <1>1, <1>2, <1>3 DEF Request
<1>5. QED
  BY <1>4 DEF RunStep, ReadTemplate, ReadRun, CheckRun

LEMMA Started ==
  ASSUME IInv, NEW p \in Procs, StartRun(p)
  PROVE  LET n == Len(runs) + 1
         IN /\ n \in Nat /\ DOMAIN runs = 1..Len(runs) /\ DOMAIN runs' = 1..n
            /\ \A r \in DOMAIN runs : runs'[r] = runs[r]
            /\ runs'[n].template \in Nat /\ runs'[n].date \in {day - 1, day} \cap Nat
            /\ runs'[n].snapshot \in (SUBSET Equipment) \cup {NoSnapshot}
            /\ runs'[n].status = "in_progress" /\ runs'[n].readings = {}
            /\ runs'[n].late = 0 /\ runs'[n].completions = 0
            /\ End(p)
<1> DEFINE New(date) ==
             [template |-> req[p].on, date |-> date, status |-> "in_progress",
              snapshot |-> Snapshot(req[p].seen), answered |-> 0, readings |-> {},
              asked |-> 0, late |-> 0, completions |-> 0]
<1>1. PICK date \in {day - 1, day} \cap Nat : runs' = Append(runs, New(date))
  BY DEF StartRun
<1>2. runs \in Seq(Run) /\ req[p].on \in Nat /\ End(p)
  <2>1. req[p].on \in DOMAIN templates /\ templates \in Seq(Template)
    BY DEF StartRun, RunRequest, At, IInv, Knows, Read, Tables
  <2>2. QED
    BY <2>1 DEF IInv, Tables, StartRun
<1>3. /\ New(date).template = req[p].on /\ New(date).date = date
      /\ New(date).snapshot \in (SUBSET Equipment) \cup {NoSnapshot}
      /\ New(date).status = "in_progress" /\ New(date).readings = {}
      /\ New(date).late = 0 /\ New(date).completions = 0
  BY DEF Snapshot
<1> HIDE DEF New
<1>4. /\ Len(runs) + 1 \in Nat /\ DOMAIN runs = 1..Len(runs) /\ DOMAIN runs' = 1..(Len(runs) + 1)
      /\ \A r \in DOMAIN runs : runs'[r] = runs[r]
      /\ runs'[Len(runs) + 1] = New(date)
  BY <1>1, <1>2
<1>5. QED
  BY <1>2, <1>3, <1>4

LEMMA Answered ==
  ASSUME IInv, NEW p \in Procs, SubmitAnswer(p)
  PROVE  LET r == req[p].on
         IN /\ r \in DOMAIN runs /\ DOMAIN runs' = DOMAIN runs
            /\ \A q \in DOMAIN runs : q # r => runs'[q] = runs[q]
            /\ runs'[r].template = runs[r].template /\ runs'[r].date = runs[r].date
            /\ runs'[r].snapshot = runs[r].snapshot /\ runs'[r].status = runs[r].status
            /\ runs'[r].asked = runs[r].asked /\ runs'[r].completions = runs[r].completions
            /\ runs'[r].answered >= runs[r].answered
            /\ \/ runs'[r].readings = runs[r].readings
               \/ \E e \in Equipment : runs'[r].readings = runs[r].readings \cup {e}
            /\ runs'[r].late = IF Completed(r) THEN runs[r].late + 1 ELSE runs[r].late
            /\ pc[p] = "commit" /\ req[p].kind = "answer" /\ End(p)
<1> DEFINE r == req[p].on
           Late(run) == [run EXCEPT !.late = IF Completed(r) THEN run.late + 1 ELSE run.late]
<1>1. /\ pc[p] = "commit" /\ req[p].kind = "answer" /\ End(p) /\ r \in DOMAIN runs
      /\ runs \in Seq(Run)
  BY DEF SubmitAnswer, RunRequest, At, IInv, Knows, Read, Tables
<1>2. runs[r] \in Run
  BY <1>1
<1> DEFINE More(run) ==
             /\ run \in Run
             /\ run.template = runs[r].template /\ run.date = runs[r].date
             /\ run.snapshot = runs[r].snapshot /\ run.status = runs[r].status
             /\ run.asked = runs[r].asked /\ run.completions = runs[r].completions
             /\ run.late = runs[r].late /\ run.answered >= runs[r].answered
             /\ \/ run.readings = runs[r].readings
                \/ \E e \in Equipment : run.readings = runs[r].readings \cup {e}
<1>3. PICK run : More(run) /\ runs' = [runs EXCEPT ![r] = Late(run)]
  <2>1. More([runs[r] EXCEPT !.answered = @ + 1])
    BY <1>2 DEF Run
  <2>2. More(runs[r])
    BY <1>2 DEF Run
  <2>3. \A e \in Equipment : More([runs[r] EXCEPT !.readings = @ \cup {e}])
    BY <1>2 DEF Run
  <2> HIDE DEF More
  <2>4. QED
    BY <2>1, <2>2, <2>3 DEF SubmitAnswer
<1>4. /\ Late(run).template = run.template /\ Late(run).date = run.date
      /\ Late(run).snapshot = run.snapshot /\ Late(run).status = run.status
      /\ Late(run).asked = run.asked /\ Late(run).completions = run.completions
      /\ Late(run).answered = run.answered /\ Late(run).readings = run.readings
      /\ Late(run).late = IF Completed(r) THEN run.late + 1 ELSE run.late
  BY <1>3 DEF Run
<1> HIDE DEF Late
<1>5. /\ DOMAIN runs' = DOMAIN runs /\ runs'[r] = Late(run)
      /\ \A q \in DOMAIN runs : q # r => runs'[q] = runs[q]
  BY <1>1, <1>3
<1>6. QED
  BY <1>1, <1>3, <1>4, <1>5

LEMMA Signed ==
  ASSUME IInv, NEW p \in Procs, CompleteRun(p)
  PROVE  LET r == req[p].on
         IN /\ r \in DOMAIN runs /\ DOMAIN runs' = DOMAIN runs
            /\ \A q \in DOMAIN runs : q # r => runs'[q] = runs[q]
            /\ runs'[r].template = runs[r].template /\ runs'[r].date = runs[r].date
            /\ runs'[r].snapshot = runs[r].snapshot /\ runs'[r].status = "completed"
            /\ runs'[r].asked = req[p].seen
            /\ runs'[r].answered = runs[r].answered
            /\ runs'[r].readings = runs[r].readings
            /\ runs'[r].late = runs[r].late
            /\ runs'[r].completions = runs[r].completions + 1
            /\ pc[p] = "commit" /\ req[p].kind = "complete" /\ End(p)
<1> DEFINE r == req[p].on
           run == [runs[r] EXCEPT !.status = "completed", !.asked = req[p].seen,
                                  !.completions = runs[r].completions + 1]
<1>1. /\ pc[p] = "commit" /\ req[p].kind = "complete" /\ End(p) /\ r \in DOMAIN runs
      /\ runs \in Seq(Run)
  BY DEF CompleteRun, RunRequest, At, IInv, Knows, Read, Tables
<1>2. runs[r] \in Run
  BY <1>1
<1>3. runs' = [runs EXCEPT ![r] = run]
  BY DEF CompleteRun
<1>4. /\ run.template = runs[r].template /\ run.date = runs[r].date
      /\ run.snapshot = runs[r].snapshot /\ run.status = "completed"
      /\ run.asked = req[p].seen /\ run.answered = runs[r].answered
      /\ run.readings = runs[r].readings /\ run.late = runs[r].late
      /\ run.completions = runs[r].completions + 1
  BY <1>2 DEF Run
<1> HIDE DEF run
<1>5. /\ DOMAIN runs' = DOMAIN runs /\ runs'[r] = run
      /\ \A q \in DOMAIN runs : q # r => runs'[q] = runs[q]
  BY <1>1, <1>3
<1>6. QED
  BY <1>1, <1>4, <1>5

\* What a run has been given it keeps; what it is does not change.
LEMMA RunsKeep ==
  ASSUME IInv, NEW p \in Procs, Request(p), NEW r \in DOMAIN runs
  PROVE  /\ r \in DOMAIN runs'
         /\ runs'[r].template = runs[r].template /\ runs'[r].date = runs[r].date
         /\ runs'[r].snapshot = runs[r].snapshot
         /\ runs'[r].answered >= runs[r].answered
         /\ runs[r].readings \subseteq runs'[r].readings
         /\ Completed(r) => Completed(r)'
         /\ \/ runs'[r].status = runs[r].status /\ runs'[r].asked = runs[r].asked
            \/ CompleteRun(p) /\ r = req[p].on
<1>1. runs[r].answered \in Nat
  <2>1. runs \in Seq(Run)
    BY DEF IInv, Tables
  <2>2. runs[r] \in Run
    BY <2>1
  <2>3. QED
    BY <2>2 DEF Run
<1>2. CASE UNCHANGED runs
  BY <1>1, <1>2 DEF Completed
<1>3. CASE StartRun(p)
  BY <1>1, <1>3, Started DEF Completed
<1>4. CASE SubmitAnswer(p)
  BY <1>1, <1>4, Answered DEF Completed
<1>5. CASE CompleteRun(p)
  BY <1>1, <1>5, Signed DEF Completed
<1>6. QED
  BY <1>2, <1>3, <1>4, <1>5, RunSteps
----------------------------------------------------------------------------
\* What was enough stays enough.
LEMMA EvidenceStays ==
  ASSUME IInv, IInv', NEW p \in Procs, Request(p), NEW r \in DOMAIN runs, NEW asked \in Nat,
         Evident(r, asked)
  PROVE  IF runs'[r].snapshot \in {NoSnapshot, {}}
         THEN asked <= runs'[r].answered
         ELSE runs'[r].snapshot \subseteq runs'[r].readings
<1>1. runs[r].answered \in Nat /\ runs'[r].answered \in Nat
  <2>1. runs \in Seq(Run) /\ runs' \in Seq(Run) /\ r \in DOMAIN runs'
    BY RunsKeep DEF IInv, Tables
  <2>2. runs[r] \in Run /\ runs'[r] \in Run
    BY <2>1
  <2>3. QED
    BY <2>2 DEF Run
<1>2. QED
  BY <1>1, RunsKeep DEF Evident, NothingToRead

\* A check that passes finds enough.
LEMMA CheckFinds ==
  ASSUME IInv, NEW p \in Procs, CheckRun(p), pc'[p] = "commit"
  PROVE  /\ req'[p].on = req[p].on /\ req[p].on \in DOMAIN runs
         /\ req'[p].seen \in Nat /\ Evident(req[p].on, req'[p].seen)
         /\ UNCHANGED runs
<1> DEFINE r == req[p].on
           asked == IF NothingToRead(r) THEN templates[runs[r].template].required ELSE 0
<1>1. pc[p] = "check" /\ r \in DOMAIN runs
  BY DEF CheckRun, RunRequest, At, IInv, Knows
<1>2. ~End(p)
  BY DEF End, Go, IInv, Processes
<1>3. NothingMissing(r) /\ Keep(p, r, asked) /\ UNCHANGED runs
  BY <1>2 DEF CheckRun
<1>4. asked \in Nat
  <2>1. templates \in Seq(Template) /\ runs[r].template \in DOMAIN templates
    BY <1>1 DEF IInv, Tables, Consistent
  <2>2. templates[runs[r].template] \in Template
    BY <2>1
  <2>3. QED
    BY <2>2 DEF Template
<1>5. Evident(r, asked)
  BY <1>3 DEF Evident, NothingMissing
<1>6. req'[p].on = r /\ req'[p].seen = asked
  <2> HIDE DEF asked
  <2>1. Continues(p, r, asked, "commit")
    BY <1>3 DEF Keep, Continues
  <2>2. QED
    BY <1>1, <2>1, ContinueKeepsRequest
<1>7. QED
  BY <1>1, <1>3, <1>4, <1>5, <1>6

\* A request comes to its check or commit by its own reading.
LEMMA Reached ==
  ASSUME IInv, NEW p \in Procs, Request(p), pc'[p] \in {"check", "commit"}
  PROVE  ~End(p) /\ ~Enters(p) /\ req'[p].kind = req[p].kind /\ pc[p] # "idle"
<1>1. ~End(p)
  BY DEF End, Go, IInv, Processes
<1>2. ~Enters(p)
  <2>1. ~Arrive(p)
    BY DEF Arrive, SignIn, AfterSignIn, Go, IInv, Processes
  <2>2. ~Register(p)
    BY <1>1 DEF Register, AfterSignIn, Go, IInv, Processes
  <2>3. ~Authorise(p)
    BY <1>1 DEF Authorise, Go, IInv, Processes
  <2>4. QED
    BY <2>1, <2>2, <2>3 DEF Enters
<1>3. req'[p].kind = req[p].kind /\ pc[p] # "idle"
  BY <1>1, <1>2, RequestSteps, ContinueKeepsRequest DEF GoesOn
<1>4. QED
  BY <1>1, <1>2, <1>3

\* Which reads lead to an answer or a completion.
LEMMA RunReads ==
  ASSUME IInv, NEW p \in Procs, Request(p), pc'[p] \in {"check", "commit"},
         req'[p].kind \in {"answer", "complete"}
  PROVE  /\ req'[p].kind = req[p].kind
         /\ \/ ReadRun(p) /\ (pc'[p] = "check" <=> req[p].kind = "complete")
            \/ CheckRun(p)
<1>1. ~End(p)
  BY Reached
<1>2. ~Enters(p)
  BY Reached
<1>3. req'[p].kind = req[p].kind /\ pc[p] # "idle"
  BY Reached
<1>4. ~Arrive(p) /\ ~Account(p) /\ ~CreateRestaurant(p)
  BY <1>1, <1>2, <1>3 DEF Enters, Account, Die, MemberStep, ReadInvited, ReadMember, CommitInvited,
     UpdateRole, RemoveMember, CreateRestaurant, Found, At
<1>5. ~TemplateStep(p)
  BY <1>1, <1>3 DEF TemplateStep, ReadNames, Reseed, CreateTemplate, CreateItem, ReadToWrite,
     UpdateTemplate, SetTemplateActive, DeleteTemplate, WriteTemplate, TemplateRequest, At
<1>6. ~EquipmentStep(p)
  BY <1>1, <1>3 DEF EquipmentStep, CreateEquipment, ReadEquipment, UpdateEquipment, DeleteEquipment,
     WriteEquipment, EquipmentRequest, LogTemperature, At
<1>7. ReadRun(p) \/ CheckRun(p)
  BY <1>1, <1>3, <1>4, <1>5, <1>6 DEF Request, RunStep, ReadTemplate, StartRun, SubmitAnswer,
     CompleteRun, RunRequest, At
<1>8. ReadRun(p) => (pc'[p] = "check" <=> req[p].kind = "complete")
  BY <1>1 DEF ReadRun, RunRequest, At, Go, IInv, Processes
<1>9. QED
  BY <1>3, <1>7, <1>8

LEMMA RequestKeepsEvidence ==
  ASSUME IInv, IInv', Evidence, NEW p \in Procs, Request(p)
  PROVE  Evidence'
<1>1. ASSUME NEW r \in DOMAIN runs', Completed(r)'
      PROVE  Evident(r, runs[r].asked)'
  <2>1. r \in DOMAIN runs
    <3>1. CASE StartRun(p)
      BY <1>1, <3>1, Started DEF Completed
    <3>2. CASE SubmitAnswer(p) \/ CompleteRun(p) \/ UNCHANGED runs
      BY <3>2, Answered, Signed
    <3>3. QED
      BY <3>1, <3>2, RunSteps
  <2>2. runs[r].asked \in Nat
    <3>1. runs \in Seq(Run)
      BY DEF IInv, Tables
    <3>2. runs[r] \in Run
      BY <2>1, <3>1
    <3>3. QED
      BY <3>2 DEF Run
  <2>3. CASE runs'[r].status = runs[r].status /\ runs'[r].asked = runs[r].asked
    <3>1. Evident(r, runs[r].asked)
      BY <1>1, <2>1, <2>3 DEF Completed, Evidence
    <3>2. QED
      BY <2>1, <2>2, <2>3, <3>1, EvidenceStays DEF Evident, NothingToRead
  <2>4. CASE CompleteRun(p) /\ r = req[p].on
    <3>1. req[p].seen \in Nat /\ Evident(r, req[p].seen) /\ runs'[r].asked = req[p].seen
      BY <2>4, Signed DEF Evidence, IInv, Knows, Read, At
    <3>2. QED
      BY <2>1, <3>1, EvidenceStays DEF Evident, NothingToRead
  <2>5. QED
    BY <2>1, <2>3, <2>4, RunsKeep
<1>2. ASSUME NEW q \in Procs, At(q, "commit", "complete")'
      PROVE  Evident(req[q].on, req[q].seen)'
  <2>1. CASE pc'[q] = pc[q] /\ req'[q] = req[q]
    <3>1. req[q].on \in DOMAIN runs /\ req[q].seen \in Nat /\ Evident(req[q].on, req[q].seen)
      BY <1>2, <2>1 DEF At, Evidence, IInv, Knows, Read
    <3>2. QED
      BY <2>1, <3>1, EvidenceStays DEF Evident, NothingToRead
  <2>2. CASE q = p
    <3>1. CheckRun(p)
      BY <1>2, <2>2, RunReads DEF At
    <3>2. QED
      BY <1>2, <2>2, <3>1, CheckFinds DEF At, Evident, NothingToRead
  <2>3. QED
    BY <2>1, <2>2, OthersWait
<1>3. QED
  BY <1>1, <1>2 DEF Evidence

LEMMA NextKeepsEvidence ==
  ASSUME IInv, IInv', Evidence, [Next]_vars
  PROVE  Evidence'
<1>1. CASE \E p \in work.desks : Request(p)
  BY <1>1, RequestKeepsEvidence, WorkloadAssumption DEF IInv, Tables
<1>2. CASE UNCHANGED <<pc, req, runs>>
  BY <1>2 DEF Evidence, Evident, Completed, NothingToRead, At
<1>3. QED
  BY <1>1, <1>2 DEF Next, NextDay, vars, accessVars, haccpVars

LEMMA InductiveEvidence == Spec => [](IInv /\ Evidence)
<1>1. Init => Evidence
  BY DEF Init, AccessInit, HaccpInit, Evidence, At
<1>2. IInv /\ IInv' /\ Evidence /\ [Next]_vars => Evidence'
  BY NextKeepsEvidence
<1>3. QED
  BY <1>1, <1>2, Inductive, PTL DEF Spec

\* The sheet of a completed run has a line for all it asked, with answers,
\* completions, deletions of equipment and edits of the template overlapping
\* (haccp_service.py:1244).
THEOREM CompletedAnswered == Spec => []CompletedIsAnswered
<1>1. IInv /\ Evidence => CompletedIsAnswered
  BY DEF Evidence, Evident, Completed, CompletedIsAnswered, daily_checklist
<1>2. QED
  BY <1>1, InductiveEvidence, PTL
----------------------------------------------------------------------------
(***************************************************************************)
(* The runs are a record book.                                             *)
(***************************************************************************)
Pages == [r \in DOMAIN runs |-> Page(r)]

Paged ==
    /\ Len(runs) \in Nat /\ DOMAIN runs = 1..Len(runs)
    /\ DOMAIN Pages = DOMAIN runs /\ Len(Pages) = Len(runs)
    /\ \A r \in DOMAIN runs : Pages[r] = Page(r) /\ Page(r).needs \subseteq Equipment

LEMMA PagesAreSequences == IInv => Paged
<1> SUFFICES ASSUME IInv
             PROVE  Paged
  OBVIOUS
<1>1. runs \in Seq(Run)
  BY DEF IInv, Tables
<1>2. Len(runs) \in Nat /\ DOMAIN runs = 1..Len(runs)
  BY <1>1
<1>3. \A r \in DOMAIN runs : runs[r].snapshot \in (SUBSET Equipment) \cup {NoSnapshot}
  <2>1. \A r \in DOMAIN runs : runs[r] \in Run
    BY <1>1
  <2>2. QED
    BY <2>1 DEF Run
<1>4. \A r \in DOMAIN runs : Page(r).needs \subseteq Equipment
  BY <1>3 DEF Page, NothingToRead
<1>5. Pages \in Seq({Page(r) : r \in DOMAIN runs})
  BY <1>2 DEF Pages
<1>6. DOMAIN Pages = DOMAIN runs /\ \A r \in DOMAIN runs : Pages[r] = Page(r)
  BY DEF Pages
<1>7. Len(Pages) = Len(runs)
  BY <1>2, <1>5, <1>6
<1>8. QED
  BY <1>2, <1>4, <1>6, <1>7 DEF Paged

\* A run that a step does not touch is the same page.
LEMMA SamePage ==
  ASSUME NEW r, runs'[r].template = runs[r].template, runs'[r].date = runs[r].date,
         runs'[r].snapshot = runs[r].snapshot, runs'[r].status = runs[r].status,
         runs'[r].readings = runs[r].readings
  PROVE  Page(r)' = Page(r)
BY DEF Page, NothingToRead, Completed

\* A page with one more reading, and a page that is signed.
LEMMA NotedPage ==
  ASSUME NEW r, NEW e,
         runs'[r].template = runs[r].template, runs'[r].date = runs[r].date,
         runs'[r].snapshot = runs[r].snapshot, runs'[r].status = runs[r].status,
         runs'[r].readings = runs[r].readings \cup {e}
  PROVE  Page(r)' = [Page(r) EXCEPT !.noted = @ \cup {e}]
<1> DEFINE P(noted) == [checklist |-> runs[r].template, date |-> runs[r].date,
                        needs |-> Page(r).needs, noted |-> noted, signed |-> Page(r).signed]
<1>1. Page(r)'.needs = Page(r).needs
  BY DEF Page, NothingToRead
<1>2. Page(r)'.signed = Page(r).signed
  BY DEF Page, Completed
<1>3. Page(r)' = P(runs[r].readings \cup {e})
  BY <1>1, <1>2 DEF Page
<1>4. Page(r) = P(runs[r].readings)
  BY DEF Page
<1>5. QED
  BY <1>3, <1>4

LEMMA SignedPage ==
  ASSUME NEW r,
         runs'[r].template = runs[r].template, runs'[r].date = runs[r].date,
         runs'[r].snapshot = runs[r].snapshot, runs'[r].status = "completed",
         runs'[r].readings = runs[r].readings
  PROVE  Page(r)' = [Page(r) EXCEPT !.signed = TRUE]
<1> DEFINE P(signed) == [checklist |-> runs[r].template, date |-> runs[r].date,
                         needs |-> Page(r).needs, noted |-> runs[r].readings,
                         signed |-> signed]
<1>1. Page(r)'.needs = Page(r).needs
  BY DEF Page, NothingToRead
<1>2. Page(r)'.signed = TRUE
  BY DEF Page, Completed
<1>3. Page(r)' = P(TRUE)
  BY <1>1, <1>2 DEF Page
<1>4. PICK a : Page(r) = P(a)
  BY DEF Page
<1>5. \A yes : [P(a) EXCEPT !.signed = yes] = P(yes)
  OBVIOUS
<1>6. [P(a) EXCEPT !.signed = TRUE] = P(TRUE)
  BY ONLY <1>5
<1> HIDE DEF P
<1>7. QED
  BY <1>3, <1>4, <1>6

LEMMA StartOpens ==
  ASSUME IInv, IInv', NEW p \in Procs, StartRun(p)
  PROVE  /\ Len(Pages') = Len(Pages) + 1
         /\ \A n \in DOMAIN Pages : Pages'[n] = Pages[n]
         /\ LET page == Pages'[Len(Pages')]
            IN page.needs \subseteq Equipment /\ page.noted = {} /\ ~page.signed
<1>1. Paged
  BY PagesAreSequences
<1>2. Paged'
  BY PagesAreSequences, PTL
<1> PICK n \in Nat : n = Len(runs) + 1
  BY <1>1 DEF Paged
<1>3. /\ n \in Nat /\ DOMAIN runs = 1..Len(runs) /\ DOMAIN runs' = 1..n
      /\ \A r \in DOMAIN runs : runs'[r] = runs[r]
      /\ runs'[n].status = "in_progress" /\ runs'[n].readings = {}
  BY Started
<1>4. Len(runs') = n /\ n \in DOMAIN runs' /\ Len(runs) \in Nat
  <2>1. n \in 1..n
    BY <1>1 DEF Paged
  <2>2. n \in 1..Len(runs') /\ Len(runs') \in Nat
    BY <1>2, <1>3, <2>1 DEF Paged
  <2>3. Len(runs') \in 1..n
    BY <1>2, <1>3, <2>2 DEF Paged
  <2>4. QED
    BY <1>1, <1>3, <2>1, <2>2, <2>3 DEF Paged
<1>5. \A r \in DOMAIN runs : r \in DOMAIN runs' /\ Page(r)' = Page(r)
  BY <1>3, <1>4, SamePage
<1>6. Page(n)'.noted = {} /\ Page(n)'.signed = FALSE
  BY <1>3 DEF Page, Completed
<1>7. QED
  BY <1>1, <1>2, <1>4, <1>5, <1>6 DEF Paged

LEMMA AnswerNotes ==
  ASSUME IInv, IInv', NEW p \in Procs, SubmitAnswer(p)
  PROVE  \/ Pages' = Pages
         \/ \E n \in DOMAIN Pages, e \in Equipment :
               Pages' = [Pages EXCEPT ![n].noted = @ \cup {e}]
<1> PICK n \in DOMAIN runs : n = req[p].on
  BY Answered
<1>1. /\ DOMAIN runs' = DOMAIN runs
      /\ \A r \in DOMAIN runs : r # n => Page(r)' = Page(r)
  BY Answered, SamePage
<1>2. /\ runs'[n].template = runs[n].template /\ runs'[n].date = runs[n].date
      /\ runs'[n].snapshot = runs[n].snapshot /\ runs'[n].status = runs[n].status
  BY Answered
<1>3. CASE runs'[n].readings = runs[n].readings
  <2>1. Page(n)' = Page(n)
    BY <1>2, <1>3, SamePage
  <2>2. \A r \in DOMAIN runs : Page(r)' = Page(r)
    BY <1>1, <2>1
  <2>3. QED
    BY <1>1, <2>2 DEF Pages
<1>4. ASSUME NEW e \in Equipment, runs'[n].readings = runs[n].readings \cup {e}
      PROVE  Pages' = [Pages EXCEPT ![n].noted = @ \cup {e}]
  <2>1. Page(n)' = [Page(n) EXCEPT !.noted = @ \cup {e}]
    BY <1>2, <1>4, NotedPage
  <2>2. QED
    BY <1>1, <2>1 DEF Pages
<1>5. n \in DOMAIN Pages
  BY DEF Pages
<1>6. QED
  BY <1>3, <1>4, <1>5, Answered

LEMMA CompletionSigns ==
  ASSUME IInv, IInv', Evidence, NEW p \in Procs, CompleteRun(p)
  PROVE  \E n \in DOMAIN Pages : /\ Pages[n].needs \subseteq Pages[n].noted
                                 /\ Pages' = [Pages EXCEPT ![n].signed = TRUE]
<1> PICK n \in DOMAIN runs : n = req[p].on
  BY Signed
<1>1. /\ DOMAIN runs' = DOMAIN runs
      /\ \A r \in DOMAIN runs : r # n => Page(r)' = Page(r)
  BY Signed, SamePage
<1>2. Page(n)' = [Page(n) EXCEPT !.signed = TRUE]
  BY Signed, SignedPage
<1>3. Page(n).needs \subseteq Page(n).noted
  <2>1. Evident(n, req[p].seen)
    BY Signed DEF Evidence, At
  <2>2. QED
    BY <2>1 DEF Evident, Page
<1>4. Pages' = [Pages EXCEPT ![n].signed = TRUE]
  BY <1>1, <1>2 DEF Pages
<1>5. n \in DOMAIN Pages /\ Pages[n] = Page(n)
  BY DEF Pages
<1>6. QED
  BY <1>3, <1>4, <1>5

LEMMA BookSteps ==
  ASSUME IInv, IInv', Evidence, [Next]_vars
  PROVE  [Book!Next]_Pages
<1>1. ASSUME NEW p \in Procs, Request(p)
      PROVE  [Book!Next]_Pages
  <2>1. CASE UNCHANGED runs
    BY <2>1 DEF Pages, Page, NothingToRead, Completed
  <2>2. CASE StartRun(p)
    BY <2>2, StartOpens DEF Book!Next, Book!Open, Pages
  <2>3. CASE SubmitAnswer(p)
    BY <2>3, AnswerNotes DEF Book!Next, Book!Note, Pages
  <2>4. CASE CompleteRun(p)
    BY <2>4, CompletionSigns DEF Book!Next, Book!Sign, Pages
  <2>5. QED
    BY <1>1, <2>1, <2>2, <2>3, <2>4, RunSteps
<1>2. CASE \E p \in work.desks : Request(p)
  BY <1>1, <1>2, WorkloadAssumption DEF IInv, Tables
<1>3. CASE UNCHANGED runs
  BY <1>3 DEF Pages, Page, NothingToRead, Completed
<1>4. QED
  BY <1>2, <1>3 DEF Next, NextDay, vars, accessVars, haccpVars

\* The checklists implement the book an inspector expects: a page is started
\* with its needs, noted on, and signed when all it needs is there
\* (haccp_service.py:1135).
THEOREM BookIsKept == Spec => KeepsTheBook
<1>1. Init => Book!Init
  BY DEF Init, HaccpInit, Book!Init
<1>2. IInv /\ IInv' /\ Evidence /\ [Next]_vars => [Book!Next]_Pages
  BY BookSteps
<1>3. QED
  BY <1>1, <1>2, InductiveEvidence, PTL DEF Spec, KeepsTheBook, Book!Spec, Pages
----------------------------------------------------------------------------
(***************************************************************************)
(* Races over a run.                                                       *)
(***************************************************************************)
LEMMA ServingIsBounded ==
  ASSUME NEW S \in SUBSET Procs
  PROVE  IsFiniteSet(S) /\ Cardinality(S) \in Nat /\ Cardinality(S) <= Cardinality(Procs)
         /\ Cardinality(Procs) \in Nat
BY ProcsAssumption, FS_Subset, FS_CardinalityType

\* Who may still reach a completed run was there before.
LEMMA NobodyJoins ==
  ASSUME IInv, NEW p \in Procs, Request(p), UNCHANGED runs, NEW r \in DOMAIN runs, Completed(r)
  PROVE  Serving(r)' \subseteq Serving(r)
<1> SUFFICES ASSUME NEW q \in Serving(r)'
             PROVE  q \in Serving(r)
  OBVIOUS
<1>1. CASE pc'[q] = pc[q] /\ req'[q] = req[q]
  BY <1>1 DEF Serving
<1>2. CASE q = p /\ ReadRun(p)
  <2>1. pc[p] # "idle" /\ pc'[p] # "idle" /\ pc'[p] \in {"check", "commit"} /\ req'[p].on = r
    BY <1>2 DEF Serving, ReadRun, RunRequest, At
  <2>2. PICK s \in DOMAIN runs, step \in {"check", "commit"} :
           runs[s].status # "completed" /\ Continues(p, s, 0, step)
    BY <1>2, <2>1 DEF ReadRun, End, Go, IInv, Processes, Continues
  <2>3. req'[p].on = s
    BY <2>1, <2>2, ContinueKeepsRequest
  <2>4. QED
    BY <2>1, <2>2, <2>3 DEF Completed
<1>3. CASE q = p /\ CheckRun(p)
  <2>1. pc[p] = "check" /\ req[p].kind = "complete"
    BY <1>3 DEF CheckRun, RunRequest, At
  <2>2. pc'[p] = "commit"
    BY <1>3 DEF CheckRun, Keep, End, Go, IInv, Processes, Serving
  <2>3. req'[p].on = req[p].on
    BY <1>3, <2>2, CheckFinds
  <2>4. QED
    BY <1>3, <2>1, <2>3 DEF Serving
<1>4. QED
  BY <1>1, <1>2, <1>3, RunReads, OthersWait DEF Serving

LEMMA EndLeaves ==
  ASSUME IInv, NEW p \in Procs, End(p), NEW r
  PROVE  Serving(r)' = Serving(r) \ {p}
BY DEF IInv, Processes, End, Go, Serving

LEMMA RequestKeepsRaces ==
  ASSUME IInv, IInv', Races, NEW p \in Procs, Request(p)
  PROVE  Races'
<1> SUFFICES ASSUME NEW r \in DOMAIN runs'
             PROVE  IF Completed(r)'
                    THEN runs'[r].late + runs'[r].completions + Cardinality(Serving(r)')
                           <= Cardinality(Procs)
                    ELSE runs'[r].late = 0 /\ runs'[r].completions = 0
  BY DEF Races
<1> DEFINE before == Cardinality(Serving(r))
           after  == Cardinality(Serving(r)')
           all    == Cardinality(Procs)
<1>1. /\ before \in Nat /\ after \in Nat /\ all \in Nat /\ before <= all /\ after <= all
      /\ IsFiniteSet(Serving(r))
  BY ServingIsBounded DEF Serving
<1>2. Serving(r)' \subseteq Serving(r) => after <= before
  BY <1>1, FS_Subset
<1>3. ASSUME r \in DOMAIN runs
      PROVE  runs[r].late \in Nat /\ runs[r].completions \in Nat
  <2>1. runs \in Seq(Run)
    BY DEF IInv, Tables
  <2>2. runs[r] \in Run
    BY <1>3, <2>1
  <2>3. QED
    BY <2>2 DEF Run
<1> HIDE DEF before, after, all
<1>4. CASE UNCHANGED runs
  <2>1. CASE Completed(r)
    <3>1. after <= before
      BY <1>2, <1>4, <2>1, NobodyJoins
    <3>2. runs[r].late + runs[r].completions + before <= all
      BY <1>4, <2>1 DEF Races, before, all
    <3>3. QED
      BY <1>1, <1>3, <1>4, <2>1, <3>1, <3>2 DEF Completed, after, all
  <2>2. CASE ~Completed(r)
    BY <1>4, <2>2 DEF Races, Completed
  <2>3. QED
    BY <2>1, <2>2
<1>5. CASE End(p) /\ r \in DOMAIN runs /\ runs'[r] = runs[r]
  <2>1. after <= before
    BY <1>2, <1>5, EndLeaves
  <2>2. CASE Completed(r)
    <3>1. runs[r].late + runs[r].completions + before <= all
      BY <1>5, <2>2 DEF Races, before, all
    <3>2. QED
      BY <1>1, <1>3, <1>5, <2>1, <2>2, <3>1 DEF Completed, after, all
  <2>3. CASE ~Completed(r)
    BY <1>5, <2>3 DEF Races, Completed
  <2>4. QED
    BY <2>2, <2>3
<1>6. CASE StartRun(p) /\ r \notin DOMAIN runs
  BY <1>6, Started DEF Completed
<1>7. ASSUME End(p), p \in Serving(r)
      PROVE  after = before - 1
  BY <1>1, <1>7, EndLeaves, FS_RemoveElement DEF before, after
<1>8. CASE SubmitAnswer(p) /\ r = req[p].on
  <2>1. /\ r \in DOMAIN runs /\ runs'[r].completions = runs[r].completions
        /\ runs'[r].late = IF Completed(r) THEN runs[r].late + 1 ELSE runs[r].late
        /\ Completed(r)' <=> Completed(r)
        /\ End(p) /\ p \in Serving(r)
    BY <1>8, Answered DEF Completed, Serving
  <2>2. CASE Completed(r)
    <3>1. runs[r].late + runs[r].completions + before <= all
      BY <2>1, <2>2 DEF Races, before, all
    <3>2. runs'[r].late + runs'[r].completions + after <= all
      BY <1>1, <1>3, <1>7, <2>1, <2>2, <3>1
    <3>3. QED
      BY <2>1, <2>2, <3>2 DEF after, all
  <2>3. CASE ~Completed(r)
    BY <2>1, <2>3 DEF Races
  <2>4. QED
    BY <2>2, <2>3
<1>9. CASE CompleteRun(p) /\ r = req[p].on
  <2>1. /\ r \in DOMAIN runs /\ runs'[r].completions = runs[r].completions + 1
        /\ runs'[r].late = runs[r].late /\ Completed(r)'
        /\ End(p) /\ p \in Serving(r)
    BY <1>9, Signed DEF Completed, Serving
  <2>2. runs[r].late + runs[r].completions + before <= all
    BY <1>1, <2>1 DEF Races, before, all
  <2>3. runs'[r].late + runs'[r].completions + after <= all
    BY <1>1, <1>3, <1>7, <2>1, <2>2
  <2>4. QED
    BY <2>1, <2>3 DEF after, all
<1>10. CASE StartRun(p) /\ r \in DOMAIN runs
  BY <1>5, <1>10, Started
<1>11. CASE (SubmitAnswer(p) \/ CompleteRun(p)) /\ r # req[p].on
  BY <1>5, <1>11, Answered, Signed
<1>12. QED
  BY <1>4, <1>6, <1>8, <1>9, <1>10, <1>11, RunSteps

LEMMA NextKeepsRaces ==
  ASSUME IInv, IInv', Races, [Next]_vars
  PROVE  Races'
<1>1. CASE \E p \in work.desks : Request(p)
  BY <1>1, RequestKeepsRaces, WorkloadAssumption DEF IInv, Tables
<1>2. CASE UNCHANGED <<pc, req, runs>>
  BY <1>2 DEF Races, Completed, Serving
<1>3. QED
  BY <1>1, <1>2 DEF Next, NextDay, vars, accessVars, haccpVars

\* A completed run is reached by no more answers and completions than there
\* are processes: only requests that were past the check of its status
\* (haccp_service.py:1135 and 1244).
THEOREM BoundedRaces == Spec => []RacesAreBounded
<1>1. Init => Races
  BY DEF Init, HaccpInit, Races
<1>2. IInv /\ IInv' /\ Races /\ [Next]_vars => Races'
  BY NextKeepsRaces
<1>3. IInv /\ Races => RacesAreBounded
  <2> SUFFICES ASSUME IInv, Races, NEW r \in DOMAIN runs, Completed(r)
               PROVE  runs[r].late + runs[r].completions <= Cardinality(Procs)
    BY DEF RacesAreBounded
  <2>1. runs[r].late + runs[r].completions + Cardinality(Serving(r)) <= Cardinality(Procs)
    BY DEF Races
  <2>2. Cardinality(Serving(r)) \in Nat /\ Cardinality(Procs) \in Nat
    BY ServingIsBounded DEF Serving
  <2>3. runs[r].late \in Nat /\ runs[r].completions \in Nat
    <3>1. runs \in Seq(Run)
      BY DEF IInv, Tables
    <3>2. runs[r] \in Run
      BY <3>1
    <3>3. QED
      BY <3>2 DEF Run
  <2>4. QED
    BY <2>1, <2>2, <2>3
<1>4. QED
  BY <1>1, <1>2, <1>3, Inductive, PTL DEF Spec

----------------------------------------------------------------------------
(***************************************************************************)
(* Reseeding.                                                              *)
(***************************************************************************)
\* The untouched seed templates of a name, and the requests that have not
\* seen it and will add one.
Copies(n) ==
    {i \in DOMAIN templates :
        templates[i].name = n /\ templates[i].seed /\ ~templates[i].edited}

Readers(n) == {p \in Procs : At(p, "commit", "reseed") /\ n \notin req[p].seen}

\* A request that found no template of a name has found it when there was
\* none; one that adds it takes its own place.
Counted ==
    /\ \A n \in Texts : Cardinality(Copies(n)) + Cardinality(Readers(n)) <= Cardinality(Procs)
    /\ \A p \in Procs : At(p, "commit", "update_template") /\ req[p].seen.edited
                           => templates[req[p].on].edited

\* What the requests make of the templates.
LEMMA TemplateSteps ==
  ASSUME NEW p \in Procs, Request(p), UNCHANGED templates => FALSE
  PROVE  \/ CreateRestaurant(p) \/ Reseed(p) \/ CreateTemplate(p) \/ CreateItem(p)
         \/ UpdateTemplate(p) \/ SetTemplateActive(p) \/ DeleteTemplate(p)
<1>1. ~Arrive(p) /\ ~Account(p)
  BY DEF Arrive, Account, haccpVars
<1>2. ~EquipmentStep(p)
  BY DEF EquipmentStep, CreateEquipment, ReadEquipment, UpdateEquipment, DeleteEquipment,
     WriteEquipment, EquipmentRequest, LogTemperature, haccpVars
<1>3. ~RunStep(p)
  BY DEF RunStep, ReadTemplate, StartRun, ReadRun, SubmitAnswer, CheckRun, CompleteRun, RunRequest
<1>4. QED
  BY <1>1, <1>2, <1>3 DEF Request, TemplateStep, ReadNames, ReadToWrite, haccpVars

\* No two seeds share a name.
LEMMA NamesTellSeeds ==
  \A i, j \in DOMAIN SEED_TEMPLATES :
     SEED_TEMPLATES[i].name = SEED_TEMPLATES[j].name => i = j
<1> DEFINE name(i) == SEED_TEMPLATES[i].name
<1>1. DOMAIN SEED_TEMPLATES = 1..15
  BY DEF SEED_TEMPLATES
<1>2. \A i \in 1..15 : i \in {1, 2, 3, 4, 5, 6, 7, 8, 9, 10, 11, 12, 13, 14, 15}
  OBVIOUS
<1>3. /\ name(1) = "Opening Check"
      /\ name(2) = "Closing Check"
      /\ name(3) = "Temperature Log"
      /\ name(4) = "Delivery Check"
      /\ name(5) = "Cleaning Log"
      /\ name(6) = "Weekly Deep Clean"
      /\ name(7) = "SC3 Cooking/Cooling/Reheating Record"
      /\ name(8) = "SC4 Hot Hold/Display Record"
      /\ name(9) = "SC6 Staff Hygiene Training Record"
      /\ name(10) = "SC7 Fitness to Work Assessment"
      /\ name(11) = "Allergen Record"
      /\ name(12) = "Fire Safety Check"
      /\ name(13) = "Pest Control Log"
      /\ name(14) = "Accident and Incident Record"
      /\ name(15) = "Opening and Closing Safety Check"
  BY DEF SEED_TEMPLATES, OpeningCheck, ClosingCheck, TemperatureRound, DeliveryCheck, CleaningLog,
     WeeklyDeepClean, CookingRecord, HotHoldRecord, HygieneTraining, FitnessToWork, AllergenRecord,
     FireSafetyCheck, PestControlLog, AccidentRecord, SafetyCheck, Checklist, EquipmentRound
<1> HIDE DEF name
<1>4. ASSUME NEW i \in 1..15, NEW j \in 1..15, name(i) = name(j)
      PROVE  i = j
  <2>1. /\ (name(i) = name(1) => i = 1) /\ (name(i) = name(2) => i = 2)
        /\ (name(i) = name(3) => i = 3) /\ (name(i) = name(4) => i = 4)
        /\ (name(i) = name(5) => i = 5) /\ (name(i) = name(6) => i = 6)
        /\ (name(i) = name(7) => i = 7) /\ (name(i) = name(8) => i = 8)
        /\ (name(i) = name(9) => i = 9) /\ (name(i) = name(10) => i = 10)
        /\ (name(i) = name(11) => i = 11) /\ (name(i) = name(12) => i = 12)
        /\ (name(i) = name(13) => i = 13) /\ (name(i) = name(14) => i = 14)
        /\ (name(i) = name(15) => i = 15)
    BY <1>2, <1>3, ZenonT(60)
  <2>2. QED
    BY <1>4, <2>1
<1>5. QED
  BY <1>1, <1>4 DEF name

\* The new rows of a name that was missing are at most one, and none of a name
\* that was there.
LEMMA NewRowsAreDistinct ==
  ASSUME NEW names, NEW j \in DOMAIN NewRows(names)
  PROVE  /\ NewRows(names)[j].name \notin names
         /\ \A k \in DOMAIN NewRows(names) :
               NewRows(names)[j].name = NewRows(names)[k].name => j = k
<1> DEFINE S == Missing(names)
           c == Cardinality(S)
           q == SetToSeq(S)
<1>1. c \in Nat /\ NewRows(names) = [i \in 1..c |-> Seeded(q[i])]
  BY NewRowsAreSeeds DEF NewRows
<1>2. q \in [1..c -> S] /\ IsInjective(q)
  BY MissingInOrder
<1>3. \A i \in 1..c : q[i] \in Range(SEED_TEMPLATES) /\ q[i].name \notin names
  BY <1>2 DEF Missing
<1>4. \A i \in 1..c : NewRows(names)[i].name = q[i].name
  BY <1>1 DEF Seeded
<1>5. \A a, b \in 1..c : q[a].name = q[b].name => a = b
  <2>1. \A s, t \in Range(SEED_TEMPLATES) : s.name = t.name => s = t
    BY NamesTellSeeds DEF Range
  <2>2. QED
    BY <1>2, <1>3, <2>1 DEF IsInjective
<1>6. QED
  BY <1>1, <1>3, <1>4, <1>5

\* What a reseed or an update is about to write follows from what it has read.
LEMMA TemplateReads ==
  ASSUME IInv, NEW p \in Procs, Request(p), pc'[p] = "commit"
  PROVE  /\ req'[p].kind = "reseed" =>
               UNCHANGED templates /\ req'[p].seen = ExistingNames
         /\ req'[p].kind = "update_template" =>
               /\ UNCHANGED templates
               /\ req'[p].on \in DOMAIN templates /\ req'[p].seen = templates[req'[p].on]
<1> SUFFICES ASSUME req'[p].kind \in {"reseed", "update_template"}
             PROVE  /\ UNCHANGED templates
                    /\ req'[p].kind = "reseed" => req'[p].seen = ExistingNames
                    /\ req'[p].kind = "update_template" =>
                          req'[p].on \in DOMAIN templates /\ req'[p].seen = templates[req'[p].on]
  OBVIOUS
<1>1. ~End(p) /\ ~Enters(p) /\ req'[p].kind = req[p].kind /\ pc[p] # "idle"
  BY Reached
<1>2. ~Arrive(p) /\ ~Account(p) /\ ~CreateRestaurant(p)
  BY <1>1 DEF Enters, Account, Die, MemberStep, ReadInvited, ReadMember, CommitInvited,
     UpdateRole, RemoveMember, CreateRestaurant, Found, At
<1>3. ~EquipmentStep(p)
  BY <1>1 DEF EquipmentStep, CreateEquipment, ReadEquipment, UpdateEquipment, DeleteEquipment,
     WriteEquipment, EquipmentRequest, LogTemperature, At
<1>4. ~RunStep(p)
  BY <1>1 DEF RunStep, ReadTemplate, StartRun, ReadRun, SubmitAnswer, CheckRun, CompleteRun,
     RunRequest, At
<1>5. ReadNames(p) \/ ReadToWrite(p)
  BY <1>1, <1>2, <1>3, <1>4 DEF Request, TemplateStep, Reseed, CreateTemplate, CreateItem,
     UpdateTemplate, SetTemplateActive, DeleteTemplate, WriteTemplate, TemplateRequest
<1>6. UNCHANGED templates
  BY <1>5 DEF ReadNames, ReadToWrite, haccpVars
<1>7. ASSUME NEW on, NEW seen, Keep(p, on, seen)
      PROVE  req'[p].on = on /\ req'[p].seen = seen
  <2>1. Continues(p, on, seen, "commit")
    BY <1>7 DEF Keep, Continues
  <2>2. QED
    BY <1>1, <2>1, ContinueKeepsRequest
<1>8. CASE ReadNames(p)
  BY <1>1, <1>6, <1>7, <1>8 DEF ReadNames, At
<1>9. CASE ReadToWrite(p)
  <2>1. PICK i \in DOMAIN templates : Keep(p, i, templates[i])
    BY <1>9 DEF ReadToWrite, Handled
  <2>2. req[p].kind # "reseed"
    BY <1>9 DEF ReadToWrite, At
  <2>3. QED
    BY <1>1, <1>6, <1>7, <2>1, <2>2
<1>10. QED
  BY <1>5, <1>8, <1>9

\* A written row is marked as edited, unless it was; no other column that tells
\* an untouched seed changes but by an update.
LEMMA RowsKeep ==
  ASSUME IInv, NEW p \in Procs, Request(p), NEW i \in DOMAIN templates
  PROVE  LET old == templates[i]
             new == templates'[i]
         IN /\ i \in DOMAIN templates'
            /\ \/ new.name = old.name /\ new.seed = old.seed /\ new.edited = old.edited
               \/ /\ UpdateTemplate(p) /\ i = req[p].on
                  /\ new.edited = IF req[p].seen.edited THEN old.edited ELSE TRUE
<1>1. templates \in Seq(Template) /\ templates[i] \in Template
  BY DEF IInv, Tables
<1>2. CASE UNCHANGED templates
  BY <1>2
<1>3. CASE CreateRestaurant(p)
  <2>1. templates = << >>
    BY <1>3 DEF CreateRestaurant, Found, IInv, Consistent
  <2>2. QED
    BY <2>1
<1>4. ASSUME NEW n \in Nat, NEW rows \in [1..n -> Template], templates' = templates \o rows
      PROVE  i \in DOMAIN templates' /\ templates'[i] = templates[i]
  <2>1. rows \in Seq(Template)
    OBVIOUS
  <2>2. QED
    BY <1>1, <1>4, <2>1
<1>5. CASE Reseed(p)
  BY <1>4, <1>5, NewRowsAreSeeds DEF Reseed
<1>6. CASE CreateTemplate(p)
  <2>1. PICK rows \in [1..1 -> Template] : templates' = templates \o rows
    BY <1>6, OneNewTemplate
  <2>2. 1 \in Nat
    OBVIOUS
  <2>3. QED
    BY <1>4, <2>1, <2>2
<1>7. CASE CreateItem(p)
  <2>1. PICK j \in DOMAIN templates : templates' = [templates EXCEPT ![j].required = @ + 1]
    BY <1>7 DEF CreateItem, Handled
  <2>2. templates[j] \in Template
    BY <1>1
  <2> DEFINE row == [templates[j] EXCEPT !.required = @ + 1]
  <2>3. row.name = templates[j].name /\ row.seed = templates[j].seed /\ row.edited = templates[j].edited
    BY <2>2 DEF Template
  <2>4. templates' = [templates EXCEPT ![j] = row]
    BY <2>1
  <2> HIDE DEF row
  <2>5. QED
    BY <1>1, <2>3, <2>4
<1>8. ASSUME NEW row, templates' = [templates EXCEPT ![req[p].on] = row]
      PROVE  /\ i \in DOMAIN templates'
             /\ templates'[i] = IF i = req[p].on THEN row ELSE templates[i]
  BY <1>1, <1>8
<1>9. CASE SetTemplateActive(p) \/ DeleteTemplate(p)
  <2>1. req[p].on \in DOMAIN templates /\ req[p].seen \in Template
    BY <1>9 DEF SetTemplateActive, DeleteTemplate, WriteTemplate, TemplateRequest, At, IInv, Knows, Read
  <2> DEFINE old == templates[req[p].on]
  <2>2. old \in Template
    BY <1>1, <2>1
  <2>3. ASSUME NEW active \in BOOLEAN
        PROVE  LET row == Written(old, req[p].seen, [req[p].seen EXCEPT !.active = active])
               IN row.name = old.name /\ row.seed = old.seed /\ row.edited = old.edited
    BY <2>1, <2>2 DEF Written, Template
  <2>4. PICK active \in BOOLEAN :
           templates' = [templates EXCEPT ![req[p].on] =
                           Written(old, req[p].seen, [req[p].seen EXCEPT !.active = active])]
    BY <1>9 DEF SetTemplateActive, DeleteTemplate, WriteTemplate
  <2>5. QED
    BY <1>8, <2>3, <2>4
<1>10. CASE UpdateTemplate(p)
  <2>1. req[p].on \in DOMAIN templates /\ req[p].seen \in Template
    BY <1>10 DEF UpdateTemplate, WriteTemplate, TemplateRequest, At, IInv, Knows, Read
  <2> DEFINE old  == templates[req[p].on]
             mine == [req[p].seen EXCEPT !.edited = TRUE]
  <2>2. old \in Template /\ mine \in Template /\ mine.edited = TRUE
    <3>1. \A yes \in BOOLEAN : /\ [req[p].seen EXCEPT !.edited = yes] \in Template
                              /\ [req[p].seen EXCEPT !.edited = yes].edited = yes
      BY <2>1 DEF Template
    <3>2. mine \in Template /\ mine.edited = TRUE
      <4>1. TRUE \in BOOLEAN
        OBVIOUS
      <4>2. QED
        BY ONLY <3>1, <4>1
    <3>3. QED
      BY <1>1, <2>1, <3>2
  <2>3. PICK f \in work.forms :
           templates' = [templates EXCEPT ![req[p].on] = Written(old, req[p].seen, Patched(mine, f))]
    BY <1>10 DEF UpdateTemplate, WriteTemplate
  <2> DEFINE new == Patched(mine, f)
  <2>4. IsForm(f)
    BY WorkloadAssumption DEF IInv, Tables
  <2>5. new.edited = TRUE
    BY <2>2, <2>4 DEF Patched, IsForm, FormTexts, Template
  <2> HIDE DEF new, mine
  <2>6. Written(old, req[p].seen, new).edited = IF req[p].seen.edited THEN old.edited ELSE TRUE
    BY <2>1, <2>2, <2>5 DEF Written, Template
  <2>7. QED
    BY <1>8, <1>10, <2>3, <2>6 DEF new
<1>11. QED
  BY <1>2, <1>3, <1>5, <1>6, <1>7, <1>9, <1>10, TemplateSteps

LEMMA AddedRow ==
  ASSUME NEW S, NEW s \in Seq(S), NEW t \in Seq(S), NEW i \in DOMAIN (s \o t), i \notin DOMAIN s
  PROVE  i \in Nat /\ i - Len(s) \in DOMAIN t /\ (s \o t)[i] = t[i - Len(s)]
OBVIOUS

\* Only a reseed, or the creation of the restaurant, adds a copy.
LEMMA CopiesKeep ==
  ASSUME IInv, Counted, NEW p \in Procs, Request(p), ~Reseed(p), ~CreateRestaurant(p), NEW n
  PROVE  Copies(n)' \subseteq Copies(n)
<1> SUFFICES ASSUME NEW i \in Copies(n)'
             PROVE  i \in Copies(n)
  OBVIOUS
<1>1. /\ i \in DOMAIN templates' /\ templates'[i].name = n
      /\ templates'[i].seed /\ ~templates'[i].edited
  BY DEF Copies
<1>2. templates \in Seq(Template)
  BY DEF IInv, Tables
<1>3. CASE i \in DOMAIN templates
  <2>1. templates[i].edited \in BOOLEAN
    <3>1. templates[i] \in Template
      BY <1>2, <1>3
    <3>2. QED
      BY <3>1 DEF Template
  <2>2. CASE /\ UpdateTemplate(p) /\ i = req[p].on
             /\ templates'[i].edited = IF req[p].seen.edited THEN templates[i].edited ELSE TRUE
    <3>1. At(p, "commit", "update_template")
      BY <2>2 DEF UpdateTemplate, WriteTemplate, TemplateRequest
    <3>2. req[p].seen.edited => templates[i].edited
      BY <2>2, <3>1 DEF Counted
    <3>3. QED
      BY <1>1, <2>1, <2>2, <3>2
  <2>3. QED
    BY <1>1, <1>3, <2>2, RowsKeep DEF Copies
<1>4. CASE i \notin DOMAIN templates
  <2>1. ~UpdateTemplate(p) /\ ~SetTemplateActive(p) /\ ~DeleteTemplate(p)
    BY <1>1, <1>2, <1>4 DEF UpdateTemplate, SetTemplateActive, DeleteTemplate, WriteTemplate
  <2>2. ~CreateItem(p)
    BY <1>1, <1>2, <1>4 DEF CreateItem
  <2>3. ~UNCHANGED templates
    BY <1>1, <1>4
  <2>4. CreateTemplate(p)
    BY <2>1, <2>2, <2>3, TemplateSteps
  <2>5. PICK rows \in [1..1 -> Template] : rows[1].seed = FALSE /\ templates' = templates \o rows
    BY <2>4, OneNewTemplate
  <2>6. templates'[i] = rows[1]
    <3>1. rows \in Seq(Template) /\ DOMAIN rows = 1..1
      OBVIOUS
    <3>2. i - Len(templates) \in 1..1 /\ templates'[i] = rows[i - Len(templates)]
      BY <1>1, <1>2, <1>4, <2>5, <3>1, AddedRow
    <3>3. QED
      BY <3>2
  <2>7. QED
    BY <1>1, <2>5, <2>6
<1>5. QED
  BY <1>3, <1>4

\* A reseed adds one copy of a name it has not seen, and none of the others.
LEMMA ReseedAdds ==
  ASSUME IInv, NEW p \in Procs, Request(p), Reseed(p), NEW n
  PROVE  \E x : /\ Copies(n)' \subseteq Copies(n) \cup {x}
                /\ n \in req[p].seen => Copies(n)' \subseteq Copies(n)
<1> DEFINE new == NewRows(req[p].seen)
           len == Len(templates)
<1>1. templates \in Seq(Template) /\ templates' = templates \o new
  BY DEF IInv, Tables, Reseed
<1>2. PICK c \in Nat : new \in [1..c -> Template]
  BY NewRowsAreSeeds
<1>3. new \in Seq(Template) /\ Len(new) = c /\ DOMAIN new = 1..c
  BY <1>2
<1>4. ~UpdateTemplate(p)
  BY DEF Reseed, UpdateTemplate, WriteTemplate, TemplateRequest, At
<1>5. ASSUME NEW i \in Copies(n)'
      PROVE  i \in Copies(n) \/ (i - len \in DOMAIN new /\ i \in Nat /\ new[i - len].name = n)
  <2>1. /\ i \in DOMAIN templates' /\ templates'[i].name = n
        /\ templates'[i].seed /\ ~templates'[i].edited
    BY DEF Copies
  <2>2. CASE i \in DOMAIN templates
    BY <1>4, <2>1, <2>2, RowsKeep DEF Copies
  <2>3. CASE i \notin DOMAIN templates
    <3> HIDE DEF new
    <3>1. QED
      BY <1>1, <1>3, <2>1, <2>3
  <2>4. QED
    BY <2>2, <2>3
<1>6. \A j, k \in DOMAIN new : new[j].name = n /\ new[k].name = n => j = k /\ n \notin req[p].seen
  BY NewRowsAreDistinct
<1> HIDE DEF new
<1>7. len \in Nat
  BY <1>1
<1> HIDE DEF len
<1>8. CASE \E j \in DOMAIN new : new[j].name = n
  <2>1. PICK j \in DOMAIN new : new[j].name = n
    BY <1>8
  <2>2. n \notin req[p].seen
    BY <1>6, <2>1
  <2>3. \A i \in Copies(n)' : i \in Copies(n) \/ i = j + len
    <3> SUFFICES ASSUME NEW i \in Copies(n)', i \notin Copies(n)
                 PROVE  i = j + len
      OBVIOUS
    <3>1. i \in Nat /\ i - len = j
      BY <1>5, <1>6, <2>1
    <3>2. QED
      BY <1>7, <3>1
  <2>4. Copies(n)' \subseteq Copies(n) \cup {j + len}
    BY <2>3
  <2>5. QED
    BY <2>2, <2>4
<1>9. CASE ~\E j \in DOMAIN new : new[j].name = n
  BY <1>5, <1>9
<1>10. QED
  BY <1>8, <1>9

LEMMA CopiesAreCounted ==
  ASSUME IInv, NEW n
  PROVE  IsFiniteSet(Copies(n)) /\ Cardinality(Copies(n)) \in Nat
<1>1. templates \in Seq(Template)
  BY DEF IInv, Tables
<1>2. IsFiniteSet(1..Len(templates)) /\ Copies(n) \subseteq 1..Len(templates)
  BY <1>1, FS_Interval DEF Copies
<1>3. QED
  BY <1>2, FS_Subset, FS_CardinalityType

\* Nobody else is served while the restaurant is created.
LEMMA FoundCopies ==
  ASSUME IInv, NEW p \in Procs, Request(p), CreateRestaurant(p), NEW n
  PROVE  Readers(n)' = {} /\ \E x : Copies(n)' \subseteq {x}
<1>1. \A u \in Users : members[u] = Nobody
  BY DEF CreateRestaurant, Found
<1>2. ASSUME NEW q \in Readers(n)'
      PROVE  FALSE
  <2>1. pc'[q] = "commit" /\ req'[q].kind = "reseed"
    BY DEF Readers, At
  <2>2. CASE q = p
    BY <2>1, <2>2 DEF CreateRestaurant, Found, End, Go, IInv, Processes
  <2>3. CASE q # p
    <3>1. pc[q] = "commit" /\ req[q].kind = "reseed" /\ q \in Procs
      BY <2>1, <2>3, OthersWait DEF Readers
    <3>2. req[q].user \in Users /\ members[req[q].user] # Nobody
      BY <3>1 DEF IInv, Tables, Knows
    <3>3. QED
      BY <1>1, <3>2
  <2>4. QED
    BY <2>2, <2>3
<1>3. \A i, j \in Copies(n)' : i = j
  BY NamesTellSeeds DEF Copies, CreateRestaurant, create_seed_templates, Seeded
<1>4. \E x : Copies(n)' \subseteq {x}
  <2>1. CASE Copies(n)' = {}
    BY <2>1
  <2>2. CASE Copies(n)' # {}
    <3>1. PICK x : x \in Copies(n)'
      BY <2>2
    <3>2. QED
      BY <1>3, <3>1
  <2>3. QED
    BY <2>1, <2>2
<1>5. QED
  BY <1>2, <1>4

\* A request that starts to reseed has seen a name unless there is no copy.
LEMMA ReadersStart ==
  ASSUME IInv, NEW p \in Procs, Request(p), NEW n
  PROVE  /\ Readers(n)' \subseteq Readers(n) \cup {p}
         /\ p \in Readers(n)' => Copies(n)' = {}
<1>1. Readers(n)' \subseteq Readers(n) \cup {p}
  BY OthersWait DEF Readers, At
<1>2. ASSUME p \in Readers(n)'
      PROVE  Copies(n)' = {}
  <2>1. pc'[p] = "commit" /\ req'[p].kind = "reseed" /\ n \notin req'[p].seen
    BY <1>2 DEF Readers, At
  <2>2. UNCHANGED templates /\ n \notin ExistingNames
    BY <2>1, TemplateReads
  <2>3. QED
    BY <2>2 DEF Copies, ExistingNames, Range
<1>3. QED
  BY <1>1, <1>2

LEMMA RequestKeepsCounted ==
  ASSUME IInv, IInv', Counted, NEW p \in Procs, Request(p)
  PROVE  Counted'
<1>1. ASSUME NEW n \in Texts
      PROVE  Cardinality(Copies(n)') + Cardinality(Readers(n)') <= Cardinality(Procs)
  <2> DEFINE copies  == Cardinality(Copies(n))
             readers == Cardinality(Readers(n))
             more    == Cardinality(Copies(n)')
             left    == Cardinality(Readers(n)')
             all     == Cardinality(Procs)
  <2>1. copies \in Nat /\ more \in Nat /\ IsFiniteSet(Copies(n)) /\ IsFiniteSet(Copies(n)')
    <3>1. templates' \in Seq(Template)
      BY DEF IInv, Tables
    <3>2. IsFiniteSet(1..Len(templates')) /\ Copies(n)' \subseteq 1..Len(templates')
      BY <3>1, FS_Interval DEF Copies
    <3>3. QED
      BY <3>2, CopiesAreCounted, FS_Subset, FS_CardinalityType
  <2>2. /\ readers \in Nat /\ left \in Nat /\ all \in Nat /\ left <= all
        /\ IsFiniteSet(Readers(n)) /\ IsFiniteSet(Readers(n)')
    BY ServingIsBounded DEF Readers
  <2>3. copies + readers <= all
    BY DEF Counted
  <2>4. CASE p \in Readers(n)'
    BY <2>1, <2>2, <2>4, ReadersStart, FS_EmptySet
  <2>5. CASE p \notin Readers(n)' /\ Reseed(p)
    <3>1. At(p, "commit", "reseed")
      BY <2>5 DEF Reseed
    <3>2. PICK x : /\ Copies(n)' \subseteq Copies(n) \cup {x}
                   /\ n \in req[p].seen => Copies(n)' \subseteq Copies(n)
      BY <2>5, ReseedAdds
    <3>3. Readers(n)' \subseteq Readers(n) \ {p}
      BY <2>5, ReadersStart
    <3>4. CASE n \in req[p].seen
      <4>1. more <= copies /\ left <= readers
        BY <2>1, <2>2, <3>2, <3>3, <3>4, FS_Subset
      <4>2. QED
        BY <2>1, <2>2, <2>3, <4>1
    <3>5. CASE n \notin req[p].seen
      <4>1. p \in Readers(n)
        BY <3>1, <3>5 DEF Readers
      <4>2. Cardinality(Readers(n) \ {p}) = readers - 1 /\ IsFiniteSet(Readers(n) \ {p})
        BY <2>2, <4>1, FS_RemoveElement
      <4>3. left <= readers - 1
        BY <3>3, <4>2, FS_Subset
      <4>4. /\ IsFiniteSet(Copies(n) \cup {x})
            /\ Cardinality(Copies(n) \cup {x}) \in {copies, copies + 1}
        BY <2>1, FS_AddElement
      <4>5. more <= Cardinality(Copies(n) \cup {x})
        BY <3>2, <4>4, FS_Subset
      <4>6. QED
        BY <2>1, <2>2, <2>3, <4>3, <4>4, <4>5
    <3>6. QED
      BY <3>4, <3>5
  <2>6. CASE CreateRestaurant(p)
    <3>1. PICK x : Copies(n)' \subseteq {x} /\ Readers(n)' = {}
      BY <2>6, FoundCopies
    <3>2. more <= 1
      <4>1. IsFiniteSet({x}) /\ Cardinality({x}) = 1
        BY FS_Singleton
      <4>2. QED
        BY <3>1, <4>1, FS_Subset
    <3>3. left = 0
      BY <3>1, FS_EmptySet
    <3>4. all >= 1
      BY <2>2, ProcsAssumption, FS_EmptySet
    <3>5. QED
      BY <2>1, <2>2, <3>2, <3>3, <3>4
  <2>7. CASE p \notin Readers(n)' /\ ~Reseed(p) /\ ~CreateRestaurant(p)
    <3>1. Copies(n)' \subseteq Copies(n) /\ Readers(n)' \subseteq Readers(n)
      BY <2>7, CopiesKeep, ReadersStart
    <3>2. more <= copies /\ left <= readers
      BY <2>1, <2>2, <3>1, FS_Subset
    <3>3. QED
      BY <2>1, <2>2, <2>3, <3>2
  <2>8. QED
    BY <2>4, <2>5, <2>6, <2>7
<1>2. ASSUME NEW q \in Procs, pc'[q] = "commit", req'[q].kind = "update_template",
             req'[q].seen.edited
      PROVE  templates'[req'[q].on].edited
  <2>1. CASE q = p
    BY <1>2, <2>1, TemplateReads
  <2>2. CASE q # p
    <3>1. pc[q] = "commit" /\ req[q].kind = "update_template" /\ req'[q] = req[q]
      BY <1>2, <2>2, OthersWait
    <3>2. templates[req[q].on].edited
      BY <1>2, <3>1 DEF Counted, At
    <3>3. req[q].on \in DOMAIN templates
      BY <3>1 DEF IInv, Knows, Read
    <3>4. QED
      BY <3>1, <3>2, <3>3, RowsKeep
  <2>3. QED
    BY <2>1, <2>2
<1>3. QED
  BY <1>1, <1>2 DEF Counted, At

LEMMA NextKeepsCounted ==
  ASSUME IInv, IInv', Counted, [Next]_vars
  PROVE  Counted'
<1>1. CASE UNCHANGED <<accessVars, templates>>
  BY <1>1 DEF Counted, Copies, Readers, At, accessVars
<1>2. CASE NextDay \/ UNCHANGED vars
  BY <1>1, <1>2 DEF NextDay, vars, haccpVars
<1>3. ASSUME NEW p \in work.desks, Request(p)
      PROVE  Counted'
  BY <1>3, RequestKeepsCounted, WorkloadAssumption DEF IInv, Tables
<1>4. QED
  BY <1>2, <1>3 DEF Next

\* However the requests overlap, no seed template has more untouched copies
\* than there are processes (haccp_service.py:1094).
THEOREM ReseedsAreBounded == Spec => []SeededOnce
<1>1. Init => Counted
  <2> SUFFICES ASSUME Init
               PROVE  Counted
    OBVIOUS
  <2>1. \A n : Copies(n) = {} /\ Readers(n) = {}
    BY DEF Init, AccessInit, HaccpInit, Copies, Readers, At
  <2>2. \A p \in Procs : ~At(p, "commit", "update_template")
    BY DEF Init, AccessInit, At
  <2>3. Cardinality({}) = 0 /\ Cardinality(Procs) \in Nat
    BY ProcsAssumption, FS_EmptySet, FS_CardinalityType
  <2>4. QED
    BY <2>1, <2>2, <2>3 DEF Counted
<1>2. IInv /\ IInv' /\ Counted /\ [Next]_vars => Counted'
  BY NextKeepsCounted
<1>3. IInv /\ Counted => SeededOnce
  <2> SUFFICES ASSUME IInv, Counted, NEW s \in Range(SEED_TEMPLATES)
               PROVE  Cardinality(Copies(s.name)) <= Cardinality(Procs)
    BY DEF SeededOnce, Copies
  <2>1. s.name \in Texts
    <3>1. s.name \in {s.name, s.frequency, s.filter}
      OBVIOUS
    <3>2. s.name \in SeedTexts
      BY <3>1 DEF SeedTexts
    <3>3. QED
      BY <3>2 DEF Texts
  <2>2. Cardinality(Copies(s.name)) \in Nat /\ Cardinality(Readers(s.name)) \in Nat
        /\ Cardinality(Procs) \in Nat
    BY CopiesAreCounted, ServingIsBounded DEF Readers
  <2>3. QED
    BY <2>1, <2>2 DEF Counted
<1>4. QED
  BY <1>1, <1>2, <1>3, Inductive, PTL DEF Spec
=============================================================================
