------------------------- MODULE RestaurantProofs -------------------------
(***************************************************************************)
(* Types of a restaurant at work, for any processes, people, equipment,    *)
(* machines, readings and workloads, with their requests interleaved at    *)
(* will.                                                                   *)
(*                                                                         *)
(* The argument: tables only grow, so a row a request has read is still    *)
(* there when it writes, and columns are written back one by one, so what  *)
(* it writes is still a row.  Nothing else can be said of a row between    *)
(* the read and the write: that is why Knows speaks of types and           *)
(* existence.                                                              *)
(***************************************************************************)
EXTENDS Restaurant, FiniteSetTheorems, SequenceTheorems, TLAPS

Phases == {"idle", "register", "member", "handler", "check", "commit"}

Run ==
    [template : Nat, date : Nat, status : {"in_progress", "completed"},
     snapshot : (SUBSET Equipment) \cup {NoSnapshot}, answered : Nat,
     readings : SUBSET Equipment, asked : Nat, late : Nat, completions : Nat]

Log ==
    [equipment : Equipment, temperature : Int, recorded : Nat, created : Nat,
     out : BOOLEAN, limits : Piece]

\* The tables hold rows.
Tables ==
    /\ users \in SUBSET Users
    /\ members \in [Users -> Row \cup {Nobody}]
    /\ templates \in Seq(Template)
    /\ equipment \in [Equipment -> Piece \cup {NoEquipment}]
    /\ runs \in Seq(Run)
    /\ logs \in Seq(Log)
    /\ day \in Nat
    /\ work \in Workloads

\* What the rows say of each other.  Until somebody is a member there is
\* nothing: the restaurant, its owner and its templates are one commit.
Consistent ==
    /\ \A u \in Users : members[u] # Nobody => u \in users
    /\ (\A u \in Users : members[u] = Nobody) => templates = << >>
    /\ \A r \in DOMAIN runs :
          /\ runs[r].template \in DOMAIN templates
          /\ runs[r].answered <= templates[runs[r].template].required
          /\ runs[r].status = "completed" <=> runs[r].completions > 0
    /\ clean \subseteq DOMAIN templates

\* What a request that is about to commit has read, and that the row is there.
Read(p) ==
    LET kind == req[p].kind
        on   == req[p].on
        seen == req[p].seen
    IN \/ /\ kind = "invite"
          /\ on \in users /\ seen \in Invitation
          /\ seen.row # Nobody => members[on] # Nobody
       \/ /\ kind \in {"role", "remove"}
          /\ on \in Users /\ seen \in Row /\ members[on] # Nobody
       \/ /\ kind = "reseed" /\ seen \in SUBSET Texts
       \/ /\ kind \in {"update_template", "set_active", "delete_template", "start"}
          /\ on \in DOMAIN templates /\ seen \in Template
       \/ /\ kind \in {"update_equipment", "delete_equipment"}
          /\ on \in Equipment /\ seen \in Piece /\ equipment[on] # NoEquipment
       \/ /\ kind \in {"answer", "complete"}
          /\ on \in DOMAIN runs /\ seen \in Nat

\* What holds of a process at each of its steps.
Knows(p) ==
    /\ pc[p] = "idle" <=> req[p] = NoRequest
    /\ pc[p] \in {"member", "handler", "check", "commit"} => req[p].user \in users
    /\ pc[p] = "member" => req[p].kind # "create"
    /\ pc[p] \in {"handler", "check", "commit"} /\ req[p].kind # "create"
          => members[req[p].user] # Nobody
    /\ pc[p] = "handler" /\ req[p].kind # "create" => req[p].seen \in Row
    /\ pc[p] = "check" => req[p].kind = "complete" /\ req[p].on \in DOMAIN runs
    /\ pc[p] = "commit" => Read(p)

Processes ==
    /\ pc \in [Procs -> Phases]
    /\ req \in [Procs -> Served \cup {NoRequest}]

IInv == Tables /\ Consistent /\ Processes /\ \A p \in Procs : Knows(p)
----------------------------------------------------------------------------
\* No table loses a row.
Grows ==
    /\ users \subseteq users'
    /\ \A u \in Users : members[u] # Nobody => members'[u] # Nobody
    /\ DOMAIN templates \subseteq DOMAIN templates'
    /\ \A e \in Equipment : equipment[e] # NoEquipment => equipment'[e] # NoEquipment
    /\ DOMAIN runs \subseteq DOMAIN runs'

\* Only process p moves.
Moves(p) ==
    /\ Processes'
    /\ \A q \in Procs \ {p} : pc'[q] = pc[q] /\ req'[q] = req[q]

\* What the others know stays true while the tables grow.
LEMMA StepKeepsInv ==
  ASSUME IInv, NEW p \in Procs, Tables', Consistent', Grows, Moves(p), Knows(p)'
  PROVE  IInv'
<1>1. ASSUME NEW q \in Procs \ {p}
      PROVE  Knows(q)'
  <2>1. pc'[q] = pc[q] /\ req'[q] = req[q]
    BY DEF Moves
  <2>2. Knows(q)
    BY DEF IInv
  <2>3. pc[q] \in {"member", "handler", "check", "commit"} => req[q].user \in Users
    BY <2>2 DEF IInv, Tables, Knows
  <2>4. pc[q] = "commit" => Read(q)'
    <3> SUFFICES ASSUME pc[q] = "commit"
                 PROVE  Read(q)'
      OBVIOUS
    <3>1. Read(q)
      BY <2>2 DEF Knows
    <3>2. req[q].on \in users => req[q].on \in Users
      BY DEF IInv, Tables
    <3>3. QED
      BY <2>1, <3>1, <3>2 DEF Read, Grows
  <2>5. QED
    BY <2>1, <2>2, <2>3, <2>4 DEF Knows, Grows
<1>2. QED
  BY <1>1 DEF IInv, Moves

\* A request that ends leaves nothing behind in its process.
LEMMA EndMoves ==
  ASSUME IInv, NEW p \in Procs, End(p)
  PROVE  Moves(p) /\ Knows(p)'
BY DEF IInv, Processes, End, Go, Moves, Knows, Phases

\* A step of a request that goes on, to know more of its row.
Continues(p, on, seen, step) ==
    /\ req' = [req EXCEPT ![p].on = on, ![p].seen = seen]
    /\ Go(p, step)

LEMMA ContinueMoves ==
  ASSUME IInv, NEW p \in Procs, pc[p] # "idle", NEW on \in Subjects, NEW seen \in Reads,
         NEW step \in Phases \ {"idle"}, Continues(p, on, seen, step)
  PROVE  /\ Moves(p) /\ pc'[p] = step /\ req'[p] \in Served
         /\ req'[p].user = req[p].user /\ req'[p].kind = req[p].kind
         /\ req'[p].on = on /\ req'[p].seen = seen
<1> USE DEF Continues
<1>1. req[p] \in Served
  BY DEF IInv, Processes, Knows
<1>2. /\ req'[p] \in Served
      /\ req'[p].user = req[p].user /\ req'[p].kind = req[p].kind
      /\ req'[p].on = on /\ req'[p].seen = seen
  BY <1>1 DEF IInv, Processes, Served
<1>3. req' \in [Procs -> Served \cup {NoRequest}]
  BY <1>2 DEF IInv, Processes
<1>4. QED
  BY <1>2, <1>3 DEF IInv, Processes, Go, Moves

LEMMA KeepMoves ==
  ASSUME IInv, NEW p \in Procs, pc[p] # "idle", NEW on \in Subjects, NEW seen \in Reads,
         Keep(p, on, seen)
  PROVE  /\ Moves(p) /\ pc'[p] = "commit" /\ req'[p] \in Served
         /\ req'[p].user = req[p].user /\ req'[p].kind = req[p].kind
         /\ req'[p].on = on /\ req'[p].seen = seen
<1>1. "commit" \in Phases \ {"idle"} /\ Continues(p, on, seen, "commit")
  BY DEF Keep, Continues, Phases
<1>2. QED
  BY <1>1, ContinueMoves
----------------------------------------------------------------------------
(***************************************************************************)
(* Requests that change no table but users: the check of who asks, and the *)
(* reads of the handlers.                                                  *)
(***************************************************************************)
CleanStep == clean' = {i \in clean : templates'[i] = templates[i]}

LEMMA ReadingKeepsTables ==
  ASSUME IInv, CleanStep, UNCHANGED <<members, haccpVars>>, users \subseteq users', users' \subseteq Users
  PROVE  Tables' /\ Consistent' /\ Grows
BY DEF IInv, Tables, Consistent, CleanStep, haccpVars, Grows

\* A quiet step of p is one of a process that knows enough afterwards.
LEMMA QuietStep ==
  ASSUME IInv, CleanStep, NEW p \in Procs, UNCHANGED <<members, haccpVars>>,
         users \subseteq users', users' \subseteq Users, Moves(p), Knows(p)'
  PROVE  IInv'
BY ReadingKeepsTables, StepKeepsInv

\* Rows are things that can be read.
LEMMA RowsAreRead ==
  /\ \A x \in Template : x \in Reads
  /\ \A x \in Piece : x \in Reads
BY DEF Reads

LEMMA ArriveKeepsInv ==
  ASSUME IInv, CleanStep, NEW p \in Procs, Arrive(p)
  PROVE  IInv'
<1> USE DEF IInv
<1>1. PICK u \in work.people, kind \in work.kinds : SignIn(p, u, kind)
  BY DEF Arrive
<1>2. u \in Users /\ kind \in Kinds
  BY WorkloadAssumption DEF Tables
<1>3. 0 \in Subjects /\ 0 \in Reads
  BY DEF Subjects, Reads
<1>4. req'[p] \in Served /\ req'[p].user = u /\ req'[p].kind = kind
  BY <1>1, <1>2, <1>3 DEF SignIn, Processes, Served
<1>5. Moves(p)
  BY <1>1, <1>4 DEF SignIn, AfterSignIn, Processes, Moves, Go, Phases
<1>6. pc'[p] \in {"register", "member", "handler"} /\ (pc'[p] # "register" => u \in users)
  BY <1>1 DEF SignIn, AfterSignIn, Processes, Go
<1>7. pc'[p] = "member" => kind # "create"
  BY <1>1 DEF SignIn, AfterSignIn, Processes, Go
<1>8. pc'[p] = "handler" => kind = "create"
  BY <1>1 DEF SignIn, AfterSignIn, Processes, Go
<1>9. Knows(p)'
  BY <1>1, <1>4, <1>6, <1>7, <1>8, NoRequestAssumption DEF Knows, SignIn
<1>10. QED
  BY <1>1, <1>5, <1>9, QuietStep DEF Arrive, SignIn, Tables

LEMMA RegisterKeepsInv ==
  ASSUME IInv, CleanStep, NEW p \in Procs, Register(p), UNCHANGED haccpVars
  PROVE  IInv'
<1> USE DEF IInv
<1>1. req[p] \in Served /\ req[p].user \in Users
  BY DEF Register, Processes, Knows, Served
<1>2. CASE End(p) /\ UNCHANGED users
  BY <1>2, EndMoves, QuietStep DEF Register, Tables
<1>3. CASE users' = users \cup {req[p].user} /\ Go(p, AfterSignIn(req[p].kind)) /\ UNCHANGED req
  <2>1. Moves(p)
    BY <1>3 DEF Processes, Moves, Go, AfterSignIn, Phases
  <2>2. Knows(p)'
    BY <1>1, <1>3, NoRequestAssumption DEF Knows, Go, AfterSignIn, Processes
  <2>3. QED
    BY <1>1, <1>3, <2>1, <2>2, QuietStep DEF Register, Tables
<1>4. QED
  BY <1>2, <1>3 DEF Register

LEMMA AuthoriseKeepsInv ==
  ASSUME IInv, CleanStep, NEW p \in Procs, Authorise(p), UNCHANGED haccpVars
  PROVE  IInv'
<1> USE DEF IInv
<1> DEFINE u == req[p].user
<1>1. pc[p] = "member" /\ req[p] \in Served /\ u \in Users /\ u \in users /\ req[p].kind # "create"
  BY DEF Authorise, Processes, Knows, Tables
<1>2. CASE End(p)
  BY <1>2, EndMoves, QuietStep DEF Authorise, Tables
<1>3. CASE Active(u) /\ Go(p, "handler") /\ req' = [req EXCEPT ![p].seen = members[u]]
  <2>1. members[u] \in Row /\ members[u] \in Reads /\ members[u] # Nobody
    BY <1>1, <1>3 DEF Active, Tables, Reads
  <2>2. /\ req'[p] \in Served
        /\ req'[p].user = u /\ req'[p].kind = req[p].kind /\ req'[p].seen = members[u]
    BY <1>1, <1>3, <2>1 DEF Processes, Served
  <2>3. Moves(p)
    BY <1>3, <2>2 DEF Processes, Moves, Go, Phases
  <2>4. Knows(p)'
    BY <1>1, <1>3, <2>1, <2>2, NoRequestAssumption DEF Knows, Go, Processes, Authorise
  <2>5. QED
    BY <2>3, <2>4, QuietStep DEF Authorise, Tables
<1>4. QED
  BY <1>2, <1>3 DEF Authorise

\* A handler that keeps what it read, to commit later.
LEMMA KeepKeepsInv ==
  ASSUME IInv, CleanStep, NEW p \in Procs, pc[p] \in {"handler", "check"}, req[p].kind # "create",
         NEW on \in Subjects, NEW seen \in Reads, Keep(p, on, seen), Read(p)',
         UNCHANGED <<users, members, haccpVars>>
  PROVE  IInv'
<1>1. /\ Moves(p) /\ pc'[p] = "commit" /\ req'[p] \in Served
      /\ req'[p].user = req[p].user /\ req'[p].kind = req[p].kind
  BY KeepMoves
<1>2. Knows(p)'
  BY <1>1, NoRequestAssumption DEF IInv, Knows
<1>3. QED
  BY <1>1, <1>2, QuietStep DEF IInv, Tables

\* What the handlers read.
LEMMA MemberReadsKeepInv ==
  ASSUME IInv, CleanStep, NEW p \in Procs, ReadInvited(p) \/ ReadMember(p), UNCHANGED haccpVars
  PROVE  IInv'
<1>1. /\ pc[p] = "handler" /\ req[p].kind \in {"invite", "role", "remove"}
      /\ UNCHANGED <<users, members>>
  BY DEF ReadInvited, ReadMember, At
<1>2. CASE End(p)
  BY <1>1, <1>2, EndMoves, QuietStep DEF IInv, Tables
<1>3. \A u \in Users : RowRead(p, u) \in Row \cup {Nobody} /\ (RowRead(p, u) # Nobody => members[u] # Nobody)
  BY <1>1 DEF IInv, Tables, Knows, RowRead
<1>4. ASSUME NEW u \in users, NEW role \in Roles, req[p].kind = "invite",
             Keep(p, u, [role |-> role, row |-> RowRead(p, u)])
      PROVE  IInv'
  <2> DEFINE seen == [role |-> role, row |-> RowRead(p, u)]
  <2>1. u \in Users
    BY DEF IInv, Tables
  <2>2. u \in Subjects /\ seen \in Invitation /\ seen \in Reads
    BY <1>3, <2>1 DEF Subjects, Reads, Invitation
  <2>3. req'[p].kind = "invite" /\ req'[p].on = u /\ req'[p].seen = seen
    BY <1>1, <1>4, <2>2, KeepMoves
  <2>4. Read(p)'
    BY <1>1, <1>3, <2>1, <2>2, <2>3 DEF Read
  <2>5. QED
    BY <1>1, <1>4, <2>2, <2>4, KeepKeepsInv
<1>5. ASSUME NEW u \in Users, RowRead(p, u) # Nobody, req[p].kind \in {"role", "remove"},
             Keep(p, u, RowRead(p, u))
      PROVE  IInv'
  <2>1. u \in Subjects /\ RowRead(p, u) \in Row /\ RowRead(p, u) \in Reads /\ members[u] # Nobody
    BY <1>3, <1>5 DEF Subjects, Reads
  <2>2. req'[p].kind = req[p].kind /\ req'[p].on = u /\ req'[p].seen = RowRead(p, u)
    BY <1>1, <1>5, <2>1, KeepMoves
  <2>3. Read(p)'
    BY <1>1, <1>5, <2>1, <2>2 DEF Read
  <2>4. QED
    BY <1>1, <1>5, <2>1, <2>3, KeepKeepsInv
<1>6. QED
  BY <1>1, <1>2, <1>4, <1>5 DEF ReadInvited, ReadMember, At

LEMMA HaccpReadsKeepInv ==
  ASSUME IInv, CleanStep, NEW p \in Procs,
         ReadNames(p) \/ ReadToWrite(p) \/ ReadEquipment(p) \/ ReadTemplate(p)
  PROVE  IInv'
<1>1. pc[p] = "handler" /\ UNCHANGED <<users, members, haccpVars>>
  BY DEF ReadNames, ReadToWrite, ReadEquipment, ReadTemplate, RunRequest, At, haccpVars
<1>2. CASE ReadNames(p)
  <2>1. ExistingNames \in SUBSET Texts
    <3>1. templates \in Seq(Template)
      BY DEF IInv, Tables
    <3>2. ASSUME NEW t \in Range(templates)
          PROVE  t.name \in Texts
      <4>1. PICK i \in DOMAIN templates : t = templates[i]
        BY DEF Range
      <4>2. t \in Template
        BY <3>1, <4>1
      <4>3. QED
        BY <4>2 DEF Template
    <3>3. QED
      BY <3>2 DEF ExistingNames
  <2>2. 0 \in Subjects /\ ExistingNames \in Reads
    BY <2>1 DEF Subjects, Reads
  <2>3. Keep(p, 0, ExistingNames) /\ req[p].kind = "reseed"
    BY <1>2 DEF ReadNames, At
  <2>4. req'[p].kind = "reseed" /\ req'[p].seen = ExistingNames
    BY <1>1, <2>2, <2>3, KeepMoves
  <2>5. Read(p)'
    BY <2>1, <2>4 DEF Read
  <2>6. QED
    BY <1>1, <2>2, <2>3, <2>5, KeepKeepsInv
<1>3. ASSUME NEW i \in DOMAIN templates, Keep(p, i, templates[i]),
             req[p].kind \in {"update_template", "set_active", "delete_template", "start"}
      PROVE  IInv'
  <2>1. i \in Subjects /\ templates[i] \in Template /\ templates[i] \in Reads
    <3>1. templates \in Seq(Template)
      BY DEF IInv, Tables
    <3>2. i \in Nat /\ templates[i] \in Template
      BY <3>1
    <3>3. QED
      BY <3>2, RowsAreRead DEF Subjects
  <2>2. req'[p].kind = req[p].kind /\ req'[p].on = i /\ req'[p].seen = templates[i]
    BY <1>1, <1>3, <2>1, KeepMoves
  <2>3. Read(p)'
    BY <1>1, <1>3, <2>1, <2>2 DEF Read, haccpVars
  <2>4. QED
    BY <1>1, <1>3, <2>1, <2>3, KeepKeepsInv
<1>4. ASSUME NEW e \in Equipment, equipment[e] # NoEquipment, Keep(p, e, equipment[e]),
             req[p].kind \in {"update_equipment", "delete_equipment"}
      PROVE  IInv'
  <2>1. e \in Subjects /\ equipment[e] \in Piece /\ equipment[e] \in Reads
    <3>1. equipment[e] \in Piece
      BY <1>4 DEF IInv, Tables
    <3>2. QED
      BY <3>1, RowsAreRead DEF Subjects
  <2>2. req'[p].kind = req[p].kind /\ req'[p].on = e /\ req'[p].seen = equipment[e]
    BY <1>1, <1>4, <2>1, KeepMoves
  <2>3. Read(p)'
    BY <1>1, <1>4, <2>1, <2>2 DEF Read, haccpVars
  <2>4. QED
    BY <1>1, <1>4, <2>1, <2>3, KeepKeepsInv
<1>5. CASE End(p)
  BY <1>1, <1>5, EndMoves, QuietStep DEF IInv, Tables
<1>6. QED
  BY <1>1, <1>2, <1>3, <1>4, <1>5 DEF ReadToWrite, ReadEquipment, ReadTemplate, RunRequest, At, Handled

LEMMA RunReadsKeepInv ==
  ASSUME IInv, CleanStep, NEW p \in Procs, ReadRun(p) \/ CheckRun(p)
  PROVE  IInv'
<1>1. /\ pc[p] \in {"handler", "check"} /\ req[p].kind \in {"answer", "complete"}
      /\ UNCHANGED <<users, members, haccpVars>>
  BY DEF ReadRun, CheckRun, RunRequest, At, haccpVars
<1>2. CASE End(p)
  BY <1>1, <1>2, EndMoves, QuietStep DEF IInv, Tables
<1>3. ASSUME NEW r \in DOMAIN runs,
             Continues(p, r, 0, IF req[p].kind = "answer" THEN "commit" ELSE "check")
      PROVE  IInv'
  <2> DEFINE step == IF req[p].kind = "answer" THEN "commit" ELSE "check"
  <2>1. r \in Subjects /\ 0 \in Reads /\ step \in Phases \ {"idle"}
    BY DEF IInv, Tables, Subjects, Reads, Phases
  <2>2. /\ Moves(p) /\ pc'[p] = step /\ req'[p] \in Served
        /\ req'[p].user = req[p].user /\ req'[p].kind = req[p].kind
        /\ req'[p].on = r /\ req'[p].seen = 0
    BY <1>1, <1>3, <2>1, ContinueMoves
  <2>3. Knows(p)'
    <3>1. req[p].user \in users /\ members[req[p].user] # Nobody
      BY <1>1 DEF IInv, Knows
    <3>2. QED
      BY <1>1, <2>2, <3>1, NoRequestAssumption DEF Knows, Read, haccpVars
  <2>4. QED
    BY <1>1, <2>2, <2>3, QuietStep DEF IInv, Tables
<1>4. CASE CheckRun(p) /\ ~End(p)
  <2> DEFINE r == req[p].on
             asked == IF NothingToRead(r) THEN templates[runs[r].template].required ELSE 0
  <2>1. r \in DOMAIN runs /\ Keep(p, r, asked) /\ req[p].kind = "complete" /\ pc[p] = "check"
    BY <1>4 DEF CheckRun, RunRequest, At, IInv, Knows
  <2>2. asked \in Nat
    <3>1. templates \in Seq(Template) /\ runs[r].template \in DOMAIN templates
      BY <2>1 DEF IInv, Tables, Consistent
    <3>2. templates[runs[r].template] \in Template
      BY <3>1
    <3>3. QED
      BY <3>2 DEF Template
  <2>3. r \in Subjects /\ asked \in Reads
    BY <2>1, <2>2 DEF IInv, Tables, Subjects, Reads
  <2> HIDE DEF asked
  <2>4. req'[p].kind = "complete" /\ req'[p].on = r /\ req'[p].seen = asked
    BY <1>1, <2>1, <2>3, KeepMoves
  <2>5. Read(p)'
    BY <1>1, <2>1, <2>2, <2>4 DEF Read, haccpVars
  <2>6. QED
    BY <1>1, <2>1, <2>3, <2>5, KeepKeepsInv
<1>5. QED
  BY <1>1, <1>2, <1>3, <1>4 DEF ReadRun, RunRequest, At, Continues
----------------------------------------------------------------------------
(***************************************************************************)
(* Requests that write, and end with it.                                   *)
(***************************************************************************)
LEMMA WriteStep ==
  ASSUME IInv, NEW p \in Procs, End(p), Tables', Consistent', Grows
  PROVE  IInv'
BY EndMoves, StepKeepsInv

\* Columns written back one by one leave a row.
LEMMA WrittenRow ==
  ASSUME NEW row \in Row, NEW seen \in Row, NEW new \in Row
  PROVE  Written(row, seen, new) \in Row
BY DEF Written, Row

LEMMA WrittenTemplate ==
  ASSUME NEW row \in Template, NEW seen \in Template, NEW new \in Template
  PROVE  /\ Written(row, seen, new) \in Template
         /\ new.required = seen.required => Written(row, seen, new).required = row.required
BY DEF Written, Template

LEMMA WrittenPiece ==
  ASSUME NEW row \in Piece, NEW seen \in Piece, NEW new \in Piece
  PROVE  Written(row, seen, new) \in Piece
BY DEF Written, Piece

\* A body leaves a template a template, and does not reach its items.
LEMMA PatchedTemplate ==
  ASSUME NEW row \in Template, NEW f \in Forms, IsForm(f)
  PROVE  Patched(row, f) \in Template /\ Patched(row, f).required = row.required
<1>1. \A c \in FormTexts \cap DOMAIN f : f[c] \in Texts
  <2> DEFINE TextsOf(g) == {g[c] : c \in FormTexts \cap DOMAIN g}
  <2>1. TextsOf(f) \in {TextsOf(g) : g \in Forms}
    OBVIOUS
  <2>2. TextsOf(f) \subseteq UNION {TextsOf(g) : g \in Forms}
    BY <2>1
  <2>3. UNION {TextsOf(g) : g \in Forms} \subseteq Texts
    BY DEF Texts, FormsTexts
  <2>4. QED
    BY <2>2, <2>3
<1>2. QED
  BY <1>1 DEF Patched, IsForm, FormTexts, Template

LEMMA PatchedPiece ==
  ASSUME NEW row \in Piece, NEW m \in Machine
  PROVE  Patched(row, m) \in Piece
BY DEF Patched, Piece, Machine

\* The members.
LEMMA MembersWrite ==
  ASSUME IInv, CleanStep, NEW p \in Procs, End(p), UNCHANGED <<users, haccpVars>>,
         NEW u \in users, NEW row \in Row, members' = [members EXCEPT ![u] = row]
  PROVE  IInv'
<1>1. u \in Users /\ row # Nobody
  BY NobodyAssumption DEF IInv, Tables
<1>2. Tables' /\ Consistent' /\ Grows
  BY <1>1 DEF IInv, Tables, Consistent, Grows, CleanStep, haccpVars
<1>3. QED
  BY <1>2, WriteStep

LEMMA MemberWritesKeepInv ==
  ASSUME IInv, CleanStep, NEW p \in Procs, CommitInvited(p) \/ UpdateRole(p) \/ RemoveMember(p),
         UNCHANGED haccpVars
  PROVE  IInv'
<1> DEFINE on   == req[p].on
           seen == req[p].seen
<1>1. pc[p] = "commit" /\ Read(p) /\ End(p) /\ UNCHANGED users
  BY DEF CommitInvited, UpdateRole, RemoveMember, At, IInv, Knows
<1>2. CASE UNCHANGED members
  BY <1>1, <1>2, EndMoves, QuietStep DEF IInv, Tables
<1>3. CASE CommitInvited(p)
  <2> DEFINE new == [role |-> seen.role, active |-> TRUE]
  <2>1. on \in users /\ seen \in Invitation /\ (seen.row # Nobody => members[on] # Nobody)
    BY <1>1, <1>3 DEF CommitInvited, At, Read
  <2>2. on \in Users /\ new \in Row
    BY <2>1 DEF IInv, Tables, Invitation, Row
  <2>3. CASE members' = [members EXCEPT ![on] = new]
    BY <1>1, <2>1, <2>2, <2>3, MembersWrite
  <2>4. CASE seen.row # Nobody /\ members' = [members EXCEPT ![on] = Written(@, seen.row, new)]
    <3>1. members[on] \in Row /\ seen.row \in Row
      BY <2>1, <2>2, <2>4 DEF IInv, Tables, Invitation
    <3>2. Written(members[on], seen.row, new) \in Row
      BY <2>2, <3>1, WrittenRow
    <3>3. QED
      BY <1>1, <2>1, <2>4, <3>2, MembersWrite
  <2>5. QED
    BY <1>2, <1>3, <2>3, <2>4 DEF CommitInvited
<1>4. CASE UpdateRole(p) \/ RemoveMember(p)
  <2>1. on \in Users /\ seen \in Row /\ members[on] # Nobody
    BY <1>1, <1>4 DEF UpdateRole, RemoveMember, At, Read
  <2>2. members[on] \in Row /\ on \in users
    BY <2>1 DEF IInv, Tables, Consistent
  <2>3. PICK new \in Row : members' = [members EXCEPT ![on] = Written(@, seen, new)]
    <3>1. /\ \A role \in Roles : [seen EXCEPT !.role = role] \in Row
          /\ [seen EXCEPT !.active = FALSE] \in Row
      BY <2>1 DEF Row
    <3>2. QED
      BY <1>4, <3>1 DEF UpdateRole, RemoveMember
  <2>4. Written(members[on], seen, new) \in Row
    BY <2>1, <2>2, WrittenRow
  <2>5. QED
    BY <1>1, <2>2, <2>3, <2>4, MembersWrite
<1>5. QED
  BY <1>3, <1>4

\* The templates.
LEMMA TemplatesWrite ==
  ASSUME IInv, CleanStep, NEW p \in Procs, End(p),
         UNCHANGED <<users, members, equipment, runs, logs, day, work>>,
         \E u \in Users : members[u] # Nobody,
         templates' \in Seq(Template), DOMAIN templates \subseteq DOMAIN templates',
         \A i \in DOMAIN templates : templates'[i].required >= templates[i].required
  PROVE  IInv'
<1>1. Tables' /\ Grows
  BY DEF IInv, Tables, Grows
<1>2. \A r \in DOMAIN runs : runs[r].answered <= templates'[runs[r].template].required
  <2> SUFFICES ASSUME NEW r \in DOMAIN runs
               PROVE  runs[r].answered <= templates'[runs[r].template].required
    OBVIOUS
  <2> DEFINE i == runs[r].template
  <2>1. runs[r] \in Run /\ i \in DOMAIN templates /\ templates[i] \in Template /\ templates'[i] \in Template
    BY DEF IInv, Tables, Consistent
  <2>2. runs[r].answered \in Nat /\ templates[i].required \in Nat /\ templates'[i].required \in Nat
    BY <2>1 DEF Run, Template
  <2>3. QED
    BY <2>1, <2>2 DEF IInv, Consistent
<1>3. Consistent'
  BY <1>2 DEF IInv, Consistent, CleanStep
<1>4. QED
  BY <1>1, <1>3, WriteStep

\* What a new restaurant is given are templates.
Seed ==
    [name : Texts, frequency : Texts, shifts : Int, dynamic : BOOLEAN,
     filter : Texts, required : Nat, optional : Nat]

LEMMA SeedsAreTyped ==
  /\ Len(SEED_TEMPLATES) \in Nat /\ SEED_TEMPLATES \in [1..Len(SEED_TEMPLATES) -> Seed]
  /\ \A s \in Seed : Seeded(s) \in Template
<1>1. \A s \in Range(SEED_TEMPLATES) : s.name \in Texts /\ s.frequency \in Texts /\ s.filter \in Texts
  <2>1. \A s \in Range(SEED_TEMPLATES) : {s.name, s.frequency, s.filter} \subseteq SeedTexts
    BY DEF SeedTexts
  <2>2. QED
    BY <2>1 DEF Texts
<1>2. ASSUME NEW s \in Range(SEED_TEMPLATES), NEW name, NEW frequency,
             NEW required \in Nat, NEW optional \in Nat,
             s = Checklist(name, frequency, required, optional)
      PROVE  s \in Seed
  BY <1>1, <1>2 DEF Seed, Checklist
<1>3. ASSUME NEW s \in Range(SEED_TEMPLATES), NEW name, NEW filter, NEW shifts \in Nat,
             s = EquipmentRound(name, shifts, filter)
      PROVE  s \in Seed
  BY <1>1, <1>3 DEF Seed, EquipmentRound
<1>4. /\ Len(SEED_TEMPLATES) = 15 /\ DOMAIN SEED_TEMPLATES = 1..15
      /\ \A s \in {OpeningCheck, ClosingCheck, TemperatureRound, DeliveryCheck, CleaningLog,
                   WeeklyDeepClean, CookingRecord, HotHoldRecord, HygieneTraining,
                   FitnessToWork, AllergenRecord, FireSafetyCheck, PestControlLog,
                   AccidentRecord, SafetyCheck} : s \in Range(SEED_TEMPLATES)
  BY DEF SEED_TEMPLATES, Range
<1>5. /\ OpeningCheck \in Seed /\ ClosingCheck \in Seed /\ DeliveryCheck \in Seed
      /\ CleaningLog \in Seed /\ WeeklyDeepClean \in Seed /\ CookingRecord \in Seed
      /\ HygieneTraining \in Seed /\ FitnessToWork \in Seed /\ AllergenRecord \in Seed
      /\ FireSafetyCheck \in Seed /\ PestControlLog \in Seed /\ AccidentRecord \in Seed
      /\ SafetyCheck \in Seed
  BY <1>2, <1>4 DEF OpeningCheck, ClosingCheck, DeliveryCheck, CleaningLog, WeeklyDeepClean,
     CookingRecord, HygieneTraining, FitnessToWork, AllergenRecord, FireSafetyCheck,
     PestControlLog, AccidentRecord, SafetyCheck
<1>6. TemperatureRound \in Seed /\ HotHoldRecord \in Seed
  BY <1>3, <1>4 DEF TemperatureRound, HotHoldRecord
<1>7. SEED_TEMPLATES \in Seq(Seed) /\ Len(SEED_TEMPLATES) = 15
  BY <1>4, <1>5, <1>6 DEF SEED_TEMPLATES
<1>8. SEED_TEMPLATES \in [1..Len(SEED_TEMPLATES) -> Seed]
  BY <1>7, LenProperties
<1>9. ASSUME NEW s \in Seed
      PROVE  Seeded(s) \in Template
  BY DEF Seed, Seeded, Template
<1>10. QED
  BY <1>7, <1>8, <1>9

\* The missing seeds are finitely many, and each comes once.
LEMMA MissingInOrder ==
  ASSUME NEW names
  PROVE  LET S == Missing(names)
         IN /\ Cardinality(S) \in Nat
            /\ SetToSeq(S) \in [1..Cardinality(S) -> S] /\ IsInjective(SetToSeq(S))
<1> DEFINE S == Missing(names)
           n == Cardinality(S)
<1>1. IsFiniteSet(S) /\ n \in Nat
  <2>1. IsFiniteSet(1..Len(SEED_TEMPLATES))
    BY SeedsAreTyped, FS_Interval
  <2>2. SEED_TEMPLATES \in Surjection(1..Len(SEED_TEMPLATES), Range(SEED_TEMPLATES))
    BY SeedsAreTyped DEF Surjection, Range
  <2>3. IsFiniteSet(Range(SEED_TEMPLATES))
    BY <2>1, <2>2, FS_Surjection DEF ExistsSurjection
  <2>4. S \subseteq Range(SEED_TEMPLATES)
    BY DEF Missing
  <2>5. QED
    BY <2>3, <2>4, FS_Subset, FS_CardinalityType
<1>2. ExistsBijection(1..n, S)
  BY <1>1, FS_CardinalityType
<1>3. \E f \in [1..n -> S] : IsInjective(f)
  BY <1>2 DEF ExistsBijection, Bijection, Injection, IsInjective
<1>4. QED
  BY <1>1, <1>3 DEF SetToSeq

\* The new rows are as many, each a seed that was missing.
LEMMA NewRowsAreSeeds ==
  ASSUME NEW names
  PROVE  /\ Cardinality(Missing(names)) \in Nat
         /\ NewRows(names) \in [1..Cardinality(Missing(names)) -> Template]
<1>1. \A s \in Missing(names) : Seeded(s) \in Template
  BY SeedsAreTyped DEF Missing, Range
<1>2. QED
  BY <1>1, MissingInOrder DEF NewRows

LEMMA CreateRestaurantKeepsInv ==
  ASSUME IInv, CleanStep, NEW p \in Procs, CreateRestaurant(p)
  PROVE  IInv'
<1> DEFINE u == req[p].user
           row == [role |-> "owner", active |-> TRUE]
<1>1. /\ \A v \in Users : members[v] = Nobody
      /\ members' = [members EXCEPT ![u] = row] /\ End(p)
      /\ UNCHANGED <<users, equipment, runs, logs, day, work>>
  BY DEF CreateRestaurant, Found
<1>2. u \in users /\ u \in Users /\ row \in Row /\ row # Nobody
  <2>1. u \in users
    BY DEF CreateRestaurant, Found, At, IInv, Knows
  <2>2. row \in Row
    BY DEF Row, Roles
  <2>3. QED
    BY <2>1, <2>2, NobodyAssumption DEF IInv, Tables
<1>3. templates = << >> /\ DOMAIN runs = {} /\ clean = {}
  <2>1. templates = << >> /\ DOMAIN templates = {}
    BY <1>1 DEF IInv, Consistent
  <2>2. QED
    BY <2>1 DEF IInv, Consistent
<1>4. templates' \in Seq(Template)
  BY SeedsAreTyped DEF CreateRestaurant, create_seed_templates
<1>5. Tables' /\ Grows
  BY <1>1, <1>2, <1>3, <1>4 DEF IInv, Tables, Grows
<1>6. Consistent'
  BY <1>1, <1>2, <1>3 DEF IInv, Tables, Consistent, CleanStep
<1>7. QED
  BY <1>1, <1>5, <1>6, WriteStep

LEMMA NewTemplateIsTyped == NewTemplate \in Template /\ NewTemplate.seed = FALSE
<1>1. "" \in Texts /\ AnyType \in Texts
  BY DEF Texts
<1>2. 0 \in Nat /\ 0 \in Int
  OBVIOUS
<1>3. QED
  BY <1>1, <1>2, Zenon DEF NewTemplate, Template

\* A template of the restaurant's own is one row more, and not a seed.
LEMMA OneNewTemplate ==
  ASSUME IInv, NEW p \in Procs, CreateTemplate(p)
  PROVE  \E rows \in [1..1 -> Template] :
            rows[1].seed = FALSE /\ templates' = templates \o rows
<1>1. PICK f \in work.forms : templates' = Append(templates, Patched(NewTemplate, f))
  BY DEF CreateTemplate
<1>2. f \in Forms /\ IsForm(f)
  BY WorkloadAssumption DEF Forms, IInv, Tables
<1>3. NewTemplate \in Template /\ NewTemplate.seed = FALSE
  BY NewTemplateIsTyped
<1> DEFINE row == Patched(NewTemplate, f)
<1>4. row \in Template
  BY <1>2, <1>3, PatchedTemplate
<1>5. row.seed = FALSE
  <2> HIDE DEF NewTemplate
  <2>1. row.seed = NewTemplate.seed
    BY <1>2, <1>3 DEF Patched, IsForm, FormTexts, Template
  <2>2. QED
    BY <1>3, <2>1
<1>6. templates' = templates \o [k \in 1..1 |-> row]
  BY <1>1, <1>4 DEF IInv, Tables
<1> DEFINE rows == [k \in 1..1 |-> row]
<1>7. rows \in [1..1 -> Template] /\ rows[1] = row
  <2> HIDE DEF row
  <2>1. QED
    BY <1>4
<1> HIDE DEF rows
<1>8. templates' = templates \o rows /\ rows[1].seed = FALSE
  BY <1>5, <1>6, <1>7 DEF rows
<1>9. QED
  BY <1>7, <1>8

LEMMA TemplateWritesKeepInv ==
  ASSUME IInv, CleanStep, NEW p \in Procs,
         \/ Reseed(p) \/ CreateTemplate(p) \/ CreateItem(p)
         \/ UpdateTemplate(p) \/ SetTemplateActive(p) \/ DeleteTemplate(p)
  PROVE  IInv'
<1>1. /\ pc[p] \in {"handler", "commit"} /\ req[p].kind # "create" /\ End(p)
      /\ UNCHANGED <<users, members, equipment, runs, logs, day, work>>
  BY DEF Reseed, CreateTemplate, CreateItem, UpdateTemplate, SetTemplateActive, DeleteTemplate,
     WriteTemplate, TemplateRequest, At
<1>2. \E u \in Users : members[u] # Nobody
  BY <1>1 DEF IInv, Knows, Tables
<1>3. templates \in Seq(Template) /\ \A i \in DOMAIN templates : templates[i].required \in Nat
  <2>1. templates \in Seq(Template)
    BY DEF IInv, Tables
  <2>2. \A i \in DOMAIN templates : templates[i] \in Template
    BY <2>1
  <2>3. QED
    BY <2>1, <2>2 DEF Template
<1>4. ASSUME NEW n \in Nat, NEW new \in [1..n -> Template], templates' = templates \o new
      PROVE  IInv'
  <2>1. new \in Seq(Template)
    OBVIOUS
  <2>2. templates' \in Seq(Template) /\ DOMAIN templates \subseteq DOMAIN templates'
    BY <1>3, <1>4, <2>1
  <2>3. \A i \in DOMAIN templates : templates'[i] = templates[i]
    BY <1>3, <1>4, <2>1
  <2>4. QED
    BY <1>1, <1>2, <1>3, <2>2, <2>3, TemplatesWrite
<1>5. ASSUME NEW i \in DOMAIN templates, NEW row \in Template, row.required >= templates[i].required,
             templates' = [templates EXCEPT ![i] = row]
      PROVE  IInv'
  <2>1. templates' \in Seq(Template) /\ DOMAIN templates' = DOMAIN templates
    BY <1>3, <1>5
  <2>2. \A j \in DOMAIN templates : templates'[j].required >= templates[j].required
    BY <1>3, <1>5
  <2>3. QED
    BY <1>1, <1>2, <2>1, <2>2, TemplatesWrite
<1>6. CASE Reseed(p)
  BY <1>4, <1>6, NewRowsAreSeeds DEF Reseed
<1>7. CASE CreateTemplate(p)
  <2>1. PICK rows \in [1..1 -> Template] : templates' = templates \o rows
    BY <1>7, OneNewTemplate
  <2>2. 1 \in Nat
    OBVIOUS
  <2>3. QED
    BY <1>4, <2>1, <2>2
<1>8. CASE CreateItem(p)
  <2>1. PICK i \in DOMAIN templates : templates' = [templates EXCEPT ![i].required = @ + 1]
    BY <1>8 DEF CreateItem, Handled
  <2> DEFINE row == [templates[i] EXCEPT !.required = @ + 1]
  <2>2. templates[i] \in Template
    BY <1>3
  <2>3. row \in Template /\ row.required >= templates[i].required
    BY <2>2 DEF Template
  <2>4. templates' = [templates EXCEPT ![i] = row]
    BY <2>1
  <2>5. QED
    BY <1>5, <2>3, <2>4
<1>9. CASE UpdateTemplate(p) \/ SetTemplateActive(p) \/ DeleteTemplate(p)
  <2> DEFINE on == req[p].on
             seen == req[p].seen
  <2>1. on \in DOMAIN templates /\ seen \in Template
    BY <1>9 DEF UpdateTemplate, SetTemplateActive, DeleteTemplate, WriteTemplate, TemplateRequest, At,
       IInv, Knows, Read
  <2>2. PICK new \in Template : /\ new.required = seen.required
                              /\ templates' = [templates EXCEPT ![on] = Written(@, seen, new)]
    <3>1. CASE UpdateTemplate(p)
      <4>1. PICK f \in work.forms : WriteTemplate(p, "update_template", Patched([seen EXCEPT !.edited = TRUE], f))
        BY <3>1 DEF UpdateTemplate
      <4>2. f \in Forms /\ IsForm(f)
        BY WorkloadAssumption DEF Forms, IInv, Tables
      <4>3. [seen EXCEPT !.edited = TRUE] \in Template /\ [seen EXCEPT !.edited = TRUE].required = seen.required
        BY <2>1 DEF Template
      <4>4. QED
        BY <4>1, <4>2, <4>3, PatchedTemplate DEF WriteTemplate
    <3>2. CASE SetTemplateActive(p) \/ DeleteTemplate(p)
      <4>1. \A active \in BOOLEAN : /\ [seen EXCEPT !.active = active] \in Template
                                  /\ [seen EXCEPT !.active = active].required = seen.required
        BY <2>1 DEF Template
      <4>2. QED
        BY <3>2, <4>1 DEF SetTemplateActive, DeleteTemplate, WriteTemplate
    <3>3. QED
      BY <1>9, <3>1, <3>2
  <2>3. templates[on] \in Template /\ templates[on].required \in Nat
    BY <1>3, <2>1
  <2>4. /\ Written(templates[on], seen, new) \in Template
        /\ Written(templates[on], seen, new).required = templates[on].required
    BY <2>1, <2>2, <2>3, WrittenTemplate
  <2> DEFINE row == Written(templates[on], seen, new)
  <2>5. row \in Template /\ row.required >= templates[on].required /\ templates' = [templates EXCEPT ![on] = row]
    BY <2>2, <2>3, <2>4
  <2> HIDE DEF row
  <2>6. QED
    BY <1>5, <2>1, <2>5
<1>10. QED
  BY <1>6, <1>7, <1>8, <1>9

\* The equipment.
LEMMA EquipmentWrite ==
  ASSUME IInv, CleanStep, NEW p \in Procs, End(p),
         UNCHANGED <<users, members, templates, runs, logs, day, work>>,
         NEW e \in Equipment, NEW row \in Piece, equipment' = [equipment EXCEPT ![e] = row]
  PROVE  IInv'
<1>1. row # NoEquipment
  BY HaccpAssumption
<1>2. Tables' /\ Grows
  BY <1>1 DEF IInv, Tables, Grows
<1>3. Consistent'
  BY DEF IInv, Consistent, CleanStep
<1>4. QED
  BY <1>2, <1>3, WriteStep

LEMMA EquipmentWritesKeepInv ==
  ASSUME IInv, CleanStep, NEW p \in Procs,
         CreateEquipment(p) \/ UpdateEquipment(p) \/ DeleteEquipment(p)
  PROVE  IInv'
<1> DEFINE on   == req[p].on
           seen == req[p].seen
<1>1. End(p) /\ UNCHANGED <<users, members, templates, runs, logs, day, work>>
  BY DEF CreateEquipment, UpdateEquipment, DeleteEquipment, WriteEquipment, EquipmentRequest
<1>2. Machines \subseteq Machine
  BY HaccpAssumption
<1>3. CASE CreateEquipment(p)
  <2>1. PICK e \in Equipment, m \in Machines :
          equipment' = [equipment EXCEPT ![e] =
                          [type |-> m.type, min |-> m.min, max |-> m.max, active |-> TRUE]]
    BY <1>3 DEF CreateEquipment
  <2>2. [type |-> m.type, min |-> m.min, max |-> m.max, active |-> TRUE] \in Piece
    BY <1>2 DEF Machine, Piece
  <2>3. QED
    BY <1>1, <2>1, <2>2, EquipmentWrite
<1>4. CASE UpdateEquipment(p) \/ DeleteEquipment(p)
  <2>1. on \in Equipment /\ seen \in Piece /\ equipment[on] \in Piece
    BY <1>4 DEF UpdateEquipment, DeleteEquipment, WriteEquipment, EquipmentRequest, At,
       IInv, Knows, Read, Tables
  <2>2. PICK new \in Piece : equipment' = [equipment EXCEPT ![on] = Written(@, seen, new)]
    <3>1. \A m \in Machines : Patched(seen, m) \in Piece
      BY <1>2, <2>1, PatchedPiece
    <3>2. [seen EXCEPT !.active = FALSE] \in Piece
      BY <2>1 DEF Piece
    <3>3. QED
      BY <1>4, <3>1, <3>2 DEF UpdateEquipment, DeleteEquipment, WriteEquipment
  <2>3. Written(equipment[on], seen, new) \in Piece
    BY <2>1, <2>2, WrittenPiece
  <2>4. QED
    BY <1>1, <2>1, <2>2, <2>3, EquipmentWrite
<1>5. QED
  BY <1>3, <1>4

\* A log is added, of a piece as it is.
LEMMA LogTemperatureKeepsInv ==
  ASSUME IInv, CleanStep, NEW p \in Procs, LogTemperature(p)
  PROVE  IInv'
<1>1. End(p) /\ UNCHANGED <<users, members, templates, equipment, runs, day, work>>
  BY DEF LogTemperature
<1>2. PICK e \in Equipment, t \in Temperatures, recorded \in {day - 1, day} \cap Nat :
         /\ InUse(e)
         /\ logs' = Append(logs,
               [equipment |-> e, temperature |-> t, recorded |-> recorded, created |-> day,
                out |-> OutOfRange(equipment[e], t), limits |-> equipment[e]])
  BY DEF LogTemperature
<1>3. equipment[e] \in Piece /\ t \in Int /\ recorded \in Nat /\ day \in Nat
  BY <1>2, HaccpAssumption DEF InUse, IInv, Tables
<1>4. OutOfRange(equipment[e], t) \in BOOLEAN
  BY DEF OutOfRange
<1>5. [equipment |-> e, temperature |-> t, recorded |-> recorded, created |-> day,
       out |-> OutOfRange(equipment[e], t), limits |-> equipment[e]] \in Log
  BY <1>3, <1>4 DEF Log
<1>6. logs' \in Seq(Log)
  BY <1>2, <1>5 DEF IInv, Tables
<1>7. Tables' /\ Grows
  BY <1>1, <1>6 DEF IInv, Tables, Grows
<1>8. Consistent'
  BY <1>1 DEF IInv, Consistent, CleanStep
<1>9. QED
  BY <1>1, <1>7, <1>8, WriteStep

\* The runs.
LEMMA RunsWrite ==
  ASSUME IInv, CleanStep, NEW p \in Procs, End(p),
         UNCHANGED <<users, members, templates, equipment, logs, day, work>>,
         runs' \in Seq(Run), DOMAIN runs \subseteq DOMAIN runs',
         \A r \in DOMAIN runs' :
            /\ runs'[r].template \in DOMAIN templates
            /\ runs'[r].answered <= templates[runs'[r].template].required
            /\ runs'[r].status = "completed" <=> runs'[r].completions > 0
  PROVE  IInv'
<1>1. Tables' /\ Grows
  BY DEF IInv, Tables, Grows
<1>2. Consistent'
  BY DEF IInv, Consistent, CleanStep
<1>3. QED
  BY <1>1, <1>2, WriteStep

LEMMA RunWrite ==
  ASSUME IInv, CleanStep, NEW p \in Procs, End(p),
         UNCHANGED <<users, members, templates, equipment, logs, day, work>>,
         NEW r \in DOMAIN runs, NEW run \in Run, runs' = [runs EXCEPT ![r] = run],
         run.template = runs[r].template,
         run.answered <= templates[run.template].required,
         run.status = "completed" <=> run.completions > 0
  PROVE  IInv'
<1>1. runs \in Seq(Run)
  BY DEF IInv, Tables
<1>2. runs' \in Seq(Run) /\ DOMAIN runs' = DOMAIN runs
  BY <1>1
<1>3. \A q \in DOMAIN runs : q # r => runs'[q] = runs[q]
  BY <1>1
<1>4. runs'[r] = run
  BY <1>1
<1>5. QED
  BY <1>2, <1>3, <1>4, RunsWrite DEF IInv, Consistent

LEMMA StartRunKeepsInv ==
  ASSUME IInv, CleanStep, NEW p \in Procs, StartRun(p)
  PROVE  IInv'
<1> DEFINE i == req[p].on
<1>1. /\ pc[p] = "commit" /\ i \in DOMAIN templates /\ End(p)
      /\ UNCHANGED <<users, members, templates, equipment, logs, day, work>>
  BY DEF StartRun, RunRequest, At, IInv, Knows, Read
<1> DEFINE New(date) ==
             [template |-> i, date |-> date, status |-> "in_progress",
              snapshot |-> Snapshot(req[p].seen), answered |-> 0, readings |-> {},
              asked |-> 0, late |-> 0, completions |-> 0]
<1>2. PICK date \in {day - 1, day} \cap Nat : runs' = Append(runs, New(date))
  BY DEF StartRun
<1>3. Snapshot(req[p].seen) \in (SUBSET Equipment) \cup {NoSnapshot}
  BY DEF Snapshot
<1>4. templates \in Seq(Template) /\ runs \in Seq(Run)
  BY DEF IInv, Tables
<1>5. templates[i] \in Template /\ i \in Nat
  BY <1>1, <1>4
<1>6. New(date) \in Run
  BY <1>3, <1>5 DEF Run
<1>7. New(date).answered <= templates[i].required
  BY <1>5 DEF Template
<1>8. /\ New(date).template = i
      /\ New(date).status = "completed" <=> New(date).completions > 0
  OBVIOUS
<1> HIDE DEF New
<1>9. /\ runs' \in Seq(Run) /\ DOMAIN runs' = DOMAIN runs \cup {Len(runs) + 1}
      /\ \A r \in DOMAIN runs : runs'[r] = runs[r]
      /\ runs'[Len(runs) + 1] = New(date)
  BY <1>2, <1>4, <1>6
<1>10. QED
  BY <1>1, <1>7, <1>8, <1>9, RunsWrite DEF IInv, Consistent

LEMMA SubmitAnswerKeepsInv ==
  ASSUME IInv, CleanStep, NEW p \in Procs, SubmitAnswer(p)
  PROVE  IInv'
<1> DEFINE r == req[p].on
           t == templates[runs[r].template]
<1>1. /\ pc[p] = "commit" /\ r \in DOMAIN runs /\ End(p)
      /\ UNCHANGED <<users, members, templates, equipment, logs, day, work>>
  BY DEF SubmitAnswer, RunRequest, At, IInv, Knows, Read
<1>2. runs[r] \in Run /\ t \in Template /\ runs[r].template \in DOMAIN templates
  <2>1. runs \in Seq(Run) /\ templates \in Seq(Template) /\ runs[r].template \in DOMAIN templates
    BY <1>1 DEF IInv, Tables, Consistent
  <2>2. QED
    BY <1>1, <2>1
<1>3. /\ runs[r].answered <= t.required
      /\ runs[r].status = "completed" <=> runs[r].completions > 0
  BY <1>1 DEF IInv, Consistent
<1> DEFINE Late(run) == [run EXCEPT !.late = IF Completed(r) THEN run.late + 1 ELSE run.late]
<1>4. ASSUME NEW run \in Run,
             run.template = runs[r].template, run.answered <= t.required,
             run.status = runs[r].status, run.completions = runs[r].completions,
             runs' = [runs EXCEPT ![r] = Late(run)]
      PROVE  IInv'
  <2>1. /\ Late(run) \in Run
        /\ Late(run).template = run.template /\ Late(run).answered = run.answered
        /\ Late(run).status = run.status /\ Late(run).completions = run.completions
    BY DEF Run
  <2> HIDE DEF Late
  <2>2. QED
    BY <1>1, <1>3, <1>4, <2>1, RunWrite
<1>5. CASE /\ runs[r].answered < t.required
           /\ runs' = [runs EXCEPT ![r] = Late([runs[r] EXCEPT !.answered = @ + 1])]
  <2> DEFINE run == [runs[r] EXCEPT !.answered = @ + 1]
  <2>1. run.answered <= t.required
    BY <1>2, <1>5 DEF Run, Template
  <2>2. /\ run \in Run /\ run.template = runs[r].template
        /\ run.status = runs[r].status /\ run.completions = runs[r].completions
    BY <1>2 DEF Run
  <2>3. runs' = [runs EXCEPT ![r] = Late(run)]
    BY <1>5
  <2> HIDE DEF run, Late
  <2>4. QED
    BY <1>4, <2>1, <2>2, <2>3
<1>6. ASSUME NEW e \in Equipment,
             runs' = [runs EXCEPT ![r] = Late([runs[r] EXCEPT !.readings = @ \cup {e}])]
      PROVE  IInv'
  <2> DEFINE run == [runs[r] EXCEPT !.readings = @ \cup {e}]
  <2>1. /\ run \in Run /\ run.template = runs[r].template /\ run.answered = runs[r].answered
        /\ run.status = runs[r].status /\ run.completions = runs[r].completions
    BY <1>2 DEF Run
  <2>2. runs' = [runs EXCEPT ![r] = Late(run)]
    BY <1>6
  <2> HIDE DEF run, Late
  <2>3. QED
    BY <1>3, <1>4, <2>1, <2>2
<1>7. CASE runs' = [runs EXCEPT ![r] = Late(runs[r])]
  BY <1>2, <1>3, <1>4, <1>7
<1>8. QED
  BY <1>5, <1>6, <1>7 DEF SubmitAnswer

LEMMA CompletedRun ==
  ASSUME NEW run \in Run, NEW asked \in Nat, NEW n \in Nat
  PROVE  [run EXCEPT !.status = "completed", !.asked = asked, !.completions = n] \in Run
BY DEF Run

LEMMA CompleteRunKeepsInv ==
  ASSUME IInv, CleanStep, NEW p \in Procs, CompleteRun(p)
  PROVE  IInv'
<1> DEFINE r == req[p].on
           seen == req[p].seen
           run == [runs[r] EXCEPT !.status = "completed", !.asked = seen,
                                  !.completions = runs[r].completions + 1]
<1>1. /\ pc[p] = "commit" /\ r \in DOMAIN runs /\ seen \in Nat /\ End(p)
      /\ UNCHANGED <<users, members, templates, equipment, logs, day, work>>
  BY DEF CompleteRun, RunRequest, At, IInv, Knows, Read
<1>2. runs[r] \in Run
  <2>1. runs \in Seq(Run)
    BY DEF IInv, Tables
  <2>2. QED
    BY <1>1, <2>1
<1>3. /\ run \in Run /\ run.template = runs[r].template /\ run.answered = runs[r].answered
      /\ run.status = "completed" /\ run.completions > 0
  <2>1. runs[r].completions \in Nat
    BY <1>2 DEF Run
  <2>2. run \in Run
    <3>1. seen \in Nat /\ runs[r].completions + 1 \in Nat
      BY <1>1, <2>1
    <3> HIDE DEF seen
    <3>2. QED
      BY <1>2, <3>1, CompletedRun
  <2>3. /\ run.template = runs[r].template /\ run.answered = runs[r].answered
        /\ run.status = "completed" /\ run.completions = runs[r].completions + 1
    BY <1>2 DEF Run
  <2> HIDE DEF run
  <2>4. QED
    BY <2>1, <2>2, <2>3
<1>4. runs' = [runs EXCEPT ![r] = run]
  BY DEF CompleteRun
<1>5. runs[r].answered <= templates[runs[r].template].required
  BY <1>1 DEF IInv, Consistent
<1> HIDE DEF run
<1>6. QED
  BY <1>1, <1>3, <1>4, <1>5, RunWrite
----------------------------------------------------------------------------
(***************************************************************************)
(* Every step, and the theorem.                                            *)
(***************************************************************************)
LEMMA RequestKeepsInv ==
  ASSUME IInv, NEW p \in Procs, Request(p)
  PROVE  IInv'
<1>1. CleanStep
  BY DEF Request, CleanStep
<1>2. CASE Arrive(p)
  BY <1>1, <1>2, ArriveKeepsInv
<1>3. CASE Account(p)
  <2>1. ASSUME Die(p), UNCHANGED haccpVars
        PROVE  IInv'
    BY <1>1, <2>1, EndMoves, QuietStep DEF Die, IInv, Tables
  <2>2. QED
    BY <1>1, <1>3, <2>1, RegisterKeepsInv, AuthoriseKeepsInv, MemberReadsKeepInv,
       MemberWritesKeepInv DEF Account, MemberStep
<1>4. CASE CreateRestaurant(p)
  BY <1>1, <1>4, CreateRestaurantKeepsInv
<1>5. CASE TemplateStep(p)
  BY <1>1, <1>5, HaccpReadsKeepInv, TemplateWritesKeepInv DEF TemplateStep
<1>6. CASE EquipmentStep(p)
  BY <1>1, <1>6, HaccpReadsKeepInv, EquipmentWritesKeepInv, LogTemperatureKeepsInv
     DEF EquipmentStep
<1>7. CASE RunStep(p)
  BY <1>1, <1>7, HaccpReadsKeepInv, RunReadsKeepInv, StartRunKeepsInv, SubmitAnswerKeepsInv,
     CompleteRunKeepsInv DEF RunStep
<1>8. QED
  BY <1>2, <1>3, <1>4, <1>5, <1>6, <1>7 DEF Request

LEMMA NextKeepsInv ==
  ASSUME IInv, [Next]_vars
  PROVE  IInv'
<1>1. CASE \E p \in work.desks : Request(p)
  BY <1>1, RequestKeepsInv, WorkloadAssumption DEF IInv, Tables
<1>2. CASE NextDay
  <2>1. UNCHANGED <<users, members, pc, req, templates, equipment, runs, logs, work>>
    BY <1>2 DEF NextDay, accessVars
  <2>2. day' \in Nat /\ clean' \subseteq DOMAIN templates
    BY <1>2 DEF NextDay, CleanTonight, IInv, Tables, Consistent
  <2>3. Tables' /\ Consistent' /\ Processes'
    BY <2>1, <2>2 DEF IInv, Tables, Consistent, Processes
  <2>4. \A p \in Procs : Knows(p)'
    BY <2>1 DEF IInv, Knows, Read
  <2>5. QED
    BY <2>3, <2>4 DEF IInv
<1>3. CASE UNCHANGED vars
  BY <1>3 DEF vars, accessVars, haccpVars, IInv, Tables, Consistent, Processes, Knows, Read
<1>4. QED
  BY <1>1, <1>2, <1>3 DEF Next

LEMMA InitEstablishesInv ==
  ASSUME Init
  PROVE  IInv
<1>1. Tables
  BY DEF Init, AccessInit, HaccpInit, Tables
<1>2. Consistent
  BY DEF Init, AccessInit, HaccpInit, Consistent
<1>3. Processes
  BY DEF Init, AccessInit, Processes, Phases
<1>4. \A p \in Procs : Knows(p)
  BY DEF Init, AccessInit, Knows
<1>5. QED
  BY <1>1, <1>2, <1>3, <1>4 DEF IInv

\* Every reachable state satisfies the invariant.
LEMMA Inductive == Spec => []IInv
<1>1. Init => IInv
  BY InitEstablishesInv
<1>2. IInv /\ [Next]_vars => IInv'
  BY NextKeepsInv
<1>3. QED
  BY <1>1, <1>2, PTL DEF Spec

\* A restaurant keeps its types, its references and the counts of its runs,
\* whatever its people do and however their requests overlap
\* (haccp_service.py, equipment.py, restaurants.py, deps.py).
THEOREM RestaurantTypes == Spec => []TypeOK
<1>1. IInv => TypeOK
  <2> SUFFICES ASSUME IInv
               PROVE  TypeOK
    OBVIOUS
  <2>1. \A p \in Procs : pc[p] # "idle" => req[p].user \in Users /\ req[p].kind \in Kinds
    BY DEF IInv, Processes, Knows, Served
  <2>2. \A i \in DOMAIN templates : templates[i].required \in Nat
    <3>1. \A i \in DOMAIN templates : templates[i] \in Template
      BY DEF IInv, Tables
    <3>2. QED
      BY <3>1 DEF Template
  <2>3. \A p \in Procs : /\ pc[p] \in Phases
                         /\ pc[p] = "idle" <=> req[p] = NoRequest
    BY DEF IInv, Processes, Knows
  <2>4. QED
    BY <2>1, <2>2, <2>3 DEF IInv, Tables, Consistent, Phases, TypeOK
<1>2. QED
  BY <1>1, Inductive, PTL
----------------------------------------------------------------------------
(***************************************************************************)
(* How a request moves, for the proofs about members, checklists and the   *)
(* dashboard.                                                              *)
(***************************************************************************)
\* A request that goes on stays the request it is; the others wait.
LEMMA ContinueKeepsRequest ==
  ASSUME IInv, NEW p \in Procs, pc[p] # "idle", NEW on, NEW seen, NEW step,
         Continues(p, on, seen, step)
  PROVE  /\ \A q \in Procs \ {p} : pc'[q] = pc[q] /\ req'[q] = req[q]
         /\ pc'[p] = step
         /\ req'[p].user = req[p].user /\ req'[p].kind = req[p].kind
         /\ req'[p].on = on /\ req'[p].seen = seen
<1>1. req[p] \in Served
  BY DEF IInv, Processes, Knows
<1>2. /\ req'[p].user = req[p].user /\ req'[p].kind = req[p].kind
      /\ req'[p].on = on /\ req'[p].seen = seen
  BY <1>1 DEF IInv, Processes, Served, Continues
<1>3. QED
  BY <1>2 DEF IInv, Processes, Continues, Go

\* A request is let in, ends, or has read what its handler reads.
Enters(p) == Arrive(p) \/ Register(p) \/ Authorise(p)

GoesOn(p) ==
    /\ pc[p] \in {"handler", "check"} /\ UNCHANGED members
    /\ \E on, seen, step :
          /\ Continues(p, on, seen, step) /\ step \in {"check", "commit"}
          /\ req[p].kind = "invite" => seen.role # "owner"

MembersChange(p) ==
    \/ CommitInvited(p) \/ UpdateRole(p) \/ RemoveMember(p) \/ CreateRestaurant(p)

LEMMA RequestSteps ==
  ASSUME IInv, NEW p \in Procs, Request(p)
  PROVE  \/ Enters(p) /\ UNCHANGED <<members, templates>>
         \/ End(p) /\ (UNCHANGED members \/ MembersChange(p))
         \/ GoesOn(p) /\ UNCHANGED templates
<1>1. CASE Arrive(p) \/ (Account(p) /\ ~Die(p) /\ ~MemberStep(p))
  BY <1>1 DEF Arrive, Account, Enters, SignIn, Register, Authorise, haccpVars
<1>2. CASE Die(p) /\ UNCHANGED haccpVars
  BY <1>2 DEF Die
<1>3. ASSUME NEW on, NEW seen, Keep(p, on, seen), pc[p] \in {"handler", "check"},
             UNCHANGED <<members, templates>>, req[p].kind = "invite" => seen.role # "owner"
      PROVE  GoesOn(p) /\ UNCHANGED templates
  BY <1>3 DEF GoesOn, Keep, Continues
<1>4. CASE MemberStep(p) /\ UNCHANGED haccpVars
  <2>1. CASE ReadInvited(p)
    <3>1. CASE End(p)
      BY <2>1, <3>1 DEF ReadInvited
    <3>2. ASSUME NEW u \in Users, NEW role \in Roles, role # "owner",
                 Keep(p, u, [role |-> role, row |-> RowRead(p, u)])
          PROVE  GoesOn(p) /\ UNCHANGED templates
      BY <1>3, <1>4, <2>1, <3>2 DEF ReadInvited, At, haccpVars
    <3>3. QED
      BY <2>1, <3>1, <3>2 DEF ReadInvited
  <2>2. CASE ReadMember(p)
    BY <1>3, <1>4, <2>2 DEF ReadMember, At, haccpVars
  <2>3. CASE CommitInvited(p) \/ UpdateRole(p) \/ RemoveMember(p)
    BY <2>3 DEF CommitInvited, UpdateRole, RemoveMember, MembersChange
  <2>4. QED
    BY <1>4, <2>1, <2>2, <2>3 DEF MemberStep
<1>5. CASE CreateRestaurant(p)
  BY <1>5 DEF CreateRestaurant, Found, MembersChange
<1>6. CASE TemplateStep(p)
  <2>1. CASE ReadNames(p) \/ ReadToWrite(p)
    BY <1>3, <2>1 DEF ReadNames, ReadToWrite, At, haccpVars
  <2>2. QED
    BY <1>6, <2>1 DEF TemplateStep, Reseed, CreateTemplate, CreateItem, UpdateTemplate,
       SetTemplateActive, DeleteTemplate, WriteTemplate, TemplateRequest
<1>7. CASE EquipmentStep(p)
  <2>1. CASE ReadEquipment(p)
    BY <1>3, <2>1 DEF ReadEquipment, At, haccpVars
  <2>2. QED
    BY <1>7, <2>1 DEF EquipmentStep, CreateEquipment, UpdateEquipment, DeleteEquipment,
       WriteEquipment, EquipmentRequest, LogTemperature
<1>8. CASE RunStep(p)
  <2>1. CASE ReadTemplate(p)
    BY <1>3, <2>1 DEF ReadTemplate, RunRequest, At
  <2>2. CASE CheckRun(p)
    BY <1>3, <2>2 DEF CheckRun, RunRequest, At
  <2>3. CASE ReadRun(p)
    BY <2>3 DEF ReadRun, RunRequest, At, GoesOn, Continues
  <2>4. QED
    BY <1>8, <2>1, <2>2, <2>3 DEF RunStep, StartRun, SubmitAnswer, CompleteRun, RunRequest
<1>9. QED
  BY <1>1, <1>2, <1>4, <1>5, <1>6, <1>7, <1>8 DEF Request, Account
\* Only the process that serves a request moves.
LEMMA OthersWait ==
  ASSUME IInv, NEW p \in Procs, Request(p), NEW q \in Procs
  PROVE  q = p \/ (pc'[q] = pc[q] /\ req'[q] = req[q])
<1>1. CASE Enters(p)
  BY <1>1 DEF Enters, Arrive, SignIn, Register, Authorise, End, Go, IInv, Processes
<1>2. CASE End(p)
  BY <1>2 DEF End, Go, IInv, Processes
<1>3. CASE GoesOn(p)
  BY <1>3, ContinueKeepsRequest DEF GoesOn
<1>4. QED
  BY <1>1, <1>2, <1>3, RequestSteps
-----------------------------------------------------------------------------
(***************************************************************************)
(* Members: who may change the membership of others, and what brings back  *)
(* a member who was removed.                                               *)
(*                                                                         *)
(* The argument: only the founder's row ever says "owner", because no      *)
(* request that writes a row writes that role.  So whoever was authorised  *)
(* to manage members, at whatever moment, was the founder.                 *)
(***************************************************************************)
Managing == {"invite", "role", "remove", "reseed"}

Owned ==
    /\ \A u \in Users : members[u] # Nobody /\ members[u].role = "owner" => u = Founder
    /\ \A p \in Procs :
          /\ pc[p] \in {"handler", "commit"} /\ req[p].kind \in Managing
                => req[p].user = Founder
          /\ pc[p] # "idle" /\ req[p].kind = "create" => req[p].user = Founder
          /\ At(p, "commit", "invite") => req[p].seen.role # "owner"
----------------------------------------------------------------------------
\* A role change or a removal makes no row, nobody an owner, nobody active.
LEMMA RewritesKeep ==
  ASSUME IInv, NEW p \in Procs, UpdateRole(p) \/ RemoveMember(p), NEW u \in Users
  PROVE  /\ members'[u] # Nobody => members[u] # Nobody
         /\ members'[u].role = "owner" => members[u].role = "owner"
         /\ members'[u].active => members[u].active
<1> DEFINE on   == req[p].on
           seen == req[p].seen
<1>1. on \in Users /\ seen \in Row /\ members[on] \in Row
  BY DEF UpdateRole, RemoveMember, At, IInv, Knows, Read, Tables
<1>2. PICK new \in Row :
         /\ members' = [members EXCEPT ![on] = Written(@, seen, new)]
         /\ new.role \in {seen.role, "manager", "chef"}
         /\ new.active \in {seen.active, FALSE}
  <2>1. CASE UpdateRole(p)
    <3>1. PICK role \in Roles \ {"owner"} :
             members' = [members EXCEPT ![on] = Written(@, seen, [seen EXCEPT !.role = role])]
      BY <2>1 DEF UpdateRole
    <3>2. [seen EXCEPT !.role = role] \in Row
      BY <1>1 DEF Row
    <3>3. QED
      BY <1>1, <3>1, <3>2 DEF Row, Roles
  <2>2. CASE RemoveMember(p)
    <3>1. [seen EXCEPT !.active = FALSE] \in Row
      BY <1>1 DEF Row
    <3>2. QED
      BY <1>1, <2>2, <3>1 DEF RemoveMember, Row
  <2>3. QED
    BY <2>1, <2>2
<1>3. members[on] # Nobody
  BY <1>1, NobodyAssumption
<1>4. CASE u = on
  <2>1. members'[on] = Written(members[on], seen, new)
    BY <1>1, <1>2 DEF IInv, Tables
  <2>2. QED
    BY <1>1, <1>2, <1>3, <1>4, <2>1 DEF Written, Row
<1>5. CASE u # on
  BY <1>1, <1>2, <1>5 DEF IInv, Tables
<1>6. QED
  BY <1>4, <1>5

\* An invitation touches one row, and makes nobody an owner.
LEMMA InvitesKeep ==
  ASSUME IInv, NEW p \in Procs, CommitInvited(p), req[p].seen.role # "owner",
         NEW u \in Users
  PROVE  /\ members'[u] # Nobody /\ members'[u].role = "owner"
               => members[u] # Nobody /\ members[u].role = "owner"
         /\ members'[u] # members[u] => u = req[p].on
<1> DEFINE on  == req[p].on
           row == req[p].seen.row
           new == [role |-> req[p].seen.role, active |-> TRUE]
<1>1. /\ on \in Users /\ req[p].seen \in Invitation
      /\ row # Nobody => members[on] # Nobody
  BY DEF CommitInvited, At, IInv, Knows, Read, Tables
<1>2. new \in Row /\ new.role # "owner"
  BY <1>1 DEF Invitation, Row
<1>3. CASE members' = [members EXCEPT ![on] = new]
  BY <1>1, <1>2, <1>3 DEF IInv, Tables
<1>4. CASE row # Nobody /\ members' = [members EXCEPT ![on] = Written(@, row, new)]
  <2>1. row \in Row /\ members[on] \in Row
    BY <1>1, <1>4 DEF Invitation, IInv, Tables
  <2>2. members'[on] = Written(members[on], row, new)
    BY <1>1, <1>4 DEF IInv, Tables
  <2>3. members'[on].role = "owner" => members[on].role = "owner"
    BY <1>2, <2>1, <2>2 DEF Written, Row
  <2>4. u # on => members'[u] = members[u]
    BY <1>1, <1>4 DEF IInv, Tables
  <2>5. QED
    BY <1>1, <1>4, <2>3, <2>4
<1>5. CASE UNCHANGED members
  BY <1>5
<1>6. QED
  BY <1>3, <1>4, <1>5 DEF CommitInvited

LEMMA OwnersStay ==
  ASSUME IInv, Owned, NEW p \in Procs, MembersChange(p),
         NEW u \in Users, members'[u] # Nobody, members'[u].role = "owner"
  PROVE  u = Founder
<1>1. CASE CreateRestaurant(p)
  BY <1>1 DEF CreateRestaurant, Found, At, Owned, IInv, Tables
<1>2. CASE UpdateRole(p) \/ RemoveMember(p)
  BY <1>2, RewritesKeep DEF Owned
<1>3. CASE CommitInvited(p)
  BY <1>3, InvitesKeep DEF Owned, CommitInvited, At
<1>4. QED
  BY <1>1, <1>2, <1>3 DEF MembersChange
----------------------------------------------------------------------------
\* Only owners are let in to manage members.
LEMMA OwnersManage ==
  ASSUME NEW role \in Roles, NEW kind \in Managing, has_permission(role, Needs[kind])
  PROVE  role = "owner"
BY DEF has_permission, Needs, Managing, Roles, ROLE_PERMISSIONS, Operational, Managerial, OwnerOnly

LEMMA EntersKeepsOwned ==
  ASSUME IInv, Owned, NEW p \in Procs, Enters(p), UNCHANGED members
  PROVE  Owned'
<1> SUFFICES ASSUME NEW q \in Procs
             PROVE  /\ pc'[q] \in {"handler", "commit"} /\ req'[q].kind \in Managing
                          => req'[q].user = Founder
                    /\ pc'[q] # "idle" /\ req'[q].kind = "create" => req'[q].user = Founder
                    /\ At(q, "commit", "invite")' => req'[q].seen.role # "owner"
  BY DEF Owned
<1>1. CASE q # p
  <2>1. pc'[q] = pc[q] /\ req'[q] = req[q]
    BY <1>1 DEF Enters, Arrive, SignIn, Register, Authorise, End, Go, IInv, Processes
  <2>2. QED
    BY <2>1 DEF Owned, At
<1>2. CASE q = p /\ Arrive(p)
  BY <1>2 DEF Arrive, SignIn, AfterSignIn, Go, IInv, Processes, Managing, At
<1>3. CASE q = p /\ Register(p)
  BY <1>3 DEF Register, AfterSignIn, End, Go, IInv, Processes, Managing, At, Owned
<1>4. CASE q = p /\ Authorise(p)
  <2> DEFINE u == req[p].user
  <2>1. CASE End(p)
    BY <1>4, <2>1 DEF End, Go, IInv, Processes, At
  <2>2. CASE /\ Active(u) /\ has_permission(members[u].role, Needs[req[p].kind])
             /\ Go(p, "handler") /\ req' = [req EXCEPT ![p].seen = members[u]]
    <3>1. req[p] \in Served /\ u \in Users /\ req[p].kind # "create"
      BY <1>4 DEF Authorise, IInv, Processes, Knows, Served
    <3>2. req'[p].user = u /\ req'[p].kind = req[p].kind /\ pc'[p] = "handler"
      BY <2>2, <3>1 DEF Served, IInv, Processes, Go
    <3>3. members[u] \in Row /\ members[u] # Nobody
      BY <2>2, <3>1 DEF Active, IInv, Tables
    <3>4. req[p].kind \in Managing => u = Founder
      BY <2>2, <3>1, <3>3, OwnersManage DEF Owned, Row
    <3>5. QED
      BY <1>4, <3>1, <3>2, <3>4 DEF At
  <2>3. QED
    BY <1>4, <2>1, <2>2 DEF Authorise
<1>5. QED
  BY <1>1, <1>2, <1>3, <1>4 DEF Enters

LEMMA NextKeepsOwned ==
  ASSUME IInv, Owned, [Next]_vars
  PROVE  Owned'
<1>1. ASSUME NEW p \in Procs, Request(p)
      PROVE  Owned'
  <2>1. CASE Enters(p) /\ UNCHANGED members
    BY <2>1, EntersKeepsOwned
  <2>2. CASE End(p) /\ (UNCHANGED members \/ MembersChange(p))
    <3>1. \A u \in Users : members'[u] # Nobody /\ members'[u].role = "owner" => u = Founder
      BY <2>2, OwnersStay DEF Owned
    <3>2. \A q \in Procs : q # p => pc'[q] = pc[q] /\ req'[q] = req[q]
      BY <2>2 DEF End, Go, IInv, Processes
    <3>3. pc'[p] = "idle"
      BY <2>2 DEF End, Go, IInv, Processes
    <3>4. QED
      BY <3>1, <3>2, <3>3 DEF Owned, At
  <2>3. CASE GoesOn(p)
    <3>1. PICK on, seen, step :
             /\ Continues(p, on, seen, step) /\ step \in {"check", "commit"}
             /\ req[p].kind = "invite" => seen.role # "owner"
      BY <2>3 DEF GoesOn
    <3>2. /\ \A q \in Procs \ {p} : pc'[q] = pc[q] /\ req'[q] = req[q]
          /\ req'[p].user = req[p].user /\ req'[p].kind = req[p].kind
          /\ pc'[p] = step /\ req'[p].seen = seen
      BY <2>3, <3>1, ContinueKeepsRequest DEF GoesOn
    <3>3. pc[p] = "check" => req[p].kind = "complete"
      BY DEF IInv, Knows
    <3>4. pc[p] \in {"handler", "check"} /\ UNCHANGED members
      BY <2>3 DEF GoesOn
    <3>5. QED
      BY <3>1, <3>2, <3>3, <3>4 DEF Owned, At, Managing
  <2>4. QED
    BY <1>1, <2>1, <2>2, <2>3, RequestSteps
<1>2. CASE \E p \in work.desks : Request(p)
  BY <1>1, <1>2, WorkloadAssumption DEF IInv, Tables
<1>3. CASE UNCHANGED accessVars
  BY <1>3 DEF accessVars, Owned, At
<1>4. QED
  BY <1>2, <1>3 DEF Next, NextDay, vars

LEMMA InductiveOwned == Spec => [](IInv /\ Owned)
<1>1. Init => Owned
  BY DEF Init, AccessInit, Owned, At
<1>2. IInv /\ Owned /\ [Next]_vars => Owned'
  BY NextKeepsOwned
<1>3. QED
  BY <1>1, <1>2, Inductive, PTL DEF Spec
----------------------------------------------------------------------------
\* A request about to commit that makes templates more is a reseed.
LEMMA OnlyReseedsAddAtCommit ==
  ASSUME IInv, NEW p \in Procs, Request(p), pc[p] = "commit",
         Len(templates') > Len(templates)
  PROVE  req[p].kind = "reseed"
<1>1. templates \in Seq(Template) /\ Len(templates) \in Nat
  BY DEF IInv, Tables
<1>2. CASE UNCHANGED templates
  BY <1>1, <1>2
<1>3. ASSUME NEW row, templates' = [templates EXCEPT ![req[p].on] = row]
      PROVE  FALSE
  BY <1>1, <1>3
<1>4. CASE TemplateStep(p)
  BY <1>2, <1>3, <1>4 DEF TemplateStep, ReadNames, Reseed, CreateTemplate, CreateItem, ReadToWrite,
     UpdateTemplate, SetTemplateActive, DeleteTemplate, WriteTemplate, TemplateRequest, At, haccpVars
<1>5. CASE CreateRestaurant(p)
  BY <1>5 DEF CreateRestaurant, Found, At
<1>6. CASE Arrive(p) \/ Account(p)
  BY <1>2, <1>6 DEF Arrive, Account, haccpVars
<1>7. CASE EquipmentStep(p)
  BY <1>2, <1>7 DEF EquipmentStep, CreateEquipment, ReadEquipment, UpdateEquipment, DeleteEquipment,
     WriteEquipment, EquipmentRequest, LogTemperature, haccpVars
<1>8. CASE RunStep(p)
  BY <1>2, <1>8 DEF RunStep, ReadTemplate, StartRun, ReadRun, SubmitAnswer, CheckRun, CompleteRun,
     RunRequest
<1>9. QED
  BY <1>4, <1>5, <1>6, <1>7, <1>8 DEF Request

\* Only the founder ever changes the memberships of others or adds the missing
\* seed templates, whatever invitations, role changes and removals overlap
\* (restaurants.py, permissions.py).
THEOREM FounderManages == Spec => OnlyTheFounderManages
<1> DEFINE A == \A p \in Procs :
                   /\ pc[p] = "commit" /\ pc'[p] = "idle"
                   /\ members' # members \/ Len(templates') > Len(templates)
                   => req[p].user = Founder
<1>1. ASSUME IInv, Owned, Next
      PROVE  A
  <2> SUFFICES ASSUME NEW p \in Procs, pc[p] = "commit", pc'[p] = "idle",
                      members' # members \/ Len(templates') > Len(templates)
               PROVE  req[p].user = Founder
    OBVIOUS
  <2>1. PICK q \in Procs : Request(q)
    BY <1>1, WorkloadAssumption DEF Next, NextDay, accessVars, IInv, Tables
  <2>2. q = p
    BY <1>1, <2>1, OthersWait
  <2>3. CASE members' # members
    <3>1. MembersChange(p)
      BY <1>1, <2>1, <2>2, <2>3, RequestSteps DEF GoesOn
    <3>2. req[p].kind \in Managing
      BY <3>1 DEF MembersChange, CommitInvited, UpdateRole, RemoveMember, CreateRestaurant, Found,
         At, Managing
    <3>3. QED
      BY <1>1, <3>2 DEF Owned
  <2>4. CASE Len(templates') > Len(templates)
    <3>1. req[p].kind \in Managing
      BY <1>1, <2>1, <2>2, <2>4, OnlyReseedsAddAtCommit DEF Managing
    <3>2. QED
      BY <1>1, <3>1 DEF Owned
  <2>5. QED
    BY <2>3, <2>4
<1>2. IInv /\ Owned /\ [Next]_vars => [A]_vars
  BY <1>1
<1>3. QED
  BY <1>2, InductiveOwned, PTL DEF Spec, OnlyTheFounderManages

\* A removed member comes back by an invitation alone, also when a role change
\* had read their row before the removal (restaurants.py).
THEOREM InvitationsReadmit == Spec => OnlyInvitationsReadmit
<1> DEFINE A == \A u \in Users :
                   (members[u] # Nobody /\ ~members[u].active /\ members'[u].active)
                   => \E p \in Procs : /\ At(p, "commit", "invite")
                                       /\ req[p].on = u /\ pc'[p] = "idle"
<1>1. ASSUME IInv, Owned, Next
      PROVE  A
  <2> SUFFICES ASSUME NEW u \in Users, members[u] # Nobody, ~members[u].active, members'[u].active
               PROVE  \E p \in Procs : At(p, "commit", "invite") /\ req[p].on = u /\ pc'[p] = "idle"
    OBVIOUS
  <2>1. PICK p \in Procs : Request(p)
    BY <1>1, WorkloadAssumption DEF Next, NextDay, accessVars, IInv, Tables
  <2>2. MembersChange(p) /\ End(p)
    BY <1>1, <2>1, RequestSteps DEF GoesOn
  <2>3. ~CreateRestaurant(p)
    BY DEF CreateRestaurant, Found
  <2>4. ~UpdateRole(p) /\ ~RemoveMember(p)
    BY <1>1, RewritesKeep
  <2>5. CommitInvited(p)
    BY <2>2, <2>3, <2>4 DEF MembersChange
  <2>6. u = req[p].on
    <3>1. members'[u] # members[u]
      OBVIOUS
    <3>2. req[p].seen.role # "owner"
      BY <1>1, <2>5 DEF CommitInvited, Owned, At
    <3>3. QED
      BY <1>1, <2>5, <3>1, <3>2, InvitesKeep
  <2>7. pc'[p] = "idle"
    BY <1>1, <2>2 DEF End, Go, IInv, Processes
  <2>8. QED
    BY <2>5, <2>6, <2>7 DEF CommitInvited
<1>2. IInv /\ Owned /\ [Next]_vars => [A]_vars
  BY <1>1
<1>3. QED
  BY <1>2, InductiveOwned, PTL DEF Spec, OnlyInvitationsReadmit
=============================================================================
