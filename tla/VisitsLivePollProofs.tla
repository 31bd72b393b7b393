--------------------------- MODULE VisitsLivePollProofs ---------------------------
(***************************************************************************)
(* Proofs about Visits for every number of workers, people and visits, and *)
(* every length of the day: IndInv is inductive, what a form has found     *)
(* still stands when it is stored, or another request overtook it.  And    *)
(* proofs about LivePoll, the lists these visits and the other rows are    *)
(* shown in, for every number of rows, set of pages, page size and limit:  *)
(* PollInv is inductive, the cursor of the new rows stays in front of what *)
(* is shown, and the rows that are kept only move down.                    *)
(***************************************************************************)
EXTENDS Visits, LivePoll, FiniteSetTheorems, SequenceTheorems, TLAPS

-----------------------------------------------------------------------------
(* Types and frames.                                                       *)

LEMMA DivMod ==
    ASSUME NEW a \in Nat
    PROVE  /\ a % Day \in 0 .. Day - 1
           /\ a \div Day \in Nat
           /\ a = Day * (a \div Day) + (a % Day)
           /\ a = (a \div Day) * Day + (a % Day)
<1>1. Day \in Nat /\ Day > 0
  BY VisitsAssumption
<1> QED
  BY <1>1, Z3

LEMMA NoJobType == NoJob \in Job
BY VisitsAssumption DEF NoJob, Job

LEMMA Types ==
    ASSUME IndInv
    PROVE  /\ people \in [People -> Form \cup {None}]
           /\ visits \in [Visitings -> Visit \cup {None}]
           /\ pc \in [Workers -> Labels] /\ job \in [Workers -> Job]
           /\ now \in Nat /\ ops \in Nat
BY DEF IndInv, TypeOK

\* A request whose rows and checks are left alone.
LEMMA RequestStays ==
    ASSUME NEW u \in Workers, RequestInv(u), pc'[u] = pc[u], job'[u] = job[u],
           UNCHANGED <<people, visits>>
    PROVE  RequestInv(u)'
BY DEF RequestInv, NameFree, PhoneFree, CpfFree, Others

\* A step that reads.
LEMMA ReadStep ==
    ASSUME IndInv, NEW w \in Workers, NEW l \in Labels, NEW j \in Job,
           pc' = [pc EXCEPT ![w] = l], job' = [job EXCEPT ![w] = j],
           UNCHANGED <<people, visits, now>>, ops' \in Nat, RequestInv(w)',
           l = "visit" => InTime(j.visit, now) /\ j.visit.left = None
    PROVE  IndInv'
<1>1. pc'[w] = l /\ job'[w] = j
      /\ \A u \in Workers \ {w} : pc'[u] = pc[u] /\ job'[u] = job[u]
  BY Types
<1>2. TypeOK'
  BY Types DEF IndInv, TypeOK
<1>3. ResponsibleFit'
  BY DEF IndInv, ResponsibleFit
<1>4. ClockInv'
  BY <1>1 DEF IndInv, ClockInv, InTime
<1>5. ASSUME NEW u \in Workers
      PROVE  RequestInv(u)'
  <2>1. CASE u = w
    BY <2>1
  <2>2. CASE u # w
    BY <1>1, <2>2, RequestStays DEF IndInv
  <2> QED
    BY <2>1, <2>2
<1> QED
  BY <1>2, <1>3, <1>4, <1>5 DEF IndInv

LEMMA BeginStep ==
    ASSUME IndInv, NEW w \in Workers, NEW l \in Labels, NEW j \in Job, Begin(w, l, j),
           RequestInv(w)',
           l = "visit" => InTime(j.visit, now) /\ j.visit.left = None
    PROVE  IndInv'
<1>1. /\ pc' = [pc EXCEPT ![w] = l] /\ job' = [job EXCEPT ![w] = j] /\ ops' \in Nat
      /\ UNCHANGED <<people, visits, now>>
  BY Types DEF Begin
<1> QED
  BY <1>1, ReadStep

LEMMA RespondStep ==
    ASSUME IndInv, NEW w \in Workers, Respond(w), UNCHANGED <<people, visits>>
    PROVE  IndInv'
<1>1. /\ pc' = [pc EXCEPT ![w] = "idle"] /\ job' = [job EXCEPT ![w] = NoJob]
      /\ now' = now /\ ops' \in Nat
  BY Types DEF Respond, Goto
<1>2. RequestInv(w)'
  <2>1. pc'[w] = "idle"
    BY <1>1, Types
  <2> QED
    BY <2>1 DEF RequestInv
<1>3. "idle" \in Labels
  BY DEF Labels
<1> QED
  BY <1>1, <1>2, <1>3, NoJobType, ReadStep

-----------------------------------------------------------------------------
(* Employees and visitors.                                                 *)

LEMMA OpenPersonStep ==
    ASSUME IndInv, NEW w \in Workers, NEW p \in People \cup {None}, NEW f \in Form,
           \/ f \in EmployeePosts /\ OpenEmployee(w, p, f)
           \/ f \in VisitorPosts /\ OpenVisitor(w, p, f)
    PROVE  IndInv'
<1> DEFINE j == [NoJob EXCEPT !.person = p, !.copy = CopyOf(p), !.form = f]
<1>1. /\ Begin(w, "clean", j) /\ people' = people
      /\ p # None => people[p] # None /\ people[p].kind = f.kind
      /\ f.kind = "visitor" => NameFree(f, p) /\ PhoneFree(f, p)
  <2>1. CASE f \in EmployeePosts /\ OpenEmployee(w, p, f)
    <3>1. f.kind = "employee"
      BY <2>1, VisitsAssumption
    <3> QED
      BY <2>1, <3>1 DEF OpenEmployee, Edited, Begin
  <2>2. CASE f \in VisitorPosts /\ OpenVisitor(w, p, f)
    <3>1. f.kind = "visitor"
      BY <2>2, VisitsAssumption
    <3> QED
      BY <2>2, <3>1 DEF OpenVisitor, VisitorFormValid, Edited, Begin
  <2> QED
    BY <2>1, <2>2
<1>2. /\ p = None => CopyOf(p) = None
      /\ p # None => CopyOf(p) \in Form /\ CopyOf(p) = people[p]
  BY <1>1, Types DEF CopyOf
<1>3. /\ j \in Job /\ j.person = p /\ j.copy = CopyOf(p) /\ j.form = f
  BY <1>2, NoJobType DEF NoJob, Job
<1>4. pc'[w] = "clean" /\ job'[w] = j
  BY <1>1, Types DEF Begin
<1> HIDE DEF j
<1>5. /\ f.kind = "visitor" => NameFree(f, p)' /\ PhoneFree(f, p)'
  BY <1>1 DEF NameFree, PhoneFree, Others
<1>6. RequestInv(w)'
  BY <1>1, <1>2, <1>3, <1>4, <1>5 DEF RequestInv, NameFree, PhoneFree, Others
<1>7. "clean" \in Labels
  BY DEF Labels
<1> QED
  BY <1>1, <1>3, <1>6, <1>7, BeginStep

LEMMA CleanPersonStep ==
    ASSUME IndInv, NEW w \in Workers, CleanPerson(w)
    PROVE  IndInv'
<1>1. pc[w] = "clean" /\ UNCHANGED <<people, visits>> /\ RequestInv(w) /\ job[w] \in Job
  BY Types DEF CleanPerson, IndInv
<1>2. CASE CpfFree(job[w].form, job[w].person)
  <2> DEFINE j == [job[w] EXCEPT !.late = FALSE]
  <2>1. /\ pc' = [pc EXCEPT ![w] = "store"] /\ job' = [job EXCEPT ![w] = j]
        /\ now' = now /\ ops' \in Nat
    BY <1>2, Types DEF CleanPerson, Goto
  <2>2. /\ j \in Job /\ j.person = job[w].person /\ j.copy = job[w].copy
        /\ j.form = job[w].form /\ j.raced = job[w].raced /\ j.visit = job[w].visit
    BY <1>1 DEF Job
  <2>3. pc'[w] = "store" /\ job'[w] = j
    BY <2>1, Types
  <2> HIDE DEF j
  <2>4. RequestInv(w)'
    BY <1>1, <1>2, <2>2, <2>3 DEF RequestInv, NameFree, PhoneFree, CpfFree, Others
  <2>5. "store" \in Labels
    BY DEF Labels
  <2> QED
    BY <1>1, <2>1, <2>2, <2>4, <2>5, ReadStep
<1>3. CASE ~ CpfFree(job[w].form, job[w].person)
  BY <1>1, <1>3, RespondStep DEF CleanPerson
<1> QED
  BY <1>2, <1>3

\* What a worker about to store a person knows of the row it writes.
LEMMA RowFacts ==
    ASSUME IndInv, NEW w \in Workers, pc[w] = "store"
    PROVE  /\ PersonRow(job[w].copy, job[w].form) \in Form
           /\ PersonRow(job[w].copy, job[w].form).kind = job[w].form.kind
           /\ PersonRow(job[w].copy, job[w].form).name = job[w].form.name
           /\ PersonRow(job[w].copy, job[w].form).phone = job[w].form.phone
           /\ PersonRow(job[w].copy, job[w].form).cpf = job[w].form.cpf
           /\ job[w].copy # None /\ job[w].form.photo = None =>
                 PersonRow(job[w].copy, job[w].form).photo = job[w].copy.photo
<1>1. job[w].form \in Form /\ (job[w].copy # None => job[w].copy \in Form)
  BY DEF IndInv, RequestInv
<1>2. CASE job[w].copy # None /\ job[w].form.photo = None
  <2>1. PersonRow(job[w].copy, job[w].form) = [job[w].form EXCEPT !.photo = job[w].copy.photo]
    BY <1>2 DEF PersonRow
  <2>2. job[w].copy.photo \in Photos \cup {None}
    BY <1>1, <1>2 DEF Form
  <2> QED
    BY <1>1, <2>1, <2>2 DEF Form
<1>3. CASE ~ (job[w].copy # None /\ job[w].form.photo = None)
  <2>1. PersonRow(job[w].copy, job[w].form) = job[w].form
    BY <1>3 DEF PersonRow
  <2> QED
    BY <1>1, <1>3, <2>1
<1> QED
  BY <1>2, <1>3

\* A request other than the one that stores the row of p.
LEMMA OvertakenInv ==
    ASSUME IndInv, NEW u \in Workers, NEW p \in People, NEW row \in Form,
           people' = [people EXCEPT ![p] = row], visits' = visits, pc'[u] = pc[u],
           people[p] # None => people[p].kind = row.kind,
           LET j == job[u]
               same == /\ j.form # None /\ j.form.kind = row.kind
                       /\ \/ j.form.name = row.name
                          \/ row.phone # None /\ j.form.phone = row.phone
                          \/ row.cpf # None /\ j.form.cpf = row.cpf
               read == j.person = p \/ (j.visit # None /\ j.visit.responsible = p)
           IN job'[u] = IF j # NoJob /\ (same \/ read)
                        THEN [j EXCEPT !.raced = TRUE, !.late = TRUE] ELSE j
    PROVE  RequestInv(u)'
<1> DEFINE j == job[u]
           k == job'[u]
           same == /\ j.form # None /\ j.form.kind = row.kind
                   /\ \/ j.form.name = row.name
                      \/ row.phone # None /\ j.form.phone = row.phone
                      \/ row.cpf # None /\ j.form.cpf = row.cpf
           read == j.person = p \/ (j.visit # None /\ j.visit.responsible = p)
<1>1. job[u] \in Job /\ RequestInv(u) /\ people \in [People -> Form \cup {None}]
      /\ None \notin Form /\ None \notin Visit /\ None \notin People
  BY Types, VisitsAssumption DEF IndInv
<1>2. /\ k.person = j.person /\ k.copy = j.copy /\ k.form = j.form /\ k.visit = j.visit
      /\ j.raced => k.raced
      /\ j.late => k.late
      /\ j # NoJob /\ (same \/ read) => k.raced /\ k.late
  <2>1. CASE j # NoJob /\ (same \/ read)
    <3>1. k = [j EXCEPT !.raced = TRUE, !.late = TRUE]
      BY <2>1
    <3> HIDE DEF k
    <3> QED
      BY <1>1, <3>1 DEF Job
  <2>2. CASE ~ (j # NoJob /\ (same \/ read))
    <3>1. k = j
      BY <2>2
    <3> QED
      BY <2>2, <3>1
  <2> QED
    BY <2>1, <2>2
<1>3. \A q \in People : people'[q] = IF q = p THEN row ELSE people[q]
  BY <1>1
<1>4. row # None
  BY <1>1
<1>5. CASE pc[u] \in {"clean", "store"}
  <2>1. j.form \in Form /\ j.form # None /\ j # NoJob
    BY <1>1, <1>5 DEF RequestInv, NoJob
  <2>2. j.person = None => j.copy = None
    BY <1>1, <1>5 DEF RequestInv
  <2>3. j.person # None => /\ j.person \in People
                           /\ people[j.person] # None /\ people[j.person].kind = j.form.kind
                           /\ j.copy \in Form /\ (j.raced \/ j.copy = people[j.person])
    BY <1>1, <1>5 DEF RequestInv, Job
  <2>4. j.person # None => /\ people'[j.person] # None /\ people'[j.person].kind = j.form.kind
                           /\ k.raced \/ j.copy = people'[j.person]
    BY <1>2, <1>3, <1>4, <2>1, <2>3
  <2>5. ASSUME j.form.kind = "visitor", ~ k.raced
        PROVE  NameFree(j.form, j.person)' /\ PhoneFree(j.form, j.person)'
    <3>1. NameFree(j.form, j.person) /\ PhoneFree(j.form, j.person) /\ ~ same
      BY <1>1, <1>2, <1>5, <2>1, <2>5 DEF RequestInv
    <3> QED
      BY <1>3, <2>1, <3>1 DEF NameFree, PhoneFree, Others
  <2>6. ASSUME pc[u] = "store", ~ k.late
        PROVE  CpfFree(j.form, j.person)'
    <3>1. CpfFree(j.form, j.person) /\ ~ same
      BY <1>1, <1>2, <2>1, <2>6 DEF RequestInv
    <3> QED
      BY <1>3, <2>1, <3>1 DEF CpfFree, Others
  <2>7. \/ job'[u].raced
        \/ NameFree(job[u].form, job[u].person)' /\ PhoneFree(job[u].form, job[u].person)'
        \/ job[u].form.kind # "visitor"
    BY <2>5
  <2>8. pc[u] = "store" => job'[u].late \/ CpfFree(job[u].form, job[u].person)'
    BY <2>6
  <2>9. /\ job'[u].form \in Form
        /\ job'[u].person = None => job'[u].copy = None
        /\ job'[u].person # None =>
              /\ people'[job'[u].person] # None
              /\ people'[job'[u].person].kind = job'[u].form.kind
              /\ job'[u].copy \in Form
              /\ job'[u].raced \/ job'[u].copy = people'[job'[u].person]
        /\ job'[u].form.kind = job[u].form.kind
    BY <1>2, <2>1, <2>2, <2>3, <2>4
  <2> HIDE DEF j, k, same, read
  <2> QED
    BY <1>5, <2>7, <2>8, <2>9 DEF RequestInv
<1>6. CASE pc[u] = "visit"
  <2>1. /\ j.visit \in Visit /\ j.visit # None /\ j # NoJob /\ j.visit.responsible \in People
        /\ people[j.visit.responsible] # None
        /\ j.raced \/ people[j.visit.responsible].active
    BY <1>1, <1>6 DEF RequestInv, NoJob, Visit
  <2> QED
    BY <1>2, <1>3, <1>4, <1>6, <2>1 DEF RequestInv
<1>7. CASE pc[u] = "depart"
  BY <1>1, <1>2, <1>7 DEF RequestInv
<1>8. CASE pc[u] = "idle"
  BY <1>8 DEF RequestInv
<1> QED
  BY <1>5, <1>6, <1>7, <1>8, Types DEF Labels

LEMMA StorePersonStep ==
    ASSUME IndInv, NEW w \in Workers, StorePerson(w)
    PROVE  IndInv'
<1> DEFINE row == PersonRow(job[w].copy, job[w].form)
<1>1. PICK p \in People :
         /\ IF job[w].person = None THEN people[p] = None ELSE p = job[w].person
         /\ people' = [people EXCEPT ![p] = row]
         /\ job' = [Overtake(w, p, row) EXCEPT ![w] = NoJob]
  BY DEF StorePerson
<1>2. /\ pc[w] = "store" /\ pc' = [pc EXCEPT ![w] = "idle"] /\ visits' = visits
      /\ now' = now /\ ops' = ops
  BY DEF StorePerson, Goto
<1>3. row \in Form /\ row.kind = job[w].form.kind
  BY <1>2, RowFacts
<1>4. people[p] # None => people[p].kind = row.kind
  BY <1>1, <1>2, <1>3 DEF IndInv, RequestInv
<1> HIDE DEF row
<1>5. ASSUME NEW u \in Workers \ {w}
      PROVE  /\ pc'[u] = pc[u]
             /\ LET j == job[u]
                    same == /\ j.form # None /\ j.form.kind = row.kind
                            /\ \/ j.form.name = row.name
                               \/ row.phone # None /\ j.form.phone = row.phone
                               \/ row.cpf # None /\ j.form.cpf = row.cpf
                    read == j.person = p \/ (j.visit # None /\ j.visit.responsible = p)
                IN job'[u] = IF j # NoJob /\ (same \/ read)
                             THEN [j EXCEPT !.raced = TRUE, !.late = TRUE] ELSE j
  <2>1. pc'[u] = pc[u] /\ job'[u] = Overtake(w, p, row)[u]
    BY <1>1, <1>2, Types DEF Overtake
  <2> QED
    BY <2>1 DEF Overtake
<1>6. ASSUME NEW u \in Workers
      PROVE  job'[u] \in Job
  <2>1. CASE u = w
    BY <1>1, <2>1, NoJobType DEF Overtake
  <2>2. CASE u # w
    <3>1. job[u] \in Job /\ [job[u] EXCEPT !.raced = TRUE, !.late = TRUE] \in Job
      BY Types DEF Job
    <3>2. job'[u] = job[u] \/ job'[u] = [job[u] EXCEPT !.raced = TRUE, !.late = TRUE]
      BY <1>5, <2>2
    <3> QED
      BY <3>1, <3>2
  <2> QED
    BY <2>1, <2>2
<1>7. TypeOK'
  <2>1. job' \in [Workers -> Job]
    <3>1. job' = [u \in Workers |-> job'[u]]
      BY <1>1 DEF Overtake
    <3> QED
      BY <1>6, <3>1
  <2>2. people' \in [People -> Form \cup {None}] /\ pc' \in [Workers -> Labels]
    BY <1>1, <1>2, <1>3, Types DEF Labels
  <2> QED
    BY <1>2, <2>1, <2>2 DEF IndInv, TypeOK
<1>8. ResponsibleFit'
  BY <1>2 DEF IndInv, ResponsibleFit
<1>9. ClockInv'
  <2>1. ASSUME NEW u \in Workers, pc'[u] = "visit"
        PROVE  InTime(job[u].visit, now)' /\ job'[u].visit.left = None
    <3>1. u # w /\ pc[u] = "visit"
      BY <1>2, <2>1, Types
    <3>2. job'[u].visit = job[u].visit
      <4>1. job[u] \in Job
        BY Types
      <4>2. job'[u] = job[u] \/ job'[u] = [job[u] EXCEPT !.raced = TRUE, !.late = TRUE]
        BY <1>5, <3>1
      <4> QED
        BY <4>1, <4>2 DEF Job
    <3> QED
      BY <1>2, <3>1, <3>2 DEF IndInv, ClockInv, InTime
  <2> QED
    BY <1>2, <2>1 DEF IndInv, ClockInv, InTime
<1>10. ASSUME NEW u \in Workers
       PROVE  RequestInv(u)'
  <2>1. CASE u = w
    <3>1. pc'[w] = "idle"
      BY <1>2, Types
    <3> QED
      BY <2>1, <3>1 DEF RequestInv
  <2>2. CASE u # w
    BY <1>1, <1>2, <1>3, <1>4, <1>5, <2>2, OvertakenInv
  <2> QED
    BY <2>1, <2>2
<1> QED
  BY <1>7, <1>8, <1>9, <1>10 DEF IndInv

-----------------------------------------------------------------------------
(* Visits.                                                                 *)

LEMMA OpenVisitStep ==
    ASSUME IndInv, NEW w \in Workers, NEW v \in People, NEW e \in People,
           NEW at \in Typed, NEW long \in 1 .. Day, OpenVisit(w, v, e, at, long)
    PROVE  IndInv'
<1> DEFINE row == [visitor |-> v, responsible |-> e, date |-> at \div Day,
                   arrives |-> at % Day, planned |-> (at % Day) + long, leaves |-> None,
                   ahead |-> at > now, left |-> None, sound |-> TRUE]
           j == [NoJob EXCEPT !.person = v, !.visit = row]
<1>1. /\ Begin(w, "visit", j) /\ people' = people
      /\ people[e] # None /\ people[e].active
      /\ (at % Day) + long < Day
  BY DEF OpenVisit, Begin
<1>2. at \in Nat /\ now \in Nat
  BY Types, VisitsAssumption DEF Typed
<1>3. /\ at % Day \in 0 .. Day - 1 /\ at \div Day \in Nat
      /\ at = (at \div Day) * Day + (at % Day)
  BY <1>2, DivMod
<1>4. row \in Visit
  <2>1. Day \in Nat
    BY VisitsAssumption
  <2>2. at % Day \in 0 .. Day - 1 /\ (at % Day) + long \in 0 .. Day - 1
    BY <1>1, <1>3, <2>1
  <2>3. (at > now) \in BOOLEAN
    OBVIOUS
  <2> QED
    BY <1>3, <2>2, <2>3 DEF Visit
<1>5. /\ row.responsible = e /\ row.left = None
      /\ InTime(row, now)
  <2>1. CASE at <= now
    BY <1>2, <1>3, <2>1 DEF InTime
  <2>2. CASE at > now
    BY <2>2 DEF InTime
  <2> QED
    BY <1>2, <2>1, <2>2
<1> HIDE DEF row
<1>6. j \in Job /\ j.visit = row
  BY <1>4, NoJobType DEF NoJob, Job
<1> HIDE DEF j
<1>7. pc'[w] = "visit" /\ job'[w] = j
  BY <1>1, Types DEF Begin
<1>8. RequestInv(w)'
  BY <1>1, <1>4, <1>5, <1>6, <1>7 DEF RequestInv
<1>9. "visit" \in Labels
  BY DEF Labels
<1> QED
  BY <1>1, <1>5, <1>6, <1>8, <1>9, BeginStep

\* The table of visits changes in row i.
RowWritten(w, i, row) ==
    /\ visits' = [visits EXCEPT ![i] = row] /\ people' = people
    /\ pc' = [pc EXCEPT ![w] = "idle"] /\ job' \in [Workers -> Job]
    /\ \A u \in Workers \ {w} :
          /\ job'[u] = job[u] \/ job'[u] = [job[u] EXCEPT !.raced = TRUE]
          /\ pc[u] = "depart" /\ job[u].copy = i => job'[u].raced
    /\ now' = now /\ ops' = ops
    /\ row.sound /\ InTime(row, now)
    /\ row.left # None => row.leaves = row.left % Day /\ InTime(row, row.left)

LEMMA VisitRowStep ==
    ASSUME IndInv, NEW w \in Workers, NEW i \in Visitings, NEW row \in Visit,
           RowWritten(w, i, row)
    PROVE  IndInv'
<1> USE DEF RowWritten
<1>1. \A k \in Visitings : visits'[k] = IF k = i THEN row ELSE visits[k]
  BY Types
<1>2. row # None /\ \A u \in Workers \ {w} : pc'[u] = pc[u]
  BY VisitsAssumption, Types
<1>3. TypeOK'
  <2>1. visits' \in [Visitings -> Visit \cup {None}] /\ pc' \in [Workers -> Labels]
    BY Types DEF Labels
  <2> QED
    BY <2>1 DEF IndInv, TypeOK
<1>4. ResponsibleFit'
  BY <1>1 DEF IndInv, ResponsibleFit
<1>5. ASSUME NEW u \in Workers \ {w}
      PROVE  /\ job'[u].person = job[u].person /\ job'[u].copy = job[u].copy
             /\ job'[u].form = job[u].form /\ job'[u].visit = job[u].visit
             /\ job'[u].late = job[u].late
             /\ job[u].raced => job'[u].raced
  <2>1. job[u] \in Job
    BY Types
  <2>2. job'[u] = job[u] \/ job'[u] = [job[u] EXCEPT !.raced = TRUE]
    OBVIOUS
  <2> QED
    BY <2>1, <2>2 DEF Job
<1>6. ClockInv'
  <2>1. ASSUME NEW u \in Workers, pc'[u] = "visit"
        PROVE  InTime(job[u].visit, now)' /\ job'[u].visit.left = None
    <3>1. u # w /\ pc[u] = "visit"
      BY <2>1, Types
    <3>2. job'[u].visit = job[u].visit
      BY <1>5, <3>1
    <3> QED
      BY <3>1, <3>2 DEF IndInv, ClockInv, InTime
  <2>2. ASSUME NEW k \in Visitings, visits'[k] # None
        PROVE  /\ InTime(visits[k], now)'
               /\ visits'[k].left # None =>
                     visits'[k].leaves = visits'[k].left % Day /\ InTime(visits[k], visits[k].left)'
    <3>1. CASE k = i
      BY <1>1, <3>1 DEF InTime
    <3>2. CASE k # i
      BY <1>1, <2>2, <3>2 DEF IndInv, ClockInv, InTime
    <3> QED
      BY <3>1, <3>2
  <2> QED
    BY <2>1, <2>2 DEF ClockInv
<1>7. ASSUME NEW u \in Workers
      PROVE  RequestInv(u)'
  <2>1. CASE u = w
    <3>1. pc'[w] = "idle"
      BY Types
    <3> QED
      BY <2>1, <3>1 DEF RequestInv
  <2>2. CASE u # w
    <3>1. RequestInv(u) /\ pc'[u] = pc[u]
      BY <1>2, <2>2 DEF IndInv
    <3>2. pc[u] = "depart" =>
             /\ job'[u].copy \in Visitings /\ visits'[job'[u].copy] # None
             /\ job'[u].raced \/ visits'[job'[u].copy].leaves = None
      BY <1>1, <1>2, <1>5, <2>2, <3>1 DEF RequestInv
    <3>3. /\ job'[u].person = job[u].person /\ job'[u].copy = job[u].copy
          /\ job'[u].form = job[u].form /\ job'[u].visit = job[u].visit
          /\ job'[u].late = job[u].late
          /\ job[u].raced => job'[u].raced
      BY <1>5, <2>2
    <3> QED
      BY <3>1, <3>2, <3>3 DEF RequestInv, NameFree, PhoneFree, CpfFree, Others
  <2> QED
    BY <2>1, <2>2
<1> QED
  BY <1>3, <1>4, <1>6, <1>7 DEF IndInv

LEMMA StoreVisitStep ==
    ASSUME IndInv, NEW w \in Workers, StoreVisit(w)
    PROVE  IndInv'
<1> DEFINE old == job[w].visit
           s == people[old.responsible].active \/ job[w].raced
           row == [old EXCEPT !.sound = s]
<1>1. PICK i \in Visitings : visits[i] = None /\ visits' = [visits EXCEPT ![i] = row]
  BY DEF StoreVisit
<1>2. /\ pc[w] = "visit" /\ pc' = [pc EXCEPT ![w] = "idle"] /\ people' = people
      /\ job' = [job EXCEPT ![w] = NoJob] /\ now' = now /\ ops' = ops
  BY DEF StoreVisit, Respond, Goto
<1>3. /\ old \in Visit /\ (job[w].raced \/ people[old.responsible].active)
      /\ InTime(old, now) /\ old.left = None
  BY <1>2 DEF IndInv, RequestInv, ClockInv
<1>4. s /\ s \in BOOLEAN
  BY <1>3
<1> HIDE DEF s
<1>5. /\ row \in Visit /\ row.sound /\ row.left = None
      /\ row.date = old.date /\ row.arrives = old.arrives /\ row.ahead = old.ahead
  BY <1>3, <1>4 DEF Visit
<1> HIDE DEF row
<1>6. InTime(row, now)
  BY <1>3, <1>5 DEF InTime
<1>7. /\ job' \in [Workers -> Job] /\ \A u \in Workers \ {w} : job'[u] = job[u]
  BY <1>2, Types, NoJobType
<1>8. \A u \in Workers \ {w} : ~ (pc[u] = "depart" /\ job[u].copy = i)
  BY <1>1 DEF IndInv, RequestInv
<1>9. row.left # None => row.leaves = row.left % Day /\ InTime(row, row.left)
  BY <1>5
<1>10. \A u \in Workers \ {w} : job'[u] = job[u] \/ job'[u] = [job[u] EXCEPT !.raced = TRUE]
  BY <1>7
<1>11. \A u \in Workers \ {w} : pc[u] = "depart" /\ job[u].copy = i => job'[u].raced
  BY <1>8
<1> QED
  <2>1. RowWritten(w, i, row)
    BY <1>1, <1>2, <1>5, <1>6, <1>7, <1>9, <1>10, <1>11 DEF RowWritten
  <2> QED
    BY <1>5, <2>1, VisitRowStep

LEMMA OpenDepartStep ==
    ASSUME IndInv, NEW w \in Workers, NEW i \in Visitings, OpenDepart(w, i)
    PROVE  IndInv'
<1> DEFINE j == [NoJob EXCEPT !.copy = i]
<1>1. /\ Begin(w, "depart", j) /\ visits' = visits
      /\ visits[i] # None /\ visits[i].leaves = None
  BY DEF OpenDepart, Begin
<1>2. j \in Job /\ j.copy = i
  BY NoJobType DEF NoJob, Job
<1> HIDE DEF j
<1>3. pc'[w] = "depart" /\ job'[w] = j
  BY <1>1, Types DEF Begin
<1>4. RequestInv(w)'
  BY <1>1, <1>2, <1>3 DEF RequestInv
<1>5. "depart" \in Labels
  BY DEF Labels
<1> QED
  BY <1>1, <1>2, <1>4, <1>5, BeginStep

LEMMA StoreDepartureStep ==
    ASSUME IndInv, NEW w \in Workers, StoreDeparture(w)
    PROVE  IndInv'
<1> DEFINE i == job[w].copy
           row == [visits[i] EXCEPT !.leaves = now % Day, !.left = now]
<1>1. /\ visits' = [visits EXCEPT ![i] = row]
      /\ job' = [v \in Workers |->
            IF v = w THEN NoJob
            ELSE IF pc[v] = "depart" /\ job[v].copy = i THEN [job[v] EXCEPT !.raced = TRUE]
            ELSE job[v]]
      /\ pc[w] = "depart" /\ pc' = [pc EXCEPT ![w] = "idle"] /\ people' = people
      /\ now' = now /\ ops' = ops
  BY DEF StoreDeparture, Goto
<1>2. i \in Visitings /\ visits[i] # None /\ visits[i] \in Visit
  BY <1>1, Types DEF IndInv, RequestInv
<1>3. /\ visits[i].sound /\ InTime(visits[i], now)
  BY <1>2 DEF IndInv, ResponsibleFit, ClockInv
<1>4. now \in Nat /\ now % Day \in 0 .. Day - 1
  BY Types, DivMod
<1>5. /\ row \in Visit /\ row.sound /\ row.left = now /\ row.leaves = now % Day
      /\ row.date = visits[i].date /\ row.arrives = visits[i].arrives
      /\ row.ahead = visits[i].ahead
  BY <1>2, <1>3, <1>4 DEF Visit
<1> HIDE DEF row
<1>6. InTime(row, now)
  BY <1>3, <1>5 DEF InTime
<1>7. ASSUME NEW u \in Workers
      PROVE  [job[u] EXCEPT !.raced = TRUE] \in Job /\ [job[u] EXCEPT !.raced = TRUE].raced
  BY Types DEF Job
<1>8. \A u \in Workers \ {w} :
         job'[u] = IF pc[u] = "depart" /\ job[u].copy = i THEN [job[u] EXCEPT !.raced = TRUE]
                   ELSE job[u]
  BY <1>1
<1>9. job' \in [Workers -> Job]
  BY <1>1, <1>7, Types, NoJobType
<1> HIDE DEF i
<1>10. \A u \in Workers \ {w} : job'[u] = job[u] \/ job'[u] = [job[u] EXCEPT !.raced = TRUE]
  BY <1>8
<1>11. \A u \in Workers \ {w} : pc[u] = "depart" /\ job[u].copy = i => job'[u].raced
  BY <1>7, <1>8
<1>12. row.left # None => row.leaves = row.left % Day /\ InTime(row, row.left)
  BY <1>5, <1>6
<1> QED
  <2>1. RowWritten(w, i, row)
    BY <1>1, <1>5, <1>6, <1>9, <1>10, <1>11, <1>12 DEF RowWritten
  <2> QED
    BY <1>2, <1>5, <2>1, VisitRowStep

-----------------------------------------------------------------------------
(* The specification.                                                      *)

LEMMA TickStep ==
    ASSUME IndInv, Tick
    PROVE  IndInv'
<1>1. now' = now + 1 /\ UNCHANGED <<people, visits, pc, job, ops>>
  BY DEF Tick
<1>2. now' \in Nat /\ now \in Nat
  BY <1>1, Types
<1>3. TypeOK' /\ ResponsibleFit'
  BY <1>1, <1>2 DEF IndInv, TypeOK, ResponsibleFit
<1>4. \A v \in Visit : InTime(v, now) => InTime(v, now')
  <2>1. ASSUME NEW v \in Visit
        PROVE  v.date * Day + v.arrives \in Int
    <3>1. v.date \in Nat /\ v.arrives \in 0 .. Day - 1 /\ Day \in Nat
      BY VisitsAssumption DEF Visit
    <3> QED
      BY <3>1
  <2> QED
    BY <1>1, <1>2, <2>1 DEF InTime
<1>5. ClockInv'
  <2>1. \A w \in Workers : pc[w] = "visit" => job[w].visit \in Visit
    BY DEF IndInv, RequestInv
  <2>2. \A i \in Visitings : visits[i] # None => visits[i] \in Visit
    BY Types
  <2>3. /\ \A w \in Workers : pc'[w] = "visit" =>
              InTime(job[w].visit, now') /\ job[w].visit.left = None
        /\ \A i \in Visitings : visits[i] # None =>
              /\ InTime(visits[i], now')
              /\ visits[i].left # None =>
                    visits[i].leaves = visits[i].left % Day /\ InTime(visits[i], visits[i].left)
    BY <1>1, <1>4, <2>1, <2>2 DEF IndInv, ClockInv
  <2> QED
    BY <1>1, <2>3 DEF ClockInv, InTime
<1>6. \A w \in Workers : RequestInv(w)'
  BY <1>1, RequestStays DEF IndInv
<1> QED
  BY <1>3, <1>5, <1>6 DEF IndInv

LEMMA InitInv ==
    ASSUME Init
    PROVE  IndInv
<1>1. /\ people = InitPeople /\ visits = [i \in Visitings |-> None]
      /\ pc = [w \in Workers |-> "idle"] /\ job = [w \in Workers |-> NoJob]
      /\ now = 0 /\ ops = 0
  BY DEF Init
<1>2. TypeOK
  BY <1>1, NoJobType, VisitsAssumption DEF TypeOK, Labels
<1>3. ResponsibleFit /\ ClockInv /\ \A w \in Workers : RequestInv(w)
  BY <1>1 DEF ResponsibleFit, ClockInv, RequestInv
<1> QED
  BY <1>2, <1>3 DEF IndInv

LEMMA NextInv ==
    ASSUME IndInv, [Next]_vars
    PROVE  IndInv'
<1>1. ASSUME NEW w \in Workers, Accept(w)
      PROVE  IndInv'
  <2>1. EmployeePosts \subseteq Form /\ VisitorPosts \subseteq Form
    BY VisitsAssumption
  <2>2. CASE \E p \in People \cup {None} :
                \/ \E f \in EmployeePosts : OpenEmployee(w, p, f)
                \/ \E f \in VisitorPosts : OpenVisitor(w, p, f)
    BY <2>1, <2>2, OpenPersonStep
  <2>3. CASE \E v, e \in People, at \in Typed, long \in 1 .. Day :
                OpenVisit(w, v, e, at, long)
    BY <2>3, OpenVisitStep
  <2>4. CASE \E i \in Visitings : OpenDepart(w, i)
    BY <2>4, OpenDepartStep
  <2> QED
    BY <1>1, <2>2, <2>3, <2>4 DEF Accept
<1>2. ASSUME NEW w \in Workers, Serve(w)
      PROVE  IndInv'
  BY <1>2, CleanPersonStep, StorePersonStep, StoreVisitStep, StoreDepartureStep DEF Serve
<1>3. CASE Tick
  BY <1>3, TickStep
<1>4. CASE UNCHANGED vars
  <2>1. UNCHANGED <<people, visits, pc, job, now, ops>>
    BY <1>4 DEF vars
  <2>2. TypeOK' /\ ResponsibleFit' /\ ClockInv'
    BY <2>1 DEF IndInv, TypeOK, ResponsibleFit, ClockInv, InTime
  <2>3. \A w \in Workers : RequestInv(w)'
    BY <2>1, RequestStays DEF IndInv
  <2> QED
    BY <2>2, <2>3 DEF IndInv
<1> QED
  BY <1>1, <1>2, <1>3, <1>4 DEF Next

\* IndInv is an invariant for any number of workers, people and visits, every
\* form and every length of the day.
THEOREM VisitsInvariant == Spec => []IndInv
BY InitInv, NextInv, PTL DEF Spec

\* The presence history shows a departure at the hour it was and after its
\* arrival, unless the visitor left on another day than the visit's date or the
\* arrival was entered ahead of the hour.
THEOREM HistoryOrdered == Spec => []HistoryInOrder
<1>1. ASSUME IndInv
      PROVE  HistoryInOrder
  <2>1. ASSUME NEW i \in Visitings, visits[i] # None, visits[i].left # None,
               visits[i].left \div Day = visits[i].date
        PROVE  /\ ShownDeparture(i) = visits[i].left
               /\ visits[i].ahead \/ ShownArrival(i) <= ShownDeparture(i)
    <3>1. visits[i] \in Visit /\ visits[i].left \in Nat
      BY <1>1, <2>1, Types DEF Visit
    <3>2. visits[i].left = (visits[i].left \div Day) * Day + (visits[i].left % Day)
      BY <3>1, DivMod
    <3>3. /\ visits[i].leaves = visits[i].left % Day
          /\ visits[i].ahead \/ visits[i].date * Day + visits[i].arrives <= visits[i].left
      BY <1>1, <2>1 DEF IndInv, ClockInv, InTime
    <3> QED
      BY <2>1, <3>2, <3>3 DEF ShownArrival, ShownDeparture
  <2> QED
    BY <2>1 DEF HistoryInOrder
<1> QED
  BY <1>1, VisitsInvariant, PTL

-----------------------------------------------------------------------------
(* What only two requests at once can do.                                  *)

\* A worker about to store goes idle only by storing.
LEMMA OnlyStore ==
    ASSUME IndInv, [Next]_vars, NEW w \in Workers, pc[w] = "store", pc'[w] = "idle"
    PROVE  StorePerson(w)
<1>1. pc \in [Workers -> Labels]
  BY Types
<1>2. ASSUME NEW u \in Workers, Accept(u)
      PROVE  FALSE
  <2>1. \E l, j : pc[u] = "idle" /\ pc' = [pc EXCEPT ![u] = l]
    BY <1>2 DEF Accept, OpenEmployee, OpenVisitor, OpenVisit, OpenDepart, Begin
  <2> QED
    BY <1>1, <2>1
<1>3. ASSUME NEW u \in Workers, Serve(u)
      PROVE  StorePerson(w)
  <2>1. pc[u] # "store" => ~ StorePerson(u) /\ (CleanPerson(u) \/ StoreVisit(u) \/ StoreDeparture(u))
    BY <1>3 DEF Serve, StorePerson
  <2>2. pc'[w] # pc[w]
    OBVIOUS
  <2>3. CASE u = w
    BY <1>3, <2>3 DEF Serve, CleanPerson, StoreVisit, StoreDeparture
  <2>4. CASE u # w
    <3>1. \E l : pc' = [pc EXCEPT ![u] = l]
      BY <1>3 DEF Serve, CleanPerson, StorePerson, StoreVisit, StoreDeparture, Respond, Goto
    <3> QED
      BY <1>1, <2>2, <2>4, <3>1
  <2> QED
    BY <2>3, <2>4
<1> QED
  BY <1>2, <1>3 DEF Next, Tick, vars

\* The row a worker stores, and the one it writes over.
LEMMA StoredRow ==
    ASSUME IndInv, NEW w \in Workers, StorePerson(w)
    PROVE  \E p \in People :
              /\ people' = [people EXCEPT ![p] = PersonRow(job[w].copy, job[w].form)]
              /\ IF job[w].person = None THEN people[p] = None ELSE p = job[w].person
              /\ visits' = visits /\ pc[w] = "store" /\ pc'[w] = "idle"
BY Types DEF StorePerson, Goto

\* Only the statements that store change the tables.
LEMMA Writers ==
    ASSUME [Next]_vars
    PROVE  \/ \E w \in Workers : StorePerson(w)
           \/ \E w \in Workers : StoreVisit(w) \/ StoreDeparture(w)
           \/ people' = people /\ visits' = visits
<1>1. ASSUME NEW w \in Workers, Accept(w)
      PROVE  people' = people /\ visits' = visits
  BY <1>1 DEF Accept, OpenEmployee, OpenVisitor, OpenVisit, OpenDepart, Begin
<1>2. ASSUME NEW w \in Workers, CleanPerson(w)
      PROVE  people' = people /\ visits' = visits
  BY <1>2 DEF CleanPerson
<1>3. CASE Tick \/ UNCHANGED vars
  BY <1>3 DEF Tick, vars
<1> QED
  BY <1>1, <1>2, <1>3 DEF Next, Serve

LEMMA TwinStep ==
    ASSUME IndInv, [Next]_vars, NEW p \in People, NEW q \in People,
           NEW field \in {"cpf", "name", "phone"},
           ~ Twins(people, p, q, field), Twins(people', p, q, field),
           field # "cpf" => people'[p].kind = "visitor"
    PROVE  \E w \in Workers : /\ pc[w] = "store" /\ pc'[w] = "idle"
                              /\ IF field = "cpf" THEN job[w].late ELSE job[w].raced
<1>1. people' # people
  OBVIOUS
<1>2. PICK w \in Workers : StorePerson(w)
  <2>1. ~ \E v \in Workers : StoreVisit(v) \/ StoreDeparture(v)
    BY <1>1 DEF StoreVisit, StoreDeparture
  <2> QED
    BY <1>1, <2>1, Writers
<1> DEFINE f == job[w].form
           row == PersonRow(job[w].copy, f)
<1>3. PICK r \in People :
         /\ people' = [people EXCEPT ![r] = row]
         /\ IF job[w].person = None THEN people[r] = None ELSE r = job[w].person
         /\ pc[w] = "store" /\ pc'[w] = "idle"
  BY <1>2, StoredRow
<1>4. /\ row \in Form /\ row.kind = f.kind /\ row.name = f.name /\ row.phone = f.phone
      /\ row.cpf = f.cpf
  BY <1>3, RowFacts
<1>5. /\ p # q /\ people'[p] # None /\ people'[q] # None /\ people'[p].kind = people'[q].kind
      /\ people'[p][field] # None /\ people'[p][field] = people'[q][field]
  BY DEF Twins
<1> HIDE DEF row
<1>6. \A x \in People : people'[x] = IF x = r THEN row ELSE people[x]
  BY <1>3, Types
<1>7. r = p \/ r = q
  BY <1>5, <1>6 DEF Twins
<1>8. PICK o \in People :
         /\ o # r /\ people[o] # None /\ people[o].kind = f.kind
         /\ row[field] # None /\ people[o][field] = row[field]
  <2>1. CASE r = p
    BY <1>4, <1>5, <1>6, <2>1
  <2>2. CASE r = q
    BY <1>4, <1>5, <1>6, <2>2
  <2> QED
    BY <1>7, <2>1, <2>2
<1>9. o \in Others(f.kind, job[w].person)
  BY <1>3, <1>8, VisitsAssumption DEF Others
<1>10. CASE field = "cpf"
  <2>1. f.cpf # None /\ people[o].cpf = f.cpf
    BY <1>4, <1>8, <1>10
  <2>2. ~ CpfFree(f, job[w].person)
    BY <1>9, <2>1 DEF CpfFree
  <2>3. job[w].late
    BY <1>3, <2>2 DEF IndInv, RequestInv
  <2> QED
    BY <1>3, <1>10, <2>3
<1>11. CASE field # "cpf"
  <2>1. f.kind = "visitor"
    BY <1>4, <1>5, <1>6, <1>7, <1>11
  <2>2. ~ (NameFree(f, job[w].person) /\ PhoneFree(f, job[w].person))
    BY <1>4, <1>8, <1>9, <1>11 DEF NameFree, PhoneFree
  <2>3. job[w].raced
    BY <1>3, <2>1, <2>2 DEF IndInv, RequestInv
  <2> QED
    BY <1>3, <1>11, <2>3
<1> QED
  BY <1>10, <1>11

\* Two employees or visitors share a number, or two visitors a name or phone, only
\* because it is typed differently or two requests stored them between each
\* other's check and write.
THEOREM TwinsNeedARace == Spec => TwinsOnlyByRace
<1>1. IndInv /\ [Next]_vars =>
        [\A p, q \in People :
          /\ ~ SameNumber(people, p, q) /\ SameNumber(people', p, q) =>
                \/ people'[p].cpf # people'[q].cpf
                \/ \E w \in Workers : pc[w] = "store" /\ pc'[w] = "idle" /\ job[w].late
          /\ \A field \in {"name", "phone"} :
                /\ people'[p] # None => people'[p].kind = "visitor"
                /\ ~ Twins(people, p, q, field) /\ Twins(people', p, q, field)
                => \E w \in Workers : pc[w] = "store" /\ pc'[w] = "idle" /\ job[w].raced]_vars
  <2> SUFFICES ASSUME IndInv, [Next]_vars, NEW p \in People, NEW q \in People
               PROVE  /\ ~ SameNumber(people, p, q) /\ SameNumber(people', p, q) =>
                            \/ people'[p].cpf # people'[q].cpf
                            \/ \E w \in Workers :
                                  pc[w] = "store" /\ pc'[w] = "idle" /\ job[w].late
                      /\ \A field \in {"name", "phone"} :
                            /\ people'[p] # None => people'[p].kind = "visitor"
                            /\ ~ Twins(people, p, q, field) /\ Twins(people', p, q, field)
                            => \E w \in Workers :
                                  pc[w] = "store" /\ pc'[w] = "idle" /\ job[w].raced
    OBVIOUS
  <2>1. ASSUME ~ SameNumber(people, p, q), SameNumber(people', p, q),
               people'[p].cpf = people'[q].cpf
        PROVE  \E w \in Workers : pc[w] = "store" /\ pc'[w] = "idle" /\ job[w].late
    <3>1. Twins(people', p, q, "cpf")
      BY <2>1 DEF SameNumber, Twins
    <3>2. ~ Twins(people, p, q, "cpf")
      BY <2>1 DEF SameNumber, Twins
    <3> HIDE DEF Twins
    <3> QED
      BY <3>1, <3>2, TwinStep
  <2>2. ASSUME NEW field \in {"name", "phone"},
               people'[p] # None => people'[p].kind = "visitor",
               ~ Twins(people, p, q, field), Twins(people', p, q, field)
        PROVE  \E w \in Workers : pc[w] = "store" /\ pc'[w] = "idle" /\ job[w].raced
    <3>1. people'[p].kind = "visitor" /\ field # "cpf"
      BY <2>2 DEF Twins
    <3> HIDE DEF Twins
    <3> QED
      BY <2>2, <3>1, TwinStep
  <2> QED
    BY <2>1, <2>2
<1> QED
  BY <1>1, VisitsInvariant, PTL DEF Spec, TwinsOnlyByRace

LEMMA PhotoStep ==
    ASSUME IndInv, [Next]_vars, NEW w \in Workers, pc[w] = "store", pc'[w] = "idle",
           job[w].copy # None, job[w].form.photo = None, ~ job[w].raced
    PROVE  people'[job[w].person].photo = people[job[w].person].photo
<1>1. StorePerson(w)
  BY OnlyStore
<1>2. job[w].person # None /\ job[w].copy = people[job[w].person] /\ job[w].person \in People
  BY Types DEF IndInv, RequestInv, Job
<1>3. people' = [people EXCEPT ![job[w].person] = PersonRow(job[w].copy, job[w].form)]
  BY <1>1, <1>2, StoredRow
<1>4. people'[job[w].person] = PersonRow(job[w].copy, job[w].form)
  BY <1>2, <1>3, Types
<1> QED
  BY <1>2, <1>4, RowFacts

LEMMA DepartureStep ==
    ASSUME IndInv, [Next]_vars, NEW i \in Visitings,
           visits[i] # None, visits[i].leaves # None, visits'[i] # visits[i]
    PROVE  \E w \in Workers : pc[w] = "depart" /\ pc'[w] = "idle" /\ job[w].raced
<1>1. visits' # visits
  OBVIOUS
<1>2. PICK w \in Workers : StoreVisit(w) \/ StoreDeparture(w)
  <2>1. ~ \E v \in Workers : StorePerson(v)
    BY <1>1 DEF StorePerson
  <2> QED
    BY <1>1, <2>1, Writers
<1>3. CASE StoreVisit(w)
  BY <1>3, Types DEF StoreVisit
<1>4. CASE StoreDeparture(w)
  <2>1. pc[w] = "depart" /\ pc'[w] = "idle" /\ job[w].copy = i
    BY <1>4, Types DEF StoreDeparture, Goto
  <2> QED
    BY <2>1 DEF IndInv, RequestInv
<1> QED
  BY <1>2, <1>3, <1>4

\* A photo that is kept and a departure that is registered are written over
\* only by a request that was overtaken after it had read.
THEOREM OverwritesNeedARace == Spec => OverwrittenOnlyByRace
<1>1. IndInv /\ [Next]_vars =>
        [/\ \A w \in Workers :
             LET p == job[w].person
             IN pc[w] = "store" /\ pc'[w] = "idle" /\ job[w].copy # None
                /\ job[w].form.photo = None /\ ~ job[w].raced
                => people'[p].photo = people[p].photo
         /\ \A i \in Visitings :
             visits[i] # None /\ visits[i].leaves # None /\ visits'[i] # visits[i] =>
                \E w \in Workers : pc[w] = "depart" /\ pc'[w] = "idle" /\ job[w].raced]_vars
  BY PhotoStep, DepartureStep
<1> QED
  BY <1>1, VisitsInvariant, PTL DEF Spec, OverwrittenOnlyByRace

-----------------------------------------------------------------------------
(* The list pages: sorting, and the greatest of a finite set.              *)

LEMMA SameInterval ==
    ASSUME NEW a \in Nat, NEW b \in Nat, 1 .. a = 1 .. b
    PROVE  a = b
<1>1. a = 0 \/ a \in 1 .. b
  BY SMT
<1>2. b = 0 \/ b \in 1 .. a
  BY SMT
<1> QED
  BY <1>1, <1>2, SMT

LEMMA FunctionIsSeq ==
    ASSUME NEW T, NEW n \in Nat, NEW s \in [1 .. n -> T]
    PROVE  s \in Seq(T) /\ Len(s) = n /\ DOMAIN s = 1 .. n
<1>1. s \in Seq(T)
  BY SeqDef
<1>2. DOMAIN s = 1 .. n
  OBVIOUS
<1>3. Len(s) \in Nat /\ DOMAIN s = 1 .. Len(s)
  BY <1>1, LenProperties
<1> QED
  BY <1>1, <1>2, <1>3, SameInterval

\* R is a strict total order on S.
Ordering(R, S) ==
    /\ \A x \in S : <<x, x>> \notin R
    /\ \A x, y, z \in S : <<x, y>> \in R /\ <<y, z>> \in R => <<x, z>> \in R
    /\ \A x, y \in S : x = y \/ <<x, y>> \in R \/ <<y, x>> \in R

\* How many members of S come before r.
Rank(R, S, r) == Cardinality({q \in S : <<q, r>> \in R})

\* A member that comes earlier has fewer before it.
LEMMA RankGrows ==
    ASSUME NEW S, IsFiniteSet(S), NEW R, Ordering(R, S),
           NEW x \in S, NEW y \in S, <<x, y>> \in R
    PROVE  Rank(R, S, x) < Rank(R, S, y)
<1> DEFINE Below(r) == {q \in S : <<q, r>> \in R}
<1>1. Below(x) \subseteq Below(y) /\ x \in Below(y) /\ x \notin Below(x)
  BY DEF Ordering
<1>2. IsFiniteSet(Below(y))
  BY Below(y) \in SUBSET S, FS_Subset
<1>3. /\ IsFiniteSet(Below(x)) /\ Cardinality(Below(x)) <= Cardinality(Below(y))
      /\ Cardinality(Below(y)) # Cardinality(Below(x))
  <2>1. Below(x) \in SUBSET Below(y)
    BY <1>1
  <2> HIDE DEF Below
  <2> QED
    BY <2>1, <1>1, <1>2, FS_Subset
<1>4. Cardinality(Below(x)) \in Nat /\ Cardinality(Below(y)) \in Nat
  BY <1>2, <1>3, FS_CardinalityType
<1> QED
  BY <1>3, <1>4 DEF Rank

LEMMA RankType ==
    ASSUME NEW S, IsFiniteSet(S), NEW R, Ordering(R, S), NEW r \in S
    PROVE  /\ Cardinality(S) \in Nat \ {0}
           /\ Rank(R, S, r) \in 0 .. Cardinality(S) - 1
<1> DEFINE Below == {q \in S : <<q, r>> \in R}
<1>1. IsFiniteSet(S \ {r}) /\ Cardinality(S \ {r}) = Cardinality(S) - 1
  BY FS_RemoveElement
<1>2. Cardinality(S) \in Nat /\ Cardinality(S \ {r}) \in Nat
  BY <1>1, FS_CardinalityType
<1>3. Below \in SUBSET (S \ {r})
  BY DEF Ordering
<1>4. IsFiniteSet(Below) /\ Cardinality(Below) <= Cardinality(S \ {r})
  <2> HIDE DEF Below
  <2> QED
    BY <1>1, <1>3, FS_Subset
<1>5. Cardinality(Below) \in Nat
  BY <1>4, FS_CardinalityType
<1> QED
  BY <1>1, <1>2, <1>4, <1>5 DEF Rank

\* Every number below the size of S is the rank of one member.
LEMMA RankIsOnto ==
    ASSUME NEW S, IsFiniteSet(S), NEW R, Ordering(R, S), NEW k \in 0 .. Cardinality(S) - 1
    PROVE  \E r \in S : Rank(R, S, r) = k
<1> DEFINE n == Cardinality(S)
           f == [r \in S |-> Rank(R, S, r)]
<1>0. n \in Nat
  BY FS_CardinalityType
<1>1. f \in [S -> 0 .. n - 1]
  BY RankType
<1>2. ASSUME NEW x \in S, NEW y \in S, f[x] = f[y]
      PROVE  x = y
  <2>1. Rank(R, S, x) = Rank(R, S, y) /\ Rank(R, S, x) \in Int
    BY <1>2, RankType
  <2>2. ~ (<<x, y>> \in R) /\ ~ (<<y, x>> \in R)
    BY <2>1, RankGrows
  <2> QED
    BY <2>2 DEF Ordering
<1>3. f \in Injection(S, 0 .. n - 1)
  <2> HIDE DEF n
  <2> QED
    BY <1>1, <1>2 DEF Injection, IsInjective
<1>4. IsFiniteSet(0 .. n - 1) /\ Cardinality(0 .. n - 1) = n
  <2>1. 0 \in Int /\ n - 1 \in Int /\ (IF 0 > n - 1 THEN 0 ELSE (n - 1) - 0 + 1) = n
    BY <1>0
  <2> HIDE DEF n
  <2> QED
    BY <2>1, FS_Interval
<1>5. f \in Surjection(S, 0 .. n - 1)
  <2> HIDE DEF f
  <2> QED
    BY <1>3, <1>4, FS_Injection
<1> QED
  BY <1>5 DEF Surjection

\* s is the sequence of the members of S in the order R, each where its rank says.
Sorted(s, S, R) ==
    /\ Cardinality(S) \in Nat /\ s \in Seq(S) /\ Len(s) = Cardinality(S)
    /\ DOMAIN s = 1 .. Len(s)
    /\ \A i \in DOMAIN s : s[i] \in S /\ Rank(R, S, s[i]) = i - 1
    /\ \A i, k \in DOMAIN s : i < k => <<s[i], s[k]>> \in R
    /\ \A r \in S : \E i \in DOMAIN s : s[i] = r

\* The members of S by their ranks are S in the order R.
LEMMA RankSorts ==
    ASSUME NEW S, IsFiniteSet(S), NEW R, Ordering(R, S),
           NEW s \in [1 .. Cardinality(S) -> S],
           \A k \in 1 .. Cardinality(S) : Rank(R, S, s[k]) = k - 1
    PROVE  Sorted(s, S, R)
<1> DEFINE n == Cardinality(S)
<1>1. n \in Nat
  BY FS_CardinalityType
<1>2. \A i \in 1 .. n : s[i] \in S /\ Rank(R, S, s[i]) = i - 1
  OBVIOUS
<1>3. s \in Seq(S) /\ Len(s) = n /\ DOMAIN s = 1 .. n
  BY <1>1, FunctionIsSeq
<1>4. ASSUME NEW i \in 1 .. n, NEW k \in 1 .. n, i < k
      PROVE  <<s[i], s[k]>> \in R
  <2>1. s[i] \in S /\ s[k] \in S /\ Rank(R, S, s[i]) = i - 1 /\ Rank(R, S, s[k]) = k - 1
    BY <1>2
  <2>2. s[i] # s[k]
    BY <1>1, <1>4, <2>1
  <2>3. ~ (<<s[k], s[i]>> \in R)
    <3>1. SUFFICES ASSUME <<s[k], s[i]>> \in R PROVE FALSE
      OBVIOUS
    <3>2. Rank(R, S, s[k]) < Rank(R, S, s[i])
      BY <2>1, <3>1, RankGrows
    <3> QED
      BY <1>1, <1>4, <2>1, <3>2
  <2> QED
    BY <2>1, <2>2, <2>3 DEF Ordering
<1>5. ASSUME NEW r \in S
      PROVE  \E i \in 1 .. n : s[i] = r
  <2> DEFINE i == Rank(R, S, r) + 1
  <2>1. i \in 1 .. n
    BY <1>1, RankType
  <2>2. s[i] \in S /\ Rank(R, S, s[i]) = Rank(R, S, r) /\ Rank(R, S, r) \in Int
    BY <1>2, <2>1, RankType
  <2>3. ~ (<<s[i], r>> \in R) /\ ~ (<<r, s[i]>> \in R)
    BY <2>2, RankGrows
  <2>4. s[i] = r
    BY <2>2, <2>3 DEF Ordering
  <2> QED
    BY <2>1, <2>4
<1> QED
  BY <1>1, <1>2, <1>3, <1>4, <1>5 DEF Sorted

\* s is the ascending sequence of the numbers in S.
Climbs(s, S) ==
    /\ Cardinality(S) \in Nat /\ s \in Seq(S) /\ Len(s) = Cardinality(S)
    /\ DOMAIN s = 1 .. Len(s)
    /\ \A i \in DOMAIN s : s[i] \in S /\ Cardinality({q \in S : q < s[i]}) = i - 1
    /\ \A i, k \in DOMAIN s : i < k => s[i] < s[k]
    /\ \A r \in S : \E i \in DOMAIN s : s[i] = r

LEMMA AscendingByRank ==
    ASSUME NEW S, IsFiniteSet(S), NEW R, Ordering(R, S),
           \A q, r \in S : <<q, r>> \in R <=> q < r,
           NEW s, s = Ascending(S)
    PROVE  Climbs(s, S)
<1>2. \A r \in S : Rank(R, S, r) = Cardinality({q \in S : q < r})
  <2>1. ASSUME NEW r \in S PROVE {q \in S : <<q, r>> \in R} = {q \in S : q < r}
    OBVIOUS
  <2> QED
    BY <2>1 DEF Rank
<1>3. s = [k \in 1 .. Cardinality(S) |-> CHOOSE r \in S : Cardinality({q \in S : q < r}) = k - 1]
  BY DEF Ascending, Arranged
<1>4. ASSUME NEW k \in 1 .. Cardinality(S)
      PROVE  s[k] \in S /\ Rank(R, S, s[k]) = k - 1
  <2>0. k - 1 \in 0 .. Cardinality(S) - 1
    BY FS_CardinalityType
  <2>1. s[k] = CHOOSE r \in S : Cardinality({q \in S : q < r}) = k - 1
    BY <1>3
  <2>4. PICK r \in S : Rank(R, S, r) = k - 1
    BY <2>0, RankIsOnto
  <2>2. \E t \in S : Cardinality({q \in S : q < t}) = k - 1
    BY <1>2, <2>4
  <2>3. s[k] \in S /\ Cardinality({q \in S : q < s[k]}) = k - 1
    BY <2>1, <2>2
  <2> QED
    BY <1>2, <2>3
<1>5. s \in [1 .. Cardinality(S) -> S]
  BY <1>3, <1>4
<1>6. Sorted(s, S, R)
  <2>1. \A k \in 1 .. Cardinality(S) : Rank(R, S, s[k]) = k - 1
    BY <1>4
  <2> QED
    BY <1>5, <2>1, RankSorts
<1> QED
  BY <1>2, <1>6 DEF Sorted, Climbs

LEMMA AscendingSorts ==
    ASSUME NEW S \in SUBSET Int, IsFiniteSet(S)
    PROVE  Climbs(Ascending(S), S)
<1>1. PICK R : R = {p \in S \X S : p[1] < p[2]}
  OBVIOUS
<1>2. Ordering(R, S)
  BY <1>1 DEF Ordering
<1>3. \A q, r \in S : <<q, r>> \in R <=> q < r
  BY <1>1
<1> QED
  BY <1>2, <1>3, AscendingByRank

LEMMA GreatestIn ==
    ASSUME NEW S \in SUBSET Int, S # {}, IsFiniteSet(S)
    PROVE  Max(S) \in S /\ \A x \in S : Max(S) >= x
<1> DEFINE s == Ascending(S)
           n == Cardinality(S)
<1>1. /\ n \in Nat /\ Len(s) = n /\ DOMAIN s = 1 .. n
      /\ \A i \in 1 .. n : s[i] \in S
      /\ \A i, k \in 1 .. n : i < k => s[i] < s[k]
      /\ \A r \in S : \E i \in 1 .. n : s[i] = r
  BY AscendingSorts DEF Climbs
<1> HIDE DEF s, n
<1>2. n \in 1 .. n
  <2>1. PICK r \in S : TRUE
    OBVIOUS
  <2>2. PICK i \in 1 .. n : s[i] = r
    BY <1>1
  <2> QED
    BY <1>1, <2>2
<1>3. s[n] \in S /\ \A x \in S : s[n] >= x
  <2>1. ASSUME NEW x \in S PROVE s[n] >= x
    <3>1. PICK i \in 1 .. n : s[i] = x
      BY <1>1
    <3>2. i = n \/ i < n
      BY <1>1
    <3>3. s[i] \in Int /\ s[n] \in Int
      BY <1>1, <1>2
    <3> QED
      BY <1>1, <1>2, <3>1, <3>2, <3>3
  <2> QED
    BY <1>1, <1>2, <2>1
<1> QED
  BY <1>3 DEF Max

LEMMA MaxOfTwo ==
    ASSUME NEW a \in Int, NEW b \in Int
    PROVE  /\ Max({a, b}) \in {a, b} /\ Max({a, b}) >= a /\ Max({a, b}) >= b
<1>1. IsFiniteSet({a, b})
  <2>1. IsFiniteSet({a})
    BY FS_Singleton
  <2> QED
    BY <2>1, FS_AddElement, {a} \cup {b} = {a, b}
<1> QED
  BY <1>1, GreatestIn, {a, b} \in SUBSET Int

LEMMA MinOfTwo ==
    ASSUME NEW a \in Int, NEW b \in Int
    PROVE  /\ Min({a, b}) \in {a, b} /\ Min({a, b}) <= a /\ Min({a, b}) <= b
<1>1. \E m \in {a, b} : \A x \in {a, b} : m <= x
  BY SMT
<1> QED
  BY <1>1 DEF Min

\* p has the members of s at the places in I, in their order.
PickedInOrder(p, s, I) ==
    /\ DOMAIN p = 1 .. Len(p)
    /\ \A k \in DOMAIN p : \E i \in I : p[k] = s[i]
    /\ \A i \in I : \E k \in DOMAIN p : p[k] = s[i]
    /\ \A k, l \in DOMAIN p : k < l => \E i, j \in I : i < j /\ p[k] = s[i] /\ p[l] = s[j]

LEMMA PickedFrom ==
    ASSUME NEW T, NEW s \in Seq(T), NEW I \in SUBSET (DOMAIN s), NEW p, p = Picked(s, I)
    PROVE  p \in Seq(T) /\ PickedInOrder(p, s, I)
<1> DEFINE at == Ascending(I)
<1>1. I \in SUBSET Int /\ IsFiniteSet(I)
  <2>1. DOMAIN s = 1 .. Len(s) /\ Len(s) \in Nat
    BY LenProperties
  <2>2. IsFiniteSet(1 .. Len(s))
    BY <2>1, FS_Interval
  <2> QED
    BY <2>1, <2>2, FS_Subset
<1>2. /\ at \in Seq(I) /\ Len(at) \in Nat /\ DOMAIN at = 1 .. Len(at)
      /\ \A k \in 1 .. Len(at) : at[k] \in I
      /\ \A k, l \in 1 .. Len(at) : k < l => at[k] < at[l]
      /\ \A i \in I : \E k \in 1 .. Len(at) : at[k] = i
  <2>1. /\ at \in Seq(I) /\ DOMAIN at = 1 .. Len(at) /\ Cardinality(I) \in Nat
        /\ Len(at) = Cardinality(I)
        /\ \A i \in DOMAIN at : at[i] \in I
        /\ \A k, l \in DOMAIN at : k < l => at[k] < at[l]
        /\ \A r \in I : \E i \in DOMAIN at : at[i] = r
    BY <1>1, AscendingSorts DEF Climbs
  <2> HIDE DEF at
  <2> QED
    BY <2>1
<1>3. p = [k \in 1 .. Len(at) |-> s[at[k]]]
  <2>1. p = [k \in DOMAIN at |-> s[at[k]]]
    BY DEF Picked
  <2> HIDE DEF at
  <2> QED
    BY <1>2, <2>1
<1> HIDE DEF at
<1>4. \A i \in I : s[i] \in T
  BY LenProperties
<1>5. p \in [1 .. Len(at) -> T]
  BY <1>2, <1>3, <1>4
<1>6. p \in Seq(T) /\ DOMAIN p = 1 .. Len(at) /\ DOMAIN p = 1 .. Len(p)
  BY <1>2, <1>5, FunctionIsSeq
<1>8. \A k \in 1 .. Len(at) : p[k] = s[at[k]]
  BY <1>3
<1>9. \A k, l \in DOMAIN p : k < l =>
         \E i, j \in I : i < j /\ p[k] = s[i] /\ p[l] = s[j]
  BY <1>2, <1>6, <1>8
<1>10. ASSUME NEW i \in I PROVE \E k \in DOMAIN p : p[k] = s[i]
  <2>1. PICK k \in 1 .. Len(at) : at[k] = i
    BY <1>2
  <2>2. p[k] = s[i] /\ k \in DOMAIN p
    BY <1>6, <1>8, <2>1
  <2> QED
    BY <2>2
<1>11. \A k \in DOMAIN p : p[k] \in T /\ \E i \in I : p[k] = s[i]
  BY <1>2, <1>4, <1>6, <1>8
<1> QED
  BY <1>6, <1>9, <1>10, <1>11 DEF PickedInOrder

-----------------------------------------------------------------------------
(* Rows, entries and what is sent first.                                   *)

LEMMA RowsFinite == IsFiniteSet(Rows) /\ Rows \subseteq Nat
<1>1. N \in Int /\ 1 \in Int
  BY LivePollAssumption
<1>2. IsFiniteSet(1 .. N)
  BY <1>1, FS_Interval
<1> QED
  BY <1>1, <1>2 DEF Rows

LEMMA PollTypes ==
    ASSUME PollTypeOK
    PROVE  /\ page \in Page
           /\ rows \in [Rows -> Row \cup {Nil}] /\ writing \in [Rows -> Row \cup {Nil}]
           /\ clock \in Nat /\ writes \in Nat /\ losses \in Nat /\ next \in Nat
           /\ dom \in Seq(Entry) /\ Len(dom) \in Nat /\ DOMAIN dom = 1 .. Len(dom)
           /\ \A i \in DOMAIN dom : dom[i] \in Entry
           /\ cursor \in [{"poll", "update"} -> Nat]
           /\ req \in [Channels -> {Nil, Sent} \cup Answer]
           /\ due \in [Rows -> SUBSET Channels] /\ kept \in SUBSET Rows
BY LivePollAssumption, LenProperties DEF PollTypeOK

LEMMA PresentRow ==
    ASSUME rows \in [Rows -> Row \cup {Nil}], NEW r \in Present
    PROVE  /\ r \in Rows /\ rows[r] \in Row
           /\ rows[r].created \in Nat /\ rows[r].updated \in Nat
BY DEF Present, Row

LEMMA EntriesOf ==
    ASSUME rows \in [Rows -> Row \cup {Nil}], NEW s \in Seq(Present), NEW via \in Channels \cup {"load"},
           NEW e, e = Entries(s, via)
    PROVE  /\ e \in Seq(Entry) /\ Len(e) = Len(s) /\ DOMAIN e = DOMAIN s
           /\ DOMAIN s = 1 .. Len(s)
           /\ \A i \in DOMAIN e : e[i].row = s[i] /\ s[i] \in Present /\ e[i].via = via
<1>1. Len(s) \in Nat /\ DOMAIN s = 1 .. Len(s) /\ \A i \in 1 .. Len(s) : s[i] \in Present
  BY LenProperties
<1>2. e = [i \in 1 .. Len(s) |-> [row |-> s[i], was |-> rows[s[i]], via |-> via]]
  BY <1>1 DEF Entries
<1>3. \A i \in 1 .. Len(s) : [row |-> s[i], was |-> rows[s[i]], via |-> via] \in Entry
  BY <1>1, PresentRow DEF Entry
<1>4. e \in [1 .. Len(s) -> Entry]
  BY <1>2, <1>3
<1>5. e \in Seq(Entry) /\ Len(e) = Len(s) /\ DOMAIN e = 1 .. Len(s)
  BY <1>1, <1>4, FunctionIsSeq
<1> QED
  BY <1>1, <1>2, <1>5

\* No two rows are tied in the order the database breaks ties in.
LEMMA TieBreaks ==
    ASSUME NEW tie \in Ties
    PROVE  /\ \A r \in Rows : tie[r] \in Int
           /\ \A q, r \in Rows : tie[q] = tie[r] => q = r
<1>1. tie \in [Rows -> Rows] /\ IsInjective(tie)
  BY DEF Ties
<1>2. \A r \in Rows : tie[r] \in Rows
  BY <1>1
<1>3. \A q, r \in Rows : tie[q] = tie[r] => q = r
  BY <1>1 DEF IsInjective
<1>4. \A n \in Rows : n \in Int
  BY RowsFinite
<1> QED
  BY <1>2, <1>3, <1>4

\* R has the latest rows of S first.
LatestFirst(R, S, field, tie) ==
    \A q, r \in S : <<q, r>> \in R <=> \/ rows[q][field] > rows[r][field]
                                       \/ rows[q][field] = rows[r][field] /\ tie[q] < tie[r]

LEMMA NewestByRank ==
    ASSUME NEW S, IsFiniteSet(S), NEW R, Ordering(R, S),
           NEW field, NEW tie,
           LatestFirst(R, S, field, tie)
    PROVE  \E a : Sorted(a, S, R)
                  /\ Newest(S, field, tie) = SubSeq(a, 1, Min({Limit, Cardinality(S)}))
<1> DEFINE before(r) == {q \in S : \/ rows[q][field] > rows[r][field]
                                   \/ rows[q][field] = rows[r][field] /\ tie[q] < tie[r]}
           a == [k \in 1 .. Cardinality(S) |->
                   CHOOSE r \in S : Cardinality(before(r)) = k - 1]
<1>1. Newest(S, field, tie) = SubSeq(a, 1, Min({Limit, Cardinality(S)}))
  BY DEF Newest, Arranged
<1>2. \A r \in S : Rank(R, S, r) = Cardinality(before(r))
  <2>1. ASSUME NEW r \in S PROVE {q \in S : <<q, r>> \in R} = before(r)
    BY DEF LatestFirst
  <2> QED
    BY <2>1 DEF Rank
<1> HIDE DEF before
<1>3. ASSUME NEW k \in 1 .. Cardinality(S)
      PROVE  a[k] \in S /\ Rank(R, S, a[k]) = k - 1
  <2>1. k - 1 \in 0 .. Cardinality(S) - 1
    BY FS_CardinalityType
  <2>2. a[k] = CHOOSE r \in S : Cardinality(before(r)) = k - 1
    OBVIOUS
  <2>3. PICK r \in S : Rank(R, S, r) = k - 1
    BY <2>1, RankIsOnto
  <2>4. \E t \in S : Cardinality(before(t)) = k - 1
    BY <1>2, <2>3
  <2>5. a[k] \in S /\ Cardinality(before(a[k])) = k - 1
    BY <2>2, <2>4
  <2> QED
    BY <1>2, <2>5
<1>4. a \in [1 .. Cardinality(S) -> S]
  BY <1>3
<1>5. \A k \in 1 .. Cardinality(S) : Rank(R, S, a[k]) = k - 1
  BY <1>3
<1>6. Sorted(a, S, R)
  <2> HIDE DEF a
  <2> QED
    BY <1>4, <1>5, RankSorts
<1> QED
  BY <1>1, <1>6

\* What Newest sends: members of the set, each once, a latest one first.
LEMMA NewestFirst ==
    ASSUME PollTypeOK, NEW S \in SUBSET Present,
           NEW field, \A r \in S : rows[r][field] \in Nat,
           NEW tie \in Ties, NEW s, s = Newest(S, field, tie)
    PROVE  /\ s \in Seq(Present) /\ Len(s) \in Nat /\ DOMAIN s = 1 .. Len(s)
           /\ \A i \in DOMAIN s : s[i] \in S
           /\ \A i, k \in DOMAIN s : i < k => s[i] # s[k]
           /\ s # << >> => 1 \in DOMAIN s
           /\ \A i \in DOMAIN s : rows[s[i]][field] <= rows[s[1]][field]
<1>1. /\ \A r \in S : rows[r][field] \in Nat /\ tie[r] \in Int
      /\ \A q, r \in S : tie[q] = tie[r] => q = r
  BY TieBreaks DEF Present
<1>2. IsFiniteSet(S)
  BY RowsFinite, FS_Subset, S \in SUBSET Rows DEF Present
<1>3. PICK R : R = {p \in S \X S : \/ rows[p[1]][field] > rows[p[2]][field]
                                   \/ rows[p[1]][field] = rows[p[2]][field] /\ tie[p[1]] < tie[p[2]]}
  OBVIOUS
<1>4. \A q, r \in S : <<q, r>> \in R <=> \/ rows[q][field] > rows[r][field]
                                         \/ rows[q][field] = rows[r][field] /\ tie[q] < tie[r]
  BY <1>3
<1>5. Ordering(R, S)
  BY <1>1, <1>4 DEF Ordering
<1>6. Limit \in Nat \ {0}
  BY LivePollAssumption
<1>7. PICK a : Sorted(a, S, R) /\ s = SubSeq(a, 1, Min({Limit, Cardinality(S)}))
  <2>1. LatestFirst(R, S, field, tie)
    BY <1>4 DEF LatestFirst
  <2> QED
    BY <1>2, <1>5, <2>1, NewestByRank
<1> DEFINE m == Min({Limit, Cardinality(S)})
<1>8. m \in Nat /\ m <= Cardinality(S) /\ Cardinality(S) \in Nat
  <2>1. Cardinality(S) \in Nat
    BY <1>2, FS_CardinalityType
  <2>2. /\ m \in {Limit, Cardinality(S)} /\ m <= Cardinality(S)
    BY <1>6, <2>1, MinOfTwo
  <2> QED
    BY <1>6, <2>1, <2>2
<1>9. /\ a \in Seq(S) /\ Len(a) = Cardinality(S) /\ DOMAIN a = 1 .. Cardinality(S)
      /\ \A i \in 1 .. Cardinality(S) : a[i] \in S
      /\ \A i, k \in 1 .. Cardinality(S) : i < k => <<a[i], a[k]>> \in R
  BY <1>7 DEF Sorted
<1> HIDE DEF m
<1>10. /\ s \in Seq(S) /\ Len(s) = m
       /\ \A i \in 1 .. m : s[i] = a[i]
  <2>1. \A i \in 1 .. m : a[i] \in S
    BY <1>8, <1>9
  <2>2. s = SubSeq(a, 1, m)
    BY <1>7 DEF m
  <2> QED
    BY <1>8, <2>1, <2>2, SubSeqProperties
<1>11. DOMAIN s = 1 .. m
  BY <1>10, LenProperties
<1>12. s \in Seq(Present)
  BY <1>10, SeqMonotonic
<1>13. \A i, k \in 1 .. m : i < k => <<s[i], s[k]>> \in R
  BY <1>8, <1>9, <1>10
<1>14. \A i \in 1 .. m : s[i] \in S
  BY <1>8, <1>9, <1>10
<1>15. \A i, k \in 1 .. m : i < k => s[i] # s[k]
  BY <1>5, <1>13, <1>14 DEF Ordering
<1>16. \A i \in 1 .. m : rows[s[i]][field] <= rows[s[1]][field]
  <2> TAKE i \in 1 .. m
  <2>1. 1 \in 1 .. m /\ (i = 1 \/ 1 < i)
    BY <1>8
  <2>2. CASE i = 1
    BY <1>1, <1>14, <2>1, <2>2
  <2>3. CASE 1 < i
    <3>1. <<s[1], s[i]>> \in R /\ s[1] \in S /\ s[i] \in S
      BY <1>13, <1>14, <2>1, <2>3
    <3> QED
      BY <1>1, <1>4, <3>1
  <2> QED
    BY <2>1, <2>2, <2>3
<1>17. s # << >> => 1 \in 1 .. m
  BY <1>8, <1>10, EmptySeq
<1> QED
  BY <1>8, <1>10, <1>11, <1>12, <1>14, <1>15, <1>16, <1>17

-----------------------------------------------------------------------------
(* What a step leaves alone.                                               *)

LEMMA ListFinite ==
    ASSUME NEW S \in SUBSET Listed
    PROVE  IsFiniteSet(S) /\ Cardinality(S) \in Nat
<1>1. S \in SUBSET Rows
  BY DEF Listed, Present
<1> QED
  BY <1>1, RowsFinite, FS_Subset, FS_CardinalityType

LEMMA KeyType ==
    ASSUME page \in Page, NEW row \in Row
    PROVE  Key(row) \in Int
<1>1. row.created \in Int /\ row.place \in Int /\ Span \in Int
  BY LivePollAssumption DEF Row, Places
<1> QED
  BY <1>1 DEF Key

LEMMA InOrderByRank ==
    ASSUME NEW tie, NEW R, Ordering(R, Listed),
           \A q, r \in Listed : <<q, r>> \in R <=>
              \/ Key(rows[q]) < Key(rows[r])
              \/ Key(rows[q]) = Key(rows[r]) /\ tie[q] < tie[r]
    PROVE  Sorted(InOrder(tie), Listed, R)
<1> DEFINE before(r) == {q \in Listed : \/ Key(rows[q]) < Key(rows[r])
                                        \/ Key(rows[q]) = Key(rows[r]) /\ tie[q] < tie[r]}
           a == [k \in 1 .. Cardinality(Listed) |->
                   CHOOSE r \in Listed : Cardinality(before(r)) = k - 1]
<1>1. InOrder(tie) = a
  BY DEF InOrder, Arranged
<1>2. \A r \in Listed : Rank(R, Listed, r) = Cardinality(before(r))
  <2>1. ASSUME NEW r \in Listed PROVE {q \in Listed : <<q, r>> \in R} = before(r)
    OBVIOUS
  <2> QED
    BY <2>1 DEF Rank
<1> HIDE DEF before
<1>3. IsFiniteSet(Listed) /\ Cardinality(Listed) \in Nat
  BY ListFinite
<1>4. ASSUME NEW k \in 1 .. Cardinality(Listed)
      PROVE  a[k] \in Listed /\ Rank(R, Listed, a[k]) = k - 1
  <2>1. k - 1 \in 0 .. Cardinality(Listed) - 1
    BY <1>3
  <2>2. a[k] = CHOOSE r \in Listed : Cardinality(before(r)) = k - 1
    OBVIOUS
  <2>3. PICK r \in Listed : Rank(R, Listed, r) = k - 1
    BY <1>3, <2>1, RankIsOnto
  <2>4. \E t \in Listed : Cardinality(before(t)) = k - 1
    BY <1>2, <2>3
  <2>5. a[k] \in Listed /\ Cardinality(before(a[k])) = k - 1
    BY <2>2, <2>4
  <2> QED
    BY <1>2, <2>5
<1>5. a \in [1 .. Cardinality(Listed) -> Listed]
  BY <1>4
<1>6. \A k \in 1 .. Cardinality(Listed) : Rank(R, Listed, a[k]) = k - 1
  BY <1>4
<1> HIDE DEF a
<1> QED
  BY <1>1, <1>3, <1>5, <1>6, RankSorts

\* all has the rows of the tab, each once, and a row that is alone in its place
\* where Position says.
Arrayed(all) ==
    /\ Len(all) \in Nat /\ all \in Seq(Listed) /\ DOMAIN all = 1 .. Len(all)
    /\ \A i \in 1 .. Len(all) : all[i] \in Listed
    /\ \A i, k \in 1 .. Len(all) : i < k => all[i] # all[k]
    /\ \A r \in Listed : Alone(r) => Position(r) \in 1 .. Len(all) /\ all[Position(r)] = r

LEMMA ListArrayed ==
    ASSUME rows \in [Rows -> Row \cup {Nil}], page \in Page, NEW tie \in Ties
    PROVE  Arrayed(InOrder(tie))
<1>1. \A r \in Listed : r \in Rows /\ Key(rows[r]) \in Int
  BY PresentRow, KeyType DEF Listed
<1>key. PICK at \in [Listed -> Int] : \A r \in Listed : at[r] = Key(rows[r])
  <2>1. [r \in Listed |-> Key(rows[r])] \in [Listed -> Int]
    BY <1>1
  <2> QED
    BY <2>1
<1> DEFINE before(q, r) == \/ at[q] < at[r]
                           \/ at[q] = at[r] /\ tie[q] < tie[r]
<1>2. PICK R : R = {p \in Listed \X Listed : before(p[1], p[2])}
  OBVIOUS
<1>3. \A q, r \in Listed : <<q, r>> \in R <=> before(q, r)
  <2> HIDE DEF before
  <2> QED
    BY <1>2
<1>4. /\ \A r \in Listed : tie[r] \in Int
      /\ \A q, r \in Listed : tie[q] = tie[r] => q = r
  BY <1>1, TieBreaks
<1>5. Ordering(R, Listed)
  BY <1>3, <1>4, <1>key DEF Ordering
<1>6. PICK all : all = InOrder(tie) /\ Sorted(all, Listed, R)
  <2>1. \A q, r \in Listed : <<q, r>> \in R <=>
           \/ Key(rows[q]) < Key(rows[r])
           \/ Key(rows[q]) = Key(rows[r]) /\ tie[q] < tie[r]
    BY <1>3, <1>key
  <2> QED
    BY <1>5, <2>1, InOrderByRank
<1> HIDE DEF before
<1>7. /\ Len(all) \in Nat /\ all \in Seq(Listed) /\ DOMAIN all = 1 .. Len(all)
      /\ \A i \in 1 .. Len(all) : all[i] \in Listed /\ Rank(R, Listed, all[i]) = i - 1
      /\ \A i, k \in 1 .. Len(all) : i < k => <<all[i], all[k]>> \in R
      /\ \A r \in Listed : \E i \in 1 .. Len(all) : all[i] = r
  BY <1>6 DEF Sorted
<1>8. \A i, k \in 1 .. Len(all) : i < k => all[i] # all[k]
  BY <1>5, <1>7 DEF Ordering
\* The rows before it are those with a smaller key.
<1>9. ASSUME NEW r \in Listed, Alone(r)
      PROVE  Position(r) \in 1 .. Len(all) /\ all[Position(r)] = r
  <2> DEFINE above == {q \in Listed : <<q, r>> \in R}
             upto == {q \in Listed : at[q] <= at[r]}
  <2>1. PICK i \in 1 .. Len(all) : all[i] = r
    BY <1>7
  <2>2. Cardinality(above) = i - 1 /\ Position(r) = Cardinality(upto)
    <3>1. upto = {q \in Listed : Key(rows[q]) <= Key(rows[r])}
      BY <1>key
    <3> QED
      BY <1>7, <2>1, <3>1 DEF Rank, Position
  <2>3. \A q \in Listed : at[q] = at[r] => q = r
    BY <1>9, <1>key DEF Alone
  <2>4. upto = above \cup {r} /\ r \notin above
    <3>1. ASSUME NEW q \in Listed PROVE at[q] <= at[r] <=> <<q, r>> \in R \/ q = r
      <4>1. at[q] \in Int /\ at[r] \in Int
        BY <1>key
      <4>2. <<q, r>> \in R <=> \/ at[q] < at[r]
                               \/ at[q] = at[r] /\ tie[q] < tie[r]
        BY <1>3 DEF before
      <4>3. at[q] = at[r] => q = r
        BY <2>3
      <4> QED
        BY <4>1, <4>2, <4>3
    <3>2. <<r, r>> \notin R
      BY <1>5 DEF Ordering
    <3> QED
      BY <3>1, <3>2
  <2>5. IsFiniteSet(above)
    BY ListFinite
  <2>6. Cardinality(upto) = Cardinality(above) + 1
    <3> HIDE DEF above, upto
    <3> QED
      BY <2>4, <2>5, FS_AddElement
  <2> HIDE DEF above, upto
  <2>7. Position(r) = i
    BY <1>7, <2>2, <2>6
  <2> QED
    BY <2>1, <2>7
<1> QED
  BY <1>6, <1>7, <1>8, <1>9 DEF Arrayed

LEMMA ListStays ==
    ASSUME UNCHANGED <<page, rows>>
    PROVE  /\ Present' = Present /\ Listed' = Listed
           /\ \A row : Key(row)' = Key(row)
           /\ \A r : Position(r)' = Position(r) /\ (Alone(r)' <=> Alone(r))
           /\ \A r : Created(r)' = Created(r)
           /\ \A row : InTab(row)' = InTab(row)
<1>1. Present' = Present /\ Listed' = Listed /\ \A row : InTab(row)' = InTab(row)
  BY DEF Present, Listed, InTab
<1>2. \A row : Key(row)' = Key(row)
  BY DEF Key
<1>3. \A r : Created(r)' = Created(r)
  BY DEF Created
<1>4. \A r : Position(r)' = Position(r) /\ (Alone(r)' <=> Alone(r))
  BY <1>1, <1>2 DEF Position, Alone
<1> QED
  BY <1>1, <1>2, <1>3, <1>4

\* The parts of the invariant that are about the table and the page alone.
LEMMA PageStays ==
    ASSUME TwiceOnlyByCrossing, NothingSkipped, CreatedStays, BehindCursor,
           UNCHANGED <<page, rows, writing, dom, cursor, next, kept>>
    PROVE  (TwiceOnlyByCrossing /\ NothingSkipped /\ CreatedStays /\ BehindCursor)'
<1>1. TwiceOnlyByCrossing'
  BY DEF TwiceOnlyByCrossing
<1>2. NothingSkipped'
  BY ListStays DEF NothingSkipped, Copies
<1>3. CreatedStays'
  BY DEF CreatedStays
<1>4. BehindCursor'
  BY ListStays DEF BehindCursor
<1> QED
  BY <1>1, <1>2, <1>3, <1>4

\* An answer that stays as it is or goes.
Settled(ch) == req'[ch] = req[ch] \/ req'[ch] \in {Nil, Sent}

LEMMA PollStays ==
    ASSUME PollBringsLater, UNCHANGED <<page, rows, cursor>>, Settled("poll"),
           req'["poll"] # Nil => ~ page.calendar
    PROVE  PollBringsLater'
BY ListStays DEF PollBringsLater, Settled, OnItsWay

LEMMA UpdateStays ==
    ASSUME UpdateBringsOnce, Settled("update"), Settled("scroll")
    PROVE  UpdateBringsOnce'
BY DEF UpdateBringsOnce, Settled, OnItsWay

LEMMA KeptRemain ==
    ASSUME KeptStay, UNCHANGED <<page, rows, kept>>, Settled("update")
    PROVE  KeptStay'
<1>1. Listed' = Listed /\ \A r : (Alone(r)' <=> Alone(r))
  BY ListStays
<1>2. (kept \subseteq Listed /\ \A r \in kept : Alone(r))'
  BY <1>1 DEF KeptStay
<1>3. (OnItsWay("update") /\ ~ page.calendar => req["update"].removed \cap kept = {})'
  BY DEF KeptStay, OnItsWay, Settled
<1>4. (page.calendar /\ OnItsWay("update") /\ req["update"].new # << >> =>
          \A r \in kept : Carried("update", r))'
  BY DEF KeptStay, OnItsWay, Settled, Carried
<1> QED
  BY <1>2, <1>3, <1>4 DEF KeptStay

LEMMA PagesStay ==
    ASSUME PagesBrought, UNCHANGED <<page, rows, kept, dom, next>>, Settled("scroll"),
           req'["scroll"] # Nil => next # 0
    PROVE  PagesBrought'
<1>1. \A r : Position(r)' = Position(r)
  BY ListStays
<1>2. \A r : Copies(r)' = Copies(r)
  BY DEF Copies
<1>4. (req["scroll"] # Nil => next # 0)'
  OBVIOUS
<1>5. ASSUME NEW r \in kept
      PROVE  /\ (next # 0 /\ Position(r) <= (next - 1) * PageSize => Copies(r) # {})'
             /\ (OnItsWay("scroll") /\ (Position(r) <= next * PageSize \/ ~ req["scroll"].more) =>
                   Copies(r) # {} \/ Carried("scroll", r))'
  <2>1. (next # 0 /\ Position(r) <= (next - 1) * PageSize => Copies(r) # {})'
    BY <1>1, <1>2, <1>5 DEF PagesBrought
  <2>2. (OnItsWay("scroll") /\ (Position(r) <= next * PageSize \/ ~ req["scroll"].more) =>
                   Copies(r) # {} \/ Carried("scroll", r))'
    BY <1>1, <1>2, <1>5 DEF PagesBrought, OnItsWay, Settled, Carried
  <2> QED
    BY <2>1, <2>2
<1> QED
  BY <1>4, <1>5 DEF PagesBrought

-----------------------------------------------------------------------------
(* The writes of others.                                                   *)

\* A write that takes its time.
LEMMA WritingStays ==
    ASSUME PollInv, NEW r \in Rows, NEW row \in Row,
           writing' = [writing EXCEPT ![r] = row],
           rows[r] # Nil => row.created = rows[r].created,
           UNCHANGED <<page, rows, losses, client, req, due, kept>>,
           clock' \in Nat, writes' \in Nat
    PROVE  PollInv'
<1>1. PollTypeOK'
  BY PollTypes DEF PollInv, PollTypeOK, client
<1>2. TwiceOnlyByCrossing' /\ NothingSkipped'
  BY ListStays DEF PollInv, TwiceOnlyByCrossing, NothingSkipped, Copies, client
<1>3. \A q \in Rows : writing'[q] = IF q = r THEN row ELSE writing[q]
  BY PollTypes DEF PollInv
<1>4. CreatedStays'
  BY <1>3 DEF PollInv, CreatedStays
<1>5. BehindCursor'
  BY ListStays DEF PollInv, BehindCursor, client
<1>6. PollBringsLater' /\ UpdateBringsOnce'
  BY PollStays, UpdateStays DEF PollInv, PollBringsLater, Settled, client
<1>7. KeptStay'
  BY KeptRemain DEF PollInv, Settled
<1>8. PagesBrought'
  BY PagesStay DEF PollInv, PagesBrought, Settled, client
<1> QED
  BY <1>1, <1>2, <1>4, <1>5, <1>6, <1>7, <1>8 DEF PollInv

LEMMA InsertKeeps ==
    ASSUME PollInv, NEW r \in Rows, Insert(r)
    PROVE  PollInv'
<1>1. PICK t \in IF page.entered THEN 0 .. clock + 2 ELSE {clock + 1}, place \in Places :
         writing' = [writing EXCEPT ![r] =
                       [created |-> t, updated |-> clock + 1, active |-> TRUE, place |-> place]]
  BY DEF Insert
<1>2. clock \in Nat /\ writes \in Nat
  BY PollTypes DEF PollInv
<1>3. t \in Nat
  BY <1>2
<1>4. [created |-> t, updated |-> clock + 1, active |-> TRUE, place |-> place] \in Row
  BY <1>2, <1>3 DEF Row
<1>5. /\ rows[r] = Nil /\ clock' \in Nat /\ writes' \in Nat
      /\ UNCHANGED <<page, rows, losses, client, req, due, kept>>
  BY <1>2 DEF Insert
<1> QED
  BY <1>1, <1>4, <1>5, WritingStays

LEMMA ChangeKeeps ==
    ASSUME PollInv, NEW r \in Rows, Change(r)
    PROVE  PollInv'
<1>1. clock \in Nat /\ writes \in Nat /\ rows[r] \in Row
  BY PollTypes DEF PollInv, Change
<1>2. PICK row \in Changed(rows[r]) : writing' = [writing EXCEPT ![r] = row]
  BY DEF Change
<1>3. row \in Row /\ row.created = rows[r].created
  BY <1>1, <1>2 DEF Changed, Row
<1>4. /\ rows[r] # Nil /\ clock' \in Nat /\ writes' \in Nat
      /\ UNCHANGED <<page, rows, losses, client, req, due, kept>>
  BY <1>1 DEF Change
<1> QED
  BY <1>2, <1>3, <1>4, WritingStays

\* The rows that stay kept when a row is committed have not moved up.
LEMMA CommitKeeps ==
    ASSUME PollInv, NEW r \in Rows, Commit(r)
    PROVE  PollInv'
<1> DEFINE row == writing[r]
<1>1. /\ row \in Row /\ row # Nil
      /\ rows' = [rows EXCEPT ![r] = row] /\ writing' = [writing EXCEPT ![r] = Nil]
      /\ kept' = {q \in kept : q \in Listed' /\ Position(q)' >= Position(q) /\ Alone(q)'}
      /\ UNCHANGED <<page, clock, writes, losses, client, req>>
      /\ due' \in [Rows -> SUBSET Channels]
  <2>1. row \in Row /\ row # Nil
    BY PollTypes DEF PollInv, Commit
  <2>2. due' \in [Rows -> SUBSET Channels]
    <3>1. PICK c : due' = [due EXCEPT ![r] = {ch \in Channels : (ch = "poll" /\ c[1]) \/ (ch = "update" /\ c[2])}]
      <4> DEFINE c1 == ~ page.calendar /\ rows[r] = Nil /\ row.created > Horizon("poll")
                 c2 == /\ page.update \/ page.calendar
                       /\ row.updated > Horizon("update")
                       /\ \A ch \in {"poll", "scroll"} : ~ (OnItsWay(ch) /\ Carried(ch, r))
      <4>1. due' = [due EXCEPT ![r] = {ch \in Channels : (ch = "poll" /\ c1) \/ (ch = "update" /\ c2)}]
        BY DEF Commit
      <4> HIDE DEF c1, c2
      <4>2. due' = [due EXCEPT ![r] = {ch \in Channels : (ch = "poll" /\ <<c1, c2>>[1]) \/ (ch = "update" /\ <<c1, c2>>[2])}]
        BY <4>1
      <4> QED
        BY <4>2
    <3> QED
      BY <3>1, PollTypes DEF PollInv
  <2> QED
    BY <2>1, <2>2 DEF Commit
<1> HIDE DEF row
<1>2. \A q \in Rows : /\ rows'[q] = IF q = r THEN row ELSE rows[q]
                      /\ writing'[q] = IF q = r THEN Nil ELSE writing[q]
  BY <1>1, PollTypes DEF PollInv
<1>3. /\ Present' = Present \cup {r}
      /\ \A q \in Present : Created(q)' = Created(q)
  BY <1>1, <1>2 DEF PollInv, CreatedStays, Present, Created, row
<1>4. /\ dom' = dom /\ cursor' = cursor /\ next' = next /\ page' = page /\ req' = req
  BY <1>1 DEF client
<1>6. \A q \in kept' : /\ q \in kept /\ q \in Listed' /\ Alone(q)'
                      /\ Position(q)' >= Position(q)
  BY <1>1
<1>8. ASSUME NEW q \in kept'
      PROVE  Position(q)' >= Position(q) /\ Position(q)' \in Nat /\ Position(q) \in Nat
  <2>1. Position(q) \in Nat
    BY ListFinite DEF Position
  <2>2. Position(q)' \in Nat
    <3>1. {p \in Listed' : Key(rows[p])' <= Key(rows[q])'} \in SUBSET Rows
      BY DEF Listed, Present
    <3> QED
      BY <3>1, RowsFinite, FS_Subset, FS_CardinalityType DEF Position
  <2> QED
    BY <1>6, <2>1, <2>2
<1>9. PollTypeOK'
  BY <1>1, PollTypes DEF PollInv, PollTypeOK, client
<1>10. TwiceOnlyByCrossing'
  BY <1>4 DEF PollInv, TwiceOnlyByCrossing
<1>11. NothingSkipped'
  BY <1>4, <1>6 DEF PollInv, NothingSkipped, Copies
<1>12. CreatedStays'
  BY <1>1, <1>2 DEF PollInv, CreatedStays
<1>13. BehindCursor'
  BY <1>3, <1>4 DEF PollInv, BehindCursor
<1>14. PollBringsLater'
  BY <1>3, <1>4 DEF PollInv, PollBringsLater, OnItsWay
<1>15. UpdateBringsOnce'
  BY <1>4 DEF PollInv, UpdateBringsOnce, OnItsWay
<1>16. KeptStay'
  <2>1. (kept \subseteq Listed /\ \A q \in kept : Alone(q))'
    BY <1>6
  <2>2. (OnItsWay("update") /\ ~ page.calendar => req["update"].removed \cap kept = {})'
    BY <1>4, <1>6 DEF PollInv, KeptStay, OnItsWay
  <2>3. (page.calendar /\ OnItsWay("update") /\ req["update"].new # << >> =>
            \A q \in kept : Carried("update", q))'
    BY <1>4, <1>6 DEF PollInv, KeptStay, OnItsWay, Carried
  <2> QED
    BY <2>1, <2>2, <2>3 DEF KeptStay
<1>17. PagesBrought'
  <2>1. (req["scroll"] # Nil => next # 0)'
    BY <1>4 DEF PollInv, PagesBrought
  <2>2. ASSUME NEW q \in kept'
        PROVE  /\ (next # 0 /\ Position(q) <= (next - 1) * PageSize => Copies(q) # {})'
               /\ (OnItsWay("scroll") /\ (Position(q) <= next * PageSize \/ ~ req["scroll"].more) =>
                     Copies(q) # {} \/ Carried("scroll", q))'
    <3>1. Position(q)' >= Position(q) /\ Position(q)' \in Nat /\ Position(q) \in Nat
      BY <1>8, <2>2
    <3>2. /\ next # 0 /\ Position(q) <= (next - 1) * PageSize => Copies(q) # {}
          /\ OnItsWay("scroll") /\ (Position(q) <= next * PageSize \/ ~ req["scroll"].more) =>
                Copies(q) # {} \/ Carried("scroll", q)
      BY <1>6, <2>2 DEF PollInv, PagesBrought
    <3>3. (next - 1) * PageSize \in Int /\ next * PageSize \in Int
      BY PollTypes, LivePollAssumption DEF PollInv
    <3>4. Copies(q)' = Copies(q) /\ Carried("scroll", q)' = Carried("scroll", q)
          /\ OnItsWay("scroll")' = OnItsWay("scroll")
      BY <1>4 DEF Copies, Carried, OnItsWay
    <3>5. (next # 0 /\ Position(q) <= (next - 1) * PageSize => Copies(q) # {})'
      BY <1>4, <3>1, <3>2, <3>3, <3>4
    <3>6. (OnItsWay("scroll") /\ (Position(q) <= next * PageSize \/ ~ req["scroll"].more) =>
                     Copies(q) # {} \/ Carried("scroll", q))'
      BY <1>4, <3>1, <3>2, <3>3, <3>4
    <3> QED
      BY <3>5, <3>6
  <2> QED
    BY <1>4, <2>1, <2>2 DEF PagesBrought
<1> QED
  BY <1>9, <1>10, <1>11, <1>12, <1>13, <1>14, <1>15, <1>16, <1>17 DEF PollInv

-----------------------------------------------------------------------------
(* The requests and their answers.                                         *)

\* A step that sends, loses or answers a request of one kind.
LEMMA RequestKeeps ==
    ASSUME PollInv, NEW ch \in Channels, NEW v \in {Nil, Sent} \cup Answer,
           req' = [req EXCEPT ![ch] = v],
           UNCHANGED <<page, table, client, kept>>,
           due' \in [Rows -> SUBSET Channels], losses' \in Nat,
           v # Nil => /\ ch = "poll" => ~ page.calendar
                      /\ ch = "scroll" => next # 0,
           v \notin {Nil, Sent} =>
              /\ ch = "poll" => PollBringsLater'
              /\ ch = "update" => UpdateBringsOnce' /\ KeptStay'
              /\ ch = "scroll" => UpdateBringsOnce' /\ PagesBrought'
    PROVE  PollInv'
<1>1. /\ req \in [Channels -> {Nil, Sent} \cup Answer]
      /\ \A c \in Channels : req'[c] = IF c = ch THEN v ELSE req[c]
  BY PollTypes DEF PollInv
<1>2. /\ UNCHANGED <<rows, writing, clock, writes, dom, cursor, next>>
  BY DEF table, client
<1>3. PollTypeOK'
  BY <1>1, <1>2, PollTypes DEF PollInv, PollTypeOK
<1>4. (TwiceOnlyByCrossing /\ NothingSkipped /\ CreatedStays /\ BehindCursor)'
  BY <1>2, PageStays DEF PollInv
<1>5. \A c \in Channels : c # ch \/ v \in {Nil, Sent} => Settled(c)
  BY <1>1 DEF Settled
<1>6. /\ req'["poll"] # Nil => ~ page.calendar
      /\ req'["scroll"] # Nil => next # 0
  BY <1>1 DEF PollInv, PollBringsLater, PagesBrought, Channels
<1>7. PollBringsLater'
  BY <1>2, <1>5, <1>6, PollStays DEF PollInv, Channels
<1>8. UpdateBringsOnce'
  BY <1>2, <1>5, UpdateStays DEF PollInv, Channels
<1>9. KeptStay'
  BY <1>2, <1>5, KeptRemain DEF PollInv, Channels
<1>10. PagesBrought'
  BY <1>2, <1>5, <1>6, PagesStay DEF PollInv, Channels
<1> QED
  BY <1>3, <1>4, <1>7, <1>8, <1>9, <1>10 DEF PollInv

LEMMA SendKeeps ==
    ASSUME PollInv, NEW ch \in Channels, Send(ch)
    PROVE  PollInv'
<1>1. due' \in [Rows -> SUBSET Channels] /\ losses' \in Nat
  BY PollTypes DEF PollInv, Send
<1> QED
  BY <1>1, RequestKeeps DEF Send

LEMMA LoseKeeps ==
    ASSUME PollInv, NEW ch \in Channels, Lose(ch)
    PROVE  PollInv'
<1>1. due' \in [Rows -> SUBSET Channels] /\ losses' \in Nat
  BY PollTypes DEF PollInv, Lose
<1> QED
  BY <1>1, RequestKeeps DEF Lose

LEMMA ReplyFrame ==
    ASSUME PollInv, NEW ch \in Channels, NEW a, NEW seen, NEW eligible,
           Reply(ch, a, seen, eligible)
    PROVE  /\ req' = [req EXCEPT ![ch] = a]
           /\ req'[ch] = a /\ \A c \in Channels \ {ch} : req'[c] = req[c]
           /\ UNCHANGED <<page, table, client, kept, rows, writing, dom, cursor, next>>
           /\ due' \in [Rows -> SUBSET Channels] /\ losses' \in Nat
<1>1. due' \in [Rows -> SUBSET Channels] /\ losses' \in Nat
  BY PollTypes DEF PollInv, Reply
<1> QED
  BY <1>1, PollTypes DEF PollInv, Reply, table, client

LEMMA AnswerPollKeeps ==
    ASSUME PollInv, AnswerPoll
    PROVE  PollInv'
<1>tie. PICK tie \in Ties :
          LET fresh == {r \in Listed : rows[r].created > cursor["poll"]}
              s == Newest(fresh, "created", tie)
          IN Reply("poll", [new |-> Entries(s, "poll"), removed |-> {}, more |-> FALSE,
                            newest |-> IF s = << >> THEN cursor["poll"] ELSE Created(s[1])],
                   ToSet(s), fresh)
  BY DEF AnswerPoll
<1> DEFINE fresh == {r \in Listed : rows[r].created > cursor["poll"]}
           s == Newest(fresh, "created", tie)
           e == Entries(s, "poll")
           newest == IF s = << >> THEN cursor["poll"] ELSE Created(s[1])
           a == [new |-> e, removed |-> {}, more |-> FALSE, newest |-> newest]
<1>1. Reply("poll", a, ToSet(s), fresh) /\ req["poll"] = Sent
  BY <1>tie DEF AnswerPoll
<1>2. /\ s \in Seq(Present) /\ Len(s) \in Nat /\ DOMAIN s = 1 .. Len(s)
      /\ \A i \in DOMAIN s : s[i] \in fresh
      /\ \A i, k \in DOMAIN s : i < k => s[i] # s[k]
      /\ s # << >> => 1 \in DOMAIN s
      /\ \A i \in DOMAIN s : rows[s[i]].created <= rows[s[1]].created
  <2>1. fresh \in SUBSET Present /\ \A r \in fresh : rows[r].created \in Nat
    BY PresentRow, PollTypes DEF PollInv, Listed
  <2> HIDE DEF fresh
  <2> QED
    BY <2>1, NewestFirst DEF PollInv
<1> HIDE DEF s
<1>3. /\ e \in Seq(Entry) /\ Len(e) = Len(s) /\ DOMAIN e = DOMAIN s
      /\ \A i \in DOMAIN e : e[i].row = s[i] /\ s[i] \in Present /\ e[i].via = "poll"
  BY <1>2, EntriesOf, PollTypes DEF PollInv, Channels
<1> HIDE DEF e
<1>4. cursor["poll"] \in Nat /\ newest \in Nat
  BY <1>2, PresentRow, PollTypes DEF PollInv, fresh, Listed, Created
<1>5. a \in Answer
  BY <1>3, <1>4 DEF Answer
<1>6. /\ req' = [req EXCEPT !["poll"] = a]
      /\ req'["poll"] = a
      /\ UNCHANGED <<page, table, client, kept, rows, writing, dom, cursor, next>>
      /\ due' \in [Rows -> SUBSET Channels] /\ losses' \in Nat
  <2> HIDE DEF a
  <2> QED
    BY <1>1, ReplyFrame DEF Channels
<1>7. \A i \in DOMAIN e : /\ e[i].via = "poll" /\ e[i].row \in Present
                          /\ Created(e[i].row) \in cursor["poll"] + 1 .. newest
  <2> TAKE i \in DOMAIN e
  <2>1. s[i] \in fresh /\ s # << >> /\ rows[s[i]].created <= rows[s[1]].created
    BY <1>2, <1>3
  <2>2. rows[s[i]].created \in Nat /\ rows[s[i]].created > cursor["poll"]
    BY <2>1, PresentRow, PollTypes DEF fresh, Listed, PollInv
  <2> QED
    BY <1>3, <1>4, <2>1, <2>2 DEF Created
<1>8. ~ page.calendar
  BY <1>1, LivePollAssumption DEF PollInv, PollBringsLater
<1>9. PollBringsLater'
  <2>1. RowsOnce(e)
    BY <1>2, <1>3 DEF RowsOnce
  <2>2. Present' = Present /\ \A r : Created(r)' = Created(r)
    BY <1>6, ListStays
  <2>3. req'["poll"].new = e /\ req'["poll"].newest = newest
    BY <1>6
  <2>4. RowsOnce(req["poll"].new)'
    BY <2>1, <2>3 DEF RowsOnce
  <2>5. (\A x \in ToSet(req["poll"].new) :
            /\ x.via = "poll" /\ x.row \in Present
            /\ Created(x.row) \in cursor["poll"] + 1 .. req["poll"].newest)'
    BY <1>6, <1>7, <2>2, <2>3 DEF ToSet
  <2> QED
    BY <1>6, <1>8, <2>4, <2>5 DEF PollBringsLater
<1> QED
  BY <1>5, <1>6, <1>8, <1>9, RequestKeeps DEF Channels

\* What an answer to the cursor of the changed rows must keep to.
LEMMA UpdateAnswered ==
    ASSUME PollInv, NEW a \in Answer, req' = [req EXCEPT !["update"] = a],
           UNCHANGED <<page, table, client, kept>>,
           due' \in [Rows -> SUBSET Channels], losses' \in Nat,
           RowsOnce(a.new),
           \A i \in DOMAIN a.new : a.new[i].via = "update" /\ a.new[i].row \notin a.removed,
           ~ page.calendar => a.removed \cap kept = {},
           page.calendar /\ a.new # << >> =>
              \A r \in kept : \E i \in DOMAIN a.new : a.new[i].row = r
    PROVE  PollInv'
<1>1. /\ req'["update"] = a /\ req'["scroll"] = req["scroll"]
      /\ UNCHANGED <<rows, writing, cursor>>
  BY PollTypes DEF PollInv, table, client, Channels
<1>2. UpdateBringsOnce'
  BY <1>1 DEF PollInv, UpdateBringsOnce, RowsOnce, ToSet, OnItsWay
<1>3. KeptStay'
  <2>1. Listed' = Listed /\ (\A r : (Alone(r)' <=> Alone(r))) /\ kept' = kept /\ page' = page
    BY <1>1, ListStays
  <2>2. (kept \subseteq Listed /\ \A r \in kept : Alone(r))'
    BY <2>1 DEF PollInv, KeptStay
  <2>3. (OnItsWay("update") /\ ~ page.calendar => req["update"].removed \cap kept = {})'
    BY <1>1, <2>1
  <2>4. (page.calendar /\ OnItsWay("update") /\ req["update"].new # << >> =>
            \A r \in kept : Carried("update", r))'
    BY <1>1, <2>1 DEF Carried
  <2> QED
    BY <2>2, <2>3, <2>4 DEF KeptStay
<1> QED
  BY <1>2, <1>3, RequestKeeps DEF Channels

LEMMA AnswerUpdateKeeps ==
    ASSUME PollInv, AnswerUpdate
    PROVE  PollInv'
<1>tie. PICK tie \in Ties :
          LET changed == {r \in Present : rows[r].updated > cursor["update"]}
              s == Newest(changed, "updated", tie)
              visible == Picked(s, {i \in DOMAIN s : InTab(rows[s[i]])})
          IN Reply("update", [new |-> Entries(visible, "update"),
                              removed |-> {r \in ToSet(s) : ~ InTab(rows[r])}, more |-> FALSE,
                              newest |-> IF s = << >> THEN cursor["update"] ELSE Updated(s[1])],
                   ToSet(s), changed)
  BY DEF AnswerUpdate
<1> DEFINE changed == {r \in Present : rows[r].updated > cursor["update"]}
           s == Newest(changed, "updated", tie)
           shown == {i \in DOMAIN s : InTab(rows[s[i]])}
           visible == Picked(s, shown)
           e == Entries(visible, "update")
           gone == {r \in ToSet(s) : ~ InTab(rows[r])}
           newest == IF s = << >> THEN cursor["update"] ELSE Updated(s[1])
           a == [new |-> e, removed |-> gone, more |-> FALSE, newest |-> newest]
<1>1. Reply("update", a, ToSet(s), changed) /\ ~ page.calendar
  BY <1>tie DEF AnswerUpdate
<1>2. /\ s \in Seq(Present) /\ Len(s) \in Nat /\ DOMAIN s = 1 .. Len(s)
      /\ \A i \in DOMAIN s : s[i] \in Present
      /\ \A i, k \in DOMAIN s : i < k => s[i] # s[k]
      /\ s # << >> => 1 \in DOMAIN s
  <2>1. changed \in SUBSET Present /\ \A r \in changed : rows[r].updated \in Nat
    BY PresentRow, PollTypes DEF PollInv
  <2> HIDE DEF changed
  <2> QED
    BY <2>1, NewestFirst DEF PollInv
<1> HIDE DEF s
<1>3. /\ visible \in Seq(Present) /\ DOMAIN visible = 1 .. Len(visible)
      /\ \A k \in DOMAIN visible : \E i \in shown : visible[k] = s[i]
      /\ \A k, l \in DOMAIN visible : k < l =>
            \E i, j \in shown : i < j /\ visible[k] = s[i] /\ visible[l] = s[j]
  <2>1. shown \in SUBSET (DOMAIN s) /\ visible = Picked(s, shown)
    OBVIOUS
  <2> HIDE DEF shown, visible
  <2> QED
    <3>1. visible \in Seq(Present) /\ PickedInOrder(visible, s, shown)
      BY <1>2, <2>1, PickedFrom
    <3> QED
      BY <3>1 DEF PickedInOrder
<1> HIDE DEF visible
<1>4. /\ e \in Seq(Entry) /\ DOMAIN e = DOMAIN visible
      /\ \A i \in DOMAIN e : e[i].row = visible[i] /\ e[i].via = "update"
  BY <1>3, EntriesOf, PollTypes DEF PollInv, Channels
<1> HIDE DEF e
<1>5. newest \in Nat
  BY <1>2, PresentRow, PollTypes DEF PollInv, Updated
<1>6. gone \in SUBSET Rows
  BY <1>2 DEF ToSet, Present
<1>7. a \in Answer
  BY <1>4, <1>5, <1>6 DEF Answer
<1>8. RowsOnce(e)
  BY <1>2, <1>3, <1>4 DEF RowsOnce
<1>9. \A i \in DOMAIN e : e[i].via = "update" /\ e[i].row \notin gone
  BY <1>3, <1>4
<1>10. gone \cap kept = {}
  <2>1. kept \subseteq Listed
    BY DEF PollInv, KeptStay
  <2> QED
    BY <2>1 DEF Listed
<1>11. /\ req' = [req EXCEPT !["update"] = a]
       /\ UNCHANGED <<page, table, client, kept>>
       /\ due' \in [Rows -> SUBSET Channels] /\ losses' \in Nat
  <2> HIDE DEF a
  <2> QED
    BY <1>1, ReplyFrame DEF Channels
<1>12. a.new = e /\ a.removed = gone
  OBVIOUS
<1> HIDE DEF a, gone
<1> QED
  BY <1>1, <1>7, <1>8, <1>9, <1>10, <1>11, <1>12, UpdateAnswered

LEMMA AnswerCalendarKeeps ==
    ASSUME PollInv, AnswerCalendar
    PROVE  PollInv'
<1> DEFINE changed == {r \in Present : Max({Created(r), Updated(r)}) > cursor["update"]}
           day == IF changed = {} THEN {} ELSE Present
           s == Ascending(day)
           e == Entries(s, "update")
           times == {cursor["update"]} \cup {Updated(r) : r \in changed}
           a == [new |-> e, removed |-> {}, more |-> FALSE, newest |-> Max(times)]
<1>1. Reply("update", a, {}, {}) /\ page.calendar
  BY DEF AnswerCalendar
<1>2. Climbs(s, day) /\ day \in SUBSET Present
  <2>1. day \in SUBSET Present
    OBVIOUS
  <2> HIDE DEF day
  <2>2. day \in SUBSET Rows
    BY <2>1 DEF Present
  <2>3. IsFiniteSet(day)
    BY <2>2, RowsFinite, FS_Subset
  <2>4. day \in SUBSET Int
    BY <2>2, RowsFinite
  <2> QED
    BY <2>1, <2>3, <2>4, AscendingSorts
<1>3. /\ s \in Seq(Present) /\ DOMAIN s = 1 .. Len(s) /\ Len(s) \in Nat
      /\ \A i \in DOMAIN s : s[i] \in Int
      /\ \A i, k \in DOMAIN s : i < k => s[i] < s[k]
      /\ \A r \in day : \E i \in DOMAIN s : s[i] = r
  <2> HIDE DEF day, s
  <2>1. s \in Seq(Present)
    BY <1>2, SeqMonotonic DEF Climbs
  <2>2. \A r \in Present : r \in Int
    BY RowsFinite DEF Present
  <2> QED
    BY <1>2, <2>1, <2>2 DEF Climbs
<1> HIDE DEF s
<1>4. /\ e \in Seq(Entry) /\ DOMAIN e = DOMAIN s
      /\ \A i \in DOMAIN e : e[i].row = s[i] /\ e[i].via = "update"
  BY <1>3, EntriesOf, PollTypes DEF PollInv, Channels
<1> HIDE DEF e
<1>5. Max(times) \in Nat
  <2>1. times \subseteq Nat /\ times # {}
    BY PresentRow, PollTypes DEF PollInv, Updated
  <2>2. IsFiniteSet(times)
    <3> DEFINE f == [r \in changed |-> rows[r].updated]
               T == {Updated(r) : r \in changed}
    <3>1. f \in Surjection(changed, T)
      BY DEF Surjection, Updated
    <3>2. IsFiniteSet(changed)
      BY RowsFinite, FS_Subset, changed \in SUBSET Rows DEF Present
    <3>3. IsFiniteSet(T)
      <4> HIDE DEF f, T, changed
      <4> QED
        BY <3>1, <3>2, FS_Surjection
    <3>4. times = T \cup {cursor["update"]}
      OBVIOUS
    <3> HIDE DEF T
    <3> QED
      BY <3>3, <3>4, FS_AddElement
  <2> HIDE DEF times
  <2> QED
    <3>1. times \in SUBSET Int
      BY <2>1
    <3>2. Max(times) \in times
      BY <2>1, <2>2, <3>1, GreatestIn
    <3> QED
      BY <2>1, <3>2
<1>6. a \in Answer
  <2> HIDE DEF times
  <2> QED
    BY <1>4, <1>5 DEF Answer
<1>7. RowsOnce(e)
  BY <1>3, <1>4 DEF RowsOnce
<1>8. e # << >> => \A r \in kept : \E i \in DOMAIN e : e[i].row = r
  <2> SUFFICES ASSUME e # << >>, NEW r \in kept
               PROVE  \E i \in DOMAIN e : e[i].row = r
    OBVIOUS
  <2>1. changed # {}
    <3> SUFFICES ASSUME changed = {} PROVE FALSE
      OBVIOUS
    <3>1. day = {}
      OBVIOUS
    <3>2. DOMAIN e = {}
      BY <1>2, <1>4, <3>1, FS_EmptySet DEF Climbs
    <3>3. 1 \in DOMAIN e
      BY <1>4, EmptySeq, LenProperties
    <3> QED
      BY <3>2, <3>3
  <2>2. r \in day
    BY <2>1 DEF PollInv, KeptStay, Listed
  <2> QED
    BY <1>3, <1>4, <2>2
<1>9. /\ req' = [req EXCEPT !["update"] = a]
      /\ UNCHANGED <<page, table, client, kept>>
      /\ due' \in [Rows -> SUBSET Channels] /\ losses' \in Nat
  <2> HIDE DEF a
  <2> QED
    BY <1>1, ReplyFrame DEF Channels
<1>10. a.new = e /\ a.removed = {}
  OBVIOUS
<1> HIDE DEF a, changed
<1> QED
  BY <1>1, <1>4, <1>6, <1>7, <1>8, <1>9, <1>10, UpdateAnswered

\* The pages of the list: the last one ends behind the last row.
LEMMA LastPage ==
    ASSUME NEW n \in Nat, NEW size \in Nat \ {0}
    PROVE  (n + size - 1) \div size \in Nat /\ n <= ((n + size - 1) \div size) * size
<1> QED
  BY Z3

LEMMA PagesGrow ==
    ASSUME NEW k \in Nat, NEW m \in Nat, k <= m, NEW size \in Nat \ {0}
    PROVE  k * size <= m * size /\ k * size \in Nat /\ m * size \in Nat
           /\ (k # 0 => (k - 1) * size = k * size - size)
<1> QED
  BY Z3

\* The row at a place of the list stands on the page that has this place.
LEMMA AnswerScrollKeeps ==
    ASSUME PollInv, AnswerScroll
    PROVE  PollInv'
<1>tie. PICK tie \in Ties :
          LET all == InOrder(tie)
              last == Max({1, (Len(all) + PageSize - 1) \div PageSize})
              at == Min({next, last})
          IN Reply("scroll", [new |-> Entries(SubSeq(all, (at - 1) * PageSize + 1,
                                                     Min({at * PageSize, Len(all)})), "scroll"),
                              removed |-> {}, newest |-> 0, more |-> at < last], {}, {})
  BY DEF AnswerScroll
<1> DEFINE all == InOrder(tie)
           n == Len(all)
           last == Max({1, (Len(all) + PageSize - 1) \div PageSize})
           at == Min({next, last})
           lo == (at - 1) * PageSize + 1
           hi == Min({at * PageSize, Len(all)})
           sent == SubSeq(all, lo, hi)
           e == Entries(sent, "scroll")
           a == [new |-> e, removed |-> {}, newest |-> 0, more |-> at < last]
<1>1. Reply("scroll", a, {}, {}) /\ req["scroll"] = Sent
  BY <1>tie DEF AnswerScroll
<1>2. /\ next \in Nat /\ next # 0 /\ PageSize \in Nat \ {0}
  BY <1>1, PollTypes, LivePollAssumption DEF PollInv, PagesBrought
<1>3. Arrayed(all)
  BY ListArrayed, PollTypes DEF PollInv
<1> HIDE DEF all
<1>4. /\ n \in Nat /\ all \in Seq(Listed) /\ DOMAIN all = 1 .. n
      /\ \A i \in 1 .. n : all[i] \in Listed
  BY <1>3 DEF Arrayed
<1>5. ASSUME NEW r \in kept
      PROVE  r \in Listed /\ Position(r) \in 1 .. n /\ all[Position(r)] = r
  BY <1>3 DEF PollInv, KeptStay, Arrayed
<1>6. /\ last \in Nat \ {0} /\ n <= last * PageSize
  <2> DEFINE p == (n + PageSize - 1) \div PageSize
  <2>1. p \in Nat /\ n <= p * PageSize
    BY <1>2, <1>4, LastPage
  <2> HIDE DEF p
  <2>2. last = Max({1, p})
    BY DEF p
  <2>3. Max({1, p}) \in {1, p} /\ Max({1, p}) >= 1 /\ Max({1, p}) >= p
    <3>1. 1 \in Int /\ p \in Int
      BY <2>1
    <3> QED
      BY <3>1, MaxOfTwo
  <2>4. last \in Nat \ {0} /\ p <= last
    BY <2>1, <2>2, <2>3
  <2> HIDE DEF last
  <2>5. p * PageSize <= last * PageSize /\ p * PageSize \in Nat /\ last * PageSize \in Nat
    BY <1>2, <2>1, <2>4, PagesGrow
  <2> QED
    BY <1>4, <2>1, <2>4, <2>5
<1> HIDE DEF last, n
<1>7. /\ at \in Nat \ {0} /\ at <= next /\ at <= last /\ (at = next \/ at = last)
  <2>1. next \in Int /\ last \in Int
    BY <1>2, <1>6
  <2>2. at \in {next, last} /\ at <= next /\ at <= last
    BY <2>1, MinOfTwo
  <2> HIDE DEF at
  <2> QED
    BY <1>2, <1>6, <2>2
<1> HIDE DEF at
<1>8. /\ at * PageSize \in Nat /\ (at - 1) * PageSize \in Nat
      /\ (at - 1) * PageSize = at * PageSize - PageSize
  BY <1>2, <1>7, PagesGrow
<1>9. /\ hi \in Nat /\ hi <= n /\ hi <= at * PageSize /\ (hi = n \/ hi = at * PageSize)
      /\ lo \in Nat \ {0} /\ hi = Min({at * PageSize, n})
  <2>1. hi = Min({at * PageSize, n})
    BY DEF n
  <2>2. /\ Min({at * PageSize, n}) \in {at * PageSize, n}
        /\ Min({at * PageSize, n}) <= n /\ Min({at * PageSize, n}) <= at * PageSize
    <3>1. at * PageSize \in Int /\ n \in Int
      BY <1>4, <1>8
    <3> QED
      BY <3>1, MinOfTwo
  <2> DEFINE m == at * PageSize
  <2>3. hi \in {m, n} /\ hi <= n /\ hi <= m /\ m \in Nat
    BY <1>8, <2>1, <2>2
  <2>4. lo \in Nat \ {0}
    BY <1>8
  <2> HIDE DEF m, hi, lo
  <2>5. hi \in Nat /\ hi <= n /\ hi <= m /\ (hi = n \/ hi = m)
    BY <1>4, <2>3
  <2> QED
    BY <2>1, <2>4, <2>5 DEF m
<1> HIDE DEF hi, lo
<1>10. /\ sent \in Seq(Listed)
       /\ Len(sent) = IF lo <= hi THEN hi - lo + 1 ELSE 0
       /\ \A i \in 1 .. hi - lo + 1 : sent[i] = all[lo + i - 1]
  <2>1. \A i \in lo .. hi : all[i] \in Listed
    BY <1>4, <1>9
  <2>2. lo \in Int /\ hi \in Int
    BY <1>9
  <2> QED
    BY <2>1, <2>2, SubSeqProperties
<1> HIDE DEF sent
<1>11. sent \in Seq(Present)
  BY <1>10, SeqMonotonic DEF Listed
<1>12. /\ e \in Seq(Entry) /\ Len(e) = Len(sent) /\ DOMAIN e = 1 .. Len(sent)
       /\ \A i \in DOMAIN e : e[i].row = sent[i] /\ e[i].via = "scroll"
  BY <1>11, EntriesOf, PollTypes DEF PollInv, Channels
<1> HIDE DEF e
<1>13. ASSUME NEW r \in kept, Position(r) \in lo .. hi
       PROVE  \E i \in DOMAIN e : e[i].row = r
  <2> DEFINE i == Position(r) - lo + 1
  <2>1. i \in 1 .. hi - lo + 1 /\ lo <= hi /\ lo + i - 1 = Position(r)
    BY <1>9, <1>13
  <2>2. sent[i] = r
    BY <1>5, <1>10, <2>1
  <2>3. i \in DOMAIN e
    BY <1>10, <1>12, <2>1
  <2> QED
    BY <1>12, <2>2, <2>3
<1>14. a \in Answer
  BY <1>12 DEF Answer
<1>15. /\ req' = [req EXCEPT !["scroll"] = a]
       /\ req'["scroll"] = a /\ req'["update"] = req["update"]
       /\ UNCHANGED <<page, table, client, kept, rows, writing, dom, cursor, next>>
       /\ due' \in [Rows -> SUBSET Channels] /\ losses' \in Nat
  <2> HIDE DEF a
  <2> QED
    BY <1>1, ReplyFrame DEF Channels
<1>16. a.new = e /\ a.more = (at < last)
  OBVIOUS
<1> HIDE DEF a
<1>17. UpdateBringsOnce'
  BY <1>12, <1>15, <1>16 DEF PollInv, UpdateBringsOnce, ToSet, OnItsWay
\* A row of a page up to the next one was brought before or stands on it.
<1>18. ASSUME NEW r \in kept, Position(r) <= next * PageSize \/ ~ a.more
       PROVE  Copies(r) # {} \/ \E i \in DOMAIN e : e[i].row = r
  <2>1. r \in Listed /\ Position(r) \in 1 .. n
    BY <1>5, <1>18
  <2>2. Position(r) <= (next - 1) * PageSize => Copies(r) # {}
    BY <1>2, <1>18 DEF PollInv, PagesBrought
  <2>3. /\ next * PageSize \in Nat /\ (next - 1) * PageSize \in Nat
        /\ (next - 1) * PageSize = next * PageSize - PageSize
    BY <1>2, PagesGrow
  <2>4. CASE at = next
    <3>1. Position(r) <= at * PageSize
      <4>1. CASE Position(r) <= next * PageSize
        BY <2>4, <4>1
      <4>2. CASE ~ a.more
        <5>1. at = last
          BY <1>6, <1>7, <1>16, <4>2, ~ (at < last)
        <5> QED
          BY <1>4, <1>6, <1>8, <2>1, <5>1
      <4> QED
        BY <1>18, <4>1, <4>2
    <3>2. CASE Position(r) <= (at - 1) * PageSize
      BY <2>2, <2>4, <3>2
    <3>3. CASE ~ (Position(r) <= (at - 1) * PageSize)
      <4>1. Position(r) \in lo .. hi
        <5>1. lo = (at - 1) * PageSize + 1
          BY DEF lo
        <5> QED
          BY <1>4, <1>8, <1>9, <2>1, <3>1, <3>3, <5>1
      <4> QED
        BY <1>13, <2>1, <4>1
    <3> QED
      BY <3>2, <3>3
  <2>5. CASE at # next
    <3>1. at = last /\ last <= next - 1 /\ next - 1 \in Nat
      BY <1>2, <1>6, <1>7, <2>5
    <3>2. last * PageSize <= (next - 1) * PageSize /\ last * PageSize \in Nat
      BY <1>2, <1>6, <3>1, PagesGrow
    <3>3. Position(r) <= (next - 1) * PageSize
      BY <1>4, <1>6, <2>1, <2>3, <3>2
    <3> QED
      BY <2>2, <3>3
  <2> QED
    BY <2>4, <2>5
<1>19. PagesBrought'
  <2>1. (req["scroll"] # Nil => next # 0)'
    BY <1>2, <1>15
  <2>2. ASSUME NEW r \in kept'
        PROVE  /\ (next # 0 /\ Position(r) <= (next - 1) * PageSize => Copies(r) # {})'
               /\ (OnItsWay("scroll") /\ (Position(r) <= next * PageSize \/ ~ req["scroll"].more) =>
                     Copies(r) # {} \/ Carried("scroll", r))'
    <3>1. r \in kept /\ Position(r)' = Position(r) /\ Copies(r)' = Copies(r)
      BY <1>15, <2>2, ListStays DEF Copies
    <3>2. Carried("scroll", r)' <=> \E i \in DOMAIN e : e[i].row = r
      BY <1>15, <1>16 DEF Carried
    <3>3. (next # 0 /\ Position(r) <= (next - 1) * PageSize => Copies(r) # {})'
      BY <1>15, <2>2, <3>1 DEF PollInv, PagesBrought
    <3>4. (OnItsWay("scroll") /\ (Position(r) <= next * PageSize \/ ~ req["scroll"].more) =>
                     Copies(r) # {} \/ Carried("scroll", r))'
      BY <1>15, <1>18, <2>2, <3>1, <3>2
    <3> QED
      BY <3>3, <3>4
  <2> QED
    BY <1>15, <2>1, <2>2 DEF PagesBrought
<1> QED
  BY <1>2, <1>14, <1>15, <1>17, <1>19, RequestKeeps DEF Channels

-----------------------------------------------------------------------------
(* What the script does with the answers.                                  *)

\* p is s and then t.
Joins(p, s, t) ==
    /\ \A i \in DOMAIN p : \/ \E x \in DOMAIN s : p[i] = s[x]
                           \/ \E y \in DOMAIN t : p[i] = t[y]
    /\ \A x \in DOMAIN s : \E i \in DOMAIN p : p[i] = s[x]
    /\ \A y \in DOMAIN t : \E i \in DOMAIN p : p[i] = t[y]
    /\ \A i, k \in DOMAIN p : i < k =>
          \/ \E x, y \in DOMAIN s : x < y /\ p[i] = s[x] /\ p[k] = s[y]
          \/ \E x \in DOMAIN s, y \in DOMAIN t : p[i] = s[x] /\ p[k] = t[y]
          \/ \E x, y \in DOMAIN t : x < y /\ p[i] = t[x] /\ p[k] = t[y]

LEMMA ConcatJoins ==
    ASSUME NEW T, NEW s \in Seq(T), NEW t \in Seq(T), NEW p, p = s \o t
    PROVE  p \in Seq(T) /\ Joins(p, s, t)
<1> DEFINE m == Len(s)
           n == Len(t)
<1>1. /\ m \in Nat /\ n \in Nat /\ DOMAIN s = 1 .. m /\ DOMAIN t = 1 .. n
  BY LenProperties
<1>2. /\ p \in Seq(T) /\ Len(p) = m + n
      /\ \A i \in 1 .. m + n : p[i] = IF i <= m THEN s[i] ELSE t[i - m]
  BY ConcatProperties
<1> HIDE DEF m, n
<1>3. DOMAIN p = 1 .. m + n
  BY <1>2, LenProperties
<1>4. \A i \in 1 .. m + n : \/ i \in 1 .. m /\ p[i] = s[i]
                            \/ i > m /\ i - m \in 1 .. n /\ p[i] = t[i - m]
  BY <1>1, <1>2
<1>5. \A x \in 1 .. m : x \in 1 .. m + n /\ p[x] = s[x]
  BY <1>1, <1>2
<1>6. \A y \in 1 .. n : y + m \in 1 .. m + n /\ p[y + m] = t[y]
  <2> TAKE y \in 1 .. n
  <2>1. y + m \in 1 .. m + n /\ ~ (y + m <= m) /\ (y + m) - m = y
    BY <1>1
  <2> QED
    BY <1>2, <2>1
<1>7. ASSUME NEW i \in 1 .. m + n, NEW k \in 1 .. m + n, i < k
      PROVE  \/ \E x, y \in DOMAIN s : x < y /\ p[i] = s[x] /\ p[k] = s[y]
             \/ \E x \in DOMAIN s, y \in DOMAIN t : p[i] = s[x] /\ p[k] = t[y]
             \/ \E x, y \in DOMAIN t : x < y /\ p[i] = t[x] /\ p[k] = t[y]
  <2>1. CASE k \in 1 .. m
    <3>1. i \in 1 .. m /\ p[i] = s[i] /\ p[k] = s[k]
      BY <1>1, <1>5, <1>7, <2>1
    <3> QED
      BY <1>1, <1>7, <2>1, <3>1
  <2>2. CASE i \in 1 .. m /\ ~ (k \in 1 .. m)
    BY <1>1, <1>4, <1>5, <2>2
  <2>3. CASE ~ (i \in 1 .. m)
    <3>1. i - m \in 1 .. n /\ k - m \in 1 .. n /\ i - m < k - m
          /\ p[i] = t[i - m] /\ p[k] = t[k - m]
      BY <1>1, <1>4, <1>7, <2>3
    <3> QED
      BY <1>1, <3>1
  <2> QED
    BY <2>1, <2>2, <2>3
<1>8. \A i \in DOMAIN p : \/ \E x \in DOMAIN s : p[i] = s[x]
                          \/ \E y \in DOMAIN t : p[i] = t[y]
  <2> TAKE i \in DOMAIN p
  <2>1. CASE i \in 1 .. m /\ p[i] = s[i]
    BY <1>1, <2>1
  <2>2. CASE i - m \in 1 .. n /\ p[i] = t[i - m]
    <3>1. PICK y \in DOMAIN t : y = i - m
      BY <1>1, <2>2
    <3> QED
      BY <2>2, <3>1
  <2> QED
    BY <1>3, <1>4, <2>1, <2>2
<1>9. \A x \in DOMAIN s : \E i \in DOMAIN p : p[i] = s[x]
  BY <1>1, <1>3, <1>5
<1>10. \A y \in DOMAIN t : \E i \in DOMAIN p : p[i] = t[y]
  <2> TAKE y \in DOMAIN t
  <2>1. y + m \in DOMAIN p /\ p[y + m] = t[y]
    BY <1>1, <1>3, <1>6
  <2> QED
    BY <2>1
<1>11. \A i, k \in DOMAIN p : i < k =>
          \/ \E x, y \in DOMAIN s : x < y /\ p[i] = s[x] /\ p[k] = s[y]
          \/ \E x \in DOMAIN s, y \in DOMAIN t : p[i] = s[x] /\ p[k] = t[y]
          \/ \E x, y \in DOMAIN t : x < y /\ p[i] = t[x] /\ p[k] = t[y]
  <2> TAKE i, k \in DOMAIN p
  <2> HAVE i < k
  <2>1. i \in 1 .. m + n /\ k \in 1 .. m + n
    BY <1>3
  <2> QED
    BY <1>7, <2>1, Zenon
<1> QED
  BY <1>2, <1>8, <1>9, <1>10, <1>11 DEF Joins

LEMMA ReceivedFrame ==
    ASSUME PollInv, NEW ch \in Channels, Received(ch)
    PROVE  /\ req[ch] \in Answer /\ OnItsWay(ch)
           /\ req[ch].new \in Seq(Entry) /\ Len(req[ch].new) \in Nat
           /\ DOMAIN req[ch].new = 1 .. Len(req[ch].new)
           /\ \A i \in DOMAIN req[ch].new : /\ req[ch].new[i] \in Entry
                                            /\ req[ch].new[i] \in ToSet(req[ch].new)
           /\ req' \in [Channels -> {Nil, Sent} \cup Answer]
           /\ req'[ch] = Nil /\ \A c \in Channels : Settled(c)
           /\ req'["poll"] # Nil => ch # "poll" /\ req["poll"] # Nil
           /\ req'["scroll"] # Nil => ch # "scroll" /\ req["scroll"] # Nil
           /\ UNCHANGED <<page, rows, writing, clock, writes, losses, due, kept>>
<1>1. req \in [Channels -> {Nil, Sent} \cup Answer] /\ req' = [req EXCEPT ![ch] = Nil]
      /\ OnItsWay(ch)
  BY PollTypes DEF PollInv, Received
<1>2. req[ch] \in Answer
  BY <1>1 DEF OnItsWay
<1>3. req[ch].new \in Seq(Entry)
  BY <1>2 DEF Answer
<1>4. Len(req[ch].new) \in Nat /\ DOMAIN req[ch].new = 1 .. Len(req[ch].new)
      /\ \A i \in DOMAIN req[ch].new : req[ch].new[i] \in Entry
  BY <1>3, LenProperties
<1>5. \A i \in DOMAIN req[ch].new : req[ch].new[i] \in ToSet(req[ch].new)
  BY DEF ToSet
<1>6. req' \in [Channels -> {Nil, Sent} \cup Answer] /\ req'[ch] = Nil
      /\ \A c \in Channels : c # ch => req'[c] = req[c]
  BY <1>1
<1>7. \A c \in Channels : Settled(c)
  BY <1>6 DEF Settled
<1> QED
  BY <1>1, <1>2, <1>3, <1>4, <1>5, <1>6, <1>7 DEF Received, table, Channels

\* What remains to be shown of a step that takes an answer.
LEMMA AppliedKeeps ==
    ASSUME PollInv, NEW ch \in Channels, Received(ch),
           dom' \in Seq(Entry), cursor' \in [{"poll", "update"} -> Nat], next' \in Nat,
           ch = "poll" \/ cursor'["poll"] = cursor["poll"],
           TwiceOnlyByCrossing', NothingSkipped', BehindCursor', PagesBrought'
    PROVE  PollInv'
<1>1. /\ req' \in [Channels -> {Nil, Sent} \cup Answer]
      /\ req'[ch] = Nil /\ \A c \in Channels : Settled(c)
      /\ req'["poll"] # Nil => ch # "poll" /\ req["poll"] # Nil
      /\ UNCHANGED <<page, rows, writing, clock, writes, losses, due, kept>>
  BY ReceivedFrame
<1>2. PollTypeOK'
  BY <1>1, PollTypes DEF PollInv, PollTypeOK
<1>3. CreatedStays'
  BY <1>1 DEF PollInv, CreatedStays
<1>4. PollBringsLater'
  <2>1. CASE ch = "poll"
    BY <1>1, <2>1 DEF PollBringsLater, OnItsWay
  <2>2. CASE ch # "poll"
    <3>1. cursor'["poll"] = cursor["poll"] /\ Settled("poll")
      BY <1>1, <2>2 DEF Channels
    <3> QED
      BY <1>1, <3>1, ListStays DEF PollInv, PollBringsLater, Settled, OnItsWay
  <2> QED
    BY <2>1, <2>2
<1>5. UpdateBringsOnce'
  BY <1>1, UpdateStays DEF PollInv, Channels
<1>6. KeptStay'
  BY <1>1, KeptRemain DEF PollInv, Channels
<1> QED
  BY <1>2, <1>3, <1>4, <1>5, <1>6 DEF PollInv

\* An answer that takes no row from the page moves no page.
LEMMA CopiesStay ==
    ASSUME PollInv, NEW ch \in {"poll", "update"}, Received(ch), next' = next,
           \A r \in kept : Copies(r) # {} => Copies(r)' # {}
    PROVE  NothingSkipped' /\ PagesBrought'
<1>1. /\ Settled("scroll")
      /\ req'["scroll"] # Nil => req["scroll"] # Nil
      /\ UNCHANGED <<page, rows, kept>>
  BY ReceivedFrame DEF Channels
<1>2. \A r : Position(r)' = Position(r)
  BY <1>1, ListStays
<1>3. NothingSkipped'
  BY <1>1 DEF PollInv, NothingSkipped
<1>4. ASSUME NEW r \in kept'
      PROVE  /\ (next # 0 /\ Position(r) <= (next - 1) * PageSize => Copies(r) # {})'
             /\ (OnItsWay("scroll") /\ (Position(r) <= next * PageSize \/ ~ req["scroll"].more) =>
                   Copies(r) # {} \/ Carried("scroll", r))'
  <2>1. /\ r \in kept /\ Position(r)' = Position(r)
        /\ Copies(r) # {} => Copies(r)' # {}
    BY <1>1, <1>2, <1>4
  <2>2. (next # 0 /\ Position(r) <= (next - 1) * PageSize => Copies(r) # {})'
    BY <2>1 DEF PollInv, PagesBrought
  <2>3. (OnItsWay("scroll") /\ (Position(r) <= next * PageSize \/ ~ req["scroll"].more) =>
                   Copies(r) # {} \/ Carried("scroll", r))'
    <3>1. OnItsWay("scroll")' => req'["scroll"] = req["scroll"]
      BY <1>1 DEF Settled, OnItsWay
    <3> QED
      BY <2>1, <3>1 DEF PollInv, PagesBrought, OnItsWay, Carried
  <2> QED
    BY <2>2, <2>3
<1>5. (req["scroll"] # Nil => next # 0)'
  BY <1>1 DEF PollInv, PagesBrought
<1>6. PagesBrought'
  BY <1>1, <1>4, <1>5 DEF PagesBrought
<1> QED
  BY <1>3, <1>6

\* The rows of a poll are later than those the cursor has passed.
LEMMA ApplyPollKeeps ==
    ASSUME PollInv, ApplyPoll
    PROVE  PollInv'
<1> DEFINE new == req["poll"].new
<1>1. /\ Received("poll") /\ OnItsWay("poll") /\ next' = next
      /\ new \in Seq(Entry)
      /\ req["poll"] \in Answer
      /\ \A i \in DOMAIN new : new[i] \in Entry /\ new[i] \in ToSet(new)
      /\ UNCHANGED <<page, rows, kept>>
  BY ReceivedFrame DEF ApplyPoll, Channels
<1>2. /\ RowsOnce(new)
      /\ \A i \in DOMAIN new : /\ new[i].via = "poll" /\ new[i].row \in Present
                               /\ Created(new[i].row) \in cursor["poll"] + 1 .. req["poll"].newest
  BY <1>1 DEF PollInv, PollBringsLater
<1>3. /\ dom \in Seq(Entry) /\ next \in Nat /\ cursor \in [{"poll", "update"} -> Nat]
      /\ cursor["poll"] \in Nat /\ req["poll"].newest \in Nat
  BY <1>1, PollTypes DEF PollInv, Answer
<1>4. \/ dom' = dom /\ cursor' = cursor
      \/ dom' = new \o dom /\ cursor' = [cursor EXCEPT !["poll"] = req["poll"].newest]
         /\ new # << >>
  BY DEF ApplyPoll
<1>5. /\ Present' = Present /\ \A r : Created(r)' = Created(r)
  BY <1>1, ListStays
<1>6. CASE dom' = dom /\ cursor' = cursor
  <2>1. TwiceOnlyByCrossing' /\ BehindCursor'
    BY <1>5, <1>6 DEF PollInv, TwiceOnlyByCrossing, BehindCursor
  <2>2. NothingSkipped' /\ PagesBrought'
    <3>1. \A r : Copies(r)' = Copies(r)
      BY <1>6 DEF Copies
    <3> QED
      BY <1>1, <3>1, CopiesStay
  <2> QED
    BY <1>1, <1>3, <1>6, <2>1, <2>2, AppliedKeeps DEF Channels
<1>7. CASE dom' = new \o dom /\ cursor' = [cursor EXCEPT !["poll"] = req["poll"].newest]
           /\ new # << >>
  <2>1. dom' \in Seq(Entry) /\ Joins(dom', new, dom)
    BY <1>1, <1>3, <1>7, ConcatJoins
  <2>2. /\ cursor' \in [{"poll", "update"} -> Nat]
        /\ cursor'["poll"] = req["poll"].newest /\ req["poll"].newest >= cursor["poll"]
    <3>1. 1 \in DOMAIN new
      BY <1>1, <1>7, EmptySeq, LenProperties
    <3>2. Created(new[1].row) \in cursor["poll"] + 1 .. req["poll"].newest
      BY <1>2, <3>1
    <3> HIDE DEF new
    <3>3. req["poll"].newest >= cursor["poll"]
      BY <1>3, <3>2
    <3> QED
      BY <1>3, <1>7, <3>3
  <2>3. \A e \in Entry : e.row \in Present => Created(e.row) \in Nat
    BY PresentRow, PollTypes DEF PollInv, Created
  <2> HIDE DEF new
  <2>4. \A i \in DOMAIN dom : dom[i] \in Entry
    BY PollTypes DEF PollInv
  <2>5. BehindCursor'
    <3> SUFFICES ASSUME NEW i \in DOMAIN dom', dom'[i].via \in {"load", "poll"}
                 PROVE  dom'[i].row \in Present /\ Created(dom'[i].row) <= cursor'["poll"]
      BY <1>5 DEF BehindCursor
    <3>1. CASE \E x \in DOMAIN new : dom'[i] = new[x]
      BY <1>2, <1>3, <2>2, <3>1
    <3>2. CASE \E y \in DOMAIN dom : dom'[i] = dom[y]
      <4>1. PICK y \in DOMAIN dom : dom'[i] = dom[y]
        BY <3>2
      <4>2. dom[y].row \in Present /\ Created(dom[y].row) <= cursor["poll"]
        BY <4>1 DEF PollInv, BehindCursor
      <4>3. Created(dom[y].row) \in Nat
        BY <2>3, <2>4, <4>2
      <4> QED
        BY <1>3, <2>2, <4>1, <4>2, <4>3
    <3> QED
      BY <2>1, <3>1, <3>2 DEF Joins
  <2>6. ASSUME NEW x \in DOMAIN new, NEW y \in DOMAIN dom, new[x].row = dom[y].row
        PROVE  \/ dom[y].via = "scroll" \/ {new[x].via, dom[y].via} = {"poll", "update"}
    <3>1. new[x].via = "poll" /\ Created(dom[y].row) > cursor["poll"]
      BY <1>2, <1>3, <2>6
    <3>2. dom[y].row \in Present => Created(dom[y].row) \in Nat
      BY <2>3, <2>4
    <3>3. dom[y].via \notin {"load", "poll"}
      BY <1>3, <3>1, <3>2 DEF PollInv, BehindCursor
    <3>4. dom[y].via \in {"poll", "update", "scroll", "load"}
      BY <2>4 DEF Entry, Channels
    <3> QED
      BY <3>1, <3>3, <3>4
  <2>7. TwiceOnlyByCrossing'
    <3> SUFFICES ASSUME NEW i \in DOMAIN dom', NEW k \in DOMAIN dom', i < k,
                        dom'[i].row = dom'[k].row
                 PROVE  \/ "scroll" \in {dom'[i].via, dom'[k].via}
                        \/ {dom'[i].via, dom'[k].via} = {"poll", "update"}
      BY DEF TwiceOnlyByCrossing
    <3>1. CASE \E x, y \in DOMAIN new : x < y /\ dom'[i] = new[x] /\ dom'[k] = new[y]
      BY <1>2, <3>1 DEF RowsOnce
    <3>2. CASE \E x \in DOMAIN new, y \in DOMAIN dom : dom'[i] = new[x] /\ dom'[k] = dom[y]
      BY <2>6, <3>2
    <3>3. CASE \E x, y \in DOMAIN dom : x < y /\ dom'[i] = dom[x] /\ dom'[k] = dom[y]
      BY <3>3 DEF PollInv, TwiceOnlyByCrossing
    <3> QED
      BY <2>1, <3>1, <3>2, <3>3 DEF Joins
  <2>8. NothingSkipped' /\ PagesBrought'
    <3>1. \A r : Copies(r) # {} => Copies(r)' # {}
      BY <2>1 DEF Copies, Joins
    <3> QED
      BY <1>1, <3>1, CopiesStay
  <2> QED
    BY <1>1, <1>3, <2>1, <2>2, <2>5, <2>7, <2>8, AppliedKeeps DEF Channels
<1> QED
  BY <1>4, <1>6, <1>7

LEMMA ReplacedRows ==
    ASSUME PollInv, NEW new \in Seq(Entry), NEW p, p = Replaced(new)
    PROVE  /\ p \in Seq(Entry) /\ DOMAIN p = DOMAIN dom
           /\ \A i \in DOMAIN dom : p[i].row = dom[i].row /\ p[i].via = dom[i].via
<1> DEFINE sent(i) == {k \in DOMAIN new : new[k].row = dom[i].row}
<1>1. /\ Len(dom) \in Nat /\ DOMAIN dom = 1 .. Len(dom)
      /\ \A i \in DOMAIN dom : dom[i] \in Entry
      /\ \A k \in DOMAIN new : new[k] \in Entry
  BY PollTypes, LenProperties DEF PollInv
<1>2. p = [i \in 1 .. Len(dom) |->
             IF IsFirst(i) /\ sent(i) # {}
             THEN [new[CHOOSE k \in sent(i) : TRUE] EXCEPT !.via = dom[i].via]
             ELSE dom[i]]
  BY <1>1 DEF Replaced
<1>3. ASSUME NEW i \in 1 .. Len(dom)
      PROVE  p[i] \in Entry /\ p[i].row = dom[i].row /\ p[i].via = dom[i].via
  <2>1. CASE IsFirst(i) /\ sent(i) # {}
    <3>1. PICK k \in sent(i) : p[i] = [new[k] EXCEPT !.via = dom[i].via]
      BY <1>2, <2>1
    <3>2. new[k] \in Entry /\ new[k].row = dom[i].row /\ dom[i].via \in Channels \cup {"load"}
      BY <1>1 DEF Entry
    <3> QED
      BY <3>1, <3>2 DEF Entry
  <2>2. CASE ~ (IsFirst(i) /\ sent(i) # {})
    BY <1>1, <1>2, <2>2
  <2> QED
    BY <2>1, <2>2
<1>4. p \in [1 .. Len(dom) -> Entry]
  <2>1. DOMAIN p = 1 .. Len(dom) /\ p = [i \in 1 .. Len(dom) |-> p[i]]
    BY <1>2
  <2> QED
    BY <1>3, <2>1
<1>5. p \in Seq(Entry) /\ DOMAIN p = 1 .. Len(dom)
  BY <1>1, <1>4, FunctionIsSeq
<1> QED
  BY <1>1, <1>3, <1>5

\* A row that is sent takes the place of the one shown, or comes to the end
\* when there is none.
LEMMA ApplyUpdateKeeps ==
    ASSUME PollInv, ApplyUpdate
    PROVE  PollInv'
<1> DEFINE a == req["update"]
           new == a.new
<1>1. /\ Received("update") /\ OnItsWay("update") /\ next' = next
      /\ new \in Seq(Entry) /\ a \in Answer /\ a.newest \in Nat
      /\ \A i \in DOMAIN new : new[i] \in Entry /\ new[i] \in ToSet(new)
      /\ UNCHANGED <<page, rows, kept>>
  <2>1. Received("update") /\ next' = next
    BY DEF ApplyUpdate
  <2> QED
    BY <2>1, ReceivedFrame DEF Channels, Answer
<1>2. RowsOnce(new) /\ \A i \in DOMAIN new : new[i].via = "update"
  BY <1>1 DEF PollInv, UpdateBringsOnce
<1>3. /\ dom \in Seq(Entry) /\ next \in Nat /\ cursor \in [{"poll", "update"} -> Nat]
      /\ \A i \in DOMAIN dom : dom[i] \in Entry
  BY PollTypes DEF PollInv
<1>4. /\ Present' = Present /\ \A r : Created(r)' = Created(r)
  BY <1>1, ListStays
<1>5. /\ cursor' \in [{"poll", "update"} -> Nat] /\ cursor'["poll"] = cursor["poll"]
  <2>1. cursor' = cursor \/ cursor' = [cursor EXCEPT !["update"] = a.newest]
    BY DEF ApplyUpdate
  <2> HIDE DEF a
  <2> QED
    BY <1>1, <1>3, <2>1
<1>6. CASE page.calendar
  <2>1. dom' = IF new = << >> THEN dom ELSE new
    BY <1>6 DEF ApplyUpdate
  <2>2. dom' \in Seq(Entry)
    BY <1>1, <1>3, <2>1
  <2>3. TwiceOnlyByCrossing' /\ BehindCursor'
    <3>1. CASE dom' = dom
      BY <1>4, <1>5, <3>1 DEF PollInv, TwiceOnlyByCrossing, BehindCursor
    <3>2. CASE dom' = new
      <4> HIDE DEF new
      <4> QED
        BY <1>2, <3>2 DEF TwiceOnlyByCrossing, BehindCursor, RowsOnce
    <3> QED
      BY <2>1, <3>1, <3>2
  <2>4. NothingSkipped' /\ PagesBrought'
    <3>1. ASSUME NEW r \in kept, Copies(r) # {} PROVE Copies(r)' # {}
      <4>1. CASE dom' = dom
        BY <3>1, <4>1 DEF Copies
      <4>2. CASE dom' = new /\ new # << >>
        <5>1. Carried("update", r)
          BY <1>1, <1>6, <3>1, <4>2 DEF PollInv, KeptStay
        <5> QED
          BY <4>2, <5>1 DEF Carried, Copies
      <4> QED
        BY <2>1, <4>1, <4>2
    <3> QED
      BY <1>1, <3>1, CopiesStay
  <2> QED
    BY <1>1, <1>3, <1>5, <2>2, <2>3, <2>4, AppliedKeeps DEF Channels
<1>7. CASE ~ page.calendar
  <2> DEFINE p == Replaced(new)
             stay == Picked(p, Staying(a.removed))
             added == Picked(new, Absent(new))
  <2>1. dom' = stay \o added
    BY <1>7 DEF ApplyUpdate
  <2>2. /\ p \in Seq(Entry) /\ DOMAIN p = DOMAIN dom
        /\ \A i \in DOMAIN dom : p[i].row = dom[i].row /\ p[i].via = dom[i].via
    BY <1>1, ReplacedRows
  <2>3. stay \in Seq(Entry) /\ PickedInOrder(stay, p, Staying(a.removed))
    <3>1. Staying(a.removed) \in SUBSET (DOMAIN p)
      BY <2>2 DEF Staying
    <3> HIDE DEF p, a
    <3> QED
      BY <2>2, <3>1, PickedFrom
  <2>4. added \in Seq(Entry) /\ PickedInOrder(added, new, Absent(new))
    <3>1. Absent(new) \in SUBSET (DOMAIN new)
      BY DEF Absent
    <3> HIDE DEF new
    <3> QED
      BY <1>1, <3>1, PickedFrom
  <2> HIDE DEF p, stay, added, new
  <2>5. dom' \in Seq(Entry) /\ Joins(dom', stay, added)
    BY <2>1, <2>3, <2>4, ConcatJoins
  <2>6. \A k \in DOMAIN stay : \E i \in DOMAIN dom : stay[k].row = dom[i].row /\ stay[k].via = dom[i].via
    BY <2>2, <2>3 DEF PickedInOrder, Staying
  <2>7. \A k \in DOMAIN added : /\ added[k].via = "update"
                                /\ \A i \in DOMAIN dom : dom[i].row # added[k].row
    BY <1>2, <2>4 DEF PickedInOrder, Absent, Copies
  <2>8. BehindCursor'
    BY <1>4, <1>5, <2>5, <2>6, <2>7 DEF PollInv, BehindCursor, Joins
  <2>9. ASSUME NEW i \in DOMAIN dom', NEW k \in DOMAIN dom', i < k, dom'[i].row = dom'[k].row
        PROVE  \/ "scroll" \in {dom'[i].via, dom'[k].via}
               \/ {dom'[i].via, dom'[k].via} = {"poll", "update"}
    <3>1. CASE \E x, y \in DOMAIN stay : x < y /\ dom'[i] = stay[x] /\ dom'[k] = stay[y]
      <4>1. PICK x, y \in DOMAIN stay : x < y /\ dom'[i] = stay[x] /\ dom'[k] = stay[y]
        BY <3>1
      <4>2. PICK u, v \in DOMAIN dom : u < v /\ stay[x] = p[u] /\ stay[y] = p[v]
        BY <2>3, <4>1 DEF PickedInOrder, Staying
      <4>3. /\ dom[u].row = dom[v].row /\ dom'[i].via = dom[u].via /\ dom'[k].via = dom[v].via
        BY <2>2, <2>9, <4>1, <4>2
      <4> QED
        BY <4>2, <4>3 DEF PollInv, TwiceOnlyByCrossing
    <3>2. CASE \E x \in DOMAIN stay, y \in DOMAIN added : dom'[i] = stay[x] /\ dom'[k] = added[y]
      BY <2>6, <2>7, <2>9, <3>2
    <3>3. CASE \E x, y \in DOMAIN added : x < y /\ dom'[i] = added[x] /\ dom'[k] = added[y]
      <4>1. PICK x, y \in DOMAIN added : x < y /\ dom'[i] = added[x] /\ dom'[k] = added[y]
        BY <3>3
      <4>2. PICK u, v \in DOMAIN new : u < v /\ added[x] = new[u] /\ added[y] = new[v]
        BY <2>4, <4>1 DEF PickedInOrder, Absent
      <4> QED
        BY <1>2, <2>9, <4>1, <4>2 DEF RowsOnce
    <3> QED
      BY <2>5, <2>9, <3>1, <3>2, <3>3 DEF Joins
  <2>10. TwiceOnlyByCrossing'
    BY <2>9 DEF TwiceOnlyByCrossing
  <2>11. NothingSkipped' /\ PagesBrought'
    <3>1. ASSUME NEW r \in kept, Copies(r) # {} PROVE Copies(r)' # {}
      <4>1. r \notin a.removed
        BY <1>1, <1>7, <3>1 DEF PollInv, KeptStay
      <4>2. PICK i \in DOMAIN dom : dom[i].row = r
        BY <3>1 DEF Copies
      <4>3. i \in Staying(a.removed)
        BY <4>1, <4>2 DEF Staying
      <4>4. PICK k \in DOMAIN stay : stay[k] = p[i]
        BY <2>3, <4>3 DEF PickedInOrder
      <4>5. PICK l \in DOMAIN dom' : dom'[l] = stay[k]
        BY <2>5 DEF Joins
      <4>6. dom'[l].row = r
        BY <2>2, <4>2, <4>4, <4>5
      <4> QED
        BY <4>6 DEF Copies
    <3> QED
      BY <1>1, <3>1, CopiesStay
  <2> QED
    BY <1>1, <1>3, <1>5, <2>5, <2>8, <2>10, <2>11, AppliedKeeps DEF Channels
<1> QED
  BY <1>6, <1>7

\* The page that comes is the one that was asked for, or the last.
LEMMA ApplyScrollKeeps ==
    ASSUME PollInv, ApplyScroll
    PROVE  PollInv'
<1> DEFINE new == req["scroll"].new
<1>1. /\ Received("scroll") /\ OnItsWay("scroll") /\ cursor' = cursor
      /\ new \in Seq(Entry) /\ req["scroll"] \in Answer
      /\ \A i \in DOMAIN new : new[i] \in Entry /\ new[i] \in ToSet(new)
      /\ req'["scroll"] = Nil
      /\ UNCHANGED <<page, rows, kept>>
  <2>1. Received("scroll") /\ cursor' = cursor
    BY DEF ApplyScroll
  <2> QED
    BY <2>1, ReceivedFrame DEF Channels
<1>2. \A i \in DOMAIN new : new[i].via = "scroll"
  BY <1>1 DEF PollInv, UpdateBringsOnce
<1>3. /\ dom \in Seq(Entry) /\ next \in Nat /\ cursor \in [{"poll", "update"} -> Nat]
      /\ next # 0 /\ PageSize \in Nat \ {0}
  BY <1>1, PollTypes, LivePollAssumption DEF PollInv, PagesBrought, OnItsWay
<1>4. /\ dom' = dom \o new
      /\ next' = IF req["scroll"].more THEN next + 1 ELSE 0
  BY DEF ApplyScroll
<1>5. dom' \in Seq(Entry) /\ Joins(dom', dom, new) /\ next' \in Nat
  <2>1. next' \in Nat
    BY <1>3, <1>4
  <2> HIDE DEF new
  <2>2. dom' \in Seq(Entry) /\ Joins(dom', dom, new)
    BY <1>1, <1>3, <1>4, ConcatJoins DEF new
  <2> QED
    BY <2>1, <2>2
<1>6. /\ Present' = Present
      /\ \A r : Created(r)' = Created(r) /\ Position(r)' = Position(r)
  BY <1>1, ListStays
<1>7. \A r : Carried("scroll", r) => \E i \in DOMAIN new : new[i].row = r
  BY DEF Carried
<1> HIDE DEF new
<1>8. BehindCursor'
  BY <1>1, <1>2, <1>5, <1>6 DEF PollInv, BehindCursor, Joins
<1>9. TwiceOnlyByCrossing'
  <2> SUFFICES ASSUME NEW i \in DOMAIN dom', NEW k \in DOMAIN dom', i < k,
                      dom'[i].row = dom'[k].row
               PROVE  \/ "scroll" \in {dom'[i].via, dom'[k].via}
                      \/ {dom'[i].via, dom'[k].via} = {"poll", "update"}
    BY DEF TwiceOnlyByCrossing
  <2>1. CASE \E x, y \in DOMAIN dom : x < y /\ dom'[i] = dom[x] /\ dom'[k] = dom[y]
    BY <2>1 DEF PollInv, TwiceOnlyByCrossing
  <2>2. CASE \E y \in DOMAIN new : dom'[k] = new[y]
    BY <1>2, <2>2
  <2> QED
    BY <1>5, <2>1, <2>2 DEF Joins
<1>10. \A r : Copies(r) # {} \/ Carried("scroll", r) => Copies(r)' # {}
  BY <1>5, <1>7 DEF Copies, Joins
<1>11. ASSUME NEW r \in kept, Position(r) <= next * PageSize \/ ~ req["scroll"].more
       PROVE  Copies(r)' # {}
  BY <1>1, <1>10, <1>11 DEF PollInv, PagesBrought
<1>12. NothingSkipped'
  <2> SUFFICES ASSUME next' = 0, NEW r \in kept PROVE Copies(r)' # {}
    BY <1>1 DEF NothingSkipped
  <2>1. ~ req["scroll"].more
    BY <1>3, <1>4
  <2> QED
    BY <1>11, <2>1
<1>13. PagesBrought'
  <2>1. (req["scroll"] # Nil => next # 0)'
    BY <1>1
  <2>2. ASSUME NEW r \in kept'
        PROVE  /\ (next # 0 /\ Position(r) <= (next - 1) * PageSize => Copies(r) # {})'
               /\ (OnItsWay("scroll") /\ (Position(r) <= next * PageSize \/ ~ req["scroll"].more) =>
                     Copies(r) # {} \/ Carried("scroll", r))'
    <3>1. (next # 0 /\ Position(r) <= (next - 1) * PageSize => Copies(r) # {})'
      <4> SUFFICES ASSUME next' # 0, Position(r)' <= (next' - 1) * PageSize
                   PROVE  Copies(r)' # {}
        OBVIOUS
      <4>1. next' - 1 = next
        BY <1>3, <1>4
      <4> QED
        BY <1>1, <1>6, <1>11, <2>2, <4>1
    <3>2. ~ OnItsWay("scroll")'
      BY <1>1 DEF OnItsWay
    <3> QED
      BY <3>1, <3>2
  <2> QED
    BY <1>1, <2>1, <2>2 DEF PagesBrought
<1> QED
  BY <1>1, <1>3, <1>5, <1>8, <1>9, <1>12, <1>13, AppliedKeeps DEF Channels

-----------------------------------------------------------------------------
(* The page as it is loaded.                                               *)

\* The latest time of some rows that are there.
LEMMA LatestTime ==
    ASSUME rows \in [Rows -> Row \cup {Nil}], NEW S \in SUBSET Present, S # {},
           NEW field \in {"created", "updated"},
           NEW times, times = {rows[r][field] : r \in S}
    PROVE  Max(times) \in Nat /\ \A r \in S : rows[r][field] <= Max(times)
<1>1. \A r \in S : rows[r][field] \in Nat
  BY PresentRow
<1>2. IsFiniteSet(S)
  BY RowsFinite, FS_Subset, S \in SUBSET Rows DEF Present
<1>3. IsFiniteSet(times)
  <2> DEFINE f == [r \in S |-> rows[r][field]]
  <2>1. f \in Surjection(S, times)
    BY DEF Surjection
  <2> HIDE DEF f
  <2> QED
    BY <1>2, <2>1, FS_Surjection
<1>4. times \in SUBSET Int /\ times # {} /\ times \subseteq Nat
  BY <1>1
<1>5. Max(times) \in times /\ \A x \in times : Max(times) >= x
  BY <1>3, <1>4, GreatestIn
<1>6. Max(times) \in Nat
  BY <1>4, <1>5
<1>7. ASSUME NEW r \in S PROVE rows[r][field] <= Max(times)
  <2>1. rows[r][field] \in times /\ rows[r][field] \in Nat
    BY <1>1
  <2>2. Max(times) >= rows[r][field]
    BY <1>5, <2>1
  <2> QED
    BY <1>6, <2>1, <2>2
<1> QED
  BY <1>6, <1>7

LEMMA InitKeeps ==
    ASSUME PollInit
    PROVE  PollInv
<1>tie. PICK tie \in Ties :
          LET all == InOrder(tie)
              shown == IF ~ page.scroll THEN all ELSE SubSeq(all, 1, Min({PageSize, Len(all)}))
          IN /\ dom = Entries(shown, "load")
             /\ next = IF Len(shown) < Len(all) THEN 2 ELSE 0
             /\ cursor = [ch \in {"poll", "update"} |->
                    StartCursor(IF page.calendar THEN {}
                                ELSE {IF ch = "poll" THEN Created(r) ELSE Updated(r) :
                                        r \in ToSet(shown)},
                                clock + Skew)]
  BY DEF PollInit
<1> DEFINE first == DOMAIN page.first
           all == InOrder(tie)
           shown == IF ~ page.scroll THEN all ELSE SubSeq(all, 1, Min({PageSize, Len(all)}))
           n == Len(all)
           card == Cardinality(first)
<1>1. /\ page \in Page /\ first \in SUBSET Rows
      /\ \A r \in first : page.first[r].active \in BOOLEAN /\ page.first[r].place \in Places
      /\ PageSize \in Nat \ {0} /\ Skew \in Nat
  <2>1. page \in Page /\ PageSize \in Nat \ {0} /\ Skew \in Nat
    BY LivePollAssumption DEF PollInit
  <2>2. PICK S \in SUBSET Rows : page.first \in [S -> [place : Places, active : BOOLEAN]]
    BY <2>1 DEF Page
  <2> QED
    BY <2>1, <2>2
<1>2. card \in Nat
  BY <1>1, RowsFinite, FS_Subset, FS_CardinalityType
<1>3. PICK f \in [first -> 1 .. card] :
         rows = [r \in Rows |-> IF r \in first
                   THEN [created |-> f[r], updated |-> f[r],
                         active |-> page.first[r].active, place |-> page.first[r].place]
                   ELSE Nil]
  BY DEF PollInit
<1>4. /\ writing = [r \in Rows |-> Nil] /\ clock = card
      /\ dom = Entries(shown, "load")
      /\ next = IF Len(shown) < n THEN 2 ELSE 0
      /\ req = [ch \in Channels |-> Nil] /\ due = [r \in Rows |-> {}]
      /\ kept = {r \in Listed : Alone(r)} /\ writes = 0 /\ losses = 0 /\ page \in Pages
  BY <1>tie DEF PollInit
<1>5. cursor = [ch \in {"poll", "update"} |->
                 StartCursor(IF page.calendar THEN {}
                             ELSE {IF ch = "poll" THEN Created(r) ELSE Updated(r) :
                                     r \in ToSet(shown)},
                             clock + Skew)]
  BY <1>tie DEF PollInit
<1> HIDE DEF card, first
<1>6. \A r \in first : f[r] \in Nat /\ f[r] <= card
  BY <1>2
<1>7. rows \in [Rows -> Row \cup {Nil}]
  BY <1>1, <1>3, <1>6 DEF Row
<1>8. Present = first /\ \A r \in first : rows[r].created = f[r]
  <2>1. \A r \in Rows : rows[r] = IF r \in first
                   THEN [created |-> f[r], updated |-> f[r],
                         active |-> page.first[r].active, place |-> page.first[r].place]
                   ELSE Nil
    BY <1>3
  <2>2. ASSUME NEW r \in first
        PROVE  rows[r] # Nil /\ rows[r].created = f[r]
    <3>1. rows[r] = [created |-> f[r], updated |-> f[r],
                     active |-> page.first[r].active, place |-> page.first[r].place]
      BY <1>1, <2>1
    <3>2. rows[r] \in Row
      BY <1>1, <1>6, <3>1 DEF Row
    <3>3. rows[r] # Nil
      BY <3>2, LivePollAssumption
    <3>4. rows[r].created = f[r]
      BY <3>1
    <3> QED
      BY <3>3, <3>4
  <2> QED
    BY <1>1, <2>1, <2>2 DEF Present
<1>10. Arrayed(all)
  BY <1>1, <1>7, ListArrayed
<1> HIDE DEF all
<1>11. /\ n \in Nat /\ all \in Seq(Listed) /\ DOMAIN all = 1 .. n
       /\ \A i \in 1 .. n : all[i] \in Listed
       /\ \A i, k \in 1 .. n : i < k => all[i] # all[k]
  BY <1>10 DEF Arrayed
<1> HIDE DEF n
<1>12. /\ shown \in Seq(Listed) /\ Len(shown) \in Nat /\ Len(shown) <= n
       /\ DOMAIN shown = 1 .. Len(shown)
       /\ \A i \in 1 .. Len(shown) : shown[i] = all[i]
       /\ Len(shown) = n \/ Len(shown) = PageSize
  <2>1. CASE ~ page.scroll
    <3>1. shown = all
      BY <2>1
    <3> HIDE DEF shown
    <3> QED
      BY <1>11, <3>1
  <2>2. CASE page.scroll
    <3> DEFINE m == Min({PageSize, n})
    <3>1. shown = SubSeq(all, 1, m)
      BY <2>2 DEF n
    <3>2. m \in {PageSize, n} /\ m <= n
      <4>1. PageSize \in Int /\ n \in Int
        BY <1>1, <1>11
      <4> QED
        BY <4>1, MinOfTwo
    <3> HIDE DEF shown, m, n
    <3>3. m \in Nat /\ \A i \in 1 .. m : all[i] \in Listed
      BY <1>1, <1>11, <3>2
    <3>4. shown \in Seq(Listed) /\ Len(shown) = m /\ \A i \in 1 .. m : shown[i] = all[i]
      BY <3>1, <3>3, SubSeqProperties
    <3>5. DOMAIN shown = 1 .. m
      BY <3>4, LenProperties
    <3> QED
      BY <1>1, <1>11, <3>2, <3>3, <3>4, <3>5
  <2> QED
    BY <2>1, <2>2
<1> HIDE DEF shown
<1>sizes. n \in Nat /\ Len(shown) \in Nat /\ Len(shown) <= n
          /\ (Len(shown) = n \/ Len(shown) = PageSize)
  BY <1>11, <1>12
<1>shows. \A i \in 1 .. Len(shown) : i \in 1 .. n /\ shown[i] = all[i] /\ all[i] \in Listed
  <2>1. \A i \in 1 .. Len(shown) : i \in 1 .. n
    BY <1>sizes
  <2>2. \A i \in 1 .. n : all[i] \in Listed
    BY <1>11
  <2>3. \A i \in 1 .. Len(shown) : shown[i] = all[i]
    BY <1>12
  <2> QED
    BY <2>1, <2>2, <2>3
<1>13. /\ shown \in Seq(Present)
       /\ \A i \in 1 .. Len(shown) : shown[i] \in Present
       /\ ToSet(shown) \in SUBSET Present
       /\ \A i \in 1 .. Len(shown) : shown[i] \in ToSet(shown)
  <2>1. Listed \subseteq Present
    BY DEF Listed
  <2>2. shown \in Seq(Present)
    BY <1>12, <2>1, SeqMonotonic
  <2>3. DOMAIN shown = 1 .. Len(shown)
    BY <1>12
  <2> QED
    BY <1>shows, <2>1, <2>2, <2>3 DEF ToSet
<1>14. /\ dom \in Seq(Entry) /\ DOMAIN dom = 1 .. Len(shown)
       /\ \A i \in DOMAIN dom : dom[i].row = shown[i] /\ dom[i].via = "load"
  BY <1>4, <1>7, <1>13, EntriesOf
<1>15. ASSUME NEW ch \in {"poll", "update"}
       PROVE  /\ cursor[ch] \in Nat
              /\ ch = "poll" => \A r \in ToSet(shown) : rows[r].created <= cursor[ch]
  <2> DEFINE field == IF ch = "poll" THEN "created" ELSE "updated"
             times == {rows[r][field] : r \in ToSet(shown)}
  <2>1. cursor[ch] = StartCursor(IF page.calendar THEN {} ELSE times, clock + Skew)
    <3>1. times = {IF ch = "poll" THEN Created(r) ELSE Updated(r) : r \in ToSet(shown)}
      BY DEF Created, Updated
    <3> HIDE DEF times
    <3> QED
      BY <1>5, <3>1
  <2>2. CASE page.calendar \/ ToSet(shown) = {}
    <3>1. cursor[ch] = clock + Skew
      BY <2>1, <2>2 DEF StartCursor
    <3>2. \A r \in ToSet(shown) : rows[r].created <= card /\ rows[r].created \in Nat
      BY <1>6, <1>8, <1>13
    <3> QED
      BY <1>1, <1>2, <1>4, <3>1, <3>2
  <2>3. CASE ~ page.calendar /\ ToSet(shown) # {}
    <3>1. times # {}
      BY <2>3
    <3>2. cursor[ch] = Max(times)
      <4> HIDE DEF times
      <4> QED
        BY <2>1, <2>3, <3>1 DEF StartCursor
    <3>3. Max(times) \in Nat /\ \A r \in ToSet(shown) : rows[r][field] <= Max(times)
      <4>1. field \in {"created", "updated"}
        OBVIOUS
      <4> HIDE DEF field
      <4> QED
        BY <1>7, <1>13, <2>3, <4>1, LatestTime
    <3> QED
      BY <3>2, <3>3
  <2> QED
    BY <2>2, <2>3
<1>16. cursor \in [{"poll", "update"} -> Nat]
  BY <1>5, <1>15
<1>17. PollTypeOK
  <2>1. writing \in [Rows -> Row \cup {Nil}]
    BY <1>4
  <2>2. req \in [Channels -> {Nil, Sent} \cup Answer] /\ due \in [Rows -> SUBSET Channels]
    BY <1>4
  <2>3. clock \in Nat /\ writes \in Nat /\ losses \in Nat
    BY <1>2, <1>4
  <2>4. next \in Nat
    BY <1>4
  <2>5. kept \subseteq Rows /\ page \in Pages
    BY <1>4 DEF Listed, Present
  <2> QED
    BY <1>7, <1>14, <1>16, <2>1, <2>2, <2>3, <2>4, <2>5 DEF PollTypeOK
<1>18. \A ch \in Channels : req[ch] = Nil /\ ~ OnItsWay(ch)
  BY <1>4 DEF OnItsWay
<1>19. TwiceOnlyByCrossing
  <2>2. \A i, k \in 1 .. Len(shown) : i < k => shown[i] # shown[k]
    BY <1>11, <1>shows
  <2> QED
    BY <1>14, <2>2 DEF TwiceOnlyByCrossing
<1>20. CreatedStays
  BY <1>4 DEF CreatedStays
<1>21. BehindCursor
  BY <1>13, <1>14, <1>15 DEF BehindCursor, Created
<1>22. PollBringsLater /\ UpdateBringsOnce
  BY <1>18 DEF PollBringsLater, UpdateBringsOnce, Channels
<1>23. KeptStay
  BY <1>4, <1>18 DEF KeptStay, Channels
\* A row in a place of the page is shown.
<1>place. ASSUME NEW r \in kept
          PROVE  Position(r) \in 1 .. n /\ all[Position(r)] = r
  BY <1>4, <1>10, <1>place DEF Arrayed, n
<1>24. ASSUME NEW r \in kept, Position(r) <= Len(shown)
       PROVE  Copies(r) # {}
  <2>1. Position(r) \in 1 .. n /\ all[Position(r)] = r
    BY <1>24, <1>place
  <2> DEFINE i == Position(r)
  <2>2. i \in 1 .. Len(shown)
    BY <1>sizes, <1>24, <2>1
  <2> HIDE DEF i
  <2>3. shown[i] = r
    BY <1>shows, <2>1, <2>2 DEF i
  <2>4. i \in DOMAIN dom /\ dom[i].row = r
    BY <1>14, <2>2, <2>3
  <2> QED
    BY <2>4 DEF Copies
<1>25. NothingSkipped
  <2> SUFFICES ASSUME next = 0, NEW r \in kept PROVE Copies(r) # {}
    BY DEF NothingSkipped
  <2>1. Len(shown) = n
    BY <1>4, <1>sizes
  <2>2. Position(r) \in 1 .. n
    BY <1>place
  <2> QED
    BY <1>sizes, <1>24, <2>1, <2>2
<1>26. PagesBrought
  <2> SUFFICES ASSUME NEW r \in kept, next # 0, Position(r) <= (next - 1) * PageSize
               PROVE  Copies(r) # {}
    BY <1>18 DEF PagesBrought, Channels
  <2>1. next = 2 /\ Len(shown) < n
    BY <1>4
  <2>2. Len(shown) = PageSize /\ (next - 1) * PageSize = PageSize
    <3>1. Len(shown) = PageSize
      BY <1>sizes, <2>1
    <3>2. next - 1 = 1 /\ 1 * PageSize = PageSize
      BY <1>1, <2>1
    <3> QED
      BY <3>1, <3>2
  <2> QED
    BY <1>24, <2>2
<1> QED
  BY <1>17, <1>19, <1>20, <1>21, <1>22, <1>23, <1>25, <1>26 DEF PollInv

\* The invariant of a page that keeps itself up to date (startLivePoll,
\* startLiveUpdate and loadMore of templates/base.html and the list view that
\* answers them).
THEOREM PollCorrect == PollSpec => []PollInv
<1>1. PollInit => PollInv
  BY InitKeeps
<1>2. PollInv /\ [PollNext]_pollVars => PollInv'
  <2> SUFFICES ASSUME PollInv, [PollNext]_pollVars
               PROVE  PollInv'
    OBVIOUS
  <2>1. ASSUME NEW r \in Rows, Insert(r) PROVE PollInv'
    BY <2>1, InsertKeeps
  <2>2. ASSUME NEW r \in Rows, Change(r) PROVE PollInv'
    BY <2>2, ChangeKeeps
  <2>3. ASSUME NEW r \in Rows, Commit(r) PROVE PollInv'
    BY <2>3, CommitKeeps
  <2>4. ASSUME NEW ch \in Channels, Send(ch) PROVE PollInv'
    BY <2>4, SendKeeps
  <2>5. ASSUME NEW ch \in Channels, Lose(ch) PROVE PollInv'
    BY <2>5, LoseKeeps
  <2>6. CASE AnswerPoll
    BY <2>6, AnswerPollKeeps
  <2>7. CASE AnswerUpdate
    BY <2>7, AnswerUpdateKeeps
  <2>8. CASE AnswerCalendar
    BY <2>8, AnswerCalendarKeeps
  <2>9. CASE AnswerScroll
    BY <2>9, AnswerScrollKeeps
  <2>10. CASE ApplyPoll
    BY <2>10, ApplyPollKeeps
  <2>11. CASE ApplyUpdate
    BY <2>11, ApplyUpdateKeeps
  <2>12. CASE ApplyScroll
    BY <2>12, ApplyScrollKeeps
  <2>13. CASE UNCHANGED pollVars
    <3>1. UNCHANGED <<page, rows, writing, clock, writes, losses, dom, cursor, next, req,
                      due, kept>>
      BY <2>13 DEF pollVars, table, client
    <3>2. PollTypeOK'
      BY <3>1 DEF PollInv, PollTypeOK
    <3>3. (TwiceOnlyByCrossing /\ NothingSkipped /\ CreatedStays /\ BehindCursor)'
      BY <3>1, PageStays DEF PollInv
    <3>4. \A ch \in Channels : Settled(ch)
      BY <3>1 DEF Settled
    <3>5. PollBringsLater'
      BY <3>1, <3>4, PollStays DEF PollInv, PollBringsLater, Channels
    <3>6. UpdateBringsOnce'
      BY <3>4, UpdateStays DEF PollInv, Channels
    <3>7. KeptStay'
      BY <3>1, <3>4, KeptRemain DEF PollInv, Channels
    <3>8. PagesBrought'
      BY <3>1, <3>4, PagesStay DEF PollInv, PagesBrought, Channels
    <3> QED
      BY <3>2, <3>3, <3>5, <3>6, <3>7, <3>8 DEF PollInv
  <2> QED
    BY <2>1, <2>2, <2>3, <2>4, <2>5, <2>6, <2>7, <2>8, <2>9, <2>10, <2>11, <2>12, <2>13
       DEF PollNext
<1> QED
  BY <1>1, <1>2, PTL DEF PollSpec
=============================================================================
