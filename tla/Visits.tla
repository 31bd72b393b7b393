------------------------------- MODULE Visits -------------------------------
(***************************************************************************)
(* The people of the system and the visits: employees and visitors are     *)
(* entered and edited, an employee receives a visitor, the departure is    *)
(* registered, and the presence history shows both ends of the visit.      *)
(*                                                                         *)
(* Gunicorn workers (Workers) serve the forms; the checks of a form, those *)
(* that save() repeats and the write are separate statements, and a save   *)
(* writes the whole row: the form's fields over the copy that was read.    *)
(* Fields that no check compares are left out, as are forms refused for    *)
(* them (an empty name, check digits, a hire date in the future, a file    *)
(* that is no image).  Times are hours on a clock that the users see.      *)
(***************************************************************************)
EXTENDS Integers, FiniteSets

CONSTANTS
    Workers,
    People,      \* primary keys of employees and visitors
    Visitings,   \* primary keys of visits
    Names,       \* of which the case of the letters is no part (name__iexact)
    Phones, Photos,
    Cpfs,        \* as they are typed, with any punctuation or none
    Number,      \* of each, its eleven digits (validate_cpf)
    None,
    InitPeople,
    EmployeePosts, VisitorPosts,  \* the forms that are sent
    Day,         \* hours of a day
    Offset,      \* hours by which the server's clock (UTC) is ahead, which a
                 \* new visit's form proposes
    MaxOps,      \* bound: requests served
    MaxTime      \* bound: the last hour

\* EmployeeForm and VisitorForm as they are sent; photo is None when no file
\* is chosen.
Form == [kind : {"employee", "visitor"}, name : Names, phone : Phones \cup {None},
         cpf : Cpfs \cup {None}, foreigner : BOOLEAN, active : BOOLEAN,
         photo : Photos \cup {None}]

\* The row of Visit, with date and times of the day; leaves is None until the
\* departure is registered.  History: ahead, the arrival was later than the
\* hour at which it was entered; left, the hour of the departure; sound, the
\* employee was active when the visit was stored or has been edited since the
\* form was.
Visit ==
    [visitor : People, responsible : People, date : Nat, arrives : 0 .. Day - 1,
     planned : 0 .. Day - 1, leaves : (0 .. Day - 1) \cup {None},
     ahead : BOOLEAN, left : Nat \cup {None}, sound : BOOLEAN]

ASSUME VisitsAssumption ==
    /\ EmployeePosts \subseteq {f \in Form : f.kind = "employee"}
    /\ VisitorPosts \subseteq {f \in Form : f.kind = "visitor"}
    /\ InitPeople \in [People -> Form \cup {None}]
    /\ Number \in [Cpfs -> Nat]
    /\ Day \in Nat \ {0} /\ {Offset, MaxOps, MaxTime} \subseteq Nat
    /\ None \notin Form /\ None \notin Nat /\ None \notin Visit /\ None \notin People
    /\ None \notin Photos /\ None \notin Cpfs /\ None \notin Phones /\ None \notin Visitings

VARIABLES
    people,   \* the tables of employees and visitors: a row or None
    visits,   \* the table of visits
    pc, job,  \* the statement a worker is at, its local variables
    now, ops

vars == <<people, visits, pc, job, now, ops>>

\* History: another request stored a value the form holds, or edited a row the
\* request read, since the form was checked (raced) and since save() checked
\* the CPF once more (late).
NoJob == [person |-> None, copy |-> None, form |-> None, visit |-> None,
          raced |-> FALSE, late |-> FALSE]

Begin(w, label, j) ==
    /\ pc[w] = "idle"
    /\ ops < MaxOps
    /\ ops' = ops + 1
    /\ pc' = [pc EXCEPT ![w] = label]
    /\ job' = [job EXCEPT ![w] = j]
    /\ UNCHANGED <<people, visits, now>>

Goto(w, label) == pc' = [pc EXCEPT ![w] = label] /\ UNCHANGED <<now, ops>>

Respond(w) == Goto(w, "idle") /\ job' = [job EXCEPT ![w] = NoJob]

Others(kind, p) == {q \in People \ {p} : people[q] # None /\ people[q].kind = kind}

\* Employee.clean and Visitor.clean: no other row has the CPF as it is typed.
CpfFree(f, p) == f.cpf # None => \A q \in Others(f.kind, p) : people[q].cpf # f.cpf

\* VisitorForm.clean_name and clean_phone.
NameFree(f, p) == \A q \in Others(f.kind, p) : people[q].name # f.name
PhoneFree(f, p) == f.phone # None => \A q \in Others(f.kind, p) : people[q].phone # f.phone

\* VisitorForm.clean: a visitor has a CPF or the document of a foreigner.
Documented(f) == f.foreigner \/ f.cpf # None

-----------------------------------------------------------------------------
(* Employees and visitors are entered and edited.                          *)

VisitorFormValid(f, p) == Documented(f) /\ NameFree(f, p) /\ PhoneFree(f, p) /\ CpfFree(f, p)

\* The row a form edits, or no row and (bound) a key left for the new one.
Edited(p, kind) ==
    IF p # None THEN people[p] # None /\ people[p].kind = kind
    ELSE Cardinality({v \in Workers : pc[v] \in {"clean", "store"} /\ job[v].person = None}) <
             Cardinality({q \in People : people[q] = None})

CopyOf(p) == IF p = None THEN None ELSE people[p]

\* EmployeeCreateView and EmployeeUpdateView: form.is_valid(), which also runs
\* Employee.clean.
OpenEmployee(w, p, f) ==
    /\ Edited(p, "employee")
    /\ CpfFree(f, p)
    /\ Begin(w, "clean", [NoJob EXCEPT !.person = p, !.copy = CopyOf(p), !.form = f])

\* VisitorCreateView and VisitorUpdateView.
OpenVisitor(w, p, f) ==
    /\ Edited(p, "visitor")
    /\ VisitorFormValid(f, p)
    /\ Begin(w, "clean", [NoJob EXCEPT !.person = p, !.copy = CopyOf(p), !.form = f])

\* Mutant: save() does not clean.
CleanPerson_Skipped(w) ==
    /\ pc[w] = "clean"
    /\ Goto(w, "store") /\ job' = [job EXCEPT ![w].late = FALSE]
    /\ UNCHANGED <<people, visits>>

\* save() runs full_clean, and with it clean() of the model.
CleanPerson(w) ==
    /\ pc[w] = "clean"
    /\ IF CpfFree(job[w].form, job[w].person)
       THEN Goto(w, "store") /\ job' = [job EXCEPT ![w].late = FALSE]
       ELSE Respond(w)
    /\ UNCHANGED <<people, visits>>

\* The jobs once w has stored the row of p.
Overtake(w, p, row) ==
    [v \in Workers |->
        LET j == job[v]
            same == /\ j.form # None /\ j.form.kind = row.kind
                    /\ \/ j.form.name = row.name
                       \/ row.phone # None /\ j.form.phone = row.phone
                       \/ row.cpf # None /\ j.form.cpf = row.cpf
            read == j.person = p \/ (j.visit # None /\ j.visit.responsible = p)
        IN IF v # w /\ j # NoJob /\ (same \/ read)
           THEN [j EXCEPT !.raced = TRUE, !.late = TRUE] ELSE j]

\* Mutant: the photo is cleared when no file is chosen.
PersonRow_NoPhoto(copy, f) == f

\* The form's fields; without a file the copy keeps its photo.
PersonRow(copy, f) ==
    IF copy # None /\ f.photo = None THEN [f EXCEPT !.photo = copy.photo] ELSE f

\* A new row gets a key that is free.
StorePerson(w) ==
    /\ pc[w] = "store"
    /\ LET row == PersonRow(job[w].copy, job[w].form)
       IN \E p \in People :
            /\ IF job[w].person = None THEN people[p] = None ELSE p = job[w].person
            /\ people' = [people EXCEPT ![p] = row]
            /\ job' = [Overtake(w, p, row) EXCEPT ![w] = NoJob]
    /\ Goto(w, "idle")
    /\ UNCHANGED visits

-----------------------------------------------------------------------------
(* Visits.                                                                 *)

\* Bound: a key is left for every visit that is entered.
RoomForVisit ==
    Cardinality({w \in Workers : pc[w] = "visit"}) <
        Cardinality({i \in Visitings : visits[i] = None})

\* VisitForm: an active employee; date and time of arrival as they are typed,
\* past or to come, or left as proposed; the planned departure is later on the
\* same day.
OpenVisit(w, v, e, at, long) ==
    /\ people[v] # None /\ people[v].kind = "visitor"
    /\ people[e] # None /\ people[e].kind = "employee" /\ people[e].active
    /\ RoomForVisit
    /\ (at % Day) + long < Day
    /\ Begin(w, "visit", [NoJob EXCEPT !.person = v,
         !.visit = [visitor |-> v, responsible |-> e, date |-> at \div Day,
                    arrives |-> at % Day, planned |-> (at % Day) + long, leaves |-> None,
                    ahead |-> at > now, left |-> None, sound |-> TRUE]])

\* Visit.save: full_clean compares the two times again, not the employee.
StoreVisit(w) ==
    /\ pc[w] = "visit"
    /\ \E i \in Visitings :
          /\ visits[i] = None
          /\ LET row == job[w].visit
             IN visits' = [visits EXCEPT ![i] =
                    [row EXCEPT !.sound = people[row.responsible].active \/ job[w].raced]]
    /\ Respond(w)
    /\ UNCHANGED people

\* Mutant: a departure that is registered is not refused.
OpenDepart_Again(w, i) ==
    /\ visits[i] # None
    /\ Begin(w, "depart", [NoJob EXCEPT !.copy = i])

\* VisitDepartView: a visit that has no departure yet.
OpenDepart(w, i) ==
    /\ visits[i] # None
    /\ visits[i].leaves = None
    /\ Begin(w, "depart", [NoJob EXCEPT !.copy = i])

\* Mutant: the server's clock is written.
StoreDeparture_ServerClock(w) ==
    /\ pc[w] = "depart"
    /\ LET i == job[w].copy
       IN /\ visits' = [visits EXCEPT ![i].leaves = (now + Offset) % Day, ![i].left = now]
          /\ job' = [v \in Workers |->
                IF v = w THEN NoJob
                ELSE IF pc[v] = "depart" /\ job[v].copy = i THEN [job[v] EXCEPT !.raced = TRUE]
                ELSE job[v]]
    /\ Goto(w, "idle")
    /\ UNCHANGED people

\* update() writes the time of the day, of the users' clock.
StoreDeparture(w) ==
    /\ pc[w] = "depart"
    /\ LET i == job[w].copy
       IN /\ visits' = [visits EXCEPT ![i].leaves = now % Day, ![i].left = now]
          /\ job' = [v \in Workers |->
                IF v = w THEN NoJob
                ELSE IF pc[v] = "depart" /\ job[v].copy = i THEN [job[v] EXCEPT !.raced = TRUE]
                ELSE job[v]]
    /\ Goto(w, "idle")
    /\ UNCHANGED people

Tick ==
    /\ now < MaxTime
    /\ now' = now + 1
    /\ UNCHANGED <<people, visits, pc, job, ops>>

Init ==
    /\ people = InitPeople
    /\ visits = [i \in Visitings |-> None]
    /\ pc = [w \in Workers |-> "idle"]
    /\ job = [w \in Workers |-> NoJob]
    /\ now = 0
    /\ ops = 0

\* Bound: the hours of arrival that are typed, up to the last one proposed.
Typed == 0 .. MaxTime + Offset

Accept(w) ==
    \/ \E p \in People \cup {None} :
          \/ \E f \in EmployeePosts : OpenEmployee(w, p, f)
          \/ \E f \in VisitorPosts : OpenVisitor(w, p, f)
    \/ \E v, e \in People, at \in Typed, long \in 1 .. Day :
          OpenVisit(w, v, e, at, long)
    \/ \E i \in Visitings : OpenDepart(w, i)

Serve(w) ==
    \/ CleanPerson(w) \/ StorePerson(w)
    \/ StoreVisit(w) \/ StoreDeparture(w)

Next ==
    \/ \E w \in Workers : Accept(w) \/ Serve(w)
    \/ Tick

Spec == Init /\ [][Next]_vars

-----------------------------------------------------------------------------
\* The presence history puts both times on the date of the visit.
ShownArrival(i) == visits[i].date * Day + visits[i].arrives
ShownDeparture(i) == visits[i].date * Day + visits[i].leaves

Job ==
    [person : People \cup {None}, copy : Form \cup Visitings \cup {None},
     form : Form \cup {None}, visit : Visit \cup {None}, raced : BOOLEAN, late : BOOLEAN]

Labels == {"idle", "clean", "store", "visit", "depart"}

TypeOK ==
    /\ people \in [People -> Form \cup {None}]
    /\ visits \in [Visitings -> Visit \cup {None}]
    /\ pc \in [Workers -> Labels]
    /\ job \in [Workers -> Job]
    /\ {now, ops} \subseteq Nat

\* An employee who receives a visitor was active when the visit was stored, or
\* was edited while the form was on the way (VisitForm).
ResponsibleFit == \A i \in Visitings : visits[i] # None => visits[i].sound

\* What a request has checked and read still holds, unless it was overtaken:
\* its CPF is free since save() looked, a visitor's name and phone since the
\* form did, its copy is the row, and the visit it closes is open.
RequestInv(w) ==
    LET j == job[w]
    IN /\ pc[w] \in {"clean", "store"} =>
             /\ j.form \in Form
             /\ j.person = None => j.copy = None
             /\ j.person # None =>
                   /\ people[j.person] # None /\ people[j.person].kind = j.form.kind
                   /\ j.copy \in Form /\ (j.raced \/ j.copy = people[j.person])
             /\ j.form.kind = "visitor" =>
                   j.raced \/ (NameFree(j.form, j.person) /\ PhoneFree(j.form, j.person))
       /\ pc[w] = "store" => j.late \/ CpfFree(j.form, j.person)
       /\ pc[w] = "visit" =>
             /\ j.visit \in Visit /\ people[j.visit.responsible] # None
             /\ j.raced \/ people[j.visit.responsible].active
       /\ pc[w] = "depart" =>
             /\ j.copy \in Visitings /\ visits[j.copy] # None
             /\ j.raced \/ visits[j.copy].leaves = None

\* The time of arrival is past unless it was entered ahead, and the time of
\* departure is that of the hour.
InTime(v, t) == v.ahead \/ v.date * Day + v.arrives <= t

ClockInv ==
    /\ \A w \in Workers : pc[w] = "visit" =>
          InTime(job[w].visit, now) /\ job[w].visit.left = None
    /\ \A i \in Visitings : visits[i] # None =>
          /\ InTime(visits[i], now)
          /\ visits[i].left # None =>
                visits[i].leaves = visits[i].left % Day /\ InTime(visits[i], visits[i].left)

IndInv ==
    /\ TypeOK
    /\ ResponsibleFit /\ ClockInv
    /\ \A w \in Workers : RequestInv(w)

Twins(table, p, q, field) ==
    /\ p # q /\ table[p] # None /\ table[q] # None
    /\ table[p].kind = table[q].kind
    /\ table[p][field] # None /\ table[p][field] = table[q][field]

\* Two of a kind have the same number.
SameNumber(table, p, q) ==
    /\ p # q /\ table[p] # None /\ table[q] # None
    /\ table[p].kind = table[q].kind
    /\ table[p].cpf # None /\ table[q].cpf # None
    /\ Number[table[p].cpf] = Number[table[q].cpf]

\* No column is unique.  A CPF comes to belong to two employees or two visitors
\* only if it is typed with another punctuation, or was stored between the
\* look-up that save() makes and the write of another request (Employee.clean,
\* Visitor.clean); a visitor's name or phone, which only the form looks up, if it
\* was since the form (VisitorForm.clean_name).
TwinsOnlyByRace ==
    [][\A p, q \in People :
          /\ ~ SameNumber(people, p, q) /\ SameNumber(people', p, q) =>
                \/ people'[p].cpf # people'[q].cpf
                \/ \E w \in Workers : pc[w] = "store" /\ pc'[w] = "idle" /\ job[w].late
          /\ \A field \in {"name", "phone"} :
                /\ people'[p] # None => people'[p].kind = "visitor"
                /\ ~ Twins(people, p, q, field) /\ Twins(people', p, q, field)
                => \E w \in Workers : pc[w] = "store" /\ pc'[w] = "idle" /\ job[w].raced]_vars

\* Editing without a new photo keeps the one that is stored (the full row is
\* written), and a departure that is registered stays (VisitDepartView): both
\* are replaced only by a request that was overtaken after it had read.
OverwrittenOnlyByRace ==
    [][/\ \A w \in Workers :
             LET p == job[w].person
             IN pc[w] = "store" /\ pc'[w] = "idle" /\ job[w].copy # None
                /\ job[w].form.photo = None /\ ~ job[w].raced
                => people'[p].photo = people[p].photo
       /\ \A i \in Visitings :
             visits[i] # None /\ visits[i].leaves # None /\ visits'[i] # visits[i] =>
                \E w \in Workers : pc[w] = "depart" /\ pc'[w] = "idle" /\ job[w].raced]_vars

\* The presence history shows a departure after its arrival, at the hour it
\* was, unless the visitor left on another day than the visit's date or the
\* arrival was entered ahead of the hour (any time is accepted, and the form
\* itself proposes the server's clock).
HistoryInOrder ==
    \A i \in Visitings :
        visits[i] # None /\ visits[i].left # None /\ visits[i].left \div Day = visits[i].date =>
            /\ ShownDeparture(i) = visits[i].left
            /\ visits[i].ahead \/ ShownArrival(i) <= ShownDeparture(i)
=============================================================================
