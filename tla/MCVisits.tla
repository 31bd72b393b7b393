------------------------------ MODULE MCVisits ------------------------------
(* Instances of Visits for TLC: an employee, a visitor, and room for two more  *)
(* people.                                                                     *)
EXTENDS Visits, TLC

CONSTANTS p1, p2, n1, n2, f1, f2, c1, c2, c3, h1, h2

\* c1 and c2 are one number, with and without its punctuation.
Digits == (c1 :> 1) @@ (c2 :> 1) @@ (c3 :> 2)

Worker == [kind |-> "employee", name |-> n1, phone |-> f1, cpf |-> c1, foreigner |-> FALSE,
           active |-> TRUE, photo |-> None]
Guest == [kind |-> "visitor", name |-> n1, phone |-> f1, cpf |-> c1, foreigner |-> FALSE,
          active |-> TRUE, photo |-> h1]

Known == [p \in People |-> IF p = p1 THEN Worker ELSE IF p = p2 THEN Guest ELSE None]

\* The employee is deactivated; another one has the same CPF, typed differently.
EmployeePostSet ==
    {[Worker EXCEPT !.active = FALSE], [Worker EXCEPT !.name = n2, !.cpf = c2]}

\* A new photo, none; another name with the same phone, a foreigner without CPF.
VisitorPostSet ==
    {[Guest EXCEPT !.photo = h2], [Guest EXCEPT !.photo = None],
     [Guest EXCEPT !.name = n2, !.cpf = c3],
     [Guest EXCEPT !.name = n2, !.phone = f2, !.cpf = None, !.foreigner = TRUE]}

Symmetry == Permutations(Workers) \cup Permutations(Visitings)
=============================================================================
