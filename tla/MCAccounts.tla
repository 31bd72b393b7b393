----------------------------- MODULE MCAccounts -----------------------------
(* Instances of Accounts for TLC: two masters, one of whom has yet to follow *)
(* the link he was sent, and room for one or two more accounts.              *)
EXTENDS Accounts, TLC

CONSTANTS u1, u2, n1, n2, n3, n4, e1, e2, e3, c1, c2, c3

First == [u \in Users |->
    IF u = u1 THEN [name |-> n1, email |-> e1, active |-> TRUE]
    ELSE IF u = u2 THEN [name |-> n2, email |-> e2, active |-> TRUE] ELSE None]

FirstProfiles == [u \in Users |->
    IF u = u1 THEN [role |-> "master", cpf |-> c1, verified |-> TRUE]
    ELSE IF u = u2 THEN [role |-> "master", cpf |-> c2, verified |-> FALSE] ELSE None]

FirstMails == {[user |-> u2, email |-> e2, verified |-> FALSE]}

\* Two forms with one address and CPF, and one with a CPF that is in use.
SignupSet ==
    {[name |-> n3, email |-> e3, cpf |-> c3, role |-> "master"],
     [name |-> n4, email |-> e3, cpf |-> c3, role |-> "simple"],
     [name |-> n4, email |-> e3, cpf |-> c2, role |-> "simple"]}

Symmetry == Permutations(Workers) \cup Permutations(Users \ {u1, u2})
=============================================================================
