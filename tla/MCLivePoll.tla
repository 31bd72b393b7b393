----------------------------- MODULE MCLivePoll -----------------------------
(* Instances of LivePoll for TLC: each list with two rows to begin with, one  *)
(* or none, in places before, beside or behind which others come.             *)
EXTENDS LivePoll

At(place, active) == [place |-> place, active |-> active]

None == << >>
One == (1 :> At(1, TRUE))
Two == (1 :> At(1, TRUE)) @@ (2 :> At(2, TRUE))

PageSet ==
    {EmployeeList(FALSE, One), EmployeeList(FALSE, Two), EmployeeList(TRUE, Two),
     VisitList("other", (1 :> At(1, FALSE)) @@ (2 :> At(2, TRUE))), TruckList(None),
     TruckList(Two), UserList(One), RecordList(One), VisitorList(Two), LogList(Two),
     PresenceHistory(Two), Calendar(One)}

\* Where renamed rows are both scrolled to and updated one write is enough to
\* move a row over a page's border, and as much as TLC gets through.
WritesOf ==
    [p \in PageSet |-> IF p.update /\ "place" \in p.edits /\ p.first = Two THEN 1 ELSE 2]
=============================================================================
