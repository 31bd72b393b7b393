-------------------------- MODULE AttendanceProofs --------------------------
(***************************************************************************)
(* Proofs about Attendance for every number of workers, nightly runs and   *)
(* crashes and every value of the timing constants.  IndInv is inductive:  *)
(* what the tables promise whatever overlaps follows from it.  RaceInv     *)
(* counts the open shifts that overlapping requests can leave.  OrderlyInv *)
(* is inductive while requests about one employee do not overlap: then     *)
(* nothing a handler has read is out of date, and the statements of the    *)
(* service add up to the punch clock.                                      *)
(***************************************************************************)
EXTENDS AttendanceClock, SequenceTheorems, FiniteSetTheorems, WellFoundedInduction, TLAPS

-----------------------------------------------------------------------------
(* Rows.                                                                   *)

\* What no statement ever does: lose a row, or move it to another employee or
\* to another entry time.
KeepsShifts ==
    \A r \in DOMAIN records :
        /\ r \in DOMAIN records'
        /\ records'[r].emp = records[r].emp
        /\ records'[r].at["entry"] = records[r].at["entry"]

LEMMA RowTypes ==
    ASSUME TypeOK
    PROVE  /\ \A r \in DOMAIN records : records[r] \in Row
           /\ \A k \in DOMAIN events : events[k] \in Event
           /\ DOMAIN records = 1 .. Len(records) /\ Len(records) \in Nat
           /\ DOMAIN events = 1 .. Len(events) /\ Len(events) \in Nat
<1>1. records \in Seq(Row) /\ events \in Seq(Event)
  BY DEF TypeOK
<1> QED
  BY <1>1, ElementOfSeq, LenProperties

\* The entry of a possible day is a time.
LEMMA EntryIsTime ==
    ASSUME NEW row \in Row, RowIsDay(row)
    PROVE  row.at["entry"] \in Nat
BY DEF Row, Stamps, Steps, RowIsDay

\* A row inserted by record_entry() is a possible day.
LEMMA NewRowIsDay ==
    ASSUME NEW e \in Employees, now \in Nat
    PROVE  /\ NewRow(e) \in Row
           /\ RowIsDay(NewRow(e))
           /\ FlaggedWasStale(NewRow(e))
           /\ NewRow(e).emp = e
           /\ NewRow(e).at["entry"] = now
<1> DEFINE at == [s \in Steps |-> IF s = "entry" THEN now ELSE Null]
<1>1. at \in Stamps
  BY DEF Stamps
<1>2. Chronological(at)
  <2>1. at["lunch_start"] = Null /\ at["lunch_end"] = Null /\ at["exit"] = Null
    BY DEF Steps
  <2> QED
    BY <2>1 DEF Chronological, Precedes
<1>3. at["entry"] = now /\ at["lunch_end"] = Null
  BY DEF Steps
<1>4. now # Null
  BY TimeAssumption
<1> QED
  BY <1>1, <1>2, <1>3, <1>4 DEF NewRow, Row, RowIsDay, FlaggedWasStale

\* Flagging a stale row changes nothing else.
LEMMA FlaggedRow ==
    ASSUME NEW row \in Row, RowIsDay(row), IsStale(row)
    PROVE  LET f == Flagged(row)
           IN  /\ f \in Row /\ RowIsDay(f) /\ FlaggedWasStale(f)
               /\ f.emp = row.emp /\ f.at["entry"] = row.at["entry"]
BY DEF Flagged, Row, RowIsDay, FlaggedWasStale, IsStale

\* A stamp after the entry that passes clean() leaves a possible day.
LEMMA StampedRow ==
    ASSUME NEW row \in Row, RowIsDay(row), FlaggedWasStale(row),
           NEW step \in Steps \ {"entry"}, NEW t \in Nat,
           Awaits(row, step), Chronological(Stamped(row, step, t).at)
    PROVE  LET f == Stamped(row, step, t)
           IN  /\ f \in Row /\ RowIsDay(f) /\ FlaggedWasStale(f)
               /\ f.emp = row.emp /\ f.at["entry"] = row.at["entry"]
               /\ f.at[step] = t
               /\ f.at["entry"] <= t
<1> DEFINE f == Stamped(row, step, t)
           at == [row.at EXCEPT ![step] = t]
<1>1. row.at \in Stamps /\ row.emp \in Employees /\ row.autoClosed \in BOOLEAN
  BY DEF Row
<1>2. f = [emp |-> row.emp, at |-> at, autoClosed |-> row.autoClosed]
  BY DEF Stamped, Row
<1>3. at \in Stamps /\ at["entry"] = row.at["entry"] /\ at[step] = t
  BY <1>1 DEF Stamps, Steps
<1>4. at["lunch_end"] # Null => at["lunch_start"] # Null
  BY <1>1, TimeAssumption DEF Stamps, Steps, RowIsDay, Awaits
<1>5. Chronological(at)
  BY <1>2 
<1>6. at["entry"] <= t
  <2>1. <<"entry", step>> \in Precedes
    BY DEF Steps, Precedes
  <2>2. at["entry"] # Null /\ at[step] # Null
    BY <1>3, TimeAssumption DEF RowIsDay
  <2>3. at["entry"] + MinGap <= t
    BY <1>3, <1>5, <2>1, <2>2 DEF Chronological
  <2> QED
    BY <2>3, <1>3, EntryIsTime, TimeAssumption
<1> QED
  BY <1>1, <1>2, <1>3, <1>4, <1>5, <1>6 DEF Row, RowIsDay, FlaggedWasStale

-----------------------------------------------------------------------------
(* Frames: what a statement of one process leaves to the others.           *)

\* A process whose locals did not change stays ready while shifts are kept.
LEMMA OthersStayReady ==
    ASSUME NEW q, Ready(q), KeepsShifts,
           pc'[q] = pc[q], job'[q] = job[q],
           now \in Nat, now' \in Nat, now <= now'
    PROVE  Ready(q)'
<1>1. ASSUME NEW row \in Row, RowIsDay(row), FlaggedWasStale(row)
      PROVE  FlaggedWasStale(row)'
  BY <1>1, EntryIsTime, TimeAssumption DEF FlaggedWasStale
<1>2. ASSUME NEW row, NEW r, SameShift(row, r)
      PROVE  SameShift(row, r)'
  BY <1>2 DEF SameShift, KeepsShifts
<1>3. ASSUME NEW row, RowIsDay(row)
      PROVE  RowIsDay(row)'
  BY <1>3 DEF RowIsDay, Chronological
<1> QED
  BY <1>1, <1>2, <1>3 DEF Ready

\* A statement that leaves both tables alone and moves one process only.
LEMMA ReadStep ==
    ASSUME IndInv, NEW p \in Processes, TypeOK', Ready(p)',
           UNCHANGED <<now, records, events>>,
           \A q \in Processes \ {p} : pc'[q] = pc[q] /\ job'[q] = job[q]
    PROVE  IndInv'
<1>1. KeepsShifts
  BY DEF KeepsShifts
<1>2. \A q \in Processes : Ready(q)'
  BY <1>1, OthersStayReady DEF IndInv, TypeOK
<1>3. RowsAreDays'
  BY DEF IndInv, RowsAreDays, RowIsDay, Chronological
<1>4. AutoClosedWereStale'
  BY DEF IndInv, AutoClosedWereStale, FlaggedWasStale
<1>5. EventsPointToShift'
  BY DEF IndInv, EventsPointToShift
<1> QED
  BY <1>2, <1>3, <1>4, <1>5 DEF IndInv

\* An UPDATE with a row read earlier: every row is still a possible day, and no
\* shift is lost.
LEMMA UpdateRow ==
    ASSUME IndInv, NEW r, NEW row \in Row,
           SameShift(row, r), RowIsDay(row), FlaggedWasStale(row),
           records' = [records EXCEPT ![r] = row],
           UNCHANGED <<now, events>>
    PROVE  /\ records' \in Seq(Row)
           /\ KeepsShifts
           /\ DOMAIN records' = DOMAIN records
           /\ RowsAreDays' /\ AutoClosedWereStale' /\ EventsPointToShift'
<1>1. records \in Seq(Row) /\ r \in 1 .. Len(records)
  BY RowTypes DEF IndInv, TypeOK, SameShift
<1>2. records' \in Seq(Row)
  BY <1>1, ExceptSeq
<1>3. DOMAIN records' = DOMAIN records
  OBVIOUS
<1>4. \A q \in DOMAIN records : records'[q] = IF q = r THEN row ELSE records[q]
  BY <1>1
<1>5. KeepsShifts
  BY <1>3, <1>4 DEF KeepsShifts, SameShift
<1>6. RowsAreDays'
  BY <1>3, <1>4 DEF IndInv, RowsAreDays, RowIsDay, Chronological
<1>7. AutoClosedWereStale'
  BY <1>3, <1>4 DEF IndInv, AutoClosedWereStale, FlaggedWasStale
<1>8. EventsPointToShift'
  BY <1>5 DEF IndInv, EventsPointToShift, KeepsShifts
<1> QED
  BY <1>2, <1>3, <1>5, <1>6, <1>7, <1>8

\* The INSERT of record_entry().
LEMMA InsertRow ==
    ASSUME IndInv, NEW row \in Row, RowIsDay(row), FlaggedWasStale(row),
           records' = Append(records, row),
           UNCHANGED <<now, events>>
    PROVE  /\ records' \in Seq(Row)
           /\ KeepsShifts
           /\ Len(records) + 1 \in DOMAIN records'
           /\ records'[Len(records) + 1] = row
           /\ RowsAreDays' /\ AutoClosedWereStale' /\ EventsPointToShift'
<1>1. records \in Seq(Row) /\ DOMAIN records = 1 .. Len(records)
      /\ Len(records) \in Nat
  BY RowTypes DEF IndInv, TypeOK
<1>2. /\ records' \in Seq(Row)
      /\ Len(records') = Len(records) + 1
      /\ \A q \in 1 .. Len(records) : records'[q] = records[q]
      /\ records'[Len(records) + 1] = row
  BY <1>1, AppendProperties
<1>3. DOMAIN records' = 1 .. Len(records) + 1
  BY <1>2, LenProperties
<1>4. \A q \in DOMAIN records' : q \in DOMAIN records \/ q = Len(records) + 1
  BY <1>1, <1>3
<1>5. KeepsShifts
  BY <1>1, <1>2, <1>3 DEF KeepsShifts
<1>6. RowsAreDays'
  BY <1>1, <1>2, <1>4 DEF IndInv, RowsAreDays, RowIsDay, Chronological
<1>7. AutoClosedWereStale'
  BY <1>1, <1>2, <1>4 DEF IndInv, AutoClosedWereStale, FlaggedWasStale
<1>8. EventsPointToShift'
  BY <1>5 DEF IndInv, EventsPointToShift, KeepsShifts
<1> QED
  BY <1>1, <1>2, <1>3, <1>5, <1>6, <1>7, <1>8

\* A statement that writes the row table: the others stay ready.
LEMMA WriteStep ==
    ASSUME IndInv, NEW p \in Processes, TypeOK', Ready(p)', KeepsShifts,
           RowsAreDays', AutoClosedWereStale', EventsPointToShift',
           UNCHANGED now,
           \A q \in Processes \ {p} : pc'[q] = pc[q] /\ job'[q] = job[q]
    PROVE  IndInv'
<1>1. \A q \in Processes : Ready(q)'
  BY OthersStayReady DEF IndInv, TypeOK
<1> QED
  BY <1>1 DEF IndInv

-----------------------------------------------------------------------------
(* The statements of a scan.                                               *)

LEMMA ReceiveScanStep ==
    ASSUME IndInv, NEW w \in Workers, NEW e \in Employees, ReceiveScan(w, e)
    PROVE  IndInv'
<1> USE DEF ReceiveScan, Goto, db
<1>1. w \in Processes
  BY DEF Processes
<1>2. pc'[w] = "cooldown" /\ job'[w].emp = e
  BY <1>1 DEF IndInv, TypeOK, NoJob
<1>3. TypeOK'
  BY DEF IndInv, TypeOK, Labels, Job, NoJob
<1>4. Ready(w)'
  BY <1>2 DEF Ready
<1>5. \A q \in Processes \ {w} : pc'[q] = pc[q] /\ job'[q] = job[q]
  BY DEF IndInv, TypeOK
<1> QED
  BY <1>1, <1>3, <1>4, <1>5, ReadStep

LEMMA FinishReady ==
    ASSUME IndInv, NEW p \in Processes, Finish(p)
    PROVE  /\ Ready(p)'
           /\ pc' \in [Processes -> Labels] /\ job' \in [Processes -> Job]
<1>1. pc'[p] = "idle"
  BY DEF IndInv, TypeOK, Finish, Goto
<1> QED
  BY <1>1 DEF IndInv, TypeOK, Finish, Goto, Ready, Labels, Job, NoJob

LEMMA CheckCooldownStep ==
    ASSUME IndInv, NEW w \in Workers, CheckCooldown(w)
    PROVE  IndInv'
<1> USE DEF CheckCooldown, db
<1>1. w \in Processes
  BY DEF Processes
<1>2. Ready(w)' /\ TypeOK'
  <2>1. CASE Finish(w)
    BY <1>1, <2>1, FinishReady DEF IndInv, TypeOK
  <2>2. CASE Goto(w, "close_read") /\ UNCHANGED job
    BY <1>1, <2>2 DEF IndInv, TypeOK, Goto, Ready, Labels
  <2> QED
    BY <2>1, <2>2
<1>3. \A q \in Processes \ {w} : pc'[q] = pc[q] /\ job'[q] = job[q]
  BY DEF IndInv, TypeOK, Finish, Goto
<1> QED
  BY <1>1, <1>2, <1>3, ReadStep

\* The row auto_close_if_stale() holds between its query and its UPDATE.
LEMMA StaleSnapshot ==
    ASSUME IndInv, NEW r \in DOMAIN records, IsStale(records[r])
    PROVE  LET f == Flagged(records[r])
           IN  /\ f \in Row /\ RowIsDay(f) /\ FlaggedWasStale(f)
               /\ SameShift(f, r) /\ r \in Nat
BY RowTypes, FlaggedRow DEF IndInv, RowsAreDays, SameShift

LEMMA CheckStaleStep ==
    ASSUME IndInv, NEW w \in Workers, CheckStale(w)
    PROVE  IndInv'
<1> USE DEF CheckStale, db, Goto
<1>1. w \in Processes
  BY DEF Processes
<1>2. Ready(w)' /\ TypeOK'
  <2>1. CASE Goto(w, "dispatch") /\ UNCHANGED job
    BY <1>1, <2>1 DEF IndInv, TypeOK, Ready, Labels
  <2>2. ASSUME NEW r \in CurrentOpen(job[w].emp), IsStale(records[r]),
               job' = [job EXCEPT ![w] = Holding(job[w], r, Flagged(records[r]))],
               Goto(w, "close_save")
        PROVE  Ready(w)' /\ TypeOK'
    <3> DEFINE f == Flagged(records[r])
    <3>1. r \in DOMAIN records
      BY DEF CurrentOpen, OpenRows
    <3>2. /\ f \in Row /\ RowIsDay(f) /\ FlaggedWasStale(f)
          /\ SameShift(f, r) /\ r \in Nat
      BY <2>2, <3>1, StaleSnapshot
    <3>3. /\ job'[w].rid = r /\ job'[w].row = f /\ job'[w].emp = job[w].emp
          /\ pc'[w] = "close_save"
      BY <1>1, <2>2 DEF IndInv, TypeOK, Holding
    <3>4. TypeOK'
      BY <1>1, <2>2, <3>2 DEF IndInv, TypeOK, Job, Labels, Holding
    <3>5. job[w].emp \in Employees
      BY <1>1 DEF IndInv, Ready
    <3>6. SameShift(f, r)' /\ RowIsDay(f)' /\ FlaggedWasStale(f)'
      BY <3>2 DEF SameShift, RowIsDay, FlaggedWasStale, Chronological
    <3> QED
      BY <3>2, <3>3, <3>4, <3>5, <3>6 DEF Ready
  <2> QED
    BY <2>1, <2>2
<1>3. \A q \in Processes \ {w} : pc'[q] = pc[q] /\ job'[q] = job[q]
  BY DEF IndInv, TypeOK
<1> QED
  BY <1>1, <1>2, <1>3, ReadStep

LEMMA SaveAutoClosedStep ==
    ASSUME IndInv, NEW w \in Workers, SaveAutoClosed(w)
    PROVE  IndInv'
<1> USE DEF SaveAutoClosed, Goto
<1>1. w \in Processes
  BY DEF Processes
<1>2. /\ job[w].row \in Row /\ RowIsDay(job[w].row)
      /\ FlaggedWasStale(job[w].row) /\ SameShift(job[w].row, job[w].rid)
      /\ job[w].emp \in Employees
  BY <1>1 DEF IndInv, Ready
<1>3. /\ records' \in Seq(Row) /\ KeepsShifts
      /\ RowsAreDays' /\ AutoClosedWereStale' /\ EventsPointToShift'
  BY <1>2, UpdateRow
<1>4. TypeOK'
  BY <1>1, <1>3 DEF IndInv, TypeOK, Labels, Job, Holding
<1>5. pc'[w] = "dispatch" /\ job'[w].emp = job[w].emp
  BY <1>1 DEF IndInv, TypeOK, Holding
<1>6. Ready(w)'
  BY <1>2, <1>5 DEF Ready
<1>7. \A q \in Processes \ {w} : pc'[q] = pc[q] /\ job'[q] = job[q]
  BY DEF IndInv, TypeOK
<1> QED
  BY <1>1, <1>3, <1>4, <1>6, <1>7, WriteStep

\* toggle_for_employee() chooses one of the four steps.
LEMMA StepForIsStep ==
    ASSUME NEW row
    PROVE  StepFor(row) \in Steps \ {"entry"}
BY DEF StepFor, Steps

LEMMA DispatchStep ==
    ASSUME IndInv, NEW w \in Workers, Dispatch(w)
    PROVE  IndInv'
<1> USE DEF Dispatch, Goto, db
<1>1. w \in Processes
  BY DEF Processes
<1>2. PICK step \in Steps : job' = [job EXCEPT ![w].step = step]
  BY StepForIsStep DEF Steps
<1>3. TypeOK'
  BY <1>1, <1>2 DEF IndInv, TypeOK, Labels, Job
<1>4. pc'[w] = "active" /\ job'[w].emp = job[w].emp /\ job'[w].step = step
  BY <1>1, <1>2 DEF IndInv, TypeOK, Job
<1>5. job[w].emp \in Employees
  BY <1>1 DEF IndInv, Ready
<1>6. Ready(w)'
  BY <1>4, <1>5 DEF Ready
<1>7. \A q \in Processes \ {w} : pc'[q] = pc[q] /\ job'[q] = job[q]
  BY <1>2 DEF IndInv, TypeOK
<1> QED
  BY <1>1, <1>3, <1>6, <1>7, ReadStep

LEMMA CheckStillActiveStep ==
    ASSUME IndInv, NEW w \in Workers, CheckStillActive(w)
    PROVE  IndInv'
<1> USE DEF CheckStillActive, db
<1>1. w \in Processes
  BY DEF Processes
<1>2. Ready(w)' /\ TypeOK'
  <2>1. CASE Finish(w)
    BY <1>1, <2>1, FinishReady DEF IndInv, TypeOK
  <2>2. CASE /\ job[w].step = "entry"
             /\ job' = [job EXCEPT ![w] = Holding(job[w], 0, NewRow(job[w].emp))]
             /\ Goto(w, "save")
    <3> DEFINE row == NewRow(job[w].emp)
    <3>1. job[w].emp \in Employees
      BY <1>1 DEF IndInv, Ready
    <3>2. /\ row \in Row /\ RowIsDay(row) /\ FlaggedWasStale(row)
          /\ row.emp = job[w].emp /\ row.at["entry"] = now /\ now \in Nat
      BY <3>1, NewRowIsDay DEF IndInv, TypeOK
    <3>3. TypeOK'
      BY <1>1, <2>2, <3>2 DEF IndInv, TypeOK, Labels, Job, Holding, Goto
    <3>4. /\ pc'[w] = "save" /\ job'[w].row = row /\ job'[w].emp = job[w].emp
          /\ job'[w].step = "entry"
      BY <1>1, <2>2 DEF IndInv, TypeOK, Holding, Goto
    <3>5. RowIsDay(row)' /\ FlaggedWasStale(row)'
      BY <3>2 DEF NewRow, RowIsDay, FlaggedWasStale, Chronological
    <3>6. "entry" \in Steps /\ now # Null
      BY <3>2, TimeAssumption DEF Steps
    <3>7. Ready(w)'
      BY <3>1, <3>2, <3>4, <3>5, <3>6 DEF Ready, NewRow
    <3> QED
      BY <3>3, <3>7
  <2>3. CASE job[w].step # "entry" /\ Goto(w, "reread") /\ UNCHANGED job
    BY <1>1, <2>3 DEF IndInv, TypeOK, Goto, Ready, Labels
  <2> QED
    BY <2>1, <2>2, <2>3
<1>3. \A q \in Processes \ {w} : pc'[q] = pc[q] /\ job'[q] = job[q]
  BY DEF IndInv, TypeOK, Finish, Goto
<1> QED
  BY <1>1, <1>2, <1>3, ReadStep

LEMMA RereadStep ==
    ASSUME IndInv, NEW w \in Workers, Reread(w)
    PROVE  IndInv'
<1> USE DEF Reread, db
<1>1. w \in Processes
  BY DEF Processes
<1>2. Ready(w)' /\ TypeOK'
  <2>1. CASE Finish(w)
    BY <1>1, <2>1, FinishReady DEF IndInv, TypeOK
  <2>2. ASSUME NEW r \in CurrentOpen(job[w].emp),
               Awaits(records[r], job[w].step),
               Chronological(Stamped(records[r], job[w].step, now).at),
               job' = [job EXCEPT ![w] =
                         Holding(job[w], r, Stamped(records[r], job[w].step, now))],
               Goto(w, "save")
        PROVE  Ready(w)' /\ TypeOK'
    <3> DEFINE row == Stamped(records[r], job[w].step, now)
    <3>1. /\ r \in DOMAIN records /\ r \in Nat /\ records[r] \in Row
          /\ records[r].emp = job[w].emp
          /\ RowIsDay(records[r]) /\ FlaggedWasStale(records[r])
      BY RowTypes DEF CurrentOpen, OpenRows, IndInv, RowsAreDays,
                      AutoClosedWereStale
    <3>2. job[w].emp \in Employees /\ job[w].step \in Steps \ {"entry"}
          /\ now \in Nat
      BY <1>1 DEF IndInv, Ready, TypeOK
    <3>3. /\ row \in Row /\ RowIsDay(row) /\ FlaggedWasStale(row)
          /\ row.emp = records[r].emp
          /\ row.at["entry"] = records[r].at["entry"]
          /\ row.at[job[w].step] = now /\ row.at["entry"] <= now
      BY <2>2, <3>1, <3>2, StampedRow
    <3>4. TypeOK'
      BY <1>1, <2>2, <3>1, <3>3 DEF IndInv, TypeOK, Labels, Job, Holding, Goto
    <3>5. /\ pc'[w] = "save" /\ job'[w].row = row /\ job'[w].rid = r
          /\ job'[w].emp = job[w].emp /\ job'[w].step = job[w].step
      BY <1>1, <2>2 DEF IndInv, TypeOK, Holding, Goto
    <3>6. SameShift(row, r)
      BY <3>1, <3>3 DEF SameShift
    <3>7. /\ SameShift(job[w].row, job[w].rid)'
          /\ RowIsDay(job[w].row)' /\ FlaggedWasStale(job[w].row)'
      BY <3>3, <3>5, <3>6 DEF SameShift, FlaggedWasStale, RowIsDay, Chronological
    <3>8. now # Null
      BY <3>2, TimeAssumption
    <3> QED
      BY <3>1, <3>2, <3>3, <3>4, <3>5, <3>7, <3>8 DEF Ready
  <2> QED
    BY <2>1, <2>2
<1>3. \A q \in Processes \ {w} : pc'[q] = pc[q] /\ job'[q] = job[q]
  BY DEF IndInv, TypeOK, Finish, Goto
<1> QED
  BY <1>1, <1>2, <1>3, ReadStep

LEMMA SaveRecordStep ==
    ASSUME IndInv, NEW w \in Workers, SaveRecord(w)
    PROVE  IndInv'
<1> USE DEF SaveRecord, Goto
<1> DEFINE row == job[w].row
           rid == IF job[w].step = "entry" THEN Len(records) + 1 ELSE job[w].rid
<1>1. w \in Processes
  BY DEF Processes
<1>2. /\ row \in Row /\ RowIsDay(row) /\ FlaggedWasStale(row)
      /\ job[w].emp \in Employees /\ job[w].step \in Steps
      /\ row.emp = job[w].emp
      /\ row.at[job[w].step] # Null /\ row.at["entry"] <= row.at[job[w].step]
  BY <1>1 DEF IndInv, Ready
<1>3. /\ records' \in Seq(Row) /\ KeepsShifts
      /\ RowsAreDays' /\ AutoClosedWereStale' /\ EventsPointToShift'
      /\ rid \in Nat /\ rid \in DOMAIN records'
      /\ records'[rid].emp = row.emp
      /\ records'[rid].at["entry"] = row.at["entry"]
  <2>1. CASE job[w].step = "entry"
    <3>1. Len(records) \in Nat
      BY RowTypes DEF IndInv
    <3> QED
      BY <1>2, <2>1, <3>1, InsertRow
  <2>2. CASE job[w].step # "entry"
    <3>1. SameShift(row, rid) /\ rid \in Nat
      BY <1>1, <2>2 DEF IndInv, Ready, TypeOK, Job
    <3>2. /\ records' \in Seq(Row) /\ KeepsShifts
          /\ RowsAreDays' /\ AutoClosedWereStale' /\ EventsPointToShift'
      BY <1>2, <2>2, <3>1, UpdateRow
    <3> QED
      BY <3>1, <3>2, <2>2 DEF SameShift, KeepsShifts
  <2> QED
    BY <2>1, <2>2
<1>4. TypeOK'
  <2>1. Holding(job[w], rid, row) \in Job
    BY <1>1, <1>2, <1>3 DEF IndInv, TypeOK, Job, Holding
  <2>2. job' \in [Processes -> Job]
    BY <2>1 DEF IndInv, TypeOK
  <2>3. pc' \in [Processes -> Labels]
    BY DEF IndInv, TypeOK, Labels
  <2> QED
    BY <1>3, <2>2, <2>3 DEF IndInv, TypeOK
<1>5. /\ pc'[w] = "event" /\ job'[w].emp = job[w].emp
      /\ job'[w].step = job[w].step /\ job'[w].row = row /\ job'[w].rid = rid
  BY <1>1 DEF IndInv, TypeOK, Holding
<1>6. Ready(w)'
  <2>1. SameShift(job[w].row, job[w].rid)'
    BY <1>3, <1>5 DEF SameShift
  <2>2. RowIsDay(job[w].row)' /\ FlaggedWasStale(job[w].row)'
    BY <1>2, <1>5 DEF FlaggedWasStale, RowIsDay, Chronological
  <2> QED
    BY <1>2, <1>5, <2>1, <2>2 DEF Ready
<1>7. \A q \in Processes \ {w} : pc'[q] = pc[q] /\ job'[q] = job[q]
  BY DEF IndInv, TypeOK
<1> QED
  BY <1>1, <1>3, <1>4, <1>6, <1>7, WriteStep

LEMMA CreateEventStep ==
    ASSUME IndInv, NEW w \in Workers, CreateEvent(w)
    PROVE  IndInv'
<1> DEFINE event == [emp |-> job[w].emp, step |-> job[w].step,
                     ts |-> job[w].row.at[job[w].step], rec |-> job[w].rid]
<1> USE DEF CreateEvent, LogEvent, Goto
<1>1. w \in Processes
  BY DEF Processes
<1>2. /\ job[w].emp \in Employees /\ job[w].step \in Steps /\ job[w].row \in Row
      /\ SameShift(job[w].row, job[w].rid) /\ job[w].row.emp = job[w].emp
      /\ event.ts # Null /\ job[w].row.at["entry"] <= event.ts
  BY <1>1 DEF IndInv, Ready
<1>3. job[w].rid \in Nat \ {0}
  BY <1>2, RowTypes DEF IndInv, SameShift
<1>4. event \in Event
  BY <1>2, <1>3 DEF Event, Row, Stamps
<1>5. events \in Seq(Event) /\ events' = Append(events, event)
  BY DEF IndInv, TypeOK
<1>6. /\ events' \in Seq(Event)
      /\ Len(events') = Len(events) + 1
      /\ \A k \in 1 .. Len(events) : events'[k] = events[k]
      /\ events'[Len(events) + 1] = event
  BY <1>4, <1>5, AppendProperties
<1>7. \A k \in DOMAIN events' : k \in DOMAIN events \/ k = Len(events) + 1
  BY <1>5, <1>6, LenProperties, RowTypes DEF IndInv
<1>8. EventsPointToShift'
  <2>1. ASSUME NEW k \in DOMAIN events PROVE events'[k] = events[k]
    BY <1>6, RowTypes DEF IndInv
  <2>2. /\ event.rec \in DOMAIN records
        /\ records[event.rec].emp = event.emp
        /\ records[event.rec].at["entry"] <= event.ts
    BY <1>2 DEF SameShift
  <2> QED
    BY <1>6, <1>7, <2>1, <2>2 DEF IndInv, EventsPointToShift
<1>9. TypeOK'
  BY <1>1, <1>6 DEF IndInv, TypeOK, Labels
<1>10. pc'[w] = "reply" /\ job' = job
  BY <1>1 DEF IndInv, TypeOK
<1>11. Ready(w)'
  BY <1>2, <1>10 DEF Ready
<1>12. KeepsShifts /\ RowsAreDays' /\ AutoClosedWereStale'
  BY DEF KeepsShifts, IndInv, RowsAreDays, RowIsDay, Chronological,
         AutoClosedWereStale, FlaggedWasStale
<1>13. \A q \in Processes \ {w} : pc'[q] = pc[q] /\ job'[q] = job[q]
  BY DEF IndInv, TypeOK
<1> QED
  BY <1>1, <1>8, <1>9, <1>11, <1>12, <1>13, WriteStep

LEMMA ReplyStep ==
    ASSUME IndInv, NEW w \in Workers, Reply(w)
    PROVE  IndInv'
<1> USE DEF Reply, db
<1>1. w \in Processes
  BY DEF Processes
<1>2. Ready(w)' /\ TypeOK'
  BY <1>1, FinishReady DEF IndInv, TypeOK
<1>3. \A q \in Processes \ {w} : pc'[q] = pc[q] /\ job'[q] = job[q]
  BY DEF IndInv, TypeOK, Finish, Goto
<1> QED
  BY <1>1, <1>2, <1>3, ReadStep

-----------------------------------------------------------------------------
(* Review, nightly command and the rest.                                   *)

LEMMA StartReviewStep ==
    ASSUME IndInv, NEW w \in Workers, NEW r \in DOMAIN records,
           NEW t \in 0 .. MaxTime, StartReview(w, r, t)
    PROVE  IndInv'
<1> DEFINE row == Stamped(records[r], "exit", t)
<1> USE DEF StartReview, db, Goto
<1>1. w \in Processes /\ t \in Nat /\ now \in Nat
  BY TimeAssumption DEF Processes, IndInv, TypeOK
<1>2. /\ r \in Nat /\ records[r] \in Row
      /\ RowIsDay(records[r]) /\ FlaggedWasStale(records[r])
  BY RowTypes DEF IndInv, RowsAreDays, AutoClosedWereStale
<1>3. "exit" \in Steps \ {"entry"} /\ Awaits(records[r], "exit")
  BY DEF Steps, Awaits
<1>4. /\ row \in Row /\ RowIsDay(row) /\ FlaggedWasStale(row)
      /\ row.emp = records[r].emp
      /\ row.at["entry"] = records[r].at["entry"]
  BY <1>1, <1>2, <1>3, StampedRow
<1>5. TypeOK'
  BY <1>1, <1>2, <1>4 DEF IndInv, TypeOK, Labels, Job
<1>6. pc'[w] = "review_save" /\ job'[w].row = row /\ job'[w].rid = r
  BY <1>1 DEF IndInv, TypeOK
<1>7. /\ SameShift(job[w].row, job[w].rid)'
      /\ RowIsDay(job[w].row)' /\ FlaggedWasStale(job[w].row)'
  BY <1>4, <1>6 DEF SameShift, FlaggedWasStale, RowIsDay, Chronological
<1>8. Ready(w)'
  BY <1>4, <1>6, <1>7 DEF Ready
<1>9. \A q \in Processes \ {w} : pc'[q] = pc[q] /\ job'[q] = job[q]
  BY DEF IndInv, TypeOK
<1> QED
  BY <1>1, <1>5, <1>8, <1>9, ReadStep

LEMMA SaveReviewStep ==
    ASSUME IndInv, NEW w \in Workers, SaveReview(w)
    PROVE  IndInv'
<1> USE DEF SaveReview
<1>1. w \in Processes
  BY DEF Processes
<1>2. /\ job[w].row \in Row /\ RowIsDay(job[w].row)
      /\ FlaggedWasStale(job[w].row) /\ SameShift(job[w].row, job[w].rid)
  BY <1>1 DEF IndInv, Ready
<1>3. /\ records' \in Seq(Row) /\ KeepsShifts
      /\ RowsAreDays' /\ AutoClosedWereStale' /\ EventsPointToShift'
  BY <1>2, UpdateRow
<1>4. Ready(w)' /\ TypeOK'
  BY <1>1, <1>3, FinishReady DEF IndInv, TypeOK
<1>5. \A q \in Processes \ {w} : pc'[q] = pc[q] /\ job'[q] = job[q]
  BY DEF IndInv, TypeOK, Finish, Goto
<1> QED
  BY <1>1, <1>3, <1>4, <1>5, WriteStep

LEMMA StartCronStep ==
    ASSUME IndInv, NEW c \in Crons, StartCron(c)
    PROVE  IndInv'
<1> USE DEF StartCron, db, Goto
<1> DEFINE visit == {<<records[r].emp, records[r].at["entry"]>> :
                        r \in {q \in DOMAIN records : IsOpen(records[q])}}
<1>1. c \in Processes /\ c \notin Workers
  BY ProcessAssumption DEF Processes
<1>2. \A r \in DOMAIN records :
        records[r].emp \in Employees /\ records[r].at["entry"] \in Nat
  BY RowTypes, EntryIsTime DEF IndInv, RowsAreDays, Row
<1>3. visit \in SUBSET (Employees \X Nat)
  BY <1>2
<1>4. TypeOK'
  BY <1>1, <1>3 DEF IndInv, TypeOK, Labels
<1>5. pc'[c] = "next"
  BY <1>1 DEF IndInv, TypeOK
<1>6. Ready(c)'
  BY <1>1, <1>5 DEF Ready
<1>7. \A q \in Processes \ {c} : pc'[q] = pc[q] /\ job'[q] = job[q]
  BY DEF IndInv, TypeOK
<1> QED
  BY <1>1, <1>4, <1>6, <1>7, ReadStep

LEMMA CronCheckStaleStep ==
    ASSUME IndInv, NEW c \in Crons, CronCheckStale(c)
    PROVE  IndInv'
<1> USE DEF CronCheckStale, db, Goto
<1>1. c \in Processes /\ c \notin Workers
  BY ProcessAssumption DEF Processes
<1>2. todo' \in [Crons -> SUBSET (Employees \X Nat)]
  BY DEF IndInv, TypeOK
<1>3. Ready(c)' /\ TypeOK'
  <2>1. CASE UNCHANGED <<pc, job>>
    <3>1. Ready(c)'
      BY <1>1, <2>1 DEF IndInv, Ready
    <3> QED
      BY <1>2, <2>1, <3>1 DEF IndInv, TypeOK
  <2>2. ASSUME NEW e, NEW r \in CurrentOpen(e), IsStale(records[r]),
               job' = [job EXCEPT ![c] = Holding(NoJob, r, Flagged(records[r]))],
               Goto(c, "close_save")
        PROVE  Ready(c)' /\ TypeOK'
    <3> DEFINE f == Flagged(records[r])
    <3>1. r \in DOMAIN records
      BY DEF CurrentOpen, OpenRows
    <3>2. /\ f \in Row /\ RowIsDay(f) /\ FlaggedWasStale(f)
          /\ SameShift(f, r) /\ r \in Nat
      BY <2>2, <3>1, StaleSnapshot
    <3>3. /\ job'[c].rid = r /\ job'[c].row = f
          /\ pc'[c] = "close_save"
      BY <1>1, <2>2 DEF IndInv, TypeOK, Holding
    <3>4. TypeOK'
      BY <1>1, <1>2, <2>2, <3>2 DEF IndInv, TypeOK, Job, Labels, Holding, NoJob
    <3>5. SameShift(f, r)' /\ RowIsDay(f)' /\ FlaggedWasStale(f)'
      BY <3>2 DEF SameShift, RowIsDay, FlaggedWasStale, Chronological
    <3> QED
      BY <1>1, <3>2, <3>3, <3>4, <3>5 DEF Ready
  <2> QED
    BY <2>1, <2>2
<1>4. \A q \in Processes \ {c} : pc'[q] = pc[q] /\ job'[q] = job[q]
  BY DEF IndInv, TypeOK
<1> QED
  BY <1>1, <1>3, <1>4, ReadStep

LEMMA CronSaveAutoClosedStep ==
    ASSUME IndInv, NEW c \in Crons, CronSaveAutoClosed(c)
    PROVE  IndInv'
<1> USE DEF CronSaveAutoClosed, Goto
<1>1. c \in Processes /\ c \notin Workers
  BY ProcessAssumption DEF Processes
<1>2. /\ job[c].row \in Row /\ RowIsDay(job[c].row)
      /\ FlaggedWasStale(job[c].row) /\ SameShift(job[c].row, job[c].rid)
  BY <1>1 DEF IndInv, Ready
<1>3. /\ records' \in Seq(Row) /\ KeepsShifts
      /\ RowsAreDays' /\ AutoClosedWereStale' /\ EventsPointToShift'
  BY <1>2, UpdateRow
<1>4. TypeOK'
  BY <1>1, <1>3 DEF IndInv, TypeOK, Labels, Job, NoJob
<1>5. pc'[c] = "next"
  BY <1>1 DEF IndInv, TypeOK
<1>6. Ready(c)'
  BY <1>1, <1>5 DEF Ready
<1>7. \A q \in Processes \ {c} : pc'[q] = pc[q] /\ job'[q] = job[q]
  BY DEF IndInv, TypeOK
<1> QED
  BY <1>1, <1>3, <1>4, <1>6, <1>7, WriteStep

LEMMA FinishCronStep ==
    ASSUME IndInv, NEW c \in Crons, FinishCron(c)
    PROVE  IndInv'
<1> USE DEF FinishCron, db
<1>1. c \in Processes
  BY DEF Processes
<1>2. Ready(c)' /\ TypeOK'
  BY <1>1, FinishReady DEF IndInv, TypeOK
<1>3. \A q \in Processes \ {c} : pc'[q] = pc[q] /\ job'[q] = job[q]
  BY DEF IndInv, TypeOK, Finish, Goto
<1> QED
  BY <1>1, <1>2, <1>3, ReadStep

LEMMA CrashStep ==
    ASSUME IndInv, NEW p \in Processes, Crash(p)
    PROVE  IndInv'
<1> USE DEF Crash, db
<1>1. todo' \in [Crons -> SUBSET (Employees \X Nat)]
  BY DEF IndInv, TypeOK
<1>2. Ready(p)' /\ TypeOK'
  BY <1>1, FinishReady DEF IndInv, TypeOK
<1>3. \A q \in Processes \ {p} : pc'[q] = pc[q] /\ job'[q] = job[q]
  BY DEF IndInv, TypeOK, Finish, Goto
<1> QED
  BY <1>2, <1>3, ReadStep

\* Time, and a change of is_active, move no process.
LEMMA EnvironmentStep ==
    ASSUME IndInv, TypeOK', UNCHANGED <<records, events, pc, job>>, now <= now'
    PROVE  IndInv'
<1>1. KeepsShifts
  BY DEF KeepsShifts
<1>2. \A q \in Processes : Ready(q)'
  BY <1>1, OthersStayReady DEF IndInv, TypeOK
<1>3. RowsAreDays' /\ EventsPointToShift'
  BY DEF IndInv, RowsAreDays, RowIsDay, Chronological, EventsPointToShift
<1>4. AutoClosedWereStale'
  <2>1. \A r \in DOMAIN records : records[r].at["entry"] \in Nat
    BY RowTypes, EntryIsTime DEF IndInv, RowsAreDays
  <2>2. \A r \in DOMAIN records : FlaggedWasStale(records[r])
    BY DEF IndInv, AutoClosedWereStale
  <2>3. now \in Nat /\ now' \in Nat /\ MaxOpen \in Nat
    BY TimeAssumption DEF IndInv, TypeOK
  <2> QED
    BY <2>1, <2>2, <2>3 DEF AutoClosedWereStale, FlaggedWasStale
<1> QED
  BY <1>2, <1>3, <1>4 DEF IndInv

-----------------------------------------------------------------------------
(* The invariant, and what follows from it.                                *)

LEMMA InitIndInv == Init => IndInv
<1> SUFFICES ASSUME Init PROVE IndInv
  OBVIOUS
<1> USE DEF Init
<1>1. /\ records \in Seq(Row) /\ DOMAIN records = {}
      /\ events \in Seq(Event) /\ DOMAIN events = {}
  BY EmptySeq
<1>2. TypeOK
  BY <1>1 DEF TypeOK, Labels, Job, NoJob
<1>3. \A p \in Processes : Ready(p)
  BY DEF Ready
<1>4. RowsAreDays /\ AutoClosedWereStale /\ EventsPointToShift
  BY <1>1 DEF RowsAreDays, AutoClosedWereStale, EventsPointToShift
<1> QED
  BY <1>2, <1>3, <1>4 DEF IndInv

\* Every statement of every process preserves the invariant.
LEMMA NextIndInv == IndInv /\ [Next]_vars => IndInv'
<1> SUFFICES ASSUME IndInv, [Next]_vars PROVE IndInv'
  OBVIOUS
<1>1. ASSUME NEW w \in Workers, NEW e \in Employees, ReceiveScan(w, e)
      PROVE  IndInv'
  BY <1>1, ReceiveScanStep
<1>2. ASSUME NEW w \in Workers, HandleScan(w)
      PROVE  IndInv'
  BY <1>2, CheckCooldownStep, CheckStaleStep, SaveAutoClosedStep, DispatchStep,
     CheckStillActiveStep, RereadStep, SaveRecordStep, CreateEventStep, ReplyStep
     DEF HandleScan
<1>3. ASSUME NEW w \in Workers, NEW r \in DOMAIN records, NEW t \in 0 .. MaxTime,
             StartReview(w, r, t)
      PROVE  IndInv'
  BY <1>3, StartReviewStep
<1>4. ASSUME NEW w \in Workers, SaveReview(w)
      PROVE  IndInv'
  BY <1>4, SaveReviewStep
<1>5. ASSUME NEW c \in Crons, RunCron(c)
      PROVE  IndInv'
  BY <1>5, StartCronStep, CronCheckStaleStep, CronSaveAutoClosedStep,
     FinishCronStep DEF RunCron
<1>6. ASSUME NEW p \in Processes, Crash(p)
      PROVE  IndInv'
  BY <1>6, CrashStep
<1>7. ASSUME NEW e \in Employees, SetActive(e)
      PROVE  IndInv'
  <2>1. TypeOK'
    BY <1>7 DEF SetActive, db, IndInv, TypeOK
  <2> QED
    BY <1>7, <2>1, EnvironmentStep DEF SetActive, db, IndInv, TypeOK
<1>8. CASE Tick
  <2>1. TypeOK' /\ now <= now'
    BY <1>8 DEF Tick, db, IndInv, TypeOK
  <2> QED
    BY <1>8, <2>1, EnvironmentStep DEF Tick, db
<1>9. CASE UNCHANGED vars
  <2>1. TypeOK' /\ now <= now'
    BY <1>9 DEF vars, IndInv, TypeOK
  <2> QED
    BY <1>9, <2>1, EnvironmentStep DEF vars
<1> QED
  BY <1>1, <1>2, <1>3, <1>4, <1>5, <1>6, <1>7, <1>8, <1>9 DEF Next

\* At every statement of every process the tables and the locals agree.
THEOREM IndInvHolds == Spec => []IndInv
<1> QED
  BY InitIndInv, NextIndInv, PTL DEF Spec

\* The columns and the handlers' locals are typed, and every event has a row.
THEOREM TypeCorrect == Spec => []TypeOK
<1>1. IndInv => TypeOK
  BY DEF IndInv
<1> QED
  BY <1>1, IndInvHolds, PTL

\* What the row table holds is always a possible day, however many workers,
\* nightly runs and reviews overwrite one another from stale snapshots.
THEOREM RowsStayDays == Spec => []RowsAreDays
<1>1. IndInv => RowsAreDays
  BY DEF IndInv
<1> QED
  BY <1>1, IndInvHolds, PTL

\* No shift is flagged before MAX_OPEN_DURATION is over.
THEOREM OnlyStaleShiftsFlagged == Spec => []AutoClosedWereStale
<1>1. IndInv => AutoClosedWereStale
  BY DEF IndInv
<1> QED
  BY <1>1, IndInvHolds, PTL

\* No event is left without its shift, or moved to someone else's.
THEOREM EventsKeepTheirShift == Spec => []EventsPointToShift
<1>1. IndInv => EventsPointToShift
  BY DEF IndInv
<1> QED
  BY <1>1, IndInvHolds, PTL

-----------------------------------------------------------------------------
(* How many shifts overlapping requests can leave open.                    *)

\* The rows that such a worker is about to open again.
HeldRows(e) == {job[w].rid : w \in Reopening(e)}

Bound(e) ==
    Cardinality(MayBeOpen(e)) + Cardinality(Entering(e)) <= Cardinality(Workers)

SnapshotsClosed ==
    \A p \in Processes :
        pc[p] \in {"close_save", "review_save"} => ~IsOpen(job[p].row)

LEMMA RaceSets ==
    ASSUME TypeOK, NEW e
    PROVE  /\ IsFiniteSet(OpenRows(e))
           /\ IsFiniteSet(Reopening(e)) /\ IsFiniteSet(Entering(e))
           /\ IsFiniteSet(HeldRows(e))
           /\ Cardinality(HeldRows(e)) <= Cardinality(Reopening(e))
           /\ IsFiniteSet(MayBeOpen(e))
<1>1. IsFiniteSet(OpenRows(e))
  <2>1. DOMAIN records = 1 .. Len(records) /\ Len(records) \in Nat
    BY RowTypes
  <2>2. IsFiniteSet(1 .. Len(records))
    BY <2>1, FS_Interval
  <2>3. OpenRows(e) \subseteq 1 .. Len(records)
    BY <2>1 DEF OpenRows
  <2> QED
    BY <2>2, <2>3, FS_Subset
<1>2. IsFiniteSet(Reopening(e)) /\ IsFiniteSet(Entering(e))
  BY ProcessAssumption, FS_Subset DEF Reopening, Entering
<1>3. IsFiniteSet(HeldRows(e)) /\ Cardinality(HeldRows(e)) <= Cardinality(Reopening(e))
  <2> DEFINE f == [w \in Reopening(e) |-> job[w].rid]
  <2>1. f \in Surjection(Reopening(e), HeldRows(e))
    BY DEF Surjection, HeldRows
  <2> QED
    BY <1>2, <2>1, FS_Surjection
<1>4. IsFiniteSet(MayBeOpen(e))
  BY <1>1, <1>3, FS_Union DEF MayBeOpen, HeldRows
<1> QED
  BY <1>1, <1>2, <1>3, <1>4

\* While no row is open the bound holds of itself: an entry and a snapshot that
\* reopens a row are in the hands of different workers.
LEMMA NoOpenRows ==
    ASSUME TypeOK, NEW e, OpenRows(e) = {}
    PROVE  Bound(e)
<1> DEFINE R == Reopening(e)
           E == Entering(e)
<1>1. IsFiniteSet(R) /\ IsFiniteSet(E) /\ Cardinality(HeldRows(e)) <= Cardinality(R)
      /\ IsFiniteSet(HeldRows(e))
  BY RaceSets
<1>2. R \cap E = {}
  BY DEF Reopening, Entering
<1>3. R \cup E \subseteq Workers
  BY DEF Reopening, Entering
<1>4. /\ Cardinality(R \cup E) = Cardinality(R) + Cardinality(E) - Cardinality(R \cap E)
      /\ IsFiniteSet(R \cup E)
  BY <1>1, FS_Union
<1>5. Cardinality(R \cap E) = 0
  BY <1>2, FS_EmptySet
<1>6. Cardinality(R \cup E) <= Cardinality(Workers)
  BY <1>3, ProcessAssumption, FS_Subset
<1>7. {Cardinality(R), Cardinality(E), Cardinality(HeldRows(e)),
       Cardinality(Workers), Cardinality(R \cup E)} \subseteq Nat
  BY <1>1, <1>4, ProcessAssumption, FS_CardinalityType
<1>8. MayBeOpen(e) = HeldRows(e)
  BY DEF MayBeOpen, HeldRows
<1> HIDE DEF R, E
<1>9. Cardinality(HeldRows(e)) + Cardinality(E) <= Cardinality(Workers)
  BY <1>1, <1>4, <1>5, <1>6, <1>7
<1> QED
  BY <1>8, <1>9 DEF Bound, E

\* A finite set of indices has one with the largest number.
LEMMA HasLargest ==
    ASSUME NEW I, IsFiniteSet(I), I # {}, NEW f, \A i \in I : f[i] \in Nat
    PROVE  \E i \in I : \A j \in I : f[j] <= f[i]
<1> DEFINE Above(i) == {j \in I : f[i] < f[j]}
           T == {Above(i) : i \in I}
<1>1. IsWellFoundedOn(StrictSubsetOrdering(I), FiniteSubsetsOf(I))
  BY FS_StrictSubsetOrderingWellFounded
<1>2. T \subseteq FiniteSubsetsOf(I) /\ T # {}
  <2>1. T \subseteq SUBSET I /\ T # {}
    OBVIOUS
  <2>2. FiniteSubsetsOf(I) = SUBSET I
    BY FS_FiniteSubsetsOfFinite
  <2> QED
    BY <2>1, <2>2
<1>3. PICK t \in T : \A u \in T : <<u, t>> \notin StrictSubsetOrdering(I)
  <2> HIDE DEF T
  <2> QED
    BY <1>1, <1>2, WFMin
<1>4. PICK i \in I : t = Above(i)
  OBVIOUS
<1>5. ASSUME NEW j \in I, f[i] < f[j] PROVE FALSE
  <2>1. Above(j) \subseteq Above(i) /\ j \in Above(i) /\ j \notin Above(j)
    BY <1>5
  <2>2. <<Above(j), Above(i)>> \in StrictSubsetOrdering(I)
    BY <2>1 DEF StrictSubsetOrdering
  <2> QED
    BY <1>3, <1>4, <2>2
<1> QED
  BY <1>5

\* The same of the next state.
LEMMA NoOpenRowsNext ==
    (TypeOK => \A e \in Employees : OpenRows(e) = {} => Bound(e))'
<1>1. TypeOK => \A e \in Employees : OpenRows(e) = {} => Bound(e)
  BY NoOpenRows
<1> QED
  BY <1>1, PTL

\* If any row of an employee is open, one of them is the newest.
LEMMA NewestOpen ==
    ASSUME IndInv, NEW e, CurrentOpen(e) = {}
    PROVE  OpenRows(e) = {}
<1> SUFFICES ASSUME OpenRows(e) # {} PROVE FALSE
  OBVIOUS
<1> DEFINE f == [r \in OpenRows(e) |-> records[r].at["entry"]]
<1>1. \A r \in OpenRows(e) : f[r] \in Nat
  BY RowTypes, EntryIsTime DEF OpenRows, IndInv, RowsAreDays
<1>2. IsFiniteSet(OpenRows(e))
  BY RaceSets DEF IndInv
<1>3. PICK r \in OpenRows(e) : \A q \in OpenRows(e) : f[q] <= f[r]
  <2> HIDE DEF f
  <2> QED
    BY <1>1, <1>2, HasLargest
<1> QED
  BY <1>3 DEF CurrentOpen

\* A step that opens nothing for e and lets nobody begin an entry.
LEMMA BoundStays ==
    ASSUME TypeOK, NEW e, Bound(e),
           MayBeOpen(e)' \subseteq MayBeOpen(e), Entering(e)' \subseteq Entering(e)
    PROVE  Bound(e)'
<1>1. IsFiniteSet(MayBeOpen(e)) /\ IsFiniteSet(Entering(e))
  BY RaceSets
<1>2. /\ IsFiniteSet(MayBeOpen(e)') /\ IsFiniteSet(Entering(e)')
      /\ Cardinality(MayBeOpen(e)') <= Cardinality(MayBeOpen(e))
      /\ Cardinality(Entering(e)') <= Cardinality(Entering(e))
  BY <1>1, FS_Subset
<1>3. {Cardinality(MayBeOpen(e)), Cardinality(MayBeOpen(e)'), Cardinality(Entering(e)),
       Cardinality(Entering(e)'), Cardinality(Workers)} \subseteq Nat
  BY <1>1, <1>2, ProcessAssumption, FS_CardinalityType
<1>4. Cardinality(MayBeOpen(e)) + Cardinality(Entering(e)) <= Cardinality(Workers)
  BY DEF Bound
<1>5. Cardinality(MayBeOpen(e)') + Cardinality(Entering(e)') <= Cardinality(Workers)
  BY <1>2, <1>3, <1>4
<1> QED
  BY <1>5 DEF Bound

\* An entry that is inserted becomes the row it stood for.
LEMMA EntryBecomesRow ==
    ASSUME TypeOK, NEW e, Bound(e), NEW w \in Entering(e), NEW n,
           MayBeOpen(e)' \subseteq MayBeOpen(e) \cup {n},
           Entering(e)' \subseteq Entering(e) \ {w}
    PROVE  Bound(e)'
<1> DEFINE M == MayBeOpen(e) \cup {n}
           E == Entering(e) \ {w}
<1>1. IsFiniteSet(MayBeOpen(e)) /\ IsFiniteSet(Entering(e))
  BY RaceSets
<1>2. /\ IsFiniteSet(M) /\ IsFiniteSet(E)
      /\ Cardinality(M) <= Cardinality(MayBeOpen(e)) + 1
      /\ Cardinality(E) = Cardinality(Entering(e)) - 1
  <2>1. Cardinality(MayBeOpen(e)) \in Nat
    BY <1>1, FS_CardinalityType
  <2>2. IsFiniteSet(M) /\ Cardinality(M) = IF n \in MayBeOpen(e) THEN Cardinality(MayBeOpen(e))
                                           ELSE Cardinality(MayBeOpen(e)) + 1
    BY <1>1, FS_AddElement
  <2>3. IsFiniteSet(E) /\ Cardinality(E) = Cardinality(Entering(e)) - 1
    BY <1>1, FS_RemoveElement
  <2> QED
    BY <2>1, <2>2, <2>3
<1>3. /\ IsFiniteSet(MayBeOpen(e)') /\ IsFiniteSet(Entering(e)')
      /\ Cardinality(MayBeOpen(e)') <= Cardinality(M)
      /\ Cardinality(Entering(e)') <= Cardinality(E)
  BY <1>2, FS_Subset
<1>4. {Cardinality(MayBeOpen(e)), Cardinality(MayBeOpen(e)'), Cardinality(Entering(e)),
       Cardinality(Entering(e)'), Cardinality(Workers), Cardinality(M), Cardinality(E)}
         \subseteq Nat
  BY <1>1, <1>2, <1>3, ProcessAssumption, FS_CardinalityType
<1>5. Cardinality(MayBeOpen(e)) + Cardinality(Entering(e)) <= Cardinality(Workers)
  BY DEF Bound
<1> HIDE DEF M, E
<1>6. Cardinality(MayBeOpen(e)') + Cardinality(Entering(e)') <= Cardinality(Workers)
  BY <1>2, <1>3, <1>4, <1>5
<1> QED
  BY <1>6 DEF Bound

\* What a statement of p does to the rest: nothing.
OnlyMoves(p) == \A q \in Processes \ {p} : pc'[q] = pc[q] /\ job'[q] = job[q]

\* A statement of p that leaves the tables alone.
LEMMA RaceReadStep ==
    ASSUME RaceInv, NEW p \in Processes, OnlyMoves(p),
           UNCHANGED records, IndInv,
           pc'[p] \in {"close_save", "review_save"} => ~IsOpen(job'[p].row),
           \A e : p \in Entering(e)' => p \in Entering(e),
           \A e : p \in Reopening(e)' => job'[p].rid \in OpenRows(e)
    PROVE  RaceInv'
<1>1. ASSUME NEW e \in Employees PROVE Bound(e)'
  <2>1. OpenRows(e)' = OpenRows(e)
    BY DEF OpenRows
  <2>2. \A w \in Workers : w # p =>
           /\ w \in Entering(e)' => w \in Entering(e)
           /\ w \in Reopening(e)' => w \in Reopening(e) /\ job'[w].rid = job[w].rid
    BY DEF OnlyMoves, Entering, Reopening, Processes, IsOpen
  <2>3. Entering(e)' \subseteq Entering(e)
    <3>1. Entering(e)' \subseteq Workers
      BY DEF Entering
    <3> QED
      BY <2>2, <3>1
  <2>4. MayBeOpen(e)' \subseteq MayBeOpen(e)
    <3>1. Reopening(e)' \subseteq Workers
      BY DEF Reopening
    <3>2. ASSUME NEW w \in Reopening(e)' PROVE job'[w].rid \in MayBeOpen(e)
      <4>1. CASE w = p
        BY <4>1 DEF MayBeOpen
      <4>2. CASE w # p
        <5>1. w \in Reopening(e) /\ job'[w].rid = job[w].rid
          BY <2>2, <3>1, <4>2
        <5> QED
          BY <5>1 DEF MayBeOpen
      <4> QED
        BY <4>1, <4>2
    <3> QED
      BY <2>1, <3>2 DEF MayBeOpen
  <2> QED
    BY <2>3, <2>4, BoundStays DEF RaceInv, IndInv, Bound
<1>2. SnapshotsClosed'
  BY DEF RaceInv, SnapshotsClosed, OnlyMoves, IsOpen
<1> QED
  BY <1>1, <1>2 DEF RaceInv, Bound, SnapshotsClosed

\* An UPDATE that does not open a row, by a worker that forgets it.
LEMMA RaceUpdateStep ==
    ASSUME RaceInv, IndInv, NEW p \in Processes, OnlyMoves(p), NEW r, NEW row,
           records' = [records EXCEPT ![r] = row],
           IsOpen(row) => /\ row.emp = job[p].emp /\ job[p].rid = r
                          /\ p \in Workers /\ pc[p] = "save" /\ job[p].step # "entry"
                          /\ job[p].row = row,
           pc'[p] \notin {"close_save", "review_save", "active", "save"}
    PROVE  RaceInv'
<1>1. ASSUME NEW e \in Employees PROVE Bound(e)'
  <2>1. OpenRows(e)' \subseteq OpenRows(e) \cup {q \in {r} : IsOpen(row) /\ row.emp = e}
    BY DEF OpenRows
  <2>2. IsOpen(row) /\ row.emp = e => r \in MayBeOpen(e)
    BY DEF MayBeOpen, Reopening
  <2>3. \A w \in Workers : w # p =>
           /\ w \in Entering(e)' => w \in Entering(e)
           /\ w \in Reopening(e)' => w \in Reopening(e) /\ job'[w].rid = job[w].rid
    BY DEF OnlyMoves, Entering, Reopening, Processes, IsOpen
  <2>4. /\ Entering(e)' \subseteq Workers /\ Reopening(e)' \subseteq Workers
        /\ p \notin Entering(e)' /\ p \notin Reopening(e)'
    BY DEF Entering, Reopening
  <2>5. Entering(e)' \subseteq Entering(e)
    BY <2>3, <2>4
  <2>6. \A w \in Reopening(e)' : w \in Reopening(e) /\ job'[w].rid = job[w].rid
    BY <2>3, <2>4
  <2>7. MayBeOpen(e)' \subseteq MayBeOpen(e)
    BY <2>1, <2>2, <2>6 DEF MayBeOpen
  <2> QED
    BY <2>5, <2>7, BoundStays DEF RaceInv, IndInv, Bound
<1>2. SnapshotsClosed'
  BY DEF RaceInv, SnapshotsClosed, OnlyMoves, IsOpen
<1> QED
  BY <1>1, <1>2 DEF RaceInv, Bound, SnapshotsClosed

\* A row with an exit or a flag is closed.
LEMMA ClosedRow ==
    ASSUME NEW row \in Row
    PROVE  /\ ~IsOpen(Flagged(row))
           /\ \A t \in Nat : ~IsOpen(Stamped(row, "exit", t))
BY TimeAssumption DEF IsOpen, Flagged, Stamped, Row, Stamps, Steps

LEMMA RaceScanStep ==
    ASSUME RaceInv, IndInv, NEW w \in Workers, HandleScan(w)
    PROVE  RaceInv'
<1>0. w \in Processes /\ TypeOK
  BY DEF Processes, IndInv
<1>1. OnlyMoves(w)
  BY <1>0 DEF OnlyMoves, HandleScan, CheckCooldown, CheckStale, SaveAutoClosed, Dispatch,
         CheckStillActive, Reread, SaveRecord, CreateEvent, LogEvent, Reply, Finish, Goto,
         TypeOK
<1>2. CASE CheckCooldown(w)
  <2>1. pc'[w] \in {"idle", "close_read"} /\ records' = records
    BY <1>0, <1>2 DEF CheckCooldown, Finish, Goto, TypeOK, db
  <2> QED
    BY <1>0, <1>1, <2>1, RaceReadStep DEF Entering, Reopening
<1>3. CASE CheckStale(w)
  <2>1. records' = records
    BY <1>3 DEF CheckStale, db
  <2>2. CASE pc'[w] = "dispatch"
    BY <1>0, <1>1, <2>1, <2>2, RaceReadStep DEF Entering, Reopening
  <2>3. CASE pc'[w] # "dispatch"
    <3>1. PICK r \in CurrentOpen(job[w].emp) :
                 /\ job' = [job EXCEPT ![w] = Holding(job[w], r, Flagged(records[r]))]
                 /\ Goto(w, "close_save")
      BY <1>0, <1>3, <2>3 DEF CheckStale, Goto, TypeOK
    <3>2. records[r] \in Row
      BY <1>0, RowTypes DEF CurrentOpen, OpenRows
    <3>3. pc'[w] = "close_save" /\ job'[w].row = Flagged(records[r])
      BY <1>0, <3>1 DEF Goto, Holding, TypeOK
    <3> QED
      BY <1>0, <1>1, <2>1, <3>2, <3>3, ClosedRow, RaceReadStep DEF Entering, Reopening, IsOpen
  <2> QED
    BY <2>2, <2>3
<1>4. CASE SaveAutoClosed(w)
  <2>1. ~IsOpen(job[w].row)
    BY <1>0, <1>4 DEF SaveAutoClosed, RaceInv
  <2>2. pc'[w] = "dispatch" /\ records' = [records EXCEPT ![job[w].rid] = job[w].row]
    BY <1>0, <1>4 DEF SaveAutoClosed, Goto, TypeOK
  <2> QED
    BY <1>0, <1>1, <2>1, <2>2, RaceUpdateStep
<1>5. CASE Dispatch(w)
  <2>1. /\ records' = records /\ pc'[w] = "active"
        /\ job'[w].emp = job[w].emp
        /\ job'[w].step = "entry" => OpenRows(job[w].emp) = {}
    <3>1. records' = records /\ pc'[w] = "active"
      BY <1>0, <1>5 DEF Dispatch, Goto, TypeOK, db
    <3>2. ASSUME NEW r, job' = [job EXCEPT ![w].step = StepFor(records[r])]
          PROVE  job'[w].emp = job[w].emp /\ job'[w].step # "entry"
      BY <1>0, <3>2, StepForIsStep DEF TypeOK, Job
    <3>3. CASE CurrentOpen(job[w].emp) = {} /\ job' = [job EXCEPT ![w].step = "entry"]
      <4>1. OpenRows(job[w].emp) = {}
        BY <1>0, <3>3, NewestOpen
      <4> QED
        BY <1>0, <3>1, <3>3, <4>1 DEF TypeOK, Job
    <3> QED
      BY <1>5, <3>1, <3>2, <3>3 DEF Dispatch
  <2>2. CASE job'[w].step = "entry"
    <3>1. ASSUME NEW e \in Employees PROVE Bound(e)'
      <4>1. CASE e = job[w].emp
        <5>1. OpenRows(e)' = {}
          BY <2>1, <2>2, <4>1 DEF OpenRows
        <5>2. TypeOK'
          BY <1>5, DispatchStep DEF IndInv
        <5> QED
          BY <5>1, <5>2, NoOpenRowsNext
      <4>2. CASE e # job[w].emp
        <5>1. Entering(e)' = Entering(e)
          BY <2>1, <4>2, <1>1 DEF OnlyMoves, Entering, Processes
        <5>2. Reopening(e)' = Reopening(e)
          BY <2>1, <4>2, <1>1 DEF OnlyMoves, Reopening, Processes, IsOpen
        <5>3. \A v \in Reopening(e) : job'[v].rid = job[v].rid
          BY <1>1, <1>5 DEF OnlyMoves, Reopening, Processes, Dispatch
        <5>4. MayBeOpen(e)' = MayBeOpen(e)
          BY <2>1, <5>2, <5>3 DEF MayBeOpen, OpenRows
        <5> QED
          BY <1>0, <5>1, <5>4, BoundStays DEF RaceInv, Bound
      <4> QED
        BY <4>1, <4>2
    <3>2. SnapshotsClosed'
      BY <1>1, <2>1 DEF RaceInv, SnapshotsClosed, OnlyMoves, IsOpen
    <3> QED
      BY <3>1, <3>2 DEF RaceInv, Bound, SnapshotsClosed
  <2>3. CASE job'[w].step # "entry"
    BY <1>0, <1>1, <2>1, <2>3, RaceReadStep DEF Entering, Reopening
  <2> QED
    BY <2>2, <2>3
<1>6. CASE CheckStillActive(w)
  <2>1. records' = records
    BY <1>6 DEF CheckStillActive, db
  <2>2. CASE pc'[w] \in {"idle", "reread"}
    BY <1>0, <1>1, <2>1, <2>2, RaceReadStep DEF Entering, Reopening
  <2>3. CASE pc'[w] \notin {"idle", "reread"}
    <3>1. /\ pc[w] = "active" /\ pc'[w] = "save" /\ job[w].step = "entry"
          /\ job'[w].step = "entry" /\ job'[w].emp = job[w].emp
      BY <1>0, <1>6, <2>3 DEF CheckStillActive, Finish, Goto, TypeOK, Holding
    <3> QED
      BY <1>0, <1>1, <2>1, <3>1, RaceReadStep DEF Entering, Reopening
  <2> QED
    BY <2>2, <2>3
<1>7. CASE Reread(w)
  <2>1. records' = records
    BY <1>7 DEF Reread, db
  <2>2. CASE pc'[w] = "idle"
    BY <1>0, <1>1, <2>1, <2>2, RaceReadStep DEF Entering, Reopening
  <2>3. CASE pc'[w] # "idle"
    <3>1. PICK r \in CurrentOpen(job[w].emp) :
             /\ job' = [job EXCEPT ![w] =
                          Holding(job[w], r, Stamped(records[r], job[w].step, now))]
             /\ Goto(w, "save")
      BY <1>0, <1>7, <2>3 DEF Reread, Finish, Goto, TypeOK
    <3>2. /\ pc'[w] = "save" /\ job'[w].rid = r /\ job'[w].emp = job[w].emp
          /\ job'[w].step = job[w].step /\ job[w].step # "entry"
      BY <1>0, <1>7, <3>1 DEF Goto, Holding, TypeOK, Reread, IndInv, Ready
    <3>3. r \in OpenRows(job[w].emp)
      BY DEF CurrentOpen
    <3> QED
      BY <1>0, <1>1, <2>1, <3>2, <3>3, RaceReadStep DEF Entering, Reopening
  <2> QED
    BY <2>2, <2>3
<1>8. CASE SaveRecord(w)
  <2>1. CASE job[w].step # "entry"
    <3>1. /\ pc'[w] = "event" /\ pc[w] = "save"
          /\ records' = [records EXCEPT ![job[w].rid] = job[w].row]
          /\ job[w].row.emp = job[w].emp
      BY <1>0, <1>8, <2>1 DEF SaveRecord, Goto, TypeOK, IndInv, Ready
    <3> QED
      BY <1>0, <1>1, <2>1, <3>1, RaceUpdateStep
  <2>2. CASE job[w].step = "entry"
    <3> DEFINE n == Len(records) + 1
    <3>1. /\ pc'[w] = "event" /\ pc[w] = "save" /\ job[w].row.emp = job[w].emp
          /\ records' = Append(records, job[w].row) /\ job[w].row \in Row
      BY <1>0, <1>8, <2>2 DEF SaveRecord, Goto, TypeOK, IndInv, Ready
    <3>2. /\ DOMAIN records' \subseteq DOMAIN records \cup {n}
          /\ \A q \in DOMAIN records : records'[q] = records[q]
          /\ records'[n] = job[w].row
      <4>1. records \in Seq(Row)
        BY <1>0 DEF TypeOK
      <4>2. /\ records' \in Seq(Row) /\ Len(records') = n
            /\ \A q \in 1 .. Len(records) : records'[q] = records[q]
            /\ records'[n] = job[w].row
        BY <3>1, <4>1, AppendProperties
      <4>3. DOMAIN records' = 1 .. n /\ DOMAIN records = 1 .. Len(records)
            /\ Len(records) \in Nat
        BY <4>1, <4>2, LenProperties
      <4> QED
        BY <4>2, <4>3
    <3>3. ASSUME NEW e \in Employees PROVE Bound(e)'
      <4>1. OpenRows(e)' \subseteq OpenRows(e) \cup {q \in {n} : e = job[w].emp}
        BY <3>1, <3>2 DEF OpenRows
      <4>2. \A v \in Workers : v # w =>
               /\ v \in Entering(e)' => v \in Entering(e)
               /\ v \in Reopening(e)' => v \in Reopening(e) /\ job'[v].rid = job[v].rid
        BY <1>1 DEF OnlyMoves, Entering, Reopening, Processes, IsOpen
      <4>3. /\ Entering(e)' \subseteq Workers /\ Reopening(e)' \subseteq Workers
            /\ w \notin Entering(e)' /\ w \notin Reopening(e)'
        BY <3>1 DEF Entering, Reopening
      <4>4. Entering(e)' \subseteq Entering(e) \ {w}
        BY <4>2, <4>3
      <4>5. \A v \in Reopening(e)' : v \in Reopening(e) /\ job'[v].rid = job[v].rid
        BY <4>2, <4>3
      <4>6. MayBeOpen(e)' \subseteq MayBeOpen(e) \cup {q \in {n} : e = job[w].emp}
        BY <4>1, <4>5 DEF MayBeOpen
      <4>7. CASE e = job[w].emp
        <5>1. w \in Entering(e)
          BY <2>2, <3>1, <4>7 DEF Entering
        <5>2. MayBeOpen(e)' \subseteq MayBeOpen(e) \cup {n}
          BY <4>6
        <5>3. Bound(e)
          BY DEF RaceInv, Bound
        <5> HIDE DEF n
        <5> QED
          BY <1>0, <4>4, <5>1, <5>2, <5>3, EntryBecomesRow
      <4>8. CASE e # job[w].emp
        <5>1. MayBeOpen(e)' \subseteq MayBeOpen(e) /\ Entering(e)' \subseteq Entering(e)
          BY <4>4, <4>6, <4>8
        <5> QED
          BY <1>0, <5>1, BoundStays DEF RaceInv, Bound
      <4> QED
        BY <4>7, <4>8
    <3>4. SnapshotsClosed'
      BY <1>1, <3>1 DEF RaceInv, SnapshotsClosed, OnlyMoves, IsOpen
    <3> QED
      BY <3>3, <3>4 DEF RaceInv, Bound, SnapshotsClosed
  <2> QED
    BY <2>1, <2>2
<1>9. CASE CreateEvent(w) \/ Reply(w)
  <2>1. pc'[w] \in {"idle", "reply"} /\ records' = records
    BY <1>0, <1>9 DEF CreateEvent, LogEvent, Reply, Finish, Goto, TypeOK, db
  <2> QED
    BY <1>0, <1>1, <2>1, RaceReadStep DEF Entering, Reopening
<1> QED
  BY <1>2, <1>3, <1>4, <1>5, <1>6, <1>7, <1>8, <1>9 DEF HandleScan

LEMMA RaceStep == RaceInv /\ IndInv /\ [Next]_vars => RaceInv'
<1> SUFFICES ASSUME RaceInv, IndInv, [Next]_vars PROVE RaceInv'
  OBVIOUS
<1>0. TypeOK
  BY DEF IndInv
<1>1. ASSUME NEW w \in Workers, NEW e \in Employees, ReceiveScan(w, e)
      PROVE  RaceInv'
  <2>1. w \in Processes /\ OnlyMoves(w) /\ pc'[w] = "cooldown" /\ records' = records
    BY <1>0, <1>1 DEF Processes, OnlyMoves, ReceiveScan, Goto, TypeOK, db
  <2> QED
    BY <2>1, RaceReadStep DEF Entering, Reopening
<1>2. ASSUME NEW w \in Workers, HandleScan(w)
      PROVE  RaceInv'
  BY <1>2, RaceScanStep
<1>3. ASSUME NEW w \in Workers, NEW r \in DOMAIN records, NEW t \in 0 .. MaxTime,
             StartReview(w, r, t)
      PROVE  RaceInv'
  <2>1. /\ w \in Processes /\ OnlyMoves(w) /\ pc'[w] = "review_save"
        /\ records' = records /\ job'[w].row = Stamped(records[r], "exit", t)
    BY <1>0, <1>3 DEF Processes, OnlyMoves, StartReview, Goto, TypeOK, db
  <2>2. records[r] \in Row /\ t \in Nat
    BY <1>0, RowTypes, TimeAssumption
  <2>3. ~IsOpen(job'[w].row)
    BY <2>1, <2>2, ClosedRow DEF IsOpen
  <2> QED
    BY <2>1, <2>3, RaceReadStep DEF Entering, Reopening
<1>4. ASSUME NEW w \in Workers, SaveReview(w)
      PROVE  RaceInv'
  <2>1. /\ w \in Processes /\ OnlyMoves(w) /\ pc'[w] = "idle"
        /\ records' = [records EXCEPT ![job[w].rid] = job[w].row]
    BY <1>0, <1>4 DEF Processes, OnlyMoves, SaveReview, Finish, Goto, TypeOK
  <2>2. ~IsOpen(job[w].row)
    BY <1>4, <2>1 DEF SaveReview, RaceInv
  <2> QED
    BY <2>1, <2>2, RaceUpdateStep
<1>5. ASSUME NEW c \in Crons, StartCron(c) \/ FinishCron(c)
      PROVE  RaceInv'
  <2>1. /\ c \in Processes /\ OnlyMoves(c) /\ pc'[c] \in {"idle", "next"}
        /\ records' = records
    BY <1>0, <1>5 DEF Processes, OnlyMoves, StartCron, FinishCron, Finish, Goto, TypeOK, db
  <2> QED
    BY <2>1, RaceReadStep DEF Entering, Reopening
<1>6. ASSUME NEW c \in Crons, CronCheckStale(c)
      PROVE  RaceInv'
  <2>1. c \in Processes /\ c \notin Workers /\ OnlyMoves(c) /\ records' = records
    BY <1>0, <1>6, ProcessAssumption DEF Processes, OnlyMoves, CronCheckStale, Goto, TypeOK, db
  <2>2. CASE pc'[c] # "close_save"
    <3>1. pc'[c] \notin {"close_save", "review_save"}
      BY <1>0, <1>6, <2>1, <2>2 DEF CronCheckStale, Goto, TypeOK
    <3> QED
      BY <2>1, <3>1, RaceReadStep DEF Entering, Reopening
  <2>3. CASE pc'[c] = "close_save"
    <3>1. PICK x \in todo[c] : \E r \in CurrentOpen(x[1]) :
             job' = [job EXCEPT ![c] = Holding(NoJob, r, Flagged(records[r]))]
      BY <1>0, <1>6, <2>1, <2>3 DEF CronCheckStale, TypeOK
    <3>5. PICK r \in CurrentOpen(x[1]) :
             job' = [job EXCEPT ![c] = Holding(NoJob, r, Flagged(records[r]))]
      BY <3>1
    <3>2. records[r] \in Row
      BY <1>0, RowTypes DEF CurrentOpen, OpenRows
    <3>3. job'[c].row = Flagged(records[r])
      BY <1>0, <2>1, <3>5 DEF Holding, TypeOK
    <3>4. ~IsOpen(job'[c].row)
      BY <3>2, <3>3, ClosedRow DEF IsOpen
    <3> QED
      BY <2>1, <3>4, RaceReadStep DEF Entering, Reopening
  <2> QED
    BY <2>2, <2>3
<1>7. ASSUME NEW c \in Crons, CronSaveAutoClosed(c)
      PROVE  RaceInv'
  <2>1. /\ c \in Processes /\ OnlyMoves(c) /\ pc'[c] = "next"
        /\ records' = [records EXCEPT ![job[c].rid] = job[c].row]
    BY <1>0, <1>7 DEF Processes, OnlyMoves, CronSaveAutoClosed, Goto, TypeOK
  <2>2. ~IsOpen(job[c].row)
    BY <1>7, <2>1 DEF CronSaveAutoClosed, RaceInv
  <2> QED
    BY <2>1, <2>2, RaceUpdateStep
<1>8. ASSUME NEW p \in Processes, Crash(p)
      PROVE  RaceInv'
  <2>1. OnlyMoves(p) /\ pc'[p] = "idle" /\ records' = records
    BY <1>0, <1>8 DEF OnlyMoves, Crash, Finish, Goto, TypeOK, db
  <2> QED
    BY <2>1, RaceReadStep DEF Entering, Reopening
<1>9. ASSUME UNCHANGED <<records, pc, job>>
      PROVE  RaceInv'
  BY <1>9 DEF RaceInv, MayBeOpen, OpenRows, Entering, Reopening, IsOpen
<1> QED
  BY <1>1, <1>2, <1>3, <1>4, <1>5, <1>6, <1>7, <1>8, <1>9
     DEF Next, RunCron, SetActive, Tick, vars, db

LEMMA RaceInit == Init => RaceInv
<1> SUFFICES ASSUME Init PROVE RaceInv
  OBVIOUS
<1>1. TypeOK
  BY InitIndInv DEF IndInv
<1>2. \A e : OpenRows(e) = {}
  BY DEF Init, OpenRows
<1>3. \A p \in Processes : pc[p] = "idle"
  BY DEF Init
<1> QED
  BY <1>1, <1>2, <1>3, NoOpenRows DEF RaceInv, Bound

\* Rows that are open or about to be opened again by a stale UPDATE, and entries
\* whose INSERT is under way, are together never more than the workers.
THEOREM RaceInvHolds == Spec => []RaceInv
<1> QED
  BY RaceInit, RaceStep, IndInvHolds, PTL DEF Spec

\* However requests of one employee overlap and wherever a process dies, no more
\* shifts of the employee are open than there are workers.
THEOREM OpenRowsStayBounded == Spec => []OpenRowsBounded
<1>1. RaceInv /\ IndInv => OpenRowsBounded
  <2> SUFFICES ASSUME RaceInv, IndInv, NEW e \in Employees
               PROVE  Cardinality(OpenRows(e)) <= Cardinality(Workers)
    BY DEF OpenRowsBounded
  <2>1. IsFiniteSet(MayBeOpen(e)) /\ IsFiniteSet(Entering(e)) /\ OpenRows(e) \subseteq MayBeOpen(e)
    BY RaceSets DEF IndInv, MayBeOpen
  <2>2. IsFiniteSet(OpenRows(e)) /\ Cardinality(OpenRows(e)) <= Cardinality(MayBeOpen(e))
    BY <2>1, FS_Subset
  <2>3. {Cardinality(OpenRows(e)), Cardinality(MayBeOpen(e)), Cardinality(Entering(e)),
         Cardinality(Workers)} \subseteq Nat
    BY <2>1, <2>2, ProcessAssumption, FS_CardinalityType
  <2>4. Cardinality(MayBeOpen(e)) + Cardinality(Entering(e)) <= Cardinality(Workers)
    BY DEF RaceInv
  <2> QED
    BY <2>2, <2>3, <2>4
<1> QED
  BY <1>1, RaceInvHolds, IndInvHolds, PTL

-----------------------------------------------------------------------------
(* What a handler has read stays true while others are served.             *)

\* A handler stays fresh while the rows and scans of its employee stay.
LEMMA StaysFresh ==
    ASSUME NEW q, NEW e, FreshFor(q, e), now' = now, pc'[q] = pc[q], job'[q] = job[q],
           OpenRows(e)' = OpenRows(e), \A r \in OpenRows(e) : records'[r] = records[r],
           Scans(e)' = Scans(e), \A x \in Scans(e) : TimeOf(x)' = TimeOf(x),
           pc[q] = "review_save" => records'[job[q].rid] = records[job[q].rid]
    PROVE  FreshFor(q, e)'
<1>1. OnTime(q)'
  BY DEF FreshFor, OnTime
<1>2. SnapshotFresh(q, e)'
  BY DEF FreshFor, SnapshotFresh, PendingReview, Flagged, Stamped
<1>3. CooldownOver(q, e)'
  BY DEF FreshFor, CooldownOver
<1>4. NotAbandoned(q, e)'
  BY DEF FreshFor, NotAbandoned
<1>5. StepStands(q, e)'
  <2>1. pc[q] = "save" /\ job[q].step # "entry" => job[q].rid \in OpenRows(e)
    BY DEF FreshFor, SnapshotFresh
  <2>2. \A row, step, a : ChosenAt(row, step, a)' <=> ChosenAt(row, step, a)
    BY DEF ChosenAt
  <2> QED
    BY <2>1, <2>2 DEF FreshFor, StepStands, ChosenAt
<1>6. ScanIsLast(q, e)'
  BY DEF FreshFor, ScanIsLast
<1> QED
  BY <1>1, <1>2, <1>3, <1>4, <1>5, <1>6 DEF FreshFor

\* A step of p that reads only.
LEMMA OrderlyReadStep ==
    ASSUME OrderlyInv, NEW p \in Processes, OnlyMoves(p),
           UNCHANGED <<now, records, events>>, IndInv', OneAtATime',
           p \in Workers => pc[p] # "event",
           \A e \in Employees : Serves(p, e)' => FreshFor(p, e)'
    PROVE  OrderlyInv'
<1>1. ASSUME NEW e \in Employees PROVE DayInv(e)'
  <2>1. \A v \in Workers : pc[v] = "event" => pc'[v] = "event" /\ job'[v] = job[v]
    BY DEF OnlyMoves, Processes
  <2> QED
    BY <2>1 DEF OrderlyInv, DayInv, OpenRows, Scans, TimeOf, EventsOf, EventScan,
                ScannedAt, IsOpen
<1>2. ASSUME NEW q \in Processes, q # p, NEW e \in Employees, Serves(q, e)'
      PROVE  FreshFor(q, e)'
  <2>1. pc'[q] = pc[q] /\ job'[q] = job[q]
    BY <1>2 DEF OnlyMoves
  <2>2. FreshFor(q, e)
    BY <1>2, <2>1 DEF OrderlyInv, Serves
  <2>3. OpenRows(e)' = OpenRows(e) /\ Scans(e)' = Scans(e) /\ \A x : TimeOf(x)' = TimeOf(x)
    BY DEF OpenRows, IsOpen, Scans, ScannedAt, TimeOf
  <2> QED
    BY <2>1, <2>2, <2>3, StaysFresh
<1> QED
  BY <1>1, <1>2 DEF OrderlyInv

\* What a write for e0 leaves to the other employees.
OthersUntouched(e0) ==
    /\ \A r : r \in DOMAIN records' /\ records'[r].emp # e0
                 <=> r \in DOMAIN records /\ records[r].emp # e0
    /\ \A r \in DOMAIN records : records[r].emp # e0 => records'[r] = records[r]
    /\ \A k : k \in DOMAIN events' /\ events'[k].emp # e0
                 <=> k \in DOMAIN events /\ events[k].emp # e0
    /\ \A k \in DOMAIN events : events[k].emp # e0 => events'[k] = events[k]

LEMMA OthersViews ==
    ASSUME NEW e0, NEW e, e # e0, OthersUntouched(e0)
    PROVE  /\ OpenRows(e)' = OpenRows(e)
           /\ \A r \in OpenRows(e) : records'[r] = records[r]
           /\ Scans(e)' = Scans(e)
           /\ \A x \in Scans(e) : TimeOf(x)' = TimeOf(x)
           /\ EventsOf(e)' = EventsOf(e)
           /\ \A k \in EventsOf(e) : events'[k] = events[k] /\ EventScan(k)' = EventScan(k)
<1>1. OpenRows(e)' = OpenRows(e) /\ \A r \in OpenRows(e) : records'[r] = records[r]
  BY DEF OthersUntouched, OpenRows, IsOpen
<1>2. EventsOf(e)' = EventsOf(e) /\ \A k \in EventsOf(e) : events'[k] = events[k]
  BY DEF OthersUntouched, EventsOf
<1>3. \A r : r \in DOMAIN records' /\ records'[r].emp = e
             <=> r \in DOMAIN records /\ records[r].emp = e
  BY DEF OthersUntouched
<1>4. \A r \in DOMAIN records : records[r].emp = e => records'[r] = records[r]
  BY DEF OthersUntouched
<1>5. \A r, s : <<r, s>> \in Scans(e)' <=> <<r, s>> \in Scans(e)
  BY <1>3, <1>4 DEF Scans, ScannedAt
<1>6. Scans(e)' = Scans(e)
  <2>1. \A x : x \in Scans(e) \/ x \in Scans(e)' => x = <<x[1], x[2]>>
    BY DEF Scans
  <2> QED
    BY <1>5, <2>1
<1>7. \A x \in Scans(e) : TimeOf(x)' = TimeOf(x)
  BY <1>4 DEF Scans, TimeOf
<1> QED
  BY <1>1, <1>2, <1>6, <1>7 DEF EventScan

\* A write by p for the employee it serves.
LEMMA OrderlyWriteStep ==
    ASSUME OrderlyInv, NEW p \in Processes, NEW e0 \in Employees, OnlyMoves(p), Serves(p, e0),
           now' = now, OthersUntouched(e0), IndInv', OneAtATime', DayInv(e0)',
           \A e \in Employees : Serves(p, e)' => FreshFor(p, e)'
    PROVE  OrderlyInv'
<1>1. ASSUME NEW e \in Employees, e # e0 PROVE DayInv(e)'
  <2>1. \A v \in Workers : pc[v] = "event" /\ job[v].emp = e =>
             pc'[v] = "event" /\ job'[v] = job[v]
    <3>1. \A v \in Workers : pc[v] = "event" /\ job[v].emp = e => Serves(v, e)
      BY DEF Serves
    <3>2. ~(p \in Workers /\ pc[p] = "event" /\ job[p].emp = e)
      BY <1>1 DEF Serves
    <3> QED
      BY <3>1, <3>2 DEF OnlyMoves, Processes
  <2>2. DayInv(e)
    BY DEF OrderlyInv
  <2>3. \A q, r \in OpenRows(e)' : q = r
    BY <1>1, <2>2, OthersViews DEF DayInv
  <2>4. \A x \in Scans(e)' : TimeOf(x)' <= now'
    BY <1>1, <2>2, OthersViews DEF DayInv
  <2>5. \A x \in Scans(e)' :
          \/ \E k \in EventsOf(e)' : EventScan(k)' = x
          \/ \E w \in Workers :
                 pc'[w] = "event" /\ job'[w].emp = e /\ x = <<job'[w].rid, job'[w].step>>
    <3> SUFFICES ASSUME NEW x \in Scans(e)
                 PROVE  \/ \E k \in EventsOf(e)' : EventScan(k)' = x
                        \/ \E w \in Workers : /\ pc'[w] = "event" /\ job'[w].emp = e
                                              /\ x = <<job'[w].rid, job'[w].step>>
      BY <1>1, OthersViews
    <3>1. CASE \E k \in EventsOf(e) : EventScan(k) = x
      BY <1>1, <3>1, OthersViews
    <3>2. CASE \E w \in Workers :
                 pc[w] = "event" /\ job[w].emp = e /\ x = <<job[w].rid, job[w].step>>
      BY <2>1, <3>2
    <3> QED
      BY <2>2, <3>1, <3>2 DEF DayInv
  <2>6. \A k \in EventsOf(e)' : /\ EventScan(k)' \in Scans(e)'
                                /\ TimeOf(EventScan(k))' = events'[k].ts
    <3> SUFFICES ASSUME NEW k \in EventsOf(e)
                 PROVE  /\ EventScan(k)' \in Scans(e)'
                        /\ TimeOf(EventScan(k))' = events'[k].ts
      BY <1>1, OthersViews
    <3>1. EventScan(k) \in Scans(e) /\ TimeOf(EventScan(k)) = events[k].ts
      BY <2>2 DEF DayInv
    <3>2. EventScan(k)' = EventScan(k) /\ events'[k] = events[k] /\ Scans(e)' = Scans(e)
      BY <1>1, OthersViews
    <3>3. TimeOf(EventScan(k))' = TimeOf(EventScan(k))
      <4>1. records'[events[k].rec] = records[events[k].rec]
        BY <1>1, <3>1 DEF OthersUntouched, Scans, EventScan
      <4> QED
        BY <3>2, <4>1 DEF TimeOf, EventScan
    <3> QED
      BY <3>1, <3>2, <3>3
  <2> QED
    BY <2>3, <2>4, <2>5, <2>6 DEF DayInv
<1>2. ASSUME NEW q \in Processes, q # p, NEW e \in Employees, Serves(q, e)'
      PROVE  FreshFor(q, e)'
  <2>1. pc'[q] = pc[q] /\ job'[q] = job[q]
    BY <1>2 DEF OnlyMoves
  <2>2. Serves(q, e)
    BY <1>2, <2>1 DEF Serves
  <2>3. e # e0
    BY <1>2, <2>2 DEF OrderlyInv, OneAtATime
  <2>4. FreshFor(q, e)
    BY <2>2 DEF OrderlyInv
  <2> DEFINE j == job[q]
  <2>5. OpenRows(e)' = OpenRows(e) /\ Scans(e)' = Scans(e)
    BY <2>3, OthersViews
  <2>6. \A r \in OpenRows(e) : records'[r] = records[r]
    BY <2>3, OthersViews
  <2>7. \A x \in Scans(e) : TimeOf(x)' = TimeOf(x)
    BY <2>3, OthersViews
  <2>9. pc[q] = "review_save" => records'[j.rid] = records[j.rid]
    <3> SUFFICES ASSUME pc[q] = "review_save" PROVE records'[j.rid] = records[j.rid]
      OBVIOUS
    <3>1. j.row.emp = e
      BY <2>2 DEF Serves
    <3>2. SameShift(j.row, j.rid)
      BY DEF OrderlyInv, IndInv, Ready
    <3> QED
      BY <2>3, <3>1, <3>2 DEF SameShift, OthersUntouched
  <2> QED
    BY <2>1, <2>4, <2>5, <2>6, <2>7, <2>9, StaysFresh
<1> QED
  BY <1>1, <1>2 DEF OrderlyInv

-----------------------------------------------------------------------------
\* A worker that handles a scan serves one employee, and nothing it knows about
\* the employee is out of date.
LEMMA Serving ==
    ASSUME OrderlyInv, NEW w \in Workers, pc[w] \notin {"idle", "review_save"}
    PROVE  /\ w \in Processes /\ TypeOK /\ job[w] \in Job
           /\ job[w].emp \in Employees /\ Serves(w, job[w].emp)
           /\ FreshFor(w, job[w].emp)
           /\ job[w].since \in Nat /\ now \in Nat
<1>1. w \in Processes
  BY DEF Processes
<1>2. TypeOK /\ job[w] \in Job
  BY <1>1 DEF OrderlyInv, IndInv, TypeOK
<1>3. job[w].emp \in Employees
  BY <1>1 DEF OrderlyInv, IndInv, Ready
<1>4. Serves(w, job[w].emp)
  BY DEF Serves
<1>5. FreshFor(w, job[w].emp)
  BY <1>1, <1>3, <1>4 DEF OrderlyInv
<1> QED
  BY <1>1, <1>2, <1>3, <1>4, <1>5 DEF TypeOK, Job

\* The rows, scans and events of an employee are typed.
LEMMA Views ==
    ASSUME IndInv, NEW e
    PROVE  /\ \A r \in OpenRows(e) : /\ r \in DOMAIN records /\ records[r] \in Row
                                     /\ RowIsDay(records[r]) /\ records[r].emp = e
                                     /\ records[r].at["entry"] \in Nat
           /\ \A x \in Scans(e) : /\ x[1] \in DOMAIN records /\ x[2] \in Steps
                                  /\ x = <<x[1], x[2]>> /\ TimeOf(x) \in Nat
                                  /\ records[x[1]] \in Row /\ records[x[1]].emp = e
           /\ \A k \in EventsOf(e) : k \in DOMAIN events /\ events[k] \in Event
                                     /\ events[k].ts \in Nat /\ events[k].emp = e
<1>1. /\ \A r \in DOMAIN records : records[r] \in Row /\ RowIsDay(records[r])
      /\ \A k \in DOMAIN events : events[k] \in Event
  BY RowTypes DEF IndInv, RowsAreDays
<1>2. \A r \in OpenRows(e) : r \in DOMAIN records /\ records[r].emp = e
  BY DEF OpenRows
<1>3. \A x \in Scans(e) : /\ x[1] \in DOMAIN records /\ x[2] \in Steps
                          /\ x = <<x[1], x[2]>> /\ TimeOf(x) \in Nat
                          /\ records[x[1]].emp = e
  BY <1>1 DEF Scans, TimeOf, ScannedAt, Row, Stamps
<1>4. \A k \in EventsOf(e) : /\ k \in DOMAIN events /\ events[k].ts \in Nat
                             /\ events[k].emp = e
  BY <1>1 DEF EventsOf, Event
<1> QED
  BY <1>1, <1>2, <1>3, <1>4, EntryIsTime

\* What freshness does not ask at a statement.
LEMMA NotAsked ==
    ASSUME NEW p, NEW e
    PROVE  /\ pc'[p] \notin {"close_save", "review_save", "save"} => SnapshotFresh(p, e)'
           /\ pc'[p] \notin {"close_read", "close_save", "dispatch", "active", "reread",
                             "save"} => CooldownOver(p, e)'
           /\ pc'[p] \notin {"dispatch", "active", "reread", "save"} => NotAbandoned(p, e)'
           /\ pc'[p] \notin {"active", "reread", "save"} => StepStands(p, e)'
           /\ pc'[p] \notin {"event", "reply"} => ScanIsLast(p, e)'
<1>1. pc'[p] \notin {"close_save", "review_save", "save"} => SnapshotFresh(p, e)'
  BY DEF SnapshotFresh
<1>2. pc'[p] \notin {"close_read", "close_save", "dispatch", "active", "reread", "save"}
      => CooldownOver(p, e)'
  BY DEF CooldownOver
<1>3. pc'[p] \notin {"dispatch", "active", "reread", "save"} => NotAbandoned(p, e)'
  BY DEF NotAbandoned
<1>4. pc'[p] \notin {"active", "reread", "save"} => StepStands(p, e)'
  BY DEF StepStands
<1>5. pc'[p] \notin {"event", "reply"} => ScanIsLast(p, e)'
  BY DEF ScanIsLast
<1> QED
  BY <1>1, <1>2, <1>3, <1>4, <1>5

\* Two statements of one request, at one instant.
LEMMA SameRequest ==
    ASSUME NEW p, NEW e, FreshFor(p, e), now' = now, job'[p].since = job[p].since
    PROVE  OnTime(p)'
BY DEF FreshFor, OnTime

\* What a step that reads leaves of the tables.
LEMMA SameViews ==
    ASSUME UNCHANGED <<records, events>>, NEW e
    PROVE  /\ OpenRows(e)' = OpenRows(e) /\ CurrentOpen(e)' = CurrentOpen(e)
           /\ Scans(e)' = Scans(e)
           /\ \A x : TimeOf(x)' = TimeOf(x)
<1>1. OpenRows(e)' = OpenRows(e)
  BY DEF OpenRows, IsOpen
<1> QED
  BY <1>1 DEF CurrentOpen, Scans, ScannedAt, TimeOf

LEMMA OrderlyReceiveScan ==
    ASSUME OrderlyInv, NEW w \in Workers, NEW e \in Employees, ReceiveScan(w, e),
           IndInv', OneAtATime'
    PROVE  OrderlyInv'
<1>1. /\ w \in Processes /\ TypeOK
      /\ pc[w] = "idle" /\ pc'[w] = "cooldown"
      /\ job'[w].since = now /\ UNCHANGED <<now, records, events>> /\ OnlyMoves(w)
  BY DEF Processes, OrderlyInv, IndInv, TypeOK, ReceiveScan, Goto, db, OnlyMoves
<1>2. OnTime(w)'
  BY <1>1, TimeAssumption DEF TypeOK, OnTime
<1>3. ASSUME NEW f \in Employees PROVE FreshFor(w, f)'
  BY <1>1, <1>2, NotAsked DEF FreshFor
<1> QED
  BY <1>1, <1>3, OrderlyReadStep

\* A look at the log that finds no recent event finds no recent scan, for each
\* scan has its event.
LEMMA CooldownPassed ==
    ASSUME OrderlyInv, NEW w \in Workers, pc[w] = "cooldown", ~InCooldown(job[w].emp)
    PROVE  \A x \in Scans(job[w].emp) : TimeOf(x) + Cooldown <= now
<1> DEFINE e == job[w].emp
           f == [k \in EventsOf(e) |-> events[k].ts]
<1>1. /\ w \in Processes /\ TypeOK /\ e \in Employees /\ Serves(w, e)
      /\ now \in Nat /\ Cooldown \in Nat
  BY Serving, TimeAssumption
<1>2. IsFiniteSet(EventsOf(e)) /\ \A k \in EventsOf(e) : f[k] \in Nat
  <2>1. DOMAIN events = 1 .. Len(events) /\ Len(events) \in Nat
    BY <1>1, RowTypes
  <2>2. IsFiniteSet(1 .. Len(events)) /\ EventsOf(e) \subseteq 1 .. Len(events)
    BY <2>1, FS_Interval DEF EventsOf
  <2> QED
    BY <2>2, FS_Subset, Views DEF OrderlyInv
<1> SUFFICES ASSUME NEW x \in Scans(e) PROVE TimeOf(x) + Cooldown <= now
  OBVIOUS
<1>3. PICK k \in EventsOf(e) : EventScan(k) = x
  <2>1. ASSUME NEW v \in Workers, pc[v] = "event", job[v].emp = e PROVE FALSE
    <3>1. v \in Processes /\ Serves(v, e)
      BY <2>1 DEF Processes, Serves
    <3>2. v = w
      BY <1>1, <3>1 DEF OrderlyInv, OneAtATime
    <3> QED
      BY <2>1, <3>2
  <2> QED
    BY <1>1, <2>1 DEF OrderlyInv, DayInv
<1>4. TimeOf(x) = events[k].ts
  BY <1>1, <1>3 DEF OrderlyInv, DayInv
<1>5. PICK j \in EventsOf(e) : \A i \in EventsOf(e) : f[i] <= f[j]
  <2> HIDE DEF f
  <2> QED
    BY <1>2, <1>3, HasLargest
<1>6. j \in LatestEvents(e)
  BY <1>5 DEF LatestEvents
<1>7. ~(now < events[j].ts + Cooldown)
  BY <1>6 DEF InCooldown
<1>8. events[k].ts <= events[j].ts /\ events[k].ts \in Nat /\ events[j].ts \in Nat
  BY <1>2, <1>5
<1> QED
  BY <1>1, <1>4, <1>7, <1>8

LEMMA OrderlyCheckCooldown ==
    ASSUME OrderlyInv, NEW w \in Workers, NEW e, e = job[w].emp, CheckCooldown(w),
           IndInv', OneAtATime'
    PROVE  OrderlyInv'
<1>1. pc[w] = "cooldown" /\ UNCHANGED <<now, records, events>>
  BY DEF CheckCooldown, db
<1>2. w \in Processes /\ TypeOK /\ e \in Employees /\ FreshFor(w, e)
  BY <1>1, Serving
<1>3. OnlyMoves(w)
  BY <1>2 DEF OnlyMoves, CheckCooldown, Finish, Goto, TypeOK
<1>4. CASE pc'[w] = "idle"
  BY <1>1, <1>2, <1>3, <1>4, OrderlyReadStep DEF Serves
<1>5. CASE pc'[w] # "idle"
  <2>1. pc'[w] = "close_read" /\ job' = job /\ ~InCooldown(e)
    BY <1>2, <1>5 DEF CheckCooldown, Finish, Goto, TypeOK
  <2>2. \A x \in Scans(e) : TimeOf(x) + Cooldown <= now
    BY <1>1, <2>1, CooldownPassed
  <2>3. CooldownOver(w, e)'
    BY <1>1, <2>1, <2>2, SameViews DEF CooldownOver
  <2>4. OnTime(w)'
    BY <1>1, <1>2, <2>1, SameRequest
  <2>5. FreshFor(w, e)'
    BY <2>1, <2>3, <2>4, NotAsked DEF FreshFor
  <2>6. \A f \in Employees : Serves(w, f)' => f = e
    BY <2>1 DEF Serves
  <2> QED
    BY <1>1, <1>2, <1>3, <2>5, <2>6, OrderlyReadStep
<1> QED
  BY <1>4, <1>5

\* The only open row of an employee is the one every query returns.
LEMMA OnlyOpenRow ==
    ASSUME OrderlyInv, NEW e \in Employees
    PROVE  CurrentOpen(e) = OpenRows(e)
<1>1. \A q, r \in OpenRows(e) : q = r
  BY DEF OrderlyInv, DayInv
<1>2. \A r \in OpenRows(e) : records[r].at["entry"] \in Nat
  BY Views DEF OrderlyInv
<1>3. \A q, r \in OpenRows(e) : records[q].at["entry"] <= records[r].at["entry"]
  <2> SUFFICES ASSUME NEW q \in OpenRows(e), NEW r \in OpenRows(e)
               PROVE  records[q].at["entry"] <= records[r].at["entry"]
    OBVIOUS
  <2>1. q = r /\ records[q].at["entry"] \in Nat
    BY <1>1, <1>2
  <2> QED
    BY <2>1
<1> QED
  BY <1>3 DEF CurrentOpen

LEMMA OrderlyCheckStale ==
    ASSUME OrderlyInv, NEW w \in Workers, NEW e, e = job[w].emp, CheckStale(w),
           IndInv', OneAtATime'
    PROVE  OrderlyInv'
<1>1. pc[w] = "close_read" /\ UNCHANGED <<now, records, events>>
  BY DEF CheckStale, db
<1>2. /\ w \in Processes /\ TypeOK /\ e \in Employees /\ FreshFor(w, e)
      /\ job[w].since \in Nat /\ now \in Nat
  BY <1>1, Serving
<1>3. OnlyMoves(w)
  BY <1>2 DEF OnlyMoves, CheckStale, Goto, TypeOK
<1>4. CurrentOpen(e) = OpenRows(e)
  BY <1>2, OnlyOpenRow
<1>5. \A x \in Scans(e) : TimeOf(x) + Cooldown <= now
  BY <1>1, <1>2 DEF FreshFor, CooldownOver
<1>6. CASE pc'[w] = "dispatch"
  <2>1. job' = job /\ \A r \in OpenRows(e) : ~IsStale(records[r])
    BY <1>2, <1>4, <1>6 DEF CheckStale, Goto, TypeOK
  <2>2. \A r \in OpenRows(e) : job[w].since <= records[r].at["entry"] + MaxOpen
    <3>1. job[w].since <= now
      BY <1>2 DEF FreshFor, OnTime
    <3>2. \A r \in OpenRows(e) : records[r].at["entry"] \in Nat
      BY Views DEF OrderlyInv
    <3> QED
      BY <1>2, <2>1, <3>1, <3>2, TimeAssumption DEF IsStale
  <2>3. NotAbandoned(w, e)'
    BY <1>1, <2>1, <2>2, SameViews DEF NotAbandoned
  <2>4. CooldownOver(w, e)'
    BY <1>1, <1>5, <1>6, SameViews DEF CooldownOver
  <2>5. OnTime(w)'
    BY <1>1, <1>2, <2>1, SameRequest
  <2>6. FreshFor(w, e)'
    BY <1>6, <2>3, <2>4, <2>5, NotAsked DEF FreshFor
  <2>7. \A f \in Employees : Serves(w, f)' => f = e
    BY <1>6, <2>1 DEF Serves
  <2> QED
    BY <1>1, <1>2, <1>3, <2>6, <2>7, OrderlyReadStep
<1>7. CASE pc'[w] # "dispatch"
  <2>1. PICK r \in OpenRows(e) : 
             job' = [job EXCEPT ![w] = Holding(job[w], r, Flagged(records[r]))]
    BY <1>2, <1>4, <1>7 DEF CheckStale, Goto, TypeOK
  <2>2. /\ pc'[w] = "close_save" /\ job'[w].rid = r /\ job'[w].row = Flagged(records[r])
        /\ job'[w].emp = e /\ job'[w].since = job[w].since
    BY <1>2, <1>7, <2>1 DEF CheckStale, Goto, TypeOK, Holding
  <2>3. Flagged(records[r]).emp = e
    BY Views DEF OrderlyInv, Flagged, Row
  <2>4. SnapshotFresh(w, e)'
    BY <1>1, <2>2, SameViews DEF SnapshotFresh, Flagged
  <2>5. CooldownOver(w, e)'
    BY <1>1, <1>5, <2>2, SameViews DEF CooldownOver
  <2>6. OnTime(w)'
    BY <1>1, <1>2, <2>2, SameRequest
  <2>7. FreshFor(w, e)'
    BY <2>2, <2>4, <2>5, <2>6, NotAsked DEF FreshFor
  <2>8. \A f \in Employees : Serves(w, f)' => f = e
    BY <2>2, <2>3 DEF Serves
  <2> QED
    BY <1>1, <1>2, <1>3, <2>7, <2>8, OrderlyReadStep
<1> QED
  BY <1>6, <1>7

\* An UPDATE of a row of e touches that row only.
LEMMA UpdateTouches ==
    ASSUME NEW e, NEW r \in DOMAIN records, records[r].emp = e, NEW row, row.emp = e,
           records' = [records EXCEPT ![r] = row], events' = events
    PROVE  /\ OthersUntouched(e)
           /\ DOMAIN records' = DOMAIN records /\ records'[r] = row
           /\ \A q \in DOMAIN records : q # r => records'[q] = records[q]
BY DEF OthersUntouched

\* The tables of e stay right when the scans of e stay and nothing is opened.
LEMMA SameDay ==
    ASSUME NEW e, DayInv(e), events' = events, OpenRows(e)' \subseteq OpenRows(e),
           Scans(e)' = Scans(e), \A x \in Scans(e) : TimeOf(x)' = TimeOf(x),
           \A x \in Scans(e) : TimeOf(x) <= now',
           \A w \in Workers : pc[w] = "event" => pc'[w] = "event" /\ job'[w] = job[w]
    PROVE  DayInv(e)'
<1>1. /\ \A q, r \in OpenRows(e) : q = r
      /\ \A x \in Scans(e) :
           \/ \E k \in EventsOf(e) : EventScan(k) = x
           \/ \E w \in Workers :
                  pc[w] = "event" /\ job[w].emp = e /\ x = <<job[w].rid, job[w].step>>
      /\ \A k \in EventsOf(e) :
           EventScan(k) \in Scans(e) /\ TimeOf(EventScan(k)) = events[k].ts
  BY DEF DayInv
<1>2. EventsOf(e)' = EventsOf(e) /\ \A k : EventScan(k)' = EventScan(k)
  BY DEF EventsOf, EventScan
<1>3. \A q, r \in OpenRows(e)' : q = r
  BY <1>1
<1>4. \A x \in Scans(e)' : TimeOf(x)' <= now'
  BY <1>1
<1>5. \A x \in Scans(e)' :
           \/ \E k \in EventsOf(e)' : EventScan(k)' = x
           \/ \E w \in Workers :
                  pc'[w] = "event" /\ job'[w].emp = e /\ x = <<job'[w].rid, job'[w].step>>
  <2> SUFFICES ASSUME NEW x \in Scans(e)
               PROVE  \/ \E k \in EventsOf(e)' : EventScan(k)' = x
                      \/ \E w \in Workers : /\ pc'[w] = "event" /\ job'[w].emp = e
                                            /\ x = <<job'[w].rid, job'[w].step>>
    OBVIOUS
  <2>1. CASE \E k \in EventsOf(e) : EventScan(k) = x
    BY <1>2, <2>1
  <2>2. CASE \E w \in Workers :
               pc[w] = "event" /\ job[w].emp = e /\ x = <<job[w].rid, job[w].step>>
    BY <2>2
  <2> QED
    BY <1>1, <2>1, <2>2
<1>6. \A k \in EventsOf(e)' :
           EventScan(k)' \in Scans(e)' /\ TimeOf(EventScan(k))' = events'[k].ts
  <2> SUFFICES ASSUME NEW k \in EventsOf(e)
               PROVE  EventScan(k)' \in Scans(e)' /\ TimeOf(EventScan(k))' = events'[k].ts
    BY <1>2
  <2>1. EventScan(k) \in Scans(e) /\ TimeOf(EventScan(k)) = events[k].ts
    BY <1>1
  <2>2. TimeOf(EventScan(k))' = TimeOf(EventScan(k))
    <3> DEFINE x == <<events[k].rec, events[k].step>>
    <3>1. x \in Scans(e) /\ EventScan(k) = x /\ EventScan(k)' = x
      BY <1>2, <2>1 DEF EventScan
    <3>2. records'[x[1]].at[x[2]] = records[x[1]].at[x[2]]
      BY <3>1 DEF TimeOf
    <3> QED
      BY <3>1, <3>2 DEF TimeOf
  <2> QED
    BY <1>2, <2>1, <2>2
<1> QED
  BY <1>3, <1>4, <1>5, <1>6 DEF DayInv

\* Flagging the open row: the employee has none then, and the same scans.
LEMMA FlagsOpenRow ==
    ASSUME OrderlyInv, NEW p \in Processes, NEW e \in Employees,
           pc[p] = "close_save", Serves(p, e), OnlyMoves(p),
           records' = [records EXCEPT ![job[p].rid] = job[p].row],
           UNCHANGED <<now, events>>
    PROVE  /\ OpenRows(e)' = {} /\ Scans(e)' = Scans(e)
           /\ \A x \in Scans(e) : TimeOf(x)' = TimeOf(x)
           /\ OthersUntouched(e) /\ DayInv(e)'
<1> DEFINE r == job[p].rid
<1>1. r \in OpenRows(e) /\ job[p].row = Flagged(records[r])
  BY DEF OrderlyInv, FreshFor, SnapshotFresh
<1>2. /\ r \in DOMAIN records /\ records[r] \in Row /\ records[r].emp = e
      /\ job[p].row.emp = e /\ job[p].row.at = records[r].at
      /\ job[p].row.autoClosed /\ records[r].at["exit"] = Null
  BY <1>1, Views DEF OrderlyInv, Flagged, Row, OpenRows, IsOpen
<1>3. /\ OthersUntouched(e)
      /\ DOMAIN records' = DOMAIN records /\ records'[r] = job[p].row
      /\ \A q \in DOMAIN records : q # r => records'[q] = records[q]
  BY <1>2, UpdateTouches
<1>4. OpenRows(e)' = {}
  <2>1. \A q \in OpenRows(e) : q = r
    BY <1>1 DEF OrderlyInv, DayInv
  <2>2. \A q \in OpenRows(e)' : q \in OpenRows(e) \/ q = r
    BY <1>3 DEF OpenRows, IsOpen
  <2>3. r \notin OpenRows(e)'
    BY <1>2, <1>3 DEF OpenRows, IsOpen
  <2> QED
    BY <2>1, <2>2, <2>3
<1>5. Scans(e)' = Scans(e)
  BY <1>2, <1>3 DEF Scans, ScannedAt
<1>6. \A x \in Scans(e) : TimeOf(x)' = TimeOf(x)
  BY <1>2, <1>3 DEF Scans, TimeOf
<1>7. DayInv(e)'
  <2>1. DayInv(e)
    BY DEF OrderlyInv
  <2>2. \A x \in Scans(e) : TimeOf(x) <= now'
    BY <2>1 DEF DayInv
  <2>3. \A w \in Workers : pc[w] = "event" => pc'[w] = "event" /\ job'[w] = job[w]
    BY DEF OnlyMoves, Processes
  <2> QED
    BY <1>4, <1>5, <1>6, <2>1, <2>2, <2>3, SameDay
<1> QED
  BY <1>3, <1>4, <1>5, <1>6, <1>7

LEMMA OrderlySaveAutoClosed ==
    ASSUME OrderlyInv, NEW w \in Workers, NEW e, e = job[w].emp, SaveAutoClosed(w),
           IndInv', OneAtATime'
    PROVE  OrderlyInv'
<1>1. /\ pc[w] = "close_save" /\ UNCHANGED <<now, events>>
      /\ records' = [records EXCEPT ![job[w].rid] = job[w].row]
  BY DEF SaveAutoClosed
<1>2. /\ w \in Processes /\ TypeOK /\ e \in Employees /\ FreshFor(w, e) /\ Serves(w, e)
  BY <1>1, Serving
<1>3. /\ OnlyMoves(w) /\ pc'[w] = "dispatch" /\ job'[w].emp = e
      /\ job'[w].since = job[w].since
  BY <1>2 DEF OnlyMoves, SaveAutoClosed, Goto, TypeOK, Holding
<1>4. /\ OpenRows(e)' = {} /\ Scans(e)' = Scans(e)
      /\ \A x \in Scans(e) : TimeOf(x)' = TimeOf(x)
      /\ OthersUntouched(e) /\ DayInv(e)'
  BY <1>1, <1>2, <1>3, FlagsOpenRow
<1>5. CooldownOver(w, e)'
  <2>1. \A x \in Scans(e) : TimeOf(x) + Cooldown <= now
    BY <1>1, <1>2 DEF FreshFor, CooldownOver
  <2> QED
    BY <1>1, <1>3, <1>4, <2>1 DEF CooldownOver
<1>6. NotAbandoned(w, e)'
  BY <1>4 DEF NotAbandoned
<1>7. OnTime(w)'
  BY <1>1, <1>2, <1>3, SameRequest
<1>8. FreshFor(w, e)'
  BY <1>3, <1>5, <1>6, <1>7, NotAsked DEF FreshFor
<1>9. \A f \in Employees : Serves(w, f)' => f = e
  BY <1>3 DEF Serves
<1> QED
  BY <1>1, <1>2, <1>3, <1>4, <1>8, <1>9, OrderlyWriteStep

\* The branch taken is one of those the abstract clock allows now.
LEMMA StepForIsChosen ==
    ASSUME NEW row
    PROVE  ChosenAt(row, StepFor(row), now)
BY DEF ChosenAt, StepFor, InLunchWindow

LEMMA OrderlyDispatch ==
    ASSUME OrderlyInv, NEW w \in Workers, NEW e, e = job[w].emp, Dispatch(w),
           IndInv', OneAtATime'
    PROVE  OrderlyInv'
<1>1. pc[w] = "dispatch" /\ UNCHANGED <<now, records, events>>
  BY DEF Dispatch, db
<1>2. /\ w \in Processes /\ TypeOK /\ e \in Employees /\ FreshFor(w, e)
      /\ job[w] \in Job /\ job[w].since \in Nat /\ now \in Nat
  BY <1>1, Serving
<1>3. PICK step : /\ job' = [job EXCEPT ![w].step = step]
                  /\ \/ OpenRows(e) = {} /\ step = "entry"
                     \/ \E r \in OpenRows(e) : step = StepFor(records[r])
  <2>1. CurrentOpen(e) = OpenRows(e)
    BY <1>2, OnlyOpenRow
  <2> QED
    BY <2>1 DEF Dispatch
<1>4. /\ OnlyMoves(w) /\ pc'[w] = "active" /\ job'[w].emp = e
      /\ job'[w].since = job[w].since /\ job'[w].step = step
  BY <1>2, <1>3 DEF OnlyMoves, Dispatch, Goto, TypeOK, Job
<1>5. CooldownOver(w, e)'
  <2>1. \A x \in Scans(e) : TimeOf(x) + Cooldown <= now
    BY <1>1, <1>2 DEF FreshFor, CooldownOver
  <2> QED
    BY <1>1, <1>4, <2>1, SameViews DEF CooldownOver
<1>6. NotAbandoned(w, e)'
  <2>1. \A r \in OpenRows(e) : job[w].since <= records[r].at["entry"] + MaxOpen
    BY <1>1, <1>2 DEF FreshFor, NotAbandoned
  <2> QED
    BY <1>1, <1>4, <2>1, SameViews DEF NotAbandoned
<1>7. StepStands(w, e)'
  <2>1. step = "entry" => OpenRows(e) = {}
    BY <1>3, StepForIsStep
  <2>2. step # "entry" =>
            \E r \in OpenRows(e) : \E a \in job[w].since .. now : ChosenAt(records[r], step, a)
    <3>1. now \in job[w].since .. now
      BY <1>2 DEF FreshFor, OnTime
    <3> QED
      BY <1>3, <3>1, StepForIsChosen
  <2>3. step # "entry" =>
            \E r \in OpenRows(e) : \E a \in job'[w].since .. now' :
                ChosenAt(records'[r], step, a)
    BY <1>1, <1>4, <2>2
  <2> QED
    BY <1>1, <1>4, <2>1, <2>3, SameViews DEF StepStands, ChosenAt
<1>8. OnTime(w)'
  BY <1>1, <1>2, <1>4, SameRequest
<1>9. FreshFor(w, e)'
  BY <1>4, <1>5, <1>6, <1>7, <1>8, NotAsked DEF FreshFor
<1>10. \A f \in Employees : Serves(w, f)' => f = e
  BY <1>4 DEF Serves
<1> QED
  BY <1>1, <1>2, <1>4, <1>9, <1>10, OrderlyReadStep

LEMMA OrderlyCheckStillActive ==
    ASSUME OrderlyInv, NEW w \in Workers, NEW e, e = job[w].emp, CheckStillActive(w),
           IndInv', OneAtATime'
    PROVE  OrderlyInv'
<1>1. pc[w] = "active" /\ UNCHANGED <<now, records, events>>
  BY DEF CheckStillActive, db
<1>2. /\ w \in Processes /\ TypeOK /\ e \in Employees /\ FreshFor(w, e)
      /\ job[w] \in Job /\ job[w].since \in Nat /\ now \in Nat
  BY <1>1, Serving
<1>3. OnlyMoves(w)
  BY <1>2 DEF OnlyMoves, CheckStillActive, Finish, Goto, TypeOK
<1>4. \A x \in Scans(e) : TimeOf(x) + Cooldown <= now
  BY <1>1, <1>2 DEF FreshFor, CooldownOver
<1>5. CASE pc'[w] = "idle"
  BY <1>1, <1>2, <1>3, <1>5, OrderlyReadStep DEF Serves
<1>6. CASE pc'[w] = "save"
  <2> DEFINE at == [s \in Steps |-> IF s = "entry" THEN now ELSE Null]
  <2>1. /\ job[w].step = "entry"
        /\ job' = [job EXCEPT ![w] = Holding(job[w], 0, NewRow(e))]
    BY <1>2, <1>6 DEF CheckStillActive, Finish, Goto, TypeOK
  <2>2. /\ job'[w].step = "entry" /\ job'[w].emp = e /\ job'[w].since = job[w].since
        /\ job'[w].row = NewRow(e)
    BY <1>2, <2>1 DEF TypeOK, Holding
  <2>3. /\ job'[w].row.at["entry"] = now /\ ~job'[w].row.autoClosed
        /\ \A s \in Steps \ {"entry"} : job'[w].row.at[s] = Null
    BY <2>2 DEF NewRow, Steps
  <2>4. OpenRows(e) = {}
    BY <1>1, <1>2, <2>1 DEF FreshFor, StepStands
  <2>5. SnapshotFresh(w, e)'
    BY <1>6, <2>2, <2>3 DEF SnapshotFresh
  <2>6. CooldownOver(w, e)'
    BY <1>1, <1>4, <1>6, <2>2, <2>3, SameViews DEF CooldownOver
  <2>7. NotAbandoned(w, e)'
    BY <1>1, <2>4, SameViews DEF NotAbandoned
  <2>8. StepStands(w, e)'
    <3>1. job[w].since <= now
      BY <1>2 DEF FreshFor, OnTime
    <3> QED
      BY <1>1, <1>2, <1>6, <2>2, <2>3, <2>4, <3>1, SameViews DEF StepStands
  <2>9. OnTime(w)'
    BY <1>1, <1>2, <2>2, SameRequest
  <2>10. FreshFor(w, e)'
    BY <1>6, <2>5, <2>6, <2>7, <2>8, <2>9, NotAsked DEF FreshFor
  <2>11. \A f \in Employees : Serves(w, f)' => f = e
    BY <1>6, <2>2 DEF Serves
  <2> QED
    BY <1>1, <1>2, <1>3, <2>10, <2>11, OrderlyReadStep
<1>7. CASE pc'[w] = "reread"
  <2>1. job[w].step # "entry" /\ job' = job
    BY <1>2, <1>7 DEF CheckStillActive, Finish, Goto, TypeOK
  <2>2. CooldownOver(w, e)'
    BY <1>1, <1>4, <1>7, SameViews DEF CooldownOver
  <2>3. NotAbandoned(w, e)'
    <3>1. \A r \in OpenRows(e) : job[w].since <= records[r].at["entry"] + MaxOpen
      BY <1>1, <1>2 DEF FreshFor, NotAbandoned
    <3> QED
      BY <1>1, <2>1, <3>1, SameViews DEF NotAbandoned
  <2>4. StepStands(w, e)'
    <3>1. \E r \in OpenRows(e) : \E a \in job[w].since .. now :
              ChosenAt(records[r], job[w].step, a)
      BY <1>1, <1>2, <2>1 DEF FreshFor, StepStands
    <3> QED
      BY <1>1, <1>7, <2>1, <3>1, SameViews DEF StepStands, ChosenAt
  <2>5. OnTime(w)'
    BY <1>1, <1>2, <2>1, SameRequest
  <2>6. FreshFor(w, e)'
    BY <1>7, <2>2, <2>3, <2>4, <2>5, NotAsked DEF FreshFor
  <2>7. \A f \in Employees : Serves(w, f)' => f = e
    BY <1>7, <2>1 DEF Serves
  <2> QED
    BY <1>1, <1>2, <1>3, <2>6, <2>7, OrderlyReadStep
<1> QED
  BY <1>2, <1>5, <1>6, <1>7 DEF CheckStillActive, Finish, Goto, TypeOK

LEMMA OrderlyReread ==
    ASSUME OrderlyInv, NEW w \in Workers, NEW e, e = job[w].emp, Reread(w),
           IndInv', OneAtATime'
    PROVE  OrderlyInv'
<1> DEFINE step == job[w].step
<1>1. pc[w] = "reread" /\ UNCHANGED <<now, records, events>>
  BY DEF Reread, db
<1>2. /\ w \in Processes /\ TypeOK /\ e \in Employees /\ FreshFor(w, e)
      /\ job[w] \in Job /\ job[w].since \in Nat /\ now \in Nat
      /\ step \in Steps /\ step # "entry"
  <2>1. step \in Steps /\ step # "entry"
    BY <1>1 DEF OrderlyInv, IndInv, Ready, Processes
  <2> QED
    BY <1>1, <2>1, Serving
<1>3. OnlyMoves(w)
  BY <1>2 DEF OnlyMoves, Reread, Finish, Goto, TypeOK
<1>4. CASE pc'[w] = "idle"
  BY <1>1, <1>2, <1>3, <1>4, OrderlyReadStep DEF Serves
<1>5. CASE pc'[w] # "idle"
  <2>1. PICK r \in OpenRows(e) :
              /\ job' = [job EXCEPT ![w] =
                            Holding(job[w], r, Stamped(records[r], step, now))]
              /\ Goto(w, "save")
    <3>1. CurrentOpen(e) = OpenRows(e)
      BY <1>2, OnlyOpenRow
    <3> QED
      BY <1>2, <1>5, <3>1 DEF Reread, Finish, Goto, TypeOK
  <2>2. /\ pc'[w] = "save" /\ job'[w].step = step /\ job'[w].emp = e
        /\ job'[w].since = job[w].since /\ job'[w].rid = r
        /\ job'[w].row = Stamped(records[r], step, now)
    BY <1>2, <2>1 DEF TypeOK, Holding, Goto
  <2>3. /\ job'[w].row.at[step] = now
        /\ job'[w].row.emp = e
        /\ job'[w].row = Stamped(records[r], step, job'[w].row.at[step])
    <3>1. records[r] \in Row /\ records[r].emp = e
      BY Views DEF OrderlyInv
    <3> QED
      BY <1>2, <2>2, <3>1 DEF Stamped, Row, Stamps
  <2>4. SnapshotFresh(w, e)'
    BY <1>1, <1>2, <2>2, <2>3, SameViews DEF SnapshotFresh, Stamped
  <2>5. CooldownOver(w, e)'
    <3>1. \A x \in Scans(e) : TimeOf(x) + Cooldown <= now
      BY <1>1, <1>2 DEF FreshFor, CooldownOver
    <3> QED
      BY <1>1, <2>2, <2>3, <3>1, SameViews DEF CooldownOver
  <2>6. NotAbandoned(w, e)'
    <3>1. \A q \in OpenRows(e) : job[w].since <= records[q].at["entry"] + MaxOpen
      BY <1>1, <1>2 DEF FreshFor, NotAbandoned
    <3> QED
      BY <1>1, <2>2, <3>1, SameViews DEF NotAbandoned
  <2>7. StepStands(w, e)'
    <3>1. PICK q \in OpenRows(e) : \E a \in job[w].since .. now :
              ChosenAt(records[q], step, a)
      BY <1>1, <1>2 DEF FreshFor, StepStands
    <3>2. q = r
      BY <1>2 DEF OrderlyInv, DayInv
    <3>3. \E a \in job[w].since .. now : ChosenAt(records[r], step, a)
      BY <3>1, <3>2
    <3>4. job[w].since <= now
      BY <1>2 DEF FreshFor, OnTime
    <3> QED
      BY <1>1, <1>2, <2>2, <2>3, <3>3, <3>4 DEF StepStands, ChosenAt
  <2>8. OnTime(w)'
    BY <1>1, <1>2, <2>2, SameRequest
  <2>9. FreshFor(w, e)'
    BY <2>2, <2>4, <2>5, <2>6, <2>7, <2>8, NotAsked DEF FreshFor
  <2>10. \A f \in Employees : Serves(w, f)' => f = e
    BY <2>2 DEF Serves
  <2> QED
    BY <1>1, <1>2, <1>3, <2>9, <2>10, OrderlyReadStep
<1> QED
  BY <1>4, <1>5

\* The facts of a worker about to store a scan of e stamped at t.
LEMMA Storing ==
    ASSUME OrderlyInv, NEW w \in Workers, NEW e, e = job[w].emp,
           NEW t, t = job[w].row.at[job[w].step], SaveRecord(w)
    PROVE  /\ w \in Processes /\ TypeOK /\ e \in Employees /\ Serves(w, e)
           /\ FreshFor(w, e) /\ job[w].row \in Row /\ job[w].row.emp = e
           /\ job[w].step \in Steps /\ job[w].since \in Nat /\ now \in Nat
           /\ t \in Nat /\ job[w].since <= t /\ t <= now
           /\ \A x \in Scans(e) : TimeOf(x) + Cooldown <= t
           /\ UNCHANGED <<now, events>> /\ OnlyMoves(w) /\ pc'[w] = "event"
           /\ job'[w].emp = e /\ job'[w].step = job[w].step
           /\ job'[w].row = job[w].row /\ job'[w].since = job[w].since
<1>1. pc[w] = "save" /\ UNCHANGED <<now, events>>
  BY DEF SaveRecord
<1>2. /\ w \in Processes /\ TypeOK /\ e \in Employees /\ Serves(w, e) /\ FreshFor(w, e)
      /\ job[w].since \in Nat /\ now \in Nat
  BY <1>1, Serving
<1>3. /\ job[w].row \in Row /\ job[w].row.emp = e /\ job[w].step \in Steps /\ t # Null
  BY <1>1, <1>2 DEF OrderlyInv, IndInv, Ready
<1>4. t \in Nat
  BY <1>3 DEF Row, Stamps
<1>5. job[w].since <= t /\ t <= now
  BY <1>1, <1>2 DEF FreshFor, StepStands
<1>6. \A x \in Scans(e) : TimeOf(x) + Cooldown <= t
  BY <1>1, <1>2 DEF FreshFor, CooldownOver
<1>7. /\ OnlyMoves(w) /\ pc'[w] = "event"
      /\ job'[w].emp = e /\ job'[w].step = job[w].step
      /\ job'[w].row = job[w].row /\ job'[w].since = job[w].since
  BY <1>2 DEF OnlyMoves, SaveRecord, Goto, TypeOK, Holding
<1> QED
  BY <1>1, <1>2, <1>3, <1>4, <1>5, <1>6, <1>7

\* What an entry at t writes for e: a row it lacked.
EntryStored(e, n, t) ==
    /\ OthersUntouched(e)
    /\ OpenRows(e) = {} /\ OpenRows(e)' = {n}
    /\ records'[n].at["entry"] = t /\ records'[n].at["lunch_start"] = Null
    /\ <<n, "entry">> \notin Scans(e) /\ Scans(e)' = Scans(e) \cup {<<n, "entry">>}
    /\ \A x \in Scans(e) : TimeOf(x)' = TimeOf(x)
    /\ TimeOf(<<n, "entry">>)' = t

\* An entry: the employee had no open row and has one now.
LEMMA StoresEntry ==
    ASSUME OrderlyInv, NEW w \in Workers, NEW e, e = job[w].emp,
           NEW t, t = job[w].row.at[job[w].step], SaveRecord(w), job[w].step = "entry",
           NEW n, n = Len(records) + 1
    PROVE  job'[w].rid = n /\ EntryStored(e, n, t)
<1>1. /\ w \in Processes /\ TypeOK /\ e \in Employees /\ FreshFor(w, e)
      /\ job[w].row \in Row /\ job[w].row.emp = e /\ t \in Nat
  BY Storing
<1>2. pc[w] = "save" /\ records' = Append(records, job[w].row) /\ job'[w].rid = n
  BY <1>1 DEF SaveRecord, TypeOK, Holding
<1>3. DOMAIN records = 1 .. Len(records) /\ Len(records) \in Nat /\ records \in Seq(Row)
  BY <1>1, RowTypes DEF TypeOK
<1>4. /\ DOMAIN records' = DOMAIN records \cup {n} /\ records'[n] = job[w].row
      /\ n \notin DOMAIN records
      /\ \A q \in DOMAIN records : records'[q] = records[q]
  BY <1>1, <1>2, <1>3, AppendProperties
<1>5. /\ ~job[w].row.autoClosed
      /\ \A s \in Steps \ {"entry"} : job[w].row.at[s] = Null
      /\ OpenRows(e) = {}
  BY <1>1, <1>2 DEF FreshFor, SnapshotFresh, StepStands
<1>6. OthersUntouched(e)
  BY <1>1, <1>2, <1>4 DEF OthersUntouched, SaveRecord
<1>7. OpenRows(e)' = {n}
  BY <1>1, <1>4, <1>5 DEF OpenRows, IsOpen, Steps
<1>8. Scans(e)' = Scans(e) \cup {<<n, "entry">>}
  <2>1. \A r, s : <<r, s>> \in Scans(e)' <=>
                    r \in DOMAIN records' /\ s \in Steps /\ records'[r].emp = e
                       /\ ScannedAt(records'[r], s)
    BY DEF Scans
  <2>2. \A r, s : <<r, s>> \in Scans(e) <=>
                    r \in DOMAIN records /\ s \in Steps /\ records[r].emp = e
                       /\ ScannedAt(records[r], s)
    BY DEF Scans
  <2>3. \A s \in Steps : ScannedAt(job[w].row, s) <=> s = "entry"
    BY <1>1, <1>5, TimeAssumption DEF ScannedAt
  <2>4. ASSUME NEW r, NEW s
        PROVE  <<r, s>> \in Scans(e)' <=> <<r, s>> \in Scans(e) \/ <<r, s>> = <<n, "entry">>
    <3>1. CASE r = n
      <4>1. <<n, s>> \in Scans(e)' <=> s = "entry"
        BY <1>1, <1>4, <2>1, <2>3 DEF Steps
      <4>2. <<n, s>> \notin Scans(e)
        BY <1>4, <2>2
      <4> QED
        BY <3>1, <4>1, <4>2
    <3>2. CASE r # n
      <4>1. r \in DOMAIN records' <=> r \in DOMAIN records
        BY <1>4, <3>2
      <4>2. r \in DOMAIN records => records'[r] = records[r]
        BY <1>4
      <4> QED
        BY <2>1, <2>2, <3>2, <4>1, <4>2
    <3> QED
      BY <3>1, <3>2
  <2>5. \A x : x \in Scans(e) \/ x \in Scans(e)' => x = <<x[1], x[2]>>
    BY DEF Scans
  <2> QED
    BY <2>4, <2>5
<1>9. /\ <<n, "entry">> \notin Scans(e)
      /\ \A x \in Scans(e) : TimeOf(x)' = TimeOf(x)
      /\ TimeOf(<<n, "entry">>)' = t
  BY <1>4 DEF Scans, TimeOf
<1>10. records'[n].at["lunch_start"] = Null
  BY <1>4, <1>5 DEF Steps
<1> QED
  BY <1>2, <1>4, <1>5, <1>6, <1>7, <1>8, <1>9, <1>10 DEF EntryStored

\* What a later step t writes to the row r of e.
StepStored(e, r, step, t) ==
    /\ OthersUntouched(e)
    /\ OpenRows(e) = {r} /\ OpenRows(e)' = (IF step = "exit" THEN {} ELSE {r})
    /\ records'[r] = Stamped(records[r], step, t) /\ records[r].at[step] = Null
    /\ records[r] \in Row /\ r \in DOMAIN records
    /\ <<r, step>> \notin Scans(e) /\ Scans(e)' = Scans(e) \cup {<<r, step>>}
    /\ \A x \in Scans(e) : TimeOf(x)' = TimeOf(x)
    /\ TimeOf(<<r, step>>)' = t

\* A later step: the open row gets the timestamp it lacked, and stays open
\* unless the step was its exit.
LEMMA StoresStep ==
    ASSUME OrderlyInv, NEW w \in Workers, NEW e, e = job[w].emp,
           NEW t, t = job[w].row.at[job[w].step], SaveRecord(w), job[w].step # "entry"
    PROVE  \E r, step :
              /\ r = job[w].rid /\ step = job[w].step /\ job'[w].rid = r
              /\ \E a \in job[w].since .. t : ChosenAt(records[r], step, a)
              /\ StepStored(e, r, step, t)
<1> SUFFICES ASSUME NEW r, NEW step, r = job[w].rid, step = job[w].step
             PROVE  /\ job'[w].rid = r
                    /\ \E a \in job[w].since .. t : ChosenAt(records[r], step, a)
                    /\ StepStored(e, r, step, t)
  OBVIOUS
<1>1. /\ w \in Processes /\ TypeOK /\ e \in Employees /\ FreshFor(w, e)
      /\ job[w].row \in Row /\ job[w].row.emp = e /\ t \in Nat /\ step \in Steps
      /\ events' = events
  BY Storing
<1>2. /\ pc[w] = "save" /\ records' = [records EXCEPT ![r] = job[w].row]
      /\ job'[w].rid = r
  BY <1>1 DEF SaveRecord, TypeOK
<1>3. /\ r \in OpenRows(e) /\ job[w].row = Stamped(records[r], step, t)
      /\ \E a \in job[w].since .. t : ChosenAt(records[r], step, a)
  BY <1>1, <1>2 DEF FreshFor, SnapshotFresh, StepStands
<1>4. /\ r \in DOMAIN records /\ records[r] \in Row /\ records[r].emp = e
      /\ records[r].at["exit"] = Null /\ ~records[r].autoClosed
  BY <1>3, Views DEF OrderlyInv, OpenRows, IsOpen
<1>5. records[r].at[step] = Null
  BY <1>3, <1>4 DEF ChosenAt
<1>6. /\ OthersUntouched(e)
      /\ DOMAIN records' = DOMAIN records /\ records'[r] = job[w].row
      /\ \A q \in DOMAIN records : q # r => records'[q] = records[q]
  BY <1>1, <1>2, <1>4, UpdateTouches
<1>7. /\ ~records'[r].autoClosed /\ records'[r].emp = e /\ records'[r].at[step] = t
      /\ \A s \in Steps \ {step} : records'[r].at[s] = records[r].at[s]
  BY <1>1, <1>3, <1>4, <1>6 DEF Stamped, Row, Stamps
<1>8. OpenRows(e) = {r}
  BY <1>1, <1>3 DEF OrderlyInv, DayInv
<1>9. OpenRows(e)' = (IF step = "exit" THEN {} ELSE {r})
  <2>1. t # Null
    BY <1>1, TimeAssumption
  <2>2. r \in OpenRows(e)' <=> step # "exit"
    BY <1>1, <1>4, <1>6, <1>7, <2>1 DEF OpenRows, IsOpen, Steps
  <2>3. \A q \in OpenRows(e)' : q = r
    BY <1>6, <1>8 DEF OpenRows, IsOpen
  <2> QED
    BY <2>2, <2>3
<1>10. Scans(e)' = Scans(e) \cup {<<r, step>>}
  <2>1. \A q, s : <<q, s>> \in Scans(e)' <=>
                    q \in DOMAIN records' /\ s \in Steps /\ records'[q].emp = e
                       /\ ScannedAt(records'[q], s)
    BY DEF Scans
  <2>2. \A q, s : <<q, s>> \in Scans(e) <=>
                    q \in DOMAIN records /\ s \in Steps /\ records[q].emp = e
                       /\ ScannedAt(records[q], s)
    BY DEF Scans
  <2>3. \A s \in Steps \ {step} : ScannedAt(records'[r], s) <=> ScannedAt(records[r], s)
    BY <1>4, <1>7 DEF ScannedAt
  <2>4. ScannedAt(records'[r], step)
    BY <1>1, <1>7, TimeAssumption DEF ScannedAt
  <2>5. \A q, s : <<q, s>> \in Scans(e)' <=> <<q, s>> \in Scans(e) \/ <<q, s>> = <<r, step>>
    BY <1>1, <1>4, <1>6, <1>7, <2>1, <2>2, <2>3, <2>4
  <2>6. \A x : x \in Scans(e) \/ x \in Scans(e)' => x = <<x[1], x[2]>>
    BY DEF Scans
  <2> QED
    BY <2>5, <2>6
<1>11. <<r, step>> \notin Scans(e) /\ TimeOf(<<r, step>>)' = t
  BY <1>5, <1>7 DEF Scans, ScannedAt, TimeOf
<1>12. \A x \in Scans(e) : TimeOf(x)' = TimeOf(x)
  BY <1>6, <1>7, <1>11 DEF Scans, TimeOf
<1> QED
  BY <1>2, <1>3, <1>4, <1>5, <1>6, <1>8, <1>9, <1>10, <1>11, <1>12 DEF StepStored

\* Either way: one scan more, the latest, in the hands of the worker that still
\* owes its event.
LEMMA StoresScan ==
    ASSUME OrderlyInv, NEW w \in Workers, NEW e, e = job[w].emp,
           NEW t, t = job[w].row.at[job[w].step], SaveRecord(w),
           NEW n, n = job'[w].rid, NEW step, step = job[w].step
    PROVE  /\ OthersUntouched(e) /\ \A q, r \in OpenRows(e)' : q = r
           /\ <<n, step>> \notin Scans(e) /\ Scans(e)' = Scans(e) \cup {<<n, step>>}
           /\ \A x \in Scans(e) : TimeOf(x)' = TimeOf(x)
           /\ TimeOf(<<n, step>>)' = t
<1>1. CASE step = "entry"
  <2>1. PICK k : k = Len(records) + 1
    OBVIOUS
  <2>2. job[w].step = "entry"
    BY <1>1
  <2>3. n = k /\ EntryStored(e, k, t)
    BY <2>1, <2>2, StoresEntry
  <2>4. <<n, step>> = <<k, "entry">>
    BY <1>1, <2>3
  <2> QED
    BY <2>3, <2>4 DEF EntryStored
<1>2. CASE step # "entry"
  <2>1. job[w].step # "entry"
    BY <1>2
  <2>2. PICK r, col : /\ r = job[w].rid /\ col = job[w].step /\ job'[w].rid = r
                      /\ StepStored(e, r, col, t)
    BY <2>1, StoresStep
  <2>3. r = n /\ col = step
    BY <2>2
  <2> QED
    BY <2>2, <2>3 DEF StepStored
<1> QED
  BY <1>1, <1>2

LEMMA OrderlySaveRecord ==
    ASSUME OrderlyInv, NEW w \in Workers, NEW e, e = job[w].emp, SaveRecord(w),
           IndInv', OneAtATime'
    PROVE  OrderlyInv'
<1>1. PICK t, n, step : /\ t = job[w].row.at[job[w].step]
                        /\ n = job'[w].rid /\ step = job[w].step
  OBVIOUS
<1>2. /\ w \in Processes /\ TypeOK /\ e \in Employees /\ Serves(w, e)
      /\ FreshFor(w, e) /\ job[w].since \in Nat /\ now \in Nat
      /\ t \in Nat /\ t <= now
      /\ \A x \in Scans(e) : TimeOf(x) + Cooldown <= t
      /\ UNCHANGED <<now, events>> /\ OnlyMoves(w) /\ pc'[w] = "event"
      /\ job'[w].emp = e /\ job'[w].step = step
      /\ job'[w].row = job[w].row /\ job'[w].since = job[w].since
  BY <1>1, Storing
<1>3. /\ OthersUntouched(e) /\ \A q, r \in OpenRows(e)' : q = r
      /\ <<n, step>> \notin Scans(e) /\ Scans(e)' = Scans(e) \cup {<<n, step>>}
      /\ \A x \in Scans(e) : TimeOf(x)' = TimeOf(x)
      /\ TimeOf(<<n, step>>)' = t
  BY <1>1, StoresScan
<1>4. DayInv(e)'
  <2>1. DayInv(e)
    BY <1>2 DEF OrderlyInv
  <2>2. \A x \in Scans(e)' : TimeOf(x)' <= now'
    BY <1>2, <1>3, <2>1 DEF DayInv
  <2>3. EventsOf(e)' = EventsOf(e) /\ \A k : EventScan(k)' = EventScan(k)
    BY <1>2 DEF EventsOf, EventScan
  <2>4. \A x \in Scans(e)' :
           \/ \E k \in EventsOf(e)' : EventScan(k)' = x
           \/ \E v \in Workers :
                  pc'[v] = "event" /\ job'[v].emp = e /\ x = <<job'[v].rid, job'[v].step>>
    <3>1. ASSUME NEW v \in Workers, pc[v] = "event", job[v].emp = e PROVE FALSE
      <4>1. v \in Processes /\ Serves(v, e)
        BY <3>1 DEF Processes, Serves
      <4>2. v = w
        BY <1>2, <4>1 DEF OrderlyInv, OneAtATime
      <4> QED
        BY <3>1, <4>2 DEF SaveRecord
    <3>2. \A x \in Scans(e) : \E k \in EventsOf(e) : EventScan(k) = x
      BY <2>1, <3>1 DEF DayInv
    <3> QED
      BY <1>1, <1>2, <1>3, <2>3, <3>2
  <2>5. \A k \in EventsOf(e)' :
           EventScan(k)' \in Scans(e)' /\ TimeOf(EventScan(k))' = events'[k].ts
    <3> SUFFICES ASSUME NEW k \in EventsOf(e)
                 PROVE  EventScan(k)' \in Scans(e)' /\ TimeOf(EventScan(k))' = events'[k].ts
      BY <2>3
    <3>1. EventScan(k) \in Scans(e) /\ TimeOf(EventScan(k)) = events[k].ts
      BY <2>1 DEF DayInv
    <3>2. PICK x : x = EventScan(k)
      OBVIOUS
    <3>3. x \in Scans(e) /\ EventScan(k)' = x
      BY <2>3, <3>1, <3>2
    <3>4. TimeOf(x)' = TimeOf(EventScan(k))
      BY <1>3, <3>2, <3>3
    <3>5. TimeOf(EventScan(k))' = TimeOf(x)'
      BY <3>3 DEF TimeOf
    <3> QED
      BY <1>2, <1>3, <3>1, <3>3, <3>4, <3>5
  <2> QED
    BY <1>3, <2>2, <2>4, <2>5 DEF DayInv
<1>5. ScanIsLast(w, e)'
  <2>1. <<n, step>> \in Scans(e)'
    BY <1>3
  <2>2. \A x \in Scans(e)' \ {<<n, step>>} : TimeOf(x)' + Cooldown <= TimeOf(<<n, step>>)'
    BY <1>2, <1>3
  <2>3. TimeOf(<<n, step>>)' = job'[w].row.at[step]
    BY <1>1, <1>2, <1>3
  <2>4. <<job'[w].rid, job'[w].step>> = <<n, step>>
    BY <1>1, <1>2
  <2>5. TimeOf(<<job[w].rid, job[w].step>>)' = TimeOf(<<n, step>>)'
    BY <2>4 DEF TimeOf
  <2> QED
    BY <1>2, <2>1, <2>2, <2>3, <2>4, <2>5 DEF ScanIsLast
<1>6. OnTime(w)'
  BY <1>2, SameRequest
<1>7. FreshFor(w, e)'
  BY <1>2, <1>5, <1>6, NotAsked DEF FreshFor
<1>8. \A f \in Employees : Serves(w, f)' => f = e
  BY <1>2 DEF Serves
<1> QED
  BY <1>2, <1>3, <1>4, <1>7, <1>8, OrderlyWriteStep

LEMMA OrderlyCreateEvent ==
    ASSUME OrderlyInv, NEW w \in Workers, NEW e, e = job[w].emp, CreateEvent(w),
           IndInv', OneAtATime'
    PROVE  OrderlyInv'
<1>1. pc[w] = "event" /\ UNCHANGED <<now, records, job>>
  BY DEF CreateEvent, LogEvent
<1>2. /\ w \in Processes /\ TypeOK /\ e \in Employees /\ Serves(w, e) /\ FreshFor(w, e)
  BY <1>1, Serving
<1>3. OnlyMoves(w) /\ pc'[w] = "reply"
  BY <1>2 DEF OnlyMoves, CreateEvent, LogEvent, Goto, TypeOK
<1>4. PICK own, n : own = <<job[w].rid, job[w].step>> /\ n = Len(events) + 1
  OBVIOUS
<1>5. /\ own \in Scans(e) /\ TimeOf(own) = job[w].row.at[job[w].step]
      /\ \A x \in Scans(e) \ {own} : TimeOf(x) + Cooldown <= TimeOf(own)
  <2>1. TimeOf(<<job[w].rid, job[w].step>>) = TimeOf(own)
    BY <1>4
  <2> QED
    BY <1>1, <1>2, <1>4, <2>1 DEF FreshFor, ScanIsLast
<1>6. /\ DOMAIN events' = DOMAIN events \cup {n} /\ n \notin DOMAIN events
      /\ \A k \in DOMAIN events : events'[k] = events[k]
      /\ events'[n] = [emp |-> e, step |-> job[w].step,
                       ts |-> job[w].row.at[job[w].step], rec |-> job[w].rid]
  <2>1. DOMAIN events = 1 .. Len(events) /\ Len(events) \in Nat /\ events \in Seq(Event)
    BY <1>2, RowTypes DEF TypeOK
  <2>2. events' = Append(events, [emp |-> e, step |-> job[w].step,
                                  ts |-> job[w].row.at[job[w].step], rec |-> job[w].rid])
    BY DEF CreateEvent, LogEvent
  <2>3. [emp |-> e, step |-> job[w].step,
         ts |-> job[w].row.at[job[w].step], rec |-> job[w].rid] \in Event
    <3>1. /\ job[w].step \in Steps /\ job[w].row \in Row
          /\ job[w].row.at[job[w].step] # Null
          /\ job[w].rid \in DOMAIN records
      BY <1>1, <1>2 DEF OrderlyInv, IndInv, Ready, SameShift
    <3>2. DOMAIN records = 1 .. Len(records) /\ Len(records) \in Nat
      BY <1>2, RowTypes
    <3> QED
      BY <1>2, <3>1, <3>2 DEF Event, Row, Stamps
  <2> QED
    BY <1>4, <2>1, <2>2, <2>3, AppendProperties
<1>7. OthersUntouched(e)
  BY <1>1, <1>6 DEF OthersUntouched
<1>8. Scans(e)' = Scans(e) /\ OpenRows(e)' = OpenRows(e) /\ \A x : TimeOf(x)' = TimeOf(x)
  BY <1>1 DEF Scans, ScannedAt, OpenRows, IsOpen, TimeOf
<1>9. EventsOf(e)' = EventsOf(e) \cup {n} /\ EventScan(n)' = own /\ n \notin EventsOf(e)
      /\ \A k \in EventsOf(e) : EventScan(k)' = EventScan(k)
  BY <1>4, <1>6 DEF EventsOf, EventScan
<1>10. DayInv(e)'
  <2>1. DayInv(e)
    BY <1>2 DEF OrderlyInv
  <2>2. \A x \in Scans(e)' : \E k \in EventsOf(e)' : EventScan(k)' = x
    <3> SUFFICES ASSUME NEW x \in Scans(e), x # own
                 PROVE  \E k \in EventsOf(e) : EventScan(k) = x
      BY <1>8, <1>9
    <3>1. ASSUME NEW v \in Workers, pc[v] = "event", job[v].emp = e,
                 x = <<job[v].rid, job[v].step>>
          PROVE  FALSE
      <4>1. v \in Processes /\ Serves(v, e)
        BY <3>1 DEF Processes, Serves
      <4>2. v = w
        BY <1>2, <4>1 DEF OrderlyInv, OneAtATime
      <4> QED
        BY <1>4, <3>1, <4>2
    <3> QED
      BY <2>1, <3>1 DEF DayInv
  <2>3. \A k \in EventsOf(e)' :
           EventScan(k)' \in Scans(e)' /\ TimeOf(EventScan(k))' = events'[k].ts
    <3>1. ASSUME NEW k \in EventsOf(e)
          PROVE  EventScan(k)' \in Scans(e)' /\ TimeOf(EventScan(k))' = events'[k].ts
      <4>1. EventScan(k) \in Scans(e) /\ TimeOf(EventScan(k)) = events[k].ts
        BY <2>1 DEF DayInv
      <4>2. TimeOf(EventScan(k))' = TimeOf(EventScan(k))
        BY <1>1, <1>9 DEF TimeOf
      <4> QED
        BY <1>6, <1>8, <1>9, <4>1, <4>2 DEF EventsOf
    <3>2. EventScan(n)' \in Scans(e)' /\ TimeOf(EventScan(n))' = events'[n].ts
      <4>1. TimeOf(EventScan(n))' = TimeOf(own)
        BY <1>1, <1>9 DEF TimeOf
      <4> QED
        BY <1>5, <1>6, <1>8, <1>9, <4>1
    <3> QED
      BY <1>9, <3>1, <3>2
  <2> QED
    BY <1>1, <1>8, <2>1, <2>2, <2>3 DEF DayInv
<1>11. ScanIsLast(w, e)'
  <2>1. TimeOf(<<job[w].rid, job[w].step>>)' = TimeOf(own)
    BY <1>1, <1>4 DEF TimeOf
  <2> QED
    BY <1>1, <1>3, <1>4, <1>5, <1>8, <2>1 DEF ScanIsLast
<1>12. OnTime(w)'
  BY <1>1, <1>2, SameRequest
<1>13. FreshFor(w, e)'
  BY <1>3, <1>11, <1>12, NotAsked DEF FreshFor
<1>14. \A f \in Employees : Serves(w, f)' => f = e
  BY <1>1, <1>3 DEF Serves
<1> QED
  BY <1>1, <1>2, <1>3, <1>7, <1>10, <1>13, <1>14, OrderlyWriteStep

LEMMA OrderlyReply ==
    ASSUME OrderlyInv, NEW w \in Workers, Reply(w), IndInv', OneAtATime'
    PROVE  OrderlyInv'
<1>1. /\ pc[w] = "reply" /\ UNCHANGED <<now, records, events>>
      /\ w \in Processes /\ TypeOK
  BY DEF Reply, db, Processes, OrderlyInv, IndInv
<1>2. OnlyMoves(w) /\ pc'[w] = "idle"
  BY <1>1 DEF OnlyMoves, Reply, Finish, Goto, TypeOK
<1> QED
  BY <1>1, <1>2, OrderlyReadStep DEF Serves

-----------------------------------------------------------------------------
(* The review screen, the nightly command and the rest.                    *)

LEMMA OrderlyStartReview ==
    ASSUME OrderlyInv, NEW w \in Workers, NEW r \in DOMAIN records, NEW t \in 0 .. MaxTime,
           StartReview(w, r, t), IndInv', OneAtATime'
    PROVE  OrderlyInv'
<1>1. /\ pc[w] = "idle" /\ UNCHANGED <<now, records, events>>
      /\ w \in Processes /\ TypeOK /\ PendingReview(records[r])
  BY DEF StartReview, db, Processes, OrderlyInv, IndInv
<1>2. /\ OnlyMoves(w) /\ pc'[w] = "review_save"
      /\ job'[w].row = Stamped(records[r], "exit", t) /\ job'[w].rid = r
      /\ job'[w].since = now
  BY <1>1 DEF OnlyMoves, StartReview, Goto, TypeOK
<1>3. records[r] \in Row /\ t # Null /\ now \in Nat /\ MaxHandling \in Nat
  BY <1>1, RowTypes, TimeAssumption DEF TypeOK
<1>4. job'[w].row.emp = records[r].emp /\ job'[w].row.at["exit"] = t
  BY <1>2, <1>3 DEF Stamped, Row, Stamps, Steps
<1>5. OnTime(w)'
  BY <1>1, <1>2, <1>3 DEF OnTime
<1>6. ASSUME NEW f \in Employees PROVE FreshFor(w, f)'
  <2>1. SnapshotFresh(w, f)'
    BY <1>1, <1>2, <1>3, <1>4 DEF SnapshotFresh, PendingReview, Stamped
  <2> QED
    BY <1>2, <1>5, <2>1, NotAsked DEF FreshFor
<1> QED
  BY <1>1, <1>2, <1>6, OrderlyReadStep

\* The exit a master fills in: an abandoned shift keeps its flag, so it neither
\* opens nor counts as scanned.
ReviewStored(e) ==
    /\ OthersUntouched(e)
    /\ OpenRows(e)' = OpenRows(e)
    /\ \A q \in OpenRows(e) : records'[q] = records[q]
    /\ Scans(e)' = Scans(e)
    /\ \A x \in Scans(e) : TimeOf(x)' = TimeOf(x)

LEMMA StoresReview ==
    ASSUME OrderlyInv, NEW w \in Workers, NEW e, e = job[w].row.emp, SaveReview(w)
    PROVE  /\ w \in Processes /\ e \in Employees /\ Serves(w, e) /\ OnlyMoves(w)
           /\ pc'[w] = "idle" /\ pc[w] = "review_save" /\ UNCHANGED <<now, events>>
           /\ ReviewStored(e)
<1>1. PICK r : r = job[w].rid
  OBVIOUS
<1>2. /\ pc[w] = "review_save" /\ UNCHANGED <<now, events>>
      /\ records' = [records EXCEPT ![r] = job[w].row]
      /\ w \in Processes /\ TypeOK
  BY <1>1 DEF SaveReview, Processes, OrderlyInv, IndInv
<1>3. OnlyMoves(w) /\ pc'[w] = "idle"
  BY <1>2 DEF OnlyMoves, SaveReview, Finish, Goto, TypeOK
<1>4. /\ r \in DOMAIN records /\ records[r].emp = e /\ job[w].row \in Row
      /\ records[r] \in Row /\ e \in Employees
  BY <1>1, <1>2, RowTypes DEF OrderlyInv, IndInv, Ready, SameShift, Row
<1>5. Serves(w, e) /\ FreshFor(w, e)
  BY <1>2, <1>4 DEF Serves, OrderlyInv
<1>6. /\ PendingReview(records[r])
      /\ job[w].row = Stamped(records[r], "exit", job[w].row.at["exit"])
  BY <1>1, <1>2, <1>5 DEF FreshFor, SnapshotFresh
<1>7. /\ records[r].autoClosed /\ job[w].row.autoClosed
      /\ \A s \in Steps \ {"exit"} : job[w].row.at[s] = records[r].at[s]
  BY <1>4, <1>6 DEF PendingReview, Stamped, Row, Stamps
<1>8. /\ OthersUntouched(e)
      /\ DOMAIN records' = DOMAIN records /\ records'[r] = job[w].row
      /\ \A q \in DOMAIN records : q # r => records'[q] = records[q]
  BY <1>2, <1>4, UpdateTouches
<1>9. /\ OpenRows(e)' = OpenRows(e)
      /\ \A q \in OpenRows(e) : records'[q] = records[q]
  BY <1>4, <1>7, <1>8 DEF OpenRows, IsOpen
<1>10. Scans(e)' = Scans(e)
  BY <1>4, <1>7, <1>8 DEF Scans, ScannedAt
<1>11. \A x \in Scans(e) : TimeOf(x)' = TimeOf(x)
  BY <1>4, <1>7, <1>8 DEF Scans, ScannedAt, TimeOf
<1> QED
  BY <1>2, <1>3, <1>4, <1>5, <1>8, <1>9, <1>10, <1>11 DEF ReviewStored

LEMMA OrderlySaveReview ==
    ASSUME OrderlyInv, NEW w \in Workers, NEW e, e = job[w].row.emp, SaveReview(w),
           IndInv', OneAtATime'
    PROVE  OrderlyInv'
<1>1. /\ w \in Processes /\ e \in Employees /\ Serves(w, e) /\ OnlyMoves(w)
      /\ pc'[w] = "idle" /\ pc[w] = "review_save" /\ UNCHANGED <<now, events>>
      /\ ReviewStored(e)
  BY StoresReview
<1>2. DayInv(e)'
  <2>1. DayInv(e)
    BY <1>1 DEF OrderlyInv
  <2>2. \A x \in Scans(e) : TimeOf(x) <= now'
    BY <1>1, <2>1 DEF DayInv
  <2>3. \A v \in Workers : pc[v] = "event" => pc'[v] = "event" /\ job'[v] = job[v]
    BY <1>1 DEF OnlyMoves, Processes
  <2> QED
    BY <1>1, <2>1, <2>2, <2>3, SameDay DEF ReviewStored
<1>3. \A f \in Employees : ~Serves(w, f)'
  BY <1>1 DEF Serves
<1> QED
  BY <1>1, <1>2, <1>3, OrderlyWriteStep DEF ReviewStored

LEMMA OrderlyStartCron ==
    ASSUME OrderlyInv, NEW c \in Crons, StartCron(c) \/ FinishCron(c), IndInv', OneAtATime'
    PROVE  OrderlyInv'
<1>1. /\ UNCHANGED <<now, records, events>>
      /\ c \in Processes /\ c \notin Workers /\ TypeOK
  BY ProcessAssumption DEF StartCron, FinishCron, db, Processes, OrderlyInv, IndInv
<1>2. OnlyMoves(c) /\ pc'[c] \in {"next", "idle"}
  BY <1>1 DEF OnlyMoves, StartCron, FinishCron, Finish, Goto, TypeOK
<1> QED
  BY <1>1, <1>2, OrderlyReadStep DEF Serves

LEMMA OrderlyCronCheckStale ==
    ASSUME OrderlyInv, NEW c \in Crons, CronCheckStale(c), IndInv', OneAtATime'
    PROVE  OrderlyInv'
<1>1. /\ pc[c] = "next" /\ UNCHANGED <<now, records, events>>
      /\ c \in Processes /\ c \notin Workers /\ TypeOK
  BY ProcessAssumption DEF CronCheckStale, db, Processes, OrderlyInv, IndInv
<1>2. OnlyMoves(c)
  BY <1>1 DEF OnlyMoves, CronCheckStale, Goto, TypeOK
<1>3. CASE UNCHANGED <<pc, job>>
  BY <1>1, <1>2, <1>3, OrderlyReadStep DEF Serves
<1>4. CASE ~UNCHANGED <<pc, job>>
  <2>1. PICK x \in todo[c] : \E r \in CurrentOpen(x[1]) :
               /\ job' = [job EXCEPT ![c] = Holding(NoJob, r, Flagged(records[r]))]
               /\ Goto(c, "close_save")
    BY <1>4 DEF CronCheckStale
  <2>2. PICK r \in CurrentOpen(x[1]) :
               /\ job' = [job EXCEPT ![c] = Holding(NoJob, r, Flagged(records[r]))]
               /\ Goto(c, "close_save")
    BY <2>1
  <2>3. PICK e : e = x[1]
    OBVIOUS
  <2>4. /\ pc'[c] = "close_save" /\ job'[c].rid = r /\ job'[c].row = Flagged(records[r])
    BY <1>1, <2>2 DEF TypeOK, Holding, Goto
  <2>5. r \in OpenRows(e)
    BY <2>3 DEF CurrentOpen
  <2>6. Flagged(records[r]).emp = e
    BY <2>5, Views DEF OrderlyInv, Flagged, Row
  <2>7. SnapshotFresh(c, e)'
    BY <1>1, <2>4, <2>5, SameViews DEF SnapshotFresh, Flagged
  <2>8. OnTime(c)' /\ CooldownOver(c, e)'
    BY <1>1, <2>4 DEF OnTime, CooldownOver
  <2>9. FreshFor(c, e)'
    BY <2>4, <2>7, <2>8, NotAsked DEF FreshFor
  <2>10. \A f \in Employees : Serves(c, f)' => f = e
    BY <1>1, <2>4, <2>6 DEF Serves
  <2> QED
    BY <1>1, <1>2, <2>9, <2>10, OrderlyReadStep
<1> QED
  BY <1>3, <1>4

LEMMA OrderlyCronSaveAutoClosed ==
    ASSUME OrderlyInv, NEW c \in Crons, NEW e, e = job[c].row.emp, CronSaveAutoClosed(c),
           IndInv', OneAtATime'
    PROVE  OrderlyInv'
<1>1. /\ pc[c] = "close_save" /\ UNCHANGED <<now, events>>
      /\ records' = [records EXCEPT ![job[c].rid] = job[c].row]
      /\ c \in Processes /\ c \notin Workers /\ TypeOK
  BY ProcessAssumption DEF CronSaveAutoClosed, Processes, OrderlyInv, IndInv
<1>2. OnlyMoves(c) /\ pc'[c] = "next"
  BY <1>1 DEF OnlyMoves, CronSaveAutoClosed, Goto, TypeOK
<1>3. e \in Employees
  BY <1>1 DEF OrderlyInv, IndInv, Ready, Row
<1>4. Serves(c, e)
  BY <1>1 DEF Serves
<1>5. OthersUntouched(e) /\ DayInv(e)'
  BY <1>1, <1>2, <1>3, <1>4, FlagsOpenRow
<1> QED
  BY <1>1, <1>2, <1>3, <1>4, <1>5, OrderlyWriteStep DEF Serves

LEMMA OrderlyCrash ==
    ASSUME OrderlyInv, NEW p \in Processes, Crash(p), Orderly, IndInv'
    PROVE  OrderlyInv'
<1>1. /\ UNCHANGED <<now, records, events>> /\ TypeOK
  BY DEF Crash, db, OrderlyInv, IndInv
<1>2. OnlyMoves(p) /\ pc'[p] = "idle"
  BY <1>1 DEF OnlyMoves, Crash, Finish, Goto, TypeOK
<1>3. p \in Workers => pc[p] # "event"
  BY <1>2 DEF Orderly
<1> QED
  BY <1>1, <1>2, <1>3, OrderlyReadStep DEF Serves, Orderly

\* Everything that moves neither the tables nor a process, time included.
LEMMA OrderlyEnvironment ==
    ASSUME OrderlyInv, UNCHANGED <<records, events, pc, job>>, now \in Nat, now' \in Nat,
           now <= now',
           \A w \in Workers : pc[w] # "idle" => now' <= job[w].since + MaxHandling,
           IndInv'
    PROVE  OrderlyInv'
<1>1. \A p, e : Serves(p, e)' <=> Serves(p, e)
  BY DEF Serves
<1>2. OneAtATime'
  BY <1>1 DEF OrderlyInv, OneAtATime
<1>3. \A e : /\ OpenRows(e)' = OpenRows(e) /\ Scans(e)' = Scans(e)
             /\ \A x : TimeOf(x)' = TimeOf(x)
  BY SameViews
<1>4. \A e \in Employees : \A x \in Scans(e) : TimeOf(x) \in Nat /\ TimeOf(x) <= now
  BY Views DEF OrderlyInv, DayInv
<1>5. ASSUME NEW e \in Employees PROVE DayInv(e)'
  <2>1. \A x \in Scans(e) : TimeOf(x) <= now'
    BY <1>4
  <2>2. DayInv(e)
    BY DEF OrderlyInv
  <2> QED
    BY <1>3, <2>1, <2>2, SameDay
<1>6. ASSUME NEW p \in Processes, NEW e \in Employees, Serves(p, e)'
      PROVE  FreshFor(p, e)'
  <2>1. Serves(p, e) /\ FreshFor(p, e)
    BY <1>1, <1>6 DEF OrderlyInv
  <2>2. job[p].since \in Nat
    BY DEF OrderlyInv, IndInv, TypeOK, Job
  <2>3. OnTime(p)'
    BY <2>1, <2>2 DEF FreshFor, OnTime, Serves
  <2>4. SnapshotFresh(p, e)'
    BY <1>3, <2>1 DEF FreshFor, SnapshotFresh, PendingReview, Flagged, Stamped
  <2>5. CooldownOver(p, e)'
    <3>1. Cooldown \in Nat
      BY TimeAssumption
    <3> QED
      BY <1>3, <1>4, <2>1, <3>1 DEF FreshFor, CooldownOver
  <2>6. NotAbandoned(p, e)'
    BY <1>3, <2>1 DEF FreshFor, NotAbandoned
  <2>7. StepStands(p, e)'
    <3>1. job[p].since .. now \subseteq job[p].since .. now'
      BY <2>2
    <3>2. StepStands(p, e)
      BY <2>1 DEF FreshFor
    <3>3. pc[p] = "save" => job[p].row.at[job[p].step] \in Nat
      BY <2>1 DEF OrderlyInv, IndInv, Ready, Row, Stamps, Serves
    <3>4. \A row, step, a : ChosenAt(row, step, a)' <=> ChosenAt(row, step, a)
      BY DEF ChosenAt
    <3> QED
      BY <1>3, <3>1, <3>2, <3>3, <3>4 DEF StepStands
  <2>8. ScanIsLast(p, e)'
    BY <1>3, <2>1 DEF FreshFor, ScanIsLast
  <2> QED
    BY <2>3, <2>4, <2>5, <2>6, <2>7, <2>8 DEF FreshFor
<1> QED
  BY <1>2, <1>5, <1>6 DEF OrderlyInv

LEMMA OrderlyInit == Init => OrderlyInv
<1> SUFFICES ASSUME Init PROVE OrderlyInv
  OBVIOUS
<1>1. IndInv
  BY InitIndInv
<1>2. \A p \in Processes : \A e : ~Serves(p, e)
  BY DEF Init, Serves
<1>3. DOMAIN records = {} /\ DOMAIN events = {}
  BY DEF Init
<1>4. ASSUME NEW e PROVE DayInv(e)
  <2>1. OpenRows(e) = {} /\ Scans(e) = {} /\ EventsOf(e) = {}
    BY <1>3 DEF OpenRows, Scans, EventsOf
  <2> QED
    BY <2>1 DEF DayInv
<1> QED
  BY <1>1, <1>2, <1>4 DEF OrderlyInv, OneAtATime

\* Every orderly statement of every process preserves the invariant.
LEMMA OrderlyStep == OrderlyInv /\ [Next /\ Orderly]_vars => OrderlyInv'
<1> SUFFICES ASSUME OrderlyInv, [Next /\ Orderly]_vars PROVE OrderlyInv'
  OBVIOUS
<1>1. IndInv'
  BY NextIndInv DEF OrderlyInv
<1>2. now \in Nat
  BY DEF OrderlyInv, IndInv, TypeOK
<1>3. \A w \in Workers : pc[w] # "idle" => now <= job[w].since + MaxHandling
  <2> SUFFICES ASSUME NEW w \in Workers, pc[w] # "idle"
               PROVE  now <= job[w].since + MaxHandling
    OBVIOUS
  <2>1. w \in Processes
    BY DEF Processes
  <2>2. PICK e \in Employees : Serves(w, e)
    <3>1. CASE pc[w] = "review_save"
      <4>1. job[w].row \in Row
        BY <2>1, <3>1 DEF OrderlyInv, IndInv, Ready
      <4> QED
        BY <3>1, <4>1 DEF Serves, Row
    <3>2. CASE pc[w] # "review_save"
      BY <3>2, Serving
    <3> QED
      BY <3>1, <3>2
  <2> QED
    BY <2>1, <2>2 DEF OrderlyInv, FreshFor, OnTime
<1>4. ASSUME Next, Orderly PROVE OrderlyInv'
  <2>1. OneAtATime'
    BY <1>4 DEF Orderly
  <2>2. ASSUME NEW w \in Workers, NEW e \in Employees, ReceiveScan(w, e)
        PROVE  OrderlyInv'
    BY <1>1, <2>1, <2>2, OrderlyReceiveScan
  <2>3. ASSUME NEW w \in Workers, HandleScan(w)
        PROVE  OrderlyInv'
    BY <1>1, <2>1, <2>3, OrderlyCheckCooldown, OrderlyCheckStale, OrderlySaveAutoClosed,
       OrderlyDispatch, OrderlyCheckStillActive, OrderlyReread, OrderlySaveRecord,
       OrderlyCreateEvent, OrderlyReply DEF HandleScan
  <2>4. ASSUME NEW w \in Workers, NEW r \in DOMAIN records, NEW t \in 0 .. MaxTime,
               StartReview(w, r, t)
        PROVE  OrderlyInv'
    BY <1>1, <2>1, <2>4, OrderlyStartReview
  <2>5. ASSUME NEW w \in Workers, SaveReview(w)
        PROVE  OrderlyInv'
    BY <1>1, <2>1, <2>5, OrderlySaveReview
  <2>6. ASSUME NEW c \in Crons, RunCron(c)
        PROVE  OrderlyInv'
    BY <1>1, <2>1, <2>6, OrderlyStartCron, OrderlyCronCheckStale, OrderlyCronSaveAutoClosed
       DEF RunCron
  <2>7. ASSUME NEW p \in Processes, Crash(p)
        PROVE  OrderlyInv'
    BY <1>1, <1>4, <2>7, OrderlyCrash
  <2>8. ASSUME NEW e \in Employees, SetActive(e)
        PROVE  OrderlyInv'
    <3>1. UNCHANGED <<now, records, events, pc, job>>
      BY <2>8 DEF SetActive, db
    <3> QED
      BY <1>1, <1>2, <1>3, <3>1, OrderlyEnvironment
  <2>9. CASE Tick
    <3>1. /\ UNCHANGED <<records, events, pc, job>> /\ now' = now + 1
          /\ \A w \in Workers : pc[w] # "idle" => now < job[w].since + MaxHandling
      BY <2>9 DEF Tick, db
    <3>2. \A w \in Workers : pc[w] # "idle" => now' <= job[w].since + MaxHandling
      <4> SUFFICES ASSUME NEW w \in Workers, pc[w] # "idle"
                   PROVE  now' <= job[w].since + MaxHandling
        OBVIOUS
      <4>1. job[w].since \in Nat
        BY DEF OrderlyInv, IndInv, TypeOK, Job, Processes
      <4> QED
        BY <1>2, <3>1, <4>1, TimeAssumption
    <3> QED
      BY <1>1, <1>2, <3>1, <3>2, OrderlyEnvironment
  <2> QED
    BY <1>4, <2>2, <2>3, <2>4, <2>5, <2>6, <2>7, <2>8, <2>9 DEF Next
<1>5. CASE UNCHANGED vars
  <2>1. UNCHANGED <<now, records, events, pc, job>>
    BY <1>5 DEF vars, db
  <2> QED
    BY <1>1, <1>2, <1>3, <2>1, OrderlyEnvironment
<1> QED
  BY <1>4, <1>5

\* While requests about one employee do not overlap and none dies between a row
\* and its event, nothing a handler knows is ever out of date.
THEOREM OrderlyInvHolds == OrderlySpec => []OrderlyInv
<1> QED
  BY OrderlyInit, OrderlyStep, PTL DEF OrderlySpec

-----------------------------------------------------------------------------
(* What a step may not do to a row, and the log beside the table.          *)

\* Every write of a row is a write of an open row, but for the exit that a
\* master stores on a row under review.
LEMMA RowWriters ==
    ASSUME OrderlyInv, [Next]_vars, NEW r \in DOMAIN records, records'[r] # records[r]
    PROVE  \/ IsOpen(records[r])
           \/ /\ PendingReview(records[r])
              /\ \E w \in Workers : pc[w] = "review_save" /\ job[w].rid = r
<1>1. ASSUME NEW p \in Processes, pc[p] = "close_save", 
             records' = [records EXCEPT ![job[p].rid] = job[p].row]
      PROVE  IsOpen(records[r])
  <2>1. PICK e \in Employees : Serves(p, e)
    BY <1>1 DEF OrderlyInv, IndInv, Ready, Serves, Row
  <2>2. job[p].rid \in OpenRows(e)
    BY <1>1, <2>1 DEF OrderlyInv, FreshFor, SnapshotFresh
  <2>3. r = job[p].rid
    BY <1>1
  <2> QED
    BY <2>2, <2>3 DEF OpenRows
<1>2. ASSUME NEW w \in Workers, SaveRecord(w)
      PROVE  IsOpen(records[r])
  <2>1. pc[w] = "save"
    BY <1>2 DEF SaveRecord
  <2>2. CASE job[w].step = "entry"
    <3>1. records' = Append(records, job[w].row)
      BY <1>2, <2>2 DEF SaveRecord
    <3>2. records \in Seq(Row) /\ job[w].row \in Row
      BY <2>1 DEF OrderlyInv, IndInv, TypeOK, Ready, Processes
    <3>3. records'[r] = records[r]
      BY <3>1, <3>2, AppendProperties, LenProperties
    <3> QED
      BY <3>3
  <2>3. CASE job[w].step # "entry"
    <3>1. records' = [records EXCEPT ![job[w].rid] = job[w].row]
      BY <1>2, <2>3 DEF SaveRecord
    <3>2. job[w].rid \in OpenRows(job[w].emp)
      BY <2>1, <2>3, Serving DEF FreshFor, SnapshotFresh
    <3> QED
      BY <3>1, <3>2 DEF OpenRows
  <2> QED
    BY <2>2, <2>3
<1>3. ASSUME NEW w \in Workers, SaveReview(w)
      PROVE  PendingReview(records[r]) /\ pc[w] = "review_save" /\ job[w].rid = r
  <2>1. /\ pc[w] = "review_save" /\ w \in Processes
        /\ records' = [records EXCEPT ![job[w].rid] = job[w].row]
    BY <1>3 DEF SaveReview, Processes
  <2>2. PICK e \in Employees : Serves(w, e)
    BY <2>1 DEF OrderlyInv, IndInv, Ready, Serves, Row
  <2>3. PendingReview(records[job[w].rid])
    BY <2>1, <2>2 DEF OrderlyInv, FreshFor, SnapshotFresh
  <2> QED
    BY <2>1, <2>3
<1>4. CASE UNCHANGED records
  BY <1>4
<1>5. CASE ~UNCHANGED records
  <2>1. \/ \E w \in Workers : SaveAutoClosed(w) \/ SaveRecord(w) \/ SaveReview(w)
        \/ \E c \in Crons : CronSaveAutoClosed(c)
    BY <1>5 DEF Next, vars, db, ReceiveScan, HandleScan, CheckCooldown, CheckStale,
                Dispatch, CheckStillActive, Reread, CreateEvent, LogEvent, Reply,
                StartReview, RunCron, StartCron, CronCheckStale, FinishCron, Crash,
                SetActive, Tick
  <2>2. ASSUME NEW w \in Workers, SaveAutoClosed(w) PROVE IsOpen(records[r])
    BY <1>1, <2>2 DEF SaveAutoClosed, Processes
  <2>3. ASSUME NEW c \in Crons, CronSaveAutoClosed(c) PROVE IsOpen(records[r])
    BY <1>1, <2>3 DEF CronSaveAutoClosed, Processes
  <2> QED
    BY <1>2, <1>3, <2>1, <2>2, <2>3
<1> QED
  BY <1>4, <1>5

\* A shift that has its exit is never written again while requests about one
\* employee do not overlap (AttendanceRecord.save() rewrites every column).
THEOREM ClosedShiftsStayClosed == OrderlySpec => ClosedShiftIsFinal
<1> DEFINE Final == \A r \in DOMAIN records :
                        records[r].at["exit"] # Null => records'[r] = records[r]
<1>1. OrderlyInv /\ [Next /\ Orderly]_vars => [Final]_vars
  <2> SUFFICES ASSUME OrderlyInv, [Next /\ Orderly]_vars PROVE Final
    OBVIOUS
  <2>1. [Next]_vars
    OBVIOUS
  <2> QED
    BY <2>1, RowWriters DEF IsOpen, PendingReview
<1> QED
  BY <1>1, OrderlyInvHolds, PTL DEF OrderlySpec, ClosedShiftIsFinal

\* A shift flagged for review stays on the review screen until a master fills
\* in its exit (models.py:52-58).
THEOREM PendingStaysPending == OrderlySpec => PendingUntilReviewed
<1> DEFINE Kept == \A r \in DOMAIN records : PendingReview(records[r]) =>
                      \/ PendingReview(records'[r])
                      \/ \E w \in Workers : pc[w] = "review_save" /\ job[w].rid = r
<1>1. OrderlyInv /\ [Next /\ Orderly]_vars => [Kept]_vars
  <2> SUFFICES ASSUME OrderlyInv, [Next /\ Orderly]_vars PROVE Kept
    OBVIOUS
  <2>1. [Next]_vars
    OBVIOUS
  <2>2. \A r : IsOpen(records[r]) => ~PendingReview(records[r])
    BY DEF IsOpen, PendingReview
  <2>3. \A r : records'[r] = records[r] /\ PendingReview(records[r])
                  => PendingReview(records'[r])
    OBVIOUS
  <2> QED
    BY <2>1, <2>2, <2>3, RowWriters
<1> QED
  BY <1>1, OrderlyInvHolds, PTL DEF OrderlySpec, PendingUntilReviewed

\* The event a reply is about is the employee's newest one.
LEMMA LatestIsOwn ==
    ASSUME OrderlyInv, Cooldown > 0, NEW w \in Workers, pc[w] = "reply",
           NEW k \in LatestEvents(job[w].emp)
    PROVE  EventScan(k) = <<job[w].rid, job[w].step>>
<1>1. PICK e, own : e = job[w].emp /\ own = <<job[w].rid, job[w].step>>
  OBVIOUS
<1>2. /\ w \in Processes /\ e \in Employees /\ Serves(w, e) /\ FreshFor(w, e)
      /\ DayInv(e)
  BY <1>1, Serving DEF OrderlyInv
<1>3. /\ own \in Scans(e)
      /\ \A x \in Scans(e) \ {own} : TimeOf(x) + Cooldown <= TimeOf(own)
  <2>1. TimeOf(<<job[w].rid, job[w].step>>) = TimeOf(own)
    BY <1>1
  <2> QED
    BY <1>1, <1>2, <2>1 DEF FreshFor, ScanIsLast
<1>4. PICK j \in EventsOf(e) : EventScan(j) = own
  <2>1. ASSUME NEW v \in Workers, pc[v] = "event", job[v].emp = e PROVE FALSE
    <3>1. v \in Processes /\ Serves(v, e)
      BY <2>1 DEF Processes, Serves
    <3>2. v = w
      BY <1>2, <3>1 DEF OrderlyInv, OneAtATime
    <3> QED
      BY <2>1, <3>2
  <2> QED
    BY <1>2, <1>3, <2>1 DEF DayInv
<1>5. /\ k \in EventsOf(e) /\ events[j].ts <= events[k].ts
      /\ events[j].ts \in Nat /\ events[k].ts \in Nat
  BY <1>1, <1>4, Views DEF LatestEvents, OrderlyInv
<1>6. /\ EventScan(k) \in Scans(e) /\ TimeOf(EventScan(k)) = events[k].ts
      /\ TimeOf(own) = events[j].ts
  BY <1>2, <1>4, <1>5 DEF DayInv
<1>7. EventScan(k) = own
  BY <1>3, <1>5, <1>6, TimeAssumption
<1> QED
  BY <1>1, <1>7

\* models.py:117: the log and the table are each other's, scan by scan, and the
\* kiosk is answered with the scan just made.
THEOREM LogMatchesTable ==
    ASSUME Cooldown > 0
    PROVE  OrderlySpec => []LogAndTableAgree
<1>1. OrderlyInv => LogAndTableAgree
  <2> SUFFICES ASSUME OrderlyInv PROVE LogAndTableAgree
    OBVIOUS
  <2>0. /\ \A r \in DOMAIN records : records[r] \in Row /\ records[r].emp \in Employees
        /\ \A k \in DOMAIN events : events[k].emp \in Employees
    BY RowTypes DEF OrderlyInv, IndInv, Row, Event
  <2>1. ASSUME NEW r \in DOMAIN records, NEW s \in Steps, ScannedAt(records[r], s)
        PROVE  \/ \E k \in DOMAIN events : events[k].rec = r /\ events[k].step = s
               \/ \E w \in Workers :
                      pc[w] = "event" /\ job[w].rid = r /\ job[w].step = s
    <3>1. PICK e \in Employees : e = records[r].emp
      BY <2>0
    <3>2. <<r, s>> \in Scans(e)
      BY <2>1, <3>1 DEF Scans
    <3>3. DayInv(e)
      BY DEF OrderlyInv
    <3>4. \/ \E k \in EventsOf(e) : EventScan(k) = <<r, s>>
          \/ \E w \in Workers : pc[w] = "event" /\ <<r, s>> = <<job[w].rid, job[w].step>>
      BY <3>2, <3>3 DEF DayInv
    <3> QED
      BY <3>4 DEF EventsOf, EventScan
  <2>2. ASSUME NEW k \in DOMAIN events
        PROVE  /\ events[k].rec \in DOMAIN records
               /\ records[events[k].rec].emp = events[k].emp
               /\ records[events[k].rec].at[events[k].step] = events[k].ts
    <3>1. PICK e \in Employees : e = events[k].emp
      BY <2>0
    <3>2. k \in EventsOf(e) /\ DayInv(e)
      BY <3>1 DEF EventsOf, OrderlyInv
    <3>3. EventScan(k) \in Scans(e) /\ TimeOf(EventScan(k)) = events[k].ts
      BY <3>2 DEF DayInv
    <3> QED
      BY <3>1, <3>3 DEF Scans, EventScan, TimeOf
  <2>3. ASSUME NEW w \in Workers, pc[w] = "reply", NEW k \in LatestEvents(job[w].emp)
        PROVE  events[k].step = job[w].step /\ events[k].rec = job[w].rid
    BY <2>3, LatestIsOwn DEF EventScan
  <2> QED
    BY <2>1, <2>2, <2>3 DEF LogAndTableAgree
<1> QED
  BY <1>1, OrderlyInvHolds, PTL

-----------------------------------------------------------------------------
(* The tables as the abstract clock sees them.                             *)

LEMMA LargestIs ==
    ASSUME NEW S, S \subseteq Nat, NEW t \in S, \A s \in S : s <= t
    PROVE  Max(S) = t
<1>1. \A x \in S : (\A y \in S : x >= y) <=> x = t
  BY Z3
<1>2. t \in S /\ \A y \in S : t >= y
  OBVIOUS
<1>3. (CHOOSE x \in S : \A y \in S : x >= y) = t
  BY <1>1, <1>2
<1> QED
  BY <1>3 DEF Max

LEMMA LargestExists ==
    ASSUME NEW n \in Nat, NEW S, S \subseteq 0 .. n, S # {}
    PROVE  Max(S) \in S /\ \A s \in S : s <= Max(S)
<1> DEFINE f == [s \in S |-> s]
<1>1. IsFiniteSet(S)
  <2>1. IsFiniteSet(0 .. n)
    BY FS_Interval
  <2> QED
    BY <2>1, FS_Subset
<1>2. \A s \in S : f[s] \in Nat
  OBVIOUS
<1>3. PICK t \in S : \A s \in S : f[s] <= f[t]
  <2> HIDE DEF f
  <2> QED
    BY <1>1, <1>2, HasLargest
<1>4. \A s \in S : s <= t
  BY <1>3
<1>5. Max(S) = t
  <2>1. S \subseteq Nat
    OBVIOUS
  <2> QED
    BY <1>4, <2>1, LargestIs
<1> QED
  BY <1>4, <1>5

\* ScanTimes are the times of the scans, none of which lies ahead.
LEMMA ScanTimesAre ==
    ASSUME IndInv, NEW e, \A x \in Scans(e) : TimeOf(x) <= now
    PROVE  ScanTimes(e) = {TimeOf(x) : x \in Scans(e)}
<1>1. now \in Nat /\ \A x \in Scans(e) : TimeOf(x) \in 0 .. now
  BY Views DEF IndInv, TypeOK
<1>2. ASSUME NEW t \in ScanTimes(e) PROVE \E x \in Scans(e) : t = TimeOf(x)
  <2>1. PICK r \in DOMAIN records : \E s \in Steps :
             /\ records[r].emp = e /\ ScannedAt(records[r], s) /\ records[r].at[s] = t
    BY DEF ScanTimes
  <2>2. PICK s \in Steps :
             /\ records[r].emp = e /\ ScannedAt(records[r], s) /\ records[r].at[s] = t
    BY <2>1
  <2>3. <<r, s>> \in Scans(e) /\ TimeOf(<<r, s>>) = t
    BY <2>2 DEF Scans, TimeOf
  <2> QED
    BY <2>3
<1>3. ASSUME NEW x \in Scans(e) PROVE TimeOf(x) \in ScanTimes(e)
  BY <1>1 DEF Scans, TimeOf, ScanTimes
<1> QED
  BY <1>2, <1>3

LEMMA ScanTimesAreNext ==
    (IndInv => \A e : (\A x \in Scans(e) : TimeOf(x) <= now)
                         => ScanTimes(e) = {TimeOf(x) : x \in Scans(e)})'
<1>1. IndInv => \A e : (\A x \in Scans(e) : TimeOf(x) <= now)
                         => ScanTimes(e) = {TimeOf(x) : x \in Scans(e)}
  BY ScanTimesAre
<1> QED
  BY <1>1, PTL

\* The shift is the one open row.
LEMMA ShiftIs ==
    ASSUME NEW e, NEW r
    PROVE  /\ OpenRows(e) = {r} => Shift(e) = records[r]
           /\ OpenRows(e)' = {r} => Shift(e)' = records'[r]
<1>1. (CHOOSE q \in {r} : TRUE) = r
  OBVIOUS
<1>2. OpenRows(e) = {r} => Shift(e) = records[r]
  BY <1>1, Zenon DEF Shift
<1>3. OpenRows(e)' = {r} => Shift(e)' = records'[r]
  BY <1>1, Zenon DEF Shift
<1> QED
  BY <1>2, <1>3

LEMMA OpenOrNot ==
    ASSUME OrderlyInv, NEW e \in Employees
    PROVE  OpenRows(e) = {} \/ \E r : OpenRows(e) = {r}
<1>1. ASSUME NEW r \in OpenRows(e) PROVE OpenRows(e) = {r}
  BY DEF OrderlyInv, DayInv
<1> QED
  BY <1>1

LEMMA SameShiftView ==
    ASSUME OrderlyInv, NEW e \in Employees, OpenRows(e)' = OpenRows(e),
           \A r \in OpenRows(e) : records'[r] = records[r]
    PROVE  /\ (OpenRows(e) = {})' <=> OpenRows(e) = {}
           /\ OpenRows(e) # {} => Shift(e)' = Shift(e)
<1>1. CASE OpenRows(e) = {}
  BY <1>1
<1>2. ASSUME NEW r, OpenRows(e) = {r}
      PROVE  Shift(e)' = Shift(e)
  <2>1. Shift(e) = records[r] /\ Shift(e)' = records'[r]
    BY <1>2, ShiftIs
  <2> QED
    BY <1>2, <2>1
<1> QED
  BY <1>1, <1>2, OpenOrNot

\* What the abstract clock keeps about an employee whose rows and scans stay.
LEMMA SameEmployee ==
    ASSUME OrderlyInv, OrderlyInv', NEW e \in Employees, OpenRows(e)' = OpenRows(e),
           \A r \in OpenRows(e) : records'[r] = records[r],
           Scans(e)' = Scans(e), \A x \in Scans(e) : TimeOf(x)' = TimeOf(x)
    PROVE  /\ PhaseNow'[e] = PhaseNow[e] /\ OpenedNow'[e] = OpenedNow[e]
           /\ LastNow'[e] = LastNow[e]
<1>1. /\ (OpenRows(e) = {})' <=> OpenRows(e) = {}
      /\ OpenRows(e) # {} => Shift(e)' = Shift(e)
  BY SameShiftView
<1>2. PhaseNow'[e] = PhaseNow[e] /\ OpenedNow'[e] = OpenedNow[e]
  BY <1>1 DEF PhaseNow, OpenedNow, PhaseOf
<1>3. ScanTimes(e)' = ScanTimes(e)
  <2>1. ScanTimes(e) = {TimeOf(x) : x \in Scans(e)}
    BY ScanTimesAre DEF OrderlyInv, DayInv
  <2>2. ScanTimes(e)' = {TimeOf(x)' : x \in Scans(e)'}
    BY ScanTimesAreNext DEF OrderlyInv, DayInv
  <2> QED
    BY <2>1, <2>2
<1>4. LastNow'[e] = LastNow[e]
  BY <1>3 DEF LastNow
<1> QED
  BY <1>2, <1>4

\* A step that leaves rows, scans and the clock is none of the abstract clock's.
LEMMA AbstractStutter ==
    ASSUME UNCHANGED <<now, records>>
    PROVE  UNCHANGED Abstract!clockVars
<1>1. \A e : OpenRows(e)' = OpenRows(e)
  BY DEF OpenRows, IsOpen
<1>2. \A e : Shift(e)' = Shift(e)
  BY <1>1 DEF Shift
<1>3. PhaseNow' = PhaseNow /\ OpenedNow' = OpenedNow
  BY <1>1, <1>2 DEF PhaseNow, OpenedNow, PhaseOf
<1>4. \A e : ScanTimes(e)' = ScanTimes(e)
  BY DEF ScanTimes, ScannedAt
<1>5. LastNow' = LastNow
  BY <1>4 DEF LastNow
<1> QED
  BY <1>3, <1>5 DEF Abstract!clockVars

\* The other employees do not notice.
LEMMA OthersKeepTheirView ==
    ASSUME OrderlyInv, OrderlyInv', NEW e, NEW f \in Employees, f # e, OthersUntouched(e)
    PROVE  /\ PhaseNow'[f] = PhaseNow[f] /\ OpenedNow'[f] = OpenedNow[f]
           /\ LastNow'[f] = LastNow[f]
BY OthersViews, SameEmployee

\* Flagging the open shift is the expiry of the abstract shift.
LEMMA FlagIsExpire ==
    ASSUME OrderlyInv, OrderlyInv', NEW p \in Processes, NEW e \in Employees,
           pc[p] = "close_save", Serves(p, e), OnlyMoves(p),
           records' = [records EXCEPT ![job[p].rid] = job[p].row],
           UNCHANGED <<now, events>>
    PROVE  Abstract!Expire(e)
<1>1. /\ OpenRows(e)' = {} /\ Scans(e)' = Scans(e)
      /\ \A x \in Scans(e) : TimeOf(x)' = TimeOf(x)
      /\ OthersUntouched(e)
  BY FlagsOpenRow
<1>2. PICK r : r = job[p].rid
  OBVIOUS
<1>3. /\ r \in OpenRows(e) /\ job[p].row = Flagged(records[r])
      /\ job[p].row \in Row /\ FlaggedWasStale(job[p].row)
      /\ SameShift(job[p].row, r)
  BY <1>2 DEF OrderlyInv, FreshFor, SnapshotFresh, IndInv, Ready
<1>4. OpenRows(e) = {r} /\ Shift(e) = records[r]
  BY <1>3, OpenOrNot, ShiftIs
<1>5. PhaseNow[e] # "out" /\ PhaseNow[e] = PhaseOf(records[r])
  BY <1>4 DEF PhaseNow, PhaseOf
<1>6. OpenedNow[e] = records[r].at["entry"]
  BY <1>4 DEF OpenedNow
<1>7. now > records[r].at["entry"] + MaxOpen
  <2>1. job[p].row.autoClosed
    <3>1. records[r] \in Row
      BY <1>3, Views DEF OrderlyInv
    <3> QED
      BY <1>3, <3>1 DEF Flagged, Row
  <2>2. job[p].row.at["entry"] = records[r].at["entry"]
    BY <1>3 DEF SameShift
  <2> QED
    BY <1>3, <2>1, <2>2 DEF FlaggedWasStale
<1>8. PhaseNow'[e] = "out" /\ OpenedNow'[e] = Null
  BY <1>1 DEF PhaseNow, OpenedNow
<1>9. LastNow'[e] = LastNow[e]
  <2>1. ScanTimes(e) = {TimeOf(x) : x \in Scans(e)}
    BY ScanTimesAre DEF OrderlyInv, DayInv
  <2>2. ScanTimes(e)' = {TimeOf(x)' : x \in Scans(e)'}
    BY ScanTimesAreNext DEF OrderlyInv, DayInv
  <2>3. ScanTimes(e)' = ScanTimes(e)
    BY <1>1, <2>1, <2>2
  <2> QED
    BY <2>3 DEF LastNow
<1>10. \A f \in Employees \ {e} : /\ PhaseNow'[f] = PhaseNow[f]
                                  /\ OpenedNow'[f] = OpenedNow[f]
                                  /\ LastNow'[f] = LastNow[f]
  BY <1>1, OthersKeepTheirView
<1>11. PhaseNow' = [PhaseNow EXCEPT ![e] = "out"]
  BY <1>8, <1>10 DEF PhaseNow
<1>12. OpenedNow' = [OpenedNow EXCEPT ![e] = Null]
  BY <1>8, <1>10 DEF OpenedNow
<1>13. LastNow' = LastNow
  BY <1>9, <1>10 DEF LastNow
<1> QED
  BY <1>5, <1>6, <1>7, <1>11, <1>12, <1>13 DEF Abstract!Expire

\* A stored scan is the newest of its employee, a cooldown after the one before.
LEMMA LastAdvances ==
    ASSUME OrderlyInv, OrderlyInv', NEW w \in Workers, NEW e, e = job[w].emp,
           NEW t, t = job[w].row.at[job[w].step], SaveRecord(w)
    PROVE  /\ LastNow'[e] = t
           /\ LastNow[e] # Null => LastNow[e] + Cooldown <= t
<1>1. /\ e \in Employees /\ t \in Nat /\ now \in Nat
      /\ \A x \in Scans(e) : TimeOf(x) + Cooldown <= t
  BY Storing
<1>2. PICK n, step : n = job'[w].rid /\ step = job[w].step
  OBVIOUS
<1>3. /\ Scans(e)' = Scans(e) \cup {<<n, step>>}
      /\ \A x \in Scans(e) : TimeOf(x)' = TimeOf(x)
      /\ TimeOf(<<n, step>>)' = t
  BY <1>2, StoresScan
<1>4. ScanTimes(e) = {TimeOf(x) : x \in Scans(e)}
  BY <1>1, ScanTimesAre DEF OrderlyInv, DayInv
<1>5. ScanTimes(e)' = {TimeOf(x)' : x \in Scans(e)'}
  BY <1>1, ScanTimesAreNext DEF OrderlyInv, DayInv
<1>6. ScanTimes(e)' = ScanTimes(e) \cup {t}
  BY <1>3, <1>4, <1>5
<1>7. ScanTimes(e) \subseteq 0 .. now /\ \A s \in ScanTimes(e) : s + Cooldown <= t
  BY <1>1, <1>4 DEF ScanTimes
<1>8. Max(ScanTimes(e)') = t
  <2>1. ScanTimes(e)' \subseteq Nat /\ t \in ScanTimes(e)'
    BY <1>1, <1>6, <1>7
  <2>2. \A s \in ScanTimes(e)' : s <= t
    BY <1>1, <1>6, <1>7, TimeAssumption
  <2>3. PICK S : S = ScanTimes(e)'
    OBVIOUS
  <2> QED
    BY <2>1, <2>2, <2>3, LargestIs
<1>9. LastNow'[e] = t
  BY <1>1, <1>6, <1>8 DEF LastNow
<1>10. ASSUME LastNow[e] # Null PROVE LastNow[e] + Cooldown <= t
  <2>1. ScanTimes(e) # {} /\ LastNow[e] = Max(ScanTimes(e))
    BY <1>1, <1>10 DEF LastNow
  <2>2. Max(ScanTimes(e)) \in ScanTimes(e)
    BY <1>1, <1>7, <2>1, LargestExists
  <2> QED
    BY <1>7, <2>1, <2>2
<1> QED
  BY <1>9, <1>10

\* What a scan of e stamped at t does to the shift, as the abstract clock
\* allows it.
ShiftMoves(e, t, to) ==
    /\ <<PhaseNow[e], to>> \in Abstract!Cycle
    /\ PhaseNow[e] # "out" => t <= OpenedNow[e] + MaxOpen + MaxHandling
    /\ Abstract!Reading(PhaseNow[e], to, t)
    /\ PhaseNow'[e] = to
    /\ OpenedNow'[e] = IF to = "out" THEN Null
                       ELSE IF OpenedNow[e] = Null THEN t ELSE OpenedNow[e]

\* An entry starts a shift.
LEMMA EntryMoves ==
    ASSUME OrderlyInv, NEW w \in Workers, NEW e, e = job[w].emp,
           NEW t, t = job[w].row.at[job[w].step], SaveRecord(w), job[w].step = "entry"
    PROVE  ShiftMoves(e, t, "working")
<1>1. e \in Employees
  BY Storing
<1>2. PICK n : n = Len(records) + 1
  OBVIOUS
<1>3. /\ OpenRows(e) = {} /\ OpenRows(e)' = {n}
      /\ records'[n].at["entry"] = t /\ records'[n].at["lunch_start"] = Null
  <2>1. EntryStored(e, n, t)
    BY <1>2, StoresEntry
  <2> QED
    BY <2>1 DEF EntryStored
<1>4. PhaseNow[e] = "out" /\ OpenedNow[e] = Null
  BY <1>1, <1>3 DEF PhaseNow, OpenedNow
<1>5. Shift(e)' = records'[n]
  BY <1>3, ShiftIs
<1>6. PhaseNow'[e] = "working" /\ OpenedNow'[e] = t
  <2>1. (OpenRows(e) = {})' <=> FALSE
    BY <1>3
  <2>2. Shift(e)'.at["lunch_start"] = Null /\ Shift(e)'.at["entry"] = t
    BY <1>3, <1>5
  <2> QED
    BY <1>1, <2>1, <2>2 DEF PhaseNow, OpenedNow, PhaseOf
<1>7. /\ <<"out", "working">> \in Abstract!Cycle
      /\ Abstract!Reading("out", "working", t)
  BY DEF Abstract!Cycle, Abstract!Reading
<1> QED
  BY <1>4, <1>6, <1>7 DEF ShiftMoves

\* Any other scan takes the next step of the cycle.
LEMMA StepMoves ==
    ASSUME OrderlyInv, NEW w \in Workers, NEW e, e = job[w].emp,
           NEW t, t = job[w].row.at[job[w].step], SaveRecord(w), job[w].step # "entry"
    PROVE  \E to \in Abstract!Phases : ShiftMoves(e, t, to)
<1>1. /\ w \in Processes /\ e \in Employees /\ FreshFor(w, e) /\ pc[w] = "save"
      /\ job[w].step \in Steps /\ job[w].since \in Nat /\ now \in Nat
      /\ t \in Nat /\ job[w].since <= t /\ t <= now
  BY Storing DEF SaveRecord
<1>2. PICK r, step :
            /\ r = job[w].rid /\ step = job[w].step /\ job'[w].rid = r
            /\ \E a \in job[w].since .. t : ChosenAt(records[r], step, a)
            /\ StepStored(e, r, step, t)
  BY StoresStep
<1>3. PICK a \in job[w].since .. t : ChosenAt(records[r], step, a)
  BY <1>2
<1>4. /\ OpenRows(e) = {r} /\ OpenRows(e)' = (IF step = "exit" THEN {} ELSE {r})
      /\ records'[r] = Stamped(records[r], step, t) /\ records[r] \in Row
  BY <1>2 DEF StepStored
<1>5. now <= job[w].since + MaxHandling
  BY <1>1 DEF FreshFor, OnTime
<1>6. a \in Abstract!Received(t) /\ t <= job[w].since + MaxHandling
  BY <1>1, <1>3, <1>5, TimeAssumption DEF Abstract!Received
<1>7. /\ PhaseNow[e] = PhaseOf(records[r])
      /\ OpenedNow[e] = records[r].at["entry"]
      /\ records[r].at["entry"] \in Nat /\ OpenedNow[e] # Null
  <2>1. Shift(e) = records[r]
    BY <1>4, ShiftIs
  <2>2. OpenRows(e) # {}
    BY <1>4
  <2>3. records[r].at["entry"] \in Nat
    BY <1>4, Views DEF OrderlyInv
  <2> QED
    BY <1>1, <2>1, <2>2, <2>3, TimeAssumption DEF PhaseNow, OpenedNow
<1>8. t <= OpenedNow[e] + MaxOpen + MaxHandling
  <2>1. job[w].since <= records[r].at["entry"] + MaxOpen
    BY <1>1, <1>4 DEF FreshFor, NotAbandoned
  <2> QED
    BY <1>1, <1>6, <1>7, <2>1, TimeAssumption
<1>9. step = "exit" => PhaseNow'[e] = "out" /\ OpenedNow'[e] = Null
  BY <1>1, <1>4 DEF PhaseNow, OpenedNow
<1>10. PICK row : row = Stamped(records[r], step, t)
  OBVIOUS
<1>11. /\ row.at[step] = t /\ t # Null
       /\ \A s \in Steps \ {step} : row.at[s] = records[r].at[s]
  BY <1>1, <1>2, <1>4, <1>10, TimeAssumption DEF Stamped, Row, Stamps
<1>12. step # "exit" => PhaseNow'[e] = PhaseOf(row) /\ OpenedNow'[e] = OpenedNow[e]
  <2> SUFFICES ASSUME step # "exit"
               PROVE  PhaseNow'[e] = PhaseOf(row) /\ OpenedNow'[e] = OpenedNow[e]
    OBVIOUS
  <2>1. Shift(e)' = row /\ ~(OpenRows(e) = {})'
    BY <1>4, <1>10, ShiftIs
  <2>2. row.at["entry"] = records[r].at["entry"]
    BY <1>1, <1>2, <1>11 DEF Steps
  <2> QED
    BY <1>1, <1>7, <2>1, <2>2 DEF PhaseNow, OpenedNow, PhaseOf
<1>13. CASE step = "lunch_start"
  <2>1. /\ PhaseOf(records[r]) = "working" /\ Abstract!LunchTime(a)
        /\ records[r].at["lunch_start"] = Null
    BY <1>3, <1>13 DEF PhaseOf, ChosenAt, Abstract!LunchTime
  <2>2. PhaseOf(row) = "lunch"
    <3>1. RowIsDay(records[r])
      BY <1>4, Views DEF OrderlyInv
    <3>2. row.at["lunch_end"] = Null /\ row.at["lunch_start"] = t
      BY <1>11, <1>13, <2>1, <3>1 DEF RowIsDay, Steps
    <3> QED
      BY <1>11, <3>2 DEF PhaseOf
  <2>3. ShiftMoves(e, t, "lunch")
    <3>1. <<"working", "lunch">> \in Abstract!Cycle
      BY DEF Abstract!Cycle
    <3>2. Abstract!Reading("working", "lunch", t)
      BY <1>6, <2>1 DEF Abstract!Reading
    <3> QED
      BY <1>7, <1>8, <1>12, <1>13, <2>1, <2>2, <3>1, <3>2 DEF ShiftMoves
  <2> QED
    BY <2>3 DEF Abstract!Phases
<1>14. CASE step = "lunch_end"
  <2>1. PhaseOf(records[r]) = "lunch" /\ records[r].at["lunch_start"] # Null
    BY <1>3, <1>14 DEF PhaseOf, ChosenAt
  <2>2. PhaseOf(row) = "back"
    BY <1>11, <1>14, <2>1 DEF PhaseOf, Steps
  <2>3. ShiftMoves(e, t, "back")
    <3>1. <<"lunch", "back">> \in Abstract!Cycle
      BY DEF Abstract!Cycle
    <3>2. Abstract!Reading("lunch", "back", t)
      BY DEF Abstract!Reading
    <3> QED
      BY <1>7, <1>8, <1>12, <1>14, <2>1, <2>2, <3>1, <3>2 DEF ShiftMoves
  <2> QED
    BY <2>3 DEF Abstract!Phases
<1>15. CASE step = "exit"
  <2>1. \/ PhaseOf(records[r]) = "working" /\ ~Abstract!LunchTime(a)
        \/ PhaseOf(records[r]) = "back"
    BY <1>3, <1>15 DEF PhaseOf, ChosenAt, Abstract!LunchTime
  <2>2. ShiftMoves(e, t, "out")
    <3>1. /\ <<"working", "out">> \in Abstract!Cycle
          /\ <<"back", "out">> \in Abstract!Cycle
      BY DEF Abstract!Cycle
    <3>2. Abstract!Reading(PhaseOf(records[r]), "out", t)
      BY <1>6, <2>1 DEF Abstract!Reading
    <3> QED
      BY <1>7, <1>8, <1>9, <1>15, <2>1, <3>1, <3>2 DEF ShiftMoves
  <2> QED
    BY <2>2 DEF Abstract!Phases
<1> QED
  BY <1>1, <1>2, <1>13, <1>14, <1>15 DEF Steps

\* A stored row is a scan of the abstract clock.
LEMMA SaveIsScan ==
    ASSUME OrderlyInv, OrderlyInv', NEW w \in Workers, SaveRecord(w)
    PROVE  \E e \in Employees : \E t \in Abstract!Received(now), to \in Abstract!Phases :
               Abstract!Scan(e, t, to)
<1>1. PICK e, t : e = job[w].emp /\ t = job[w].row.at[job[w].step]
  OBVIOUS
<1>2. /\ w \in Processes /\ e \in Employees /\ FreshFor(w, e) /\ now' = now
      /\ job[w].since \in Nat /\ now \in Nat
      /\ t \in Nat /\ job[w].since <= t /\ t <= now
  BY <1>1, Storing
<1>3. now <= t + MaxHandling
  <2>1. now <= job[w].since + MaxHandling
    BY <1>2 DEF FreshFor, OnTime
  <2> QED
    BY <1>2, <2>1, TimeAssumption
<1>4. t \in Abstract!Received(now)
  BY <1>2, <1>3 DEF Abstract!Received
<1>5. PICK to \in Abstract!Phases : ShiftMoves(e, t, to)
  <2>1. CASE job[w].step = "entry"
    BY <1>1, <2>1, EntryMoves DEF Abstract!Phases
  <2>2. CASE job[w].step # "entry"
    BY <1>1, <2>2, StepMoves
  <2> QED
    BY <2>1, <2>2
<1>6. /\ LastNow'[e] = t
      /\ LastNow[e] # Null => LastNow[e] + Cooldown <= t
  BY <1>1, LastAdvances
<1>7. ASSUME NEW f \in Employees, f # e
      PROVE  /\ PhaseNow'[f] = PhaseNow[f] /\ OpenedNow'[f] = OpenedNow[f]
             /\ LastNow'[f] = LastNow[f]
  <2>1. OthersUntouched(e)
    <3>1. PICK n, step : n = job'[w].rid /\ step = job[w].step
      OBVIOUS
    <3> QED
      BY <1>1, <3>1, StoresScan
  <2> QED
    BY <1>7, <2>1, OthersKeepTheirView
<1>8. PhaseNow' = [PhaseNow EXCEPT ![e] = to]
  <2>1. PhaseNow'[e] = to
    BY <1>5 DEF ShiftMoves
  <2> QED
    BY <1>7, <2>1 DEF PhaseNow
<1>9. OpenedNow' = [OpenedNow EXCEPT ![e] =
                        IF to = "out" THEN Null
                        ELSE IF OpenedNow[e] = Null THEN t ELSE OpenedNow[e]]
  <2>1. OpenedNow'[e] = IF to = "out" THEN Null
                        ELSE IF OpenedNow[e] = Null THEN t ELSE OpenedNow[e]
    BY <1>5 DEF ShiftMoves
  <2> QED
    BY <1>7, <2>1 DEF OpenedNow
<1>10. LastNow' = [LastNow EXCEPT ![e] = t]
  BY <1>6, <1>7 DEF LastNow
<1>11. Abstract!Scan(e, t, to)
  <2>1. /\ <<PhaseNow[e], to>> \in Abstract!Cycle
        /\ PhaseNow[e] # "out" => t <= OpenedNow[e] + MaxOpen + MaxHandling
        /\ Abstract!Reading(PhaseNow[e], to, t)
    BY <1>5 DEF ShiftMoves
  <2>2. t <= now /\ now <= t + MaxHandling
    BY <1>2, <1>3
  <2> QED
    BY <1>2, <1>6, <1>8, <1>9, <1>10, <2>1, <2>2 DEF Abstract!Scan
<1> QED
  BY <1>2, <1>4, <1>5, <1>11

\* The exit a master fills in is none of the employee's scans.
LEMMA ReviewIsSilent ==
    ASSUME OrderlyInv, OrderlyInv', NEW w \in Workers, SaveReview(w)
    PROVE  UNCHANGED Abstract!clockVars
<1>1. PICK e : e = job[w].row.emp
  OBVIOUS
<1>2. e \in Employees /\ ReviewStored(e) /\ now' = now
  BY <1>1, StoresReview
<1>3. ASSUME NEW f \in Employees
      PROVE  /\ PhaseNow'[f] = PhaseNow[f] /\ OpenedNow'[f] = OpenedNow[f]
             /\ LastNow'[f] = LastNow[f]
  <2>1. CASE f = e
    BY <1>2, <2>1, SameEmployee DEF ReviewStored
  <2>2. CASE f # e
    BY <1>2, <2>2, OthersKeepTheirView DEF ReviewStored
  <2> QED
    BY <2>1, <2>2
<1>4. PhaseNow' = PhaseNow
  BY <1>3 DEF PhaseNow
<1>5. OpenedNow' = OpenedNow
  BY <1>3 DEF OpenedNow
<1>6. LastNow' = LastNow
  BY <1>3 DEF LastNow
<1> QED
  BY <1>2, <1>4, <1>5, <1>6 DEF Abstract!clockVars

\* Time passing is time passing.
LEMMA TickIsTick ==
    ASSUME OrderlyInv, OrderlyInv', Tick
    PROVE  Abstract!TickClock
<1>1. now' = now + 1 /\ UNCHANGED <<records, events>>
  BY DEF Tick, db
<1>2. ASSUME NEW e \in Employees
      PROVE  /\ PhaseNow'[e] = PhaseNow[e] /\ OpenedNow'[e] = OpenedNow[e]
             /\ LastNow'[e] = LastNow[e]
  BY <1>1, SameViews, SameEmployee
<1>3. PhaseNow' = PhaseNow
  BY <1>2 DEF PhaseNow
<1>4. OpenedNow' = OpenedNow
  BY <1>2 DEF OpenedNow
<1>5. LastNow' = LastNow
  BY <1>2 DEF LastNow
<1> QED
  BY <1>1, <1>3, <1>4, <1>5 DEF Abstract!TickClock

LEMMA ClockStarts == Init => Abstract!ClockInit
<1> SUFFICES ASSUME Init PROVE Abstract!ClockInit
  OBVIOUS
<1>1. DOMAIN records = {} /\ now = 0
  BY DEF Init
<1>2. \A e : OpenRows(e) = {} /\ ScanTimes(e) = {}
  BY <1>1 DEF OpenRows, ScanTimes
<1> QED
  BY <1>1, <1>2 DEF Abstract!ClockInit, PhaseNow, OpenedNow, LastNow

\* Every orderly step is a step of the abstract clock, or none.
LEMMA ClockStep ==
    OrderlyInv /\ OrderlyInv' /\ [Next /\ Orderly]_vars
        => [Abstract!ClockNext]_(Abstract!clockVars)
<1> SUFFICES ASSUME OrderlyInv, OrderlyInv', [Next /\ Orderly]_vars
             PROVE  [Abstract!ClockNext]_(Abstract!clockVars)
  OBVIOUS
<1>1. CASE UNCHANGED <<now, records>>
  BY <1>1, AbstractStutter
<1>2. ASSUME NEW w \in Workers, SaveAutoClosed(w)
      PROVE  Abstract!ClockNext
  <2>1. PICK e \in Employees : e = job[w].emp
    BY <1>2, Serving DEF SaveAutoClosed
  <2>2. /\ w \in Processes /\ pc[w] = "close_save" /\ Serves(w, e) /\ OnlyMoves(w)
        /\ records' = [records EXCEPT ![job[w].rid] = job[w].row]
        /\ UNCHANGED <<now, events>>
    BY <1>2, <2>1, Serving DEF SaveAutoClosed, Goto, OnlyMoves, TypeOK
  <2> QED
    BY <2>2, FlagIsExpire DEF Abstract!ClockNext
<1>3. ASSUME NEW c \in Crons, CronSaveAutoClosed(c)
      PROVE  Abstract!ClockNext
  <2>1. c \in Processes /\ pc[c] = "close_save" /\ TypeOK
    BY <1>3 DEF CronSaveAutoClosed, Processes, OrderlyInv, IndInv
  <2>2. PICK e \in Employees : e = job[c].row.emp
    BY <2>1 DEF OrderlyInv, IndInv, Ready, Row
  <2>3. /\ Serves(c, e) /\ OnlyMoves(c)
        /\ records' = [records EXCEPT ![job[c].rid] = job[c].row]
        /\ UNCHANGED <<now, events>>
    BY <1>3, <2>1, <2>2 DEF CronSaveAutoClosed, Goto, OnlyMoves, Serves, TypeOK
  <2> QED
    BY <2>1, <2>3, FlagIsExpire DEF Abstract!ClockNext
<1>4. ASSUME NEW w \in Workers, SaveRecord(w)
      PROVE  Abstract!ClockNext
  BY <1>4, SaveIsScan DEF Abstract!ClockNext
<1>5. ASSUME NEW w \in Workers, SaveReview(w)
      PROVE  UNCHANGED Abstract!clockVars
  BY <1>5, ReviewIsSilent
<1>6. CASE Tick
  BY <1>6, TickIsTick DEF Abstract!ClockNext
<1>7. CASE ~UNCHANGED <<now, records>>
  <2>1. \/ \E w \in Workers : SaveAutoClosed(w) \/ SaveRecord(w) \/ SaveReview(w)
        \/ \E c \in Crons : CronSaveAutoClosed(c)
        \/ Tick
    BY <1>7 DEF Next, vars, db, ReceiveScan, HandleScan, CheckCooldown, CheckStale,
                Dispatch, CheckStillActive, Reread, CreateEvent, LogEvent, Reply,
                StartReview, RunCron, StartCron, CronCheckStale, FinishCron, Crash,
                SetActive
  <2> QED
    BY <1>2, <1>3, <1>4, <1>5, <1>6, <2>1
<1> QED
  BY <1>1, <1>7

\* Orderly, the statements of toggle_for_employee() add up to the punch clock:
\* the cycle, the cooldown, the limit of a shift and the reading of the clock on
\* the wall all hold of what is stored, for any number of employees and scans.
THEOREM OrderlyImplementsClock == OrderlySpec => ImplementsPunchClock
<1>1. Init => Abstract!ClockInit
  BY ClockStarts
<1>2. OrderlyInv /\ OrderlyInv' /\ [Next /\ Orderly]_vars
        => [Abstract!ClockNext]_(Abstract!clockVars)
  BY ClockStep
<1> QED
  BY <1>1, <1>2, OrderlyInvHolds, PTL
     DEF OrderlySpec, ImplementsPunchClock, Abstract!ClockSpec

-----------------------------------------------------------------------------
(* The comment over SCAN_COOLDOWN.                                         *)

\* Any two registrations of e are a cooldown apart.
Apart(e) == \A x, y \in Scans(e) : x # y => \/ TimeOf(x) + Cooldown <= TimeOf(y)
                                            \/ TimeOf(y) + Cooldown <= TimeOf(x)

LEMMA ApartStays ==
    ASSUME NEW e, Apart(e), Scans(e)' = Scans(e), \A x \in Scans(e) : TimeOf(x)' = TimeOf(x)
    PROVE  Apart(e)'
<1> SUFFICES ASSUME NEW x \in Scans(e), NEW y \in Scans(e), x # y
             PROVE  \/ TimeOf(x)' + Cooldown <= TimeOf(y)'
                    \/ TimeOf(y)' + Cooldown <= TimeOf(x)'
  BY DEF Apart
<1> QED
  BY DEF Apart

\* A new scan lies a cooldown after every other.
LEMMA ApartGrows ==
    ASSUME OrderlyInv, NEW w \in Workers, NEW e, e = job[w].emp, SaveRecord(w), Apart(e)
    PROVE  Apart(e)' /\ OthersUntouched(e)
<1>1. PICK t, n, step : /\ t = job[w].row.at[job[w].step]
                        /\ n = job'[w].rid /\ step = job[w].step
  OBVIOUS
<1>2. \A x \in Scans(e) : TimeOf(x) + Cooldown <= t
  BY <1>1, Storing
<1>3. /\ OthersUntouched(e) /\ Scans(e)' = Scans(e) \cup {<<n, step>>}
      /\ \A x \in Scans(e) : TimeOf(x)' = TimeOf(x)
      /\ TimeOf(<<n, step>>)' = t
  BY <1>1, StoresScan
<1>4. PICK own : own = <<n, step>>
  OBVIOUS
<1>5. TimeOf(own)' = t
  <2>1. TimeOf(own)' = TimeOf(<<n, step>>)'
    BY <1>4
  <2> QED
    BY <1>3, <2>1
<1>6. ASSUME NEW x \in Scans(e)', NEW y \in Scans(e)', x # y
      PROVE  \/ TimeOf(x)' + Cooldown <= TimeOf(y)'
             \/ TimeOf(y)' + Cooldown <= TimeOf(x)'
  <2>1. CASE x \in Scans(e) /\ y \in Scans(e)
    BY <1>3, <1>6, <2>1 DEF Apart
  <2>2. CASE x \in Scans(e) /\ y = own
    BY <1>2, <1>3, <1>5, <2>2
  <2>3. CASE x = own /\ y \in Scans(e)
    BY <1>2, <1>3, <1>5, <2>3
  <2> QED
    BY <1>3, <1>4, <1>6, <2>1, <2>2, <2>3
<1> QED
  BY <1>3, <1>6 DEF Apart

LEMMA ApartStep ==
    OrderlyInv /\ (\A e \in Employees : Apart(e)) /\ [Next /\ Orderly]_vars
        => (\A e \in Employees : Apart(e))'
<1> SUFFICES ASSUME OrderlyInv, \A e \in Employees : Apart(e), [Next]_vars
             PROVE  \A e \in Employees : Apart(e)'
  OBVIOUS
<1>1. ASSUME NEW d, OthersUntouched(d), Apart(d)'
      PROVE  \A e \in Employees : Apart(e)'
  <2> SUFFICES ASSUME NEW e \in Employees PROVE Apart(e)'
    OBVIOUS
  <2>1. CASE e = d
    BY <1>1, <2>1
  <2>2. CASE e # d
    BY <1>1, <2>2, OthersViews, ApartStays
  <2> QED
    BY <2>1, <2>2
<1>2. ASSUME NEW p \in Processes, pc[p] = "close_save", OnlyMoves(p),
             records' = [records EXCEPT ![job[p].rid] = job[p].row],
             UNCHANGED <<now, events>>
      PROVE  \A e \in Employees : Apart(e)'
  <2>1. PICK e \in Employees : Serves(p, e)
    BY <1>2 DEF OrderlyInv, IndInv, Ready, Serves, Row
  <2>2. /\ OthersUntouched(e) /\ Scans(e)' = Scans(e)
        /\ \A x \in Scans(e) : TimeOf(x)' = TimeOf(x)
    BY <1>2, <2>1, FlagsOpenRow
  <2>3. Apart(e)'
    BY <2>2, ApartStays
  <2> QED
    BY <1>1, <2>2, <2>3
<1>3. ASSUME NEW w \in Workers, SaveRecord(w)
      PROVE  \A e \in Employees : Apart(e)'
  <2>1. PICK e : e = job[w].emp
    OBVIOUS
  <2>2. e \in Employees
    BY <1>3, <2>1, Serving DEF SaveRecord
  <2>3. Apart(e)' /\ OthersUntouched(e)
    BY <1>3, <2>1, <2>2, ApartGrows
  <2> QED
    BY <1>1, <2>3
<1>4. ASSUME NEW w \in Workers, SaveReview(w)
      PROVE  \A e \in Employees : Apart(e)'
  <2>1. PICK e : e = job[w].row.emp
    OBVIOUS
  <2>2. e \in Employees /\ ReviewStored(e)
    BY <1>4, <2>1, StoresReview
  <2>3. Apart(e)'
    BY <2>2, ApartStays DEF ReviewStored
  <2> QED
    BY <1>1, <2>2, <2>3 DEF ReviewStored
<1>5. CASE UNCHANGED records
  <2>1. \A e : Scans(e)' = Scans(e) /\ \A x : TimeOf(x)' = TimeOf(x)
    BY <1>5 DEF Scans, ScannedAt, TimeOf
  <2> QED
    BY <2>1, ApartStays
<1>6. CASE ~UNCHANGED records
  <2>1. \/ \E w \in Workers : SaveAutoClosed(w) \/ SaveRecord(w) \/ SaveReview(w)
        \/ \E c \in Crons : CronSaveAutoClosed(c)
    BY <1>6 DEF Next, vars, db, ReceiveScan, HandleScan, CheckCooldown, CheckStale,
                Dispatch, CheckStillActive, Reread, CreateEvent, LogEvent, Reply,
                StartReview, RunCron, StartCron, CronCheckStale, FinishCron, Crash,
                SetActive, Tick
  <2>2. TypeOK
    BY DEF OrderlyInv, IndInv
  <2>3. ASSUME NEW w \in Workers, SaveAutoClosed(w)
        PROVE  \A e \in Employees : Apart(e)'
    <3>1. /\ w \in Processes /\ pc[w] = "close_save" /\ OnlyMoves(w)
          /\ records' = [records EXCEPT ![job[w].rid] = job[w].row]
          /\ UNCHANGED <<now, events>>
      BY <2>2, <2>3 DEF SaveAutoClosed, Goto, OnlyMoves, TypeOK, Processes
    <3> QED
      BY <1>2, <3>1
  <2>4. ASSUME NEW c \in Crons, CronSaveAutoClosed(c)
        PROVE  \A e \in Employees : Apart(e)'
    <3>1. /\ c \in Processes /\ pc[c] = "close_save" /\ OnlyMoves(c)
          /\ records' = [records EXCEPT ![job[c].rid] = job[c].row]
          /\ UNCHANGED <<now, events>>
      BY <2>2, <2>4 DEF CronSaveAutoClosed, Goto, OnlyMoves, TypeOK, Processes
    <3> QED
      BY <1>2, <3>1
  <2> QED
    BY <1>3, <1>4, <2>1, <2>3, <2>4
<1> QED
  BY <1>5, <1>6

\* service.py:43-46: any two registrations of an employee are SCAN_COOLDOWN
\* apart, although each handler looks at the log only once, long before it
\* stores its own.
THEOREM CooldownHolds == OrderlySpec => []CooldownBetweenRegistrations
<1>1. Init => \A e \in Employees : Apart(e)
  BY DEF Init, Apart, Scans
<1>2. OrderlyInv /\ (\A e \in Employees : Apart(e)) => CooldownBetweenRegistrations
  <2> SUFFICES ASSUME OrderlyInv, \A e \in Employees : Apart(e),
                      NEW q \in DOMAIN records, NEW r \in DOMAIN records,
                      NEW s \in Steps, NEW u \in Steps,
                      records[q].emp = records[r].emp, <<q, s>> # <<r, u>>,
                      ScannedAt(records[q], s), ScannedAt(records[r], u)
               PROVE  \/ records[q].at[s] + Cooldown <= records[r].at[u]
                      \/ records[r].at[u] + Cooldown <= records[q].at[s]
    BY DEF CooldownBetweenRegistrations
  <2>1. PICK e \in Employees : e = records[q].emp
    BY RowTypes DEF OrderlyInv, IndInv, Row
  <2>2. <<q, s>> \in Scans(e) /\ <<r, u>> \in Scans(e)
    BY <2>1 DEF Scans
  <2> QED
    BY <2>1, <2>2 DEF Apart, TimeOf
<1> QED
  BY <1>1, <1>2, ApartStep, OrderlyInvHolds, PTL DEF OrderlySpec
=============================================================================
