----------------------------- MODULE Attendance -----------------------------
(***************************************************************************)
(* The punch clock of src/attendance: what a recognised finger does to the *)
(* tables AttendanceRecord and PresenceEvent.                              *)
(*                                                                         *)
(* Every ORM call autocommits (there is no ATOMIC_REQUESTS), so a handler  *)
(* is a sequence of separate statements, and the gunicorn workers, the     *)
(* nightly command and the review screen interleave between any two of     *)
(* them.  One action below is one statement together with the Python that  *)
(* runs between it and the next one.                                       *)
(***************************************************************************)
EXTENDS Naturals, Sequences, FiniteSets

CONSTANTS
    Employees,    \* employees known to the server
    Workers,      \* processes running toggle_for_employee or the review view
    Crons,        \* runs of auto_close_stale_attendance
    Null,         \* a SQL NULL / a Python None
    Cooldown,     \* SCAN_COOLDOWN, in clock units
    MaxOpen,      \* MAX_OPEN_DURATION
    MinGap,       \* the one second AttendanceRecord.clean() asks for
    MaxHandling,  \* how long gunicorn lets a worker handle one request
    DayLength, LunchStart, LunchEnd,  \* the clock's day and LUNCH_WINDOW_*
    MaxTime,      \* bound: the clock stops there
    MaxCrashes    \* bound: processes that die in the middle of a handler

Processes == Workers \cup Crons

ASSUME ProcessAssumption == Workers \cap Crons = {} /\ IsFiniteSet(Workers)

ASSUME TimeAssumption ==
    /\ {Cooldown, MaxOpen, MaxHandling, MaxTime, MaxCrashes} \subseteq Nat
    /\ {MinGap, DayLength} \subseteq Nat \ {0}
    /\ {LunchStart, LunchEnd} \subseteq 0 .. DayLength - 1
    /\ Null \notin Nat

VARIABLES
    now,      \* timezone.now()
    active,   \* Employee.is_active
    records,  \* the AttendanceRecord table; the primary key is the index
    events,   \* the PresenceEvent table, in insertion order
    pc,       \* the statement a process executes next
    job,      \* the local variables of the handler a process runs
    todo,     \* what a run of the nightly command still has to visit
    crashes   \* how many processes have died so far

db == <<records, events>>
vars == <<now, active, records, events, pc, job, todo, crashes>>

-----------------------------------------------------------------------------
(* Rows, events and the queries over them.                                 *)

\* The four timestamps of a row.  They also name the four kinds of scan:
\* entry = (IN, not lunch), lunch_start = (OUT, lunch), lunch_end =
\* (IN, lunch), exit = (OUT, not lunch).
Steps == {"entry", "lunch_start", "lunch_end", "exit"}

\* The order clean() walks through them.
Precedes ==
    {<<"entry", "lunch_start">>, <<"entry", "lunch_end">>, <<"entry", "exit">>,
     <<"lunch_start", "lunch_end">>, <<"lunch_start", "exit">>,
     <<"lunch_end", "exit">>}

Stamps == [Steps -> Nat \cup {Null}]

Row == [emp : Employees, at : Stamps, autoClosed : BOOLEAN]

Event == [emp : Employees, step : Steps, ts : Nat, rec : Nat \ {0}]

\* AttendanceRecord.clean(): every timestamp that is set lies at least
\* MinGap after the ones set before it.
Chronological(at) ==
    \A p \in Precedes :
        at[p[1]] # Null /\ at[p[2]] # Null => at[p[1]] + MinGap <= at[p[2]]

\* Mutant: the filter forgets exit_time__isnull.
IsOpen_IgnoresExit(row) == ~row.autoClosed

\* Mutant: the filter forgets auto_closed.
IsOpen_IgnoresFlag(row) == row.at["exit"] = Null

\* The filter of get_open_record().
IsOpen(row) == row.at["exit"] = Null /\ ~row.autoClosed

OpenRows(e) ==
    {r \in DOMAIN records : records[r].emp = e /\ IsOpen(records[r])}

\* Mutant: only rows of the current day are looked at.
CurrentOpen_Today(e) ==
    {r \in OpenRows(e) :
        records[r].at["entry"] \div DayLength = now \div DayLength}

\* get_open_record(): .first() under Meta.ordering = -entry_time.  Rows with
\* equal entry_time come in an order the database is free to choose.
CurrentOpen(e) ==
    {r \in OpenRows(e) :
        \A q \in OpenRows(e) : records[q].at["entry"] <= records[r].at["entry"]}

\* Mutants: the limit itself counts as stale; the limit counts from lunch.
IsStale_AtLimit(row) == now >= row.at["entry"] + MaxOpen

IsStale_SinceLunch(row) ==
    now > MaxOpen + (IF row.at["lunch_start"] = Null THEN row.at["entry"]
                                                    ELSE row.at["lunch_start"])

\* The test of auto_close_if_stale(); exactly MaxOpen is not stale yet.
IsStale(row) == now > row.at["entry"] + MaxOpen

EventsOf(e) == {k \in DOMAIN events : events[k].emp = e}

\* Mutant: the order of the query is ascending.
LatestEvents_Ascending(e) ==
    {k \in EventsOf(e) : \A j \in EventsOf(e) : events[k].ts <= events[j].ts}

\* get_current_status(): .first() under -timestamp.
LatestEvents(e) ==
    {k \in EventsOf(e) : \A j \in EventsOf(e) : events[j].ts <= events[k].ts}

\* Mutant: the last unit of the cooldown is let through.
InCooldown_OffByOne(e) ==
    \E k \in LatestEvents(e) : now + 1 < events[k].ts + Cooldown

\* _check_cooldown() raises DuplicateScanError.
InCooldown(e) == \E k \in LatestEvents(e) : now < events[k].ts + Cooldown

\* _within_lunch_window(), both ends included.
InLunchWindow == now % DayLength \in LunchStart .. LunchEnd

\* Mutant: the second scan starts lunch whatever the time.
StepFor_AnyTime(row) ==
    CASE row.at["lunch_start"] = Null -> "lunch_start"
      [] row.at["lunch_start"] # Null /\ row.at["lunch_end"] = Null -> "lunch_end"
      [] OTHER -> "exit"

\* The branch toggle_for_employee() takes for an open row.
StepFor(row) ==
    CASE row.at["lunch_start"] = Null /\ InLunchWindow -> "lunch_start"
      [] row.at["lunch_start"] = Null /\ ~InLunchWindow -> "exit"
      [] row.at["lunch_start"] # Null /\ row.at["lunch_end"] = Null -> "lunch_end"
      [] OTHER -> "exit"

\* The guard with which record_lunch_start(), record_lunch_end() and
\* record_exit() look at the row they have re-read.
Awaits(row, step) ==
    \/ step = "lunch_start" /\ row.at["lunch_start"] = Null
    \/ step = "lunch_end" /\ row.at["lunch_start"] # Null /\ row.at["lunch_end"] = Null
    \/ step = "exit"

\* The row with one more timestamp, as the handler holds it in memory.
Stamped(row, step, t) == [row EXCEPT !.at[step] = t]

Flagged(row) == [row EXCEPT !.autoClosed = TRUE]

NewRow(e) ==
    [emp |-> e,
     at |-> [s \in Steps |-> IF s = "entry" THEN now ELSE Null],
     autoClosed |-> FALSE]

-----------------------------------------------------------------------------
(* Handlers.                                                               *)

Labels == {"idle", "cooldown", "close_read", "close_save", "dispatch",
           "active", "reread", "save", "event", "reply", "review_save", "next"}

\* rid is the primary key of the row in memory, 0 for a row not inserted yet.
Job == [emp : Employees \cup {Null}, step : Steps \cup {Null}, rid : Nat,
        row : Row \cup {Null}, since : Nat]

NoJob == [emp |-> Null, step |-> Null, rid |-> 0, row |-> Null, since |-> 0]

\* The locals once a row has been read, or dropped with rid = 0.
Holding(j, rid, row) ==
    [emp |-> j.emp, step |-> j.step, rid |-> rid, row |-> row, since |-> j.since]

Goto(p, label) == pc' = [pc EXCEPT ![p] = label]

\* The handler returns or raises: the process forgets its locals.
Finish(p) == Goto(p, "idle") /\ job' = [job EXCEPT ![p] = NoJob]

\* POST /biometric/api/scan/, first statement: _check_active() of
\* toggle_for_employee().  An unknown or inactive employee is answered 404 or
\* 409 at once and changes nothing.
ReceiveScan(w, e) ==
    /\ pc[w] = "idle"
    /\ active[e]
    /\ Goto(w, "cooldown")
    /\ job' = [job EXCEPT ![w] = [emp |-> e, step |-> Null, rid |-> 0,
                                      row |-> Null, since |-> now]]
    /\ UNCHANGED <<now, active, db, todo, crashes>>

\* _check_cooldown(): 429, or go on.
CheckCooldown(w) ==
    /\ pc[w] = "cooldown"
    /\ \/ InCooldown(job[w].emp) /\ Finish(w)
       \/ ~InCooldown(job[w].emp) /\ Goto(w, "close_read") /\ UNCHANGED job
    /\ UNCHANGED <<now, active, db, todo, crashes>>

\* auto_close_if_stale(), its query and its test, inside a scan.
CheckStale(w) ==
    /\ pc[w] = "close_read"
    /\ \/ /\ \A r \in CurrentOpen(job[w].emp) : ~IsStale(records[r])
          /\ Goto(w, "dispatch")
          /\ UNCHANGED job
       \/ \E r \in CurrentOpen(job[w].emp) :
             /\ IsStale(records[r])
             /\ job' = [job EXCEPT ![w] = Holding(job[w], r, Flagged(records[r]))]
             /\ Goto(w, "close_save")
    /\ UNCHANGED <<now, active, db, todo, crashes>>

\* record.save() of auto_close_if_stale(): the UPDATE writes every column of
\* the row read before.
SaveAutoClosed(w) ==
    /\ pc[w] = "close_save"
    /\ records' = [records EXCEPT ![job[w].rid] = job[w].row]
    /\ job' = [job EXCEPT ![w] = Holding(job[w], 0, Null)]
    /\ Goto(w, "dispatch")
    /\ UNCHANGED <<now, active, events, todo, crashes>>

\* get_open_record() of toggle_for_employee() and the choice of the record_*
\* method.
Dispatch(w) ==
    /\ pc[w] = "dispatch"
    /\ \/ /\ CurrentOpen(job[w].emp) = {}
          /\ job' = [job EXCEPT ![w].step = "entry"]
       \/ \E r \in CurrentOpen(job[w].emp) :
             job' = [job EXCEPT ![w].step = StepFor(records[r])]
    /\ Goto(w, "active")
    /\ UNCHANGED <<now, active, db, todo, crashes>>

\* _check_active() of the record_* method.  record_entry() then stamps the row
\* it is about to insert.
CheckStillActive(w) ==
    /\ pc[w] = "active"
    /\ \/ ~active[job[w].emp] /\ Finish(w)
       \/ /\ active[job[w].emp]
          /\ job[w].step = "entry"
          /\ job' = [job EXCEPT ![w] = Holding(job[w], 0, NewRow(job[w].emp))]
          /\ Goto(w, "save")
       \/ /\ active[job[w].emp]
          /\ job[w].step # "entry"
          /\ Goto(w, "reread")
          /\ UNCHANGED job
    /\ UNCHANGED <<now, active, db, todo, crashes>>

\* Mutant: the row is stored without full_clean().
Reread_Unchecked(w) ==
    LET step == job[w].step IN
    /\ pc[w] = "reread"
    /\ \E r \in CurrentOpen(job[w].emp) :
          /\ Awaits(records[r], step)
          /\ job' = [job EXCEPT ![w] =
                        Holding(job[w], r, Stamped(records[r], step, now))]
    /\ Goto(w, "save")
    /\ UNCHANGED <<now, active, db, todo, crashes>>

\* get_open_record() of record_lunch_start/_lunch_end/_exit(): ValueError when
\* the row does not await this step, ValidationError from full_clean() when the
\* new timestamp is too close to an older one, else the row is stamped.
Reread(w) ==
    LET step == job[w].step IN
    /\ pc[w] = "reread"
    /\ \/ CurrentOpen(job[w].emp) = {} /\ Finish(w)
       \/ \E r \in CurrentOpen(job[w].emp) :
             LET stamped == Stamped(records[r], step, now)
                 ok == Awaits(records[r], step) /\ Chronological(stamped.at)
             IN  \/ ~ok /\ Finish(w)
                 \/ /\ ok
                    /\ job' = [job EXCEPT ![w] = Holding(job[w], r, stamped)]
                    /\ Goto(w, "save")
    /\ UNCHANGED <<now, active, db, todo, crashes>>

\* Mutant: the key of the inserted row is not read back.
SaveRecord_NoKey(w) ==
    /\ pc[w] = "save"
    /\ records' = IF job[w].step = "entry" THEN Append(records, job[w].row)
                  ELSE [records EXCEPT ![job[w].rid] = job[w].row]
    /\ Goto(w, "event")
    /\ UNCHANGED <<now, active, events, job, todo, crashes>>

\* record.save(): INSERT for an entry, else an UPDATE of every column.
SaveRecord(w) ==
    /\ pc[w] = "save"
    /\ \/ /\ job[w].step = "entry"
          /\ records' = Append(records, job[w].row)
          /\ job' = [job EXCEPT ![w] = Holding(job[w], Len(records) + 1, job[w].row)]
       \/ /\ job[w].step # "entry"
          /\ records' = [records EXCEPT ![job[w].rid] = job[w].row]
          /\ UNCHANGED job
    /\ Goto(w, "event")
    /\ UNCHANGED <<now, active, events, todo, crashes>>

LogEvent(w, step, ts, rec) ==
    /\ pc[w] = "event"
    /\ events' = Append(events,
                    [emp |-> job[w].emp, step |-> step, ts |-> ts, rec |-> rec])
    /\ Goto(w, "reply")
    /\ UNCHANGED <<now, active, records, job, todo, crashes>>

\* Mutants: is_lunch is left at its default; the event reads the clock again;
\* the event takes the newest row.
CreateEvent_NotLunch(w) ==
    LogEvent(w, CASE job[w].step = "lunch_start" -> "exit"
                  [] job[w].step = "lunch_end" -> "entry"
                  [] OTHER -> job[w].step,
             job[w].row.at[job[w].step], job[w].rid)

CreateEvent_OwnClock(w) == LogEvent(w, job[w].step, now, job[w].rid)

\* PresenceEvent.objects.create(): carries the timestamp stamped on the row.
CreateEvent(w) ==
    LogEvent(w, job[w].step, job[w].row.at[job[w].step], job[w].rid)

\* KioskScanReportView reads get_current_status() again and answers with it.
Reply(w) ==
    /\ pc[w] = "reply"
    /\ Finish(w)
    /\ UNCHANGED <<now, active, db, todo, crashes>>

-----------------------------------------------------------------------------
(* The review screen: AttendancePendingReviewView.post().                  *)

PendingReview(row) == row.autoClosed /\ row.at["exit"] = Null

\* get_object_or_404 and the parsed exit time; one that clean() refuses is
\* answered with a message and changes nothing.
StartReview(w, r, t) ==
    /\ pc[w] = "idle"
    /\ PendingReview(records[r])
    /\ Chronological(Stamped(records[r], "exit", t).at)
    /\ job' = [job EXCEPT ![w] = [emp |-> Null, step |-> Null, rid |-> r,
                                  row |-> Stamped(records[r], "exit", t),
                                  since |-> now]]
    /\ Goto(w, "review_save")
    /\ UNCHANGED <<now, active, db, todo, crashes>>

SaveReview(w) ==
    /\ pc[w] = "review_save"
    /\ records' = [records EXCEPT ![job[w].rid] = job[w].row]
    /\ Finish(w)
    /\ UNCHANGED <<now, active, events, todo, crashes>>

-----------------------------------------------------------------------------
(* The nightly command auto_close_stale_attendance.                        *)

\* Mutant: only employees that are still active are looked at.
StartCron_ActiveOnly(c) ==
    /\ pc[c] = "idle"
    /\ todo' = [todo EXCEPT ![c] =
                  {<<records[r].emp, records[r].at["entry"]>> :
                      r \in {q \in DOMAIN records :
                                IsOpen(records[q]) /\ active[records[q].emp]}}]
    /\ todo'[c] # {}
    /\ Goto(c, "next")
    /\ UNCHANGED <<now, active, db, job, crashes>>

\* The query runs once, before the loop.  Meta.ordering adds entry_time to the
\* SELECT DISTINCT, so an employee appears once per distinct open entry.
StartCron(c) ==
    /\ pc[c] = "idle"
    /\ \E e \in Employees : OpenRows(e) # {}
    /\ todo' = [todo EXCEPT ![c] =
                  {<<records[r].emp, records[r].at["entry"]>> :
                      r \in {q \in DOMAIN records : IsOpen(records[q])}}]
    /\ Goto(c, "next")
    /\ UNCHANGED <<now, active, db, job, crashes>>

\* One round of the loop: the query and the test of auto_close_if_stale().
CronCheckStale(c) ==
    /\ pc[c] = "next"
    /\ \E x \in todo[c] :
          /\ \A y \in todo[c] : y[2] <= x[2]
          /\ todo' = [todo EXCEPT ![c] = @ \ {x}]
          /\ \/ /\ \A r \in CurrentOpen(x[1]) : ~IsStale(records[r])
                /\ UNCHANGED <<pc, job>>
             \/ \E r \in CurrentOpen(x[1]) :
                   /\ IsStale(records[r])
                   /\ job' = [job EXCEPT ![c] = Holding(NoJob, r, Flagged(records[r]))]
                   /\ Goto(c, "close_save")
    /\ UNCHANGED <<now, active, db, crashes>>

CronSaveAutoClosed(c) ==
    /\ pc[c] = "close_save"
    /\ records' = [records EXCEPT ![job[c].rid] = job[c].row]
    /\ job' = [job EXCEPT ![c] = NoJob]
    /\ Goto(c, "next")
    /\ UNCHANGED <<now, active, events, todo, crashes>>

\* The list is exhausted.
FinishCron(c) ==
    /\ pc[c] = "next"
    /\ todo[c] = {}
    /\ Finish(c)
    /\ UNCHANGED <<now, active, db, todo, crashes>>

-----------------------------------------------------------------------------
(* Everything else.                                                        *)

\* EmployeeForm: is_active is the soft delete and can be given back.
SetActive(e) ==
    /\ active' = [active EXCEPT ![e] = ~@]
    /\ UNCHANGED <<now, db, pc, job, todo, crashes>>

\* A process dies between two statements: a worker killed by gunicorn, a lost
\* database connection, a restart of the service.
Crash(p) ==
    /\ pc[p] # "idle"
    /\ crashes < MaxCrashes
    /\ crashes' = crashes + 1
    /\ Finish(p)
    /\ todo' = [c \in Crons |-> IF c = p THEN {} ELSE todo[c]]
    /\ UNCHANGED <<now, active, db>>

\* Time passes; gunicorn kills a worker that has been handling one request for
\* MaxHandling, so no request lives longer.
Tick ==
    /\ now < MaxTime
    /\ \A w \in Workers : pc[w] # "idle" => now < job[w].since + MaxHandling
    /\ now' = now + 1
    /\ UNCHANGED <<active, db, pc, job, todo, crashes>>

-----------------------------------------------------------------------------
Init ==
    /\ now = 0
    /\ active = [e \in Employees |-> TRUE]
    /\ records = <<>>
    /\ events = <<>>
    /\ pc = [p \in Processes |-> "idle"]
    /\ job = [p \in Processes |-> NoJob]
    /\ todo = [c \in Crons |-> {}]
    /\ crashes = 0

HandleScan(w) ==
    \/ CheckCooldown(w) \/ CheckStale(w) \/ SaveAutoClosed(w) \/ Dispatch(w)
    \/ CheckStillActive(w) \/ Reread(w) \/ SaveRecord(w) \/ CreateEvent(w)
    \/ Reply(w)

RunCron(c) ==
    \/ StartCron(c) \/ CronCheckStale(c) \/ CronSaveAutoClosed(c) \/ FinishCron(c)

Next ==
    \/ \E w \in Workers :
          \/ \E e \in Employees : ReceiveScan(w, e)
          \/ HandleScan(w)
          \/ \E r \in DOMAIN records, t \in 0 .. MaxTime : StartReview(w, r, t)
          \/ SaveReview(w)
    \/ \E c \in Crons : RunCron(c)
    \/ \E p \in Processes : Crash(p)
    \/ \E e \in Employees : SetActive(e)
    \/ Tick

Spec == Init /\ [][Next]_vars

\* A worker finishes the request it is handling, the systemd timer keeps
\* firing, and time goes on.  Nobody has to scan, and no master has to review.
Fairness ==
    /\ WF_vars(Tick)
    /\ \A w \in Workers : WF_vars(HandleScan(w) \/ SaveReview(w))
    /\ \A c \in Crons : WF_vars(RunCron(c))

FairSpec == Spec /\ Fairness
-----------------------------------------------------------------------------
(* Properties.                                                             *)

\* The tables and the handlers' locals hold values of their columns' types; in
\* particular every event refers to a row (attendance/models.py).
TypeOK ==
    /\ now \in Nat
    /\ active \in [Employees -> BOOLEAN]
    /\ records \in Seq(Row)
    /\ events \in Seq(Event)
    /\ pc \in [Processes -> Labels]
    /\ job \in [Processes -> Job]
    /\ todo \in [Crons -> SUBSET (Employees \X Nat)]
    /\ crashes \in Nat

\* A scan opens a new shift only when the last one is over, so an employee
\* never has more open rows than there are requests that can overlap: one row
\* behind a single kiosk, and a race of n workers leaves at most n.
OpenRowsBounded ==
    \A e \in Employees : Cardinality(OpenRows(e)) <= Cardinality(Workers)

\* Workers that have found no open row and are about to insert one.
Entering(e) ==
    {w \in Workers : /\ pc[w] \in {"active", "save"}
                     /\ job[w].emp = e
                     /\ job[w].step = "entry"}

\* Workers about to store a row as open, whatever became of it since they read
\* it: such an UPDATE can take back an exit or a flag.
Reopening(e) ==
    {w \in Workers : /\ pc[w] = "save"
                     /\ job[w].emp = e
                     /\ job[w].step # "entry"
                     /\ IsOpen(job[w].row)}

MayBeOpen(e) == OpenRows(e) \cup {job[w].rid : w \in Reopening(e)}

\* record_*() and get_open_record() are apart, and save() writes every column:
\* still, rows that are open or about to be opened again by a stale UPDATE, and
\* entries whose INSERT is under way, are together no more than the workers.
RaceInv ==
    /\ \A e \in Employees :
          Cardinality(MayBeOpen(e)) + Cardinality(Entering(e)) <= Cardinality(Workers)
    /\ \A p \in Processes :
          pc[p] \in {"close_save", "review_save"} => ~IsOpen(job[p].row)

\* A timestamp that a scan wrote, as opposed to an exit a master typed in.
ScannedAt(row, s) == row.at[s] # Null /\ (s = "exit" => ~row.autoClosed)

\* Once a shift has an exit nothing rewrites it, neither a later scan nor the
\* review screen.
ClosedShiftIsFinal ==
    [][\A r \in DOMAIN records :
          records[r].at["exit"] # Null => records'[r] = records[r]]_vars

\* A possible day: timestamps in order, and a lunch return only after a lunch
\* start.
RowIsDay(row) ==
    /\ Chronological(row.at)
    /\ row.at["entry"] # Null
    /\ row.at["lunch_end"] # Null => row.at["lunch_start"] # Null

\* However handlers, the nightly command and the review screen overwrite one
\* another's rows from snapshots, what is stored is a possible day.
RowsAreDays == \A r \in DOMAIN records : RowIsDay(records[r])

FlaggedWasStale(row) == row.autoClosed => now > row.at["entry"] + MaxOpen

\* Only a shift that really lasted longer than MAX_OPEN_DURATION is ever
\* flagged, whoever flags it and however late the UPDATE is executed.
AutoClosedWereStale == \A r \in DOMAIN records : FlaggedWasStale(records[r])

\* Every event points to a row of its employee that was open by then, even
\* after that row has been overwritten from a stale snapshot.
EventsPointToShift ==
    \A k \in DOMAIN events :
        /\ events[k].rec \in DOMAIN records
        /\ records[events[k].rec].emp = events[k].emp
        /\ records[events[k].rec].at["entry"] <= events[k].ts

\* What a handler relies on at its next statement: the locals it will use are
\* set, a row it holds is a possible day, and the row it will overwrite is the
\* same employee's same shift, whatever else was written since it was read.
SameShift(row, r) ==
    /\ r \in DOMAIN records
    /\ records[r].emp = row.emp
    /\ records[r].at["entry"] = row.at["entry"]

Ready(p) ==
    LET j == job[p] IN
    /\ p \in Workers /\ pc[p] \notin {"idle", "review_save"} => j.emp \in Employees
    /\ pc[p] \in {"active", "reread", "save", "event"} => j.step \in Steps
    /\ pc[p] = "reread" => j.step # "entry"
    /\ pc[p] \in {"close_save", "review_save", "save", "event"} =>
          j.row \in Row /\ RowIsDay(j.row) /\ FlaggedWasStale(j.row)
    /\ pc[p] \in {"close_save", "review_save", "event"} => SameShift(j.row, j.rid)
    /\ pc[p] = "save" /\ j.step # "entry" => SameShift(j.row, j.rid)
    /\ pc[p] \in {"save", "event"} =>
          /\ j.row.emp = j.emp
          /\ j.row.at[j.step] # Null
          /\ j.row.at["entry"] <= j.row.at[j.step]

\* The inductive invariant: tables and handlers agree at every statement, with
\* any number of workers, nightly runs and crashes.
IndInv ==
    /\ TypeOK
    /\ \A p \in Processes : Ready(p)
    /\ RowsAreDays
    /\ AutoClosedWereStale
    /\ EventsPointToShift

\* A shift old enough to be flagged before the clock stops.  A race of two
\* workers can leave a younger open row beside it: get_open_record() sees only
\* the younger one until that one is stale too, so it has to be old as well.
Abandoned(r) ==
    /\ r \in DOMAIN records
    /\ IsOpen(records[r])
    /\ \A q \in OpenRows(records[r].emp) :
          records[q].at["entry"] + MaxOpen < MaxTime

\* A shift nobody ends is flagged for review in the end, although its employee
\* never scans again (auto_close_stale_attendance.py:6-9), and all the rows of a
\* race are, one round of the command or the next.
AbandonedShiftIsFlagged ==
    \A r \in 1 .. MaxTime : Abandoned(r) ~> ~Abandoned(r)

-----------------------------------------------------------------------------
(* What comments in the code say.  None holds of any overlap of requests:  *)
(* the first is violated by two workers, the others are of OrderlySpec.    *)

\* service.py:43-46, "Minimum time between two registrations (IN or OUT, in
\* either order) for the same employee": any two timestamps scans stored for
\* an employee are SCAN_COOLDOWN apart.
CooldownBetweenRegistrations ==
    \A q, r \in DOMAIN records : \A s, u \in Steps :
        /\ records[q].emp = records[r].emp
        /\ <<q, s>> # <<r, u>>
        /\ ScannedAt(records[q], s)
        /\ ScannedAt(records[r], u)
        => \/ records[q].at[s] + Cooldown <= records[r].at[u]
           \/ records[r].at[u] + Cooldown <= records[q].at[s]

\* models.py:117, "Immutable log of every biometric scan - one row per scan":
\* a timestamp a scan stored has its event, unless the handler that stored it
\* is just about to create it; the row an event points to is the employee's and
\* still holds the timestamp of the event; and the kiosk is told of the scan
\* just made, not of another one (the view reads the status again).
LogAndTableAgree ==
    /\ \A r \in DOMAIN records : \A s \in Steps : ScannedAt(records[r], s) =>
          \/ \E k \in DOMAIN events : events[k].rec = r /\ events[k].step = s
          \/ \E w \in Workers :
                 pc[w] = "event" /\ job[w].rid = r /\ job[w].step = s
    /\ \A k \in DOMAIN events :
          /\ events[k].rec \in DOMAIN records
          /\ records[events[k].rec].emp = events[k].emp
          /\ records[events[k].rec].at[events[k].step] = events[k].ts
    /\ \A w \in Workers : pc[w] = "reply" =>
          \A k \in LatestEvents(job[w].emp) :
              events[k].step = job[w].step /\ events[k].rec = job[w].rid

\* models.py:52-58, a flagged row "aparece na tela de revisao ate que um
\* administrador preencha a saida real": it stays pending until a master
\* stores an exit on it.
PendingUntilReviewed ==
    [][\A r \in DOMAIN records : PendingReview(records[r]) =>
          \/ PendingReview(records'[r])
          \/ \E w \in Workers : pc[w] = "review_save" /\ job[w].rid = r]_vars

-----------------------------------------------------------------------------
(* Orderly: while requests about one employee do not overlap and no worker *)
(* dies between a row and its event.                                       *)

\* p is at work for e, as a scan or with a row of e in memory.
Serves(p, e) ==
    \/ p \in Workers /\ pc[p] \notin {"idle", "review_save"} /\ job[p].emp = e
    \/ pc[p] \in {"close_save", "review_save"} /\ job[p].row.emp = e

OneAtATime ==
    \A e \in Employees : \A p, q \in Processes :
        Serves(p, e) /\ Serves(q, e) => p = q

\* The steps of a system that had a lock per employee and stored a row with its
\* event in one transaction; the code has neither.
Orderly ==
    /\ OneAtATime'
    /\ \A w \in Workers : pc[w] = "event" => pc'[w] \in {"event", "reply"}

OrderlySpec == Init /\ [][Next /\ Orderly]_vars

\* The registrations of an employee: the row and the column.
Scans(e) ==
    {x \in (DOMAIN records) \X Steps :
        records[x[1]].emp = e /\ ScannedAt(records[x[1]], x[2])}

TimeOf(x) == records[x[1]].at[x[2]]

EventScan(k) == <<events[k].rec, events[k].step>>

\* The tables, employee by employee: one shift is open, no scan lies ahead, and
\* scans and events are each other's.
DayInv(e) ==
    /\ \A q, r \in OpenRows(e) : q = r
    /\ \A x \in Scans(e) : TimeOf(x) <= now
    /\ \A x \in Scans(e) :
          \/ \E k \in EventsOf(e) : EventScan(k) = x
          \/ \E w \in Workers :
                 pc[w] = "event" /\ job[w].emp = e /\ x = <<job[w].rid, job[w].step>>
    /\ \A k \in EventsOf(e) :
          EventScan(k) \in Scans(e) /\ TimeOf(EventScan(k)) = events[k].ts

\* What toggle_for_employee() makes of an open row at the instant a.
ChosenAt(row, step, a) ==
    \/ /\ step = "lunch_start" /\ row.at["lunch_start"] = Null
       /\ a % DayLength \in LunchStart .. LunchEnd
    \/ /\ step = "exit" /\ row.at["lunch_start"] = Null
       /\ a % DayLength \notin LunchStart .. LunchEnd
    \/ step = "lunch_end" /\ row.at["lunch_start"] # Null /\ row.at["lunch_end"] = Null
    \/ step = "exit" /\ row.at["lunch_start"] # Null /\ row.at["lunch_end"] # Null

\* gunicorn has not killed the request yet.
OnTime(p) ==
    p \in Workers => job[p].since <= now /\ now <= job[p].since + MaxHandling

\* The row in memory is the stored one but for what the handler changed.
SnapshotFresh(p, e) ==
    LET j == job[p] IN
    /\ pc[p] = "close_save" =>
          j.rid \in OpenRows(e) /\ j.row = Flagged(records[j.rid])
    /\ pc[p] = "review_save" =>
          /\ PendingReview(records[j.rid])
          /\ j.row.at["exit"] # Null
          /\ j.row = Stamped(records[j.rid], "exit", j.row.at["exit"])
    /\ pc[p] = "save" /\ j.step = "entry" =>
          ~j.row.autoClosed /\ \A s \in Steps \ {"entry"} : j.row.at[s] = Null
    /\ pc[p] = "save" /\ j.step # "entry" =>
          /\ j.rid \in OpenRows(e)
          /\ j.row = Stamped(records[j.rid], j.step, j.row.at[j.step])

\* The cooldown that was looked at is over still.
CooldownOver(p, e) ==
    /\ p \in Workers /\ pc[p] \in {"close_read", "close_save", "dispatch", "active", "reread"} =>
          \A x \in Scans(e) : TimeOf(x) + Cooldown <= now
    /\ pc[p] = "save" => \A x \in Scans(e) : TimeOf(x) + Cooldown <= job[p].row.at[job[p].step]

\* The shift that is open was no longer than MaxOpen when the request came.
NotAbandoned(p, e) ==
    pc[p] \in {"dispatch", "active", "reread", "save"} =>
        \A r \in OpenRows(e) : job[p].since <= records[r].at["entry"] + MaxOpen

\* The step chosen by Dispatch is the one the stored row awaits, read by the
\* clock of an instant since the request came.
StepStands(p, e) ==
    LET j == job[p]
        t == j.row.at[j.step]
    IN
    /\ pc[p] \in {"active", "save"} /\ j.step = "entry" => OpenRows(e) = {}
    /\ pc[p] \in {"active", "reread"} /\ j.step # "entry" =>
          \E r \in OpenRows(e) : \E a \in j.since .. now : ChosenAt(records[r], j.step, a)
    /\ pc[p] = "save" => j.since <= t /\ t <= now
    /\ pc[p] = "save" /\ j.step # "entry" =>
          \E a \in j.since .. t : ChosenAt(records[j.rid], j.step, a)

\* What a handler has stored and not answered yet is the employee's last scan.
ScanIsLast(p, e) ==
    LET own == <<job[p].rid, job[p].step>> IN
    /\ pc[p] \in {"event", "reply"} =>
          /\ own \in Scans(e)
          /\ \A x \in Scans(e) \ {own} : TimeOf(x) + Cooldown <= TimeOf(own)
    /\ pc[p] = "event" => TimeOf(own) = job[p].row.at[job[p].step]

\* Nothing a handler has read is out of date, neither the row in its memory
\* nor what it concluded about cooldown, abandonment and the step to take.
FreshFor(p, e) ==
    /\ OnTime(p) /\ SnapshotFresh(p, e) /\ CooldownOver(p, e)
    /\ NotAbandoned(p, e) /\ StepStands(p, e) /\ ScanIsLast(p, e)

\* Orderly, whatever a handler of service.py or of the review screen has read
\* is true still at each statement that relies on it, and scans and events are
\* each other's.
OrderlyInv ==
    /\ IndInv
    /\ OneAtATime
    /\ \A e \in Employees : DayInv(e)
    /\ \A p \in Processes : \A e \in Employees : Serves(p, e) => FreshFor(p, e)
=============================================================================
