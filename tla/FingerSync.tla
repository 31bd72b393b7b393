----------------------------- MODULE FingerSync -----------------------------
(***************************************************************************)
(* Fingerprints between the server and a kiosk: templates are enrolled at  *)
(* the server's own reader or by the kiosk and erased by staff; the kiosk  *)
(* keeps a copy of the templates (TemplateCache), identifies a touch in    *)
(* it and posts the employee, and the server records the attendance.       *)
(*                                                                         *)
(* EnrollQueue has the queue of remote requests in detail, KioskAgent the  *)
(* threads of the kiosk, Attendance what recording does: here a request is *)
(* pending or not, and a scan is checked and recorded.  A post may be lost,*)
(* its answer may be lost, and the kiosk may give up before the server has *)
(* dealt with it.                                                          *)
(***************************************************************************)
EXTENDS Integers, FiniteSets

CONSTANTS
    Employees, Fingers, Workers, None,
    Touches,     \* bound: the touches of the kiosk's reader
    MaxOps,      \* bound: requests of staff
    MaxRestarts  \* bound: restarts of the kiosk

ASSUME FingerSyncAssumption ==
    /\ {MaxOps, MaxRestarts} \subseteq Nat
    /\ None \notin Employees \cup Fingers \cup Touches \cup Nat
    /\ IsFiniteSet(Employees) /\ IsFiniteSet(Workers)

VARIABLES
    templates, \* BiometricTemplate of each employee: key and finger, or None
    active,    \* Employee.is_active
    pending,   \* the employees with a pending remote request
    pc, job,   \* the statement a worker is at, its local variables
    cache,     \* TemplateCache._templates
    fetch,     \* the templates on their way to the kiosk, or None
    enrol,     \* what the kiosk enrols: employee and finger, or None
    waiting,   \* the touch whose answer the kiosk awaits, or None
    posts,     \* the posts of scans under way at the server, by touch
    ops, restarts,
    outdated,  \* history: whose template changed since the cache was read
    recorded,  \* history: how often each touch was recorded
    notice     \* history: what the kiosk has shown for each touch

server == <<templates, active, pending>>
kiosk == <<cache, fetch, enrol, waiting>>
vars == <<server, pc, job, kiosk, posts, ops, restarts, outdated, recorded, notice>>

\* History: raced, a template was stored for the employee meanwhile.
NoJob == [employee |-> None, finger |-> None, key |-> None, raced |-> FALSE]

Begin(w, label, e) ==
    /\ pc[w] = "idle"
    /\ ops < MaxOps
    /\ ops' = ops + 1
    /\ pc' = [pc EXCEPT ![w] = label]
    /\ job' = [job EXCEPT ![w] = [NoJob EXCEPT !.employee = e]]

Goto(w, label) == pc' = [pc EXCEPT ![w] = label] /\ UNCHANGED ops
Respond(w) == Goto(w, "idle") /\ job' = [job EXCEPT ![w] = NoJob]

Keys == 1 .. 2 * Cardinality(Employees) + Cardinality(Workers)

Unused(k) ==
    /\ \A e \in Employees : templates[e] # None => templates[e].key # k
    /\ \A w \in Workers : job[w].key # k

\* The key of a new row: one that no row and no request has.
FreshKey(k) == Unused(k) /\ \A m \in Keys : m < k => ~ Unused(m)

\* The template of e becomes t (history: the copies of it are outdated).
PutTemplate(e, t) ==
    /\ templates' = [templates EXCEPT ![e] = t]
    /\ outdated' = outdated \cup {e}
    /\ fetch' = IF fetch = None THEN None ELSE [fetch EXCEPT !.missed = @ \cup {e}]
    /\ posts' = [i \in Touches |->
          IF posts[i] # None /\ posts[i].employee = e THEN [posts[i] EXCEPT !.stale = TRUE]
          ELSE posts[i]]

Raced(e) == [w \in Workers |->
    IF pc[w] # "idle" /\ job[w].employee = e THEN [job[w] EXCEPT !.raced = TRUE] ELSE job[w]]

-----------------------------------------------------------------------------
(* The server's own pages: employees/views.py.                             *)

\* Mutant: an employee who has a template is enrolled again.
OpenEnroll_Again(w, e) ==
    /\ \E reader \in BOOLEAN : Begin(w, IF reader THEN "capture" ELSE "request", e)
    /\ UNCHANGED <<server, kiosk, posts, restarts, outdated, recorded, notice>>

\* EmployeeEnrollView.post: no template yet; connect() finds a reader or not.
OpenEnroll(w, e) ==
    /\ templates[e] = None
    /\ \E reader \in BOOLEAN : Begin(w, IF reader THEN "capture" ELSE "request", e)
    /\ UNCHANGED <<server, kiosk, posts, restarts, outdated, recorded, notice>>

\* No reader: get_or_create_pending.
RequestRemote(w) ==
    /\ pc[w] = "request"
    /\ pending' = pending \cup {job[w].employee}
    /\ Respond(w)
    /\ UNCHANGED <<templates, active, kiosk, posts, restarts, outdated, recorded, notice>>

\* capture_registration, or (finger None) a time-out or an error of the reader.
Capture(w, f) ==
    /\ pc[w] = "capture"
    /\ IF f = None THEN Respond(w)
       ELSE Goto(w, "store") /\ job' = [job EXCEPT ![w].finger = f]
    /\ UNCHANGED <<server, kiosk, posts, restarts, outdated, recorded, notice>>

\* get_or_create: the new row, or the key of the one that is there by now.
GetOrCreate(w) ==
    /\ pc[w] = "store"
    /\ LET e == job[w].employee
       IN IF templates[e] = None
          THEN /\ \E k \in Keys :
                     FreshKey(k) /\ PutTemplate(e, [key |-> k, finger |-> job[w].finger])
               /\ job' = [Raced(e) EXCEPT ![w] = NoJob]
               /\ Goto(w, "idle")
          ELSE /\ job' = [job EXCEPT ![w].key = templates[e].key]
               /\ Goto(w, "resave")
               /\ UNCHANGED <<templates, outdated, fetch, posts>>
    /\ UNCHANGED <<active, pending, cache, enrol, waiting, restarts, recorded, notice>>

\* save() of the row that was found: updated, inserted again if it is gone, or
\* an error if another row has taken its place.
Resave(w) ==
    /\ pc[w] = "resave"
    /\ LET e == job[w].employee
       IN IF templates[e] = None \/ templates[e].key = job[w].key
          THEN /\ PutTemplate(e, [key |-> job[w].key, finger |-> job[w].finger])
               /\ job' = [Raced(e) EXCEPT ![w] = NoJob]
          ELSE job' = [job EXCEPT ![w] = NoJob] /\ UNCHANGED <<templates, outdated, fetch, posts>>
    /\ Goto(w, "idle")
    /\ UNCHANGED <<active, pending, cache, enrol, waiting, restarts, recorded, notice>>

\* EmployeeDeleteBiometricView: the template, then the pending requests.
OpenErase(w, e) ==
    /\ Begin(w, "erase", e)
    /\ UNCHANGED <<server, kiosk, posts, restarts, outdated, recorded, notice>>

EraseTemplate(w) ==
    /\ pc[w] = "erase"
    /\ PutTemplate(job[w].employee, None)
    /\ Goto(w, "cancel")
    /\ UNCHANGED <<active, pending, job, cache, enrol, waiting, restarts, recorded, notice>>

CancelRequests(w) ==
    /\ pc[w] = "cancel"
    /\ pending' = pending \ {job[w].employee}
    /\ Respond(w)
    /\ UNCHANGED <<templates, active, kiosk, posts, restarts, outdated, recorded, notice>>

\* Staff deactivate an employee, or activate one again.
SetActive(e) ==
    /\ ops < MaxOps
    /\ ops' = ops + 1
    /\ active' = [active EXCEPT ![e] = ~ @]
    /\ UNCHANGED <<templates, pending, pc, job, kiosk, posts, restarts, outdated, recorded,
                   notice>>

-----------------------------------------------------------------------------
(* TemplateCache.                                                          *)

\* KioskTemplateSyncView: the templates of active employees.
Enrolled == {e \in Employees : active[e] /\ templates[e] # None}
Pairs == {[employee |-> e, finger |-> templates[e].finger] : e \in Enrolled}

ReadTemplates ==
    /\ fetch = None
    /\ fetch' = [rows |-> Pairs, missed |-> {}]
    /\ UNCHANGED <<server, pc, job, cache, enrol, waiting, posts, ops, restarts, outdated,
                   recorded, notice>>

\* Mutant: the templates are added to those that are there.
StoreTemplates_Adds ==
    /\ fetch # None
    /\ cache' = cache \cup fetch.rows
    /\ outdated' = fetch.missed
    /\ fetch' = None
    /\ UNCHANGED <<server, pc, job, enrol, waiting, posts, ops, restarts, recorded, notice>>

\* refresh() replaces the list under its lock.
StoreTemplates ==
    /\ fetch # None
    /\ cache' = fetch.rows
    /\ outdated' = fetch.missed
    /\ fetch' = None
    /\ UNCHANGED <<server, pc, job, enrol, waiting, posts, ops, restarts, recorded, notice>>

\* The request fails or times out: the cache is kept.
FailRefresh ==
    /\ fetch # None
    /\ fetch' = None
    /\ UNCHANGED <<server, pc, job, cache, enrol, waiting, posts, ops, restarts, outdated,
                   recorded, notice>>

-----------------------------------------------------------------------------
(* Touches: on_template, BiometricService.identify and KioskScanReportView.*)

\* Mutant: any enrolled employee is taken for a match.
Matches_Any(f) == {p.employee : p \in cache}

\* A stored template of the finger that touches; a poor reading matches none.
Matches(f) == {p.employee : p \in {q \in cache : q.finger = f}}

Touch(i, f) ==
    /\ waiting = None /\ enrol = None
    /\ posts[i] = None /\ recorded[i] = 0 /\ notice[i] = "none"
    /\ \E e \in Matches(f) :
          posts' = [posts EXCEPT ![i] = [employee |-> e, finger |-> f, at |-> "sent",
                                         stale |-> e \in outdated, checked |-> FALSE]]
    /\ waiting' = i
    /\ UNCHANGED <<server, pc, job, cache, fetch, enrol, ops, restarts, outdated, recorded,
                   notice>>

\* The answer, if the kiosk still awaits it.
Answer(i, what) ==
    /\ notice' = [notice EXCEPT ![i] = IF waiting = i THEN what ELSE @]
    /\ waiting' = IF waiting = i THEN None ELSE waiting

\* Mutant: the server relies on the cache.
CheckActive_Trusting(i) ==
    /\ posts[i] # None /\ posts[i].at = "sent"
    /\ posts' = [posts EXCEPT ![i].at = "checked", ![i].checked = active[posts[i].employee]]
    /\ UNCHANGED <<waiting, notice>>
    /\ UNCHANGED <<server, pc, job, cache, fetch, enrol, ops, restarts, outdated, recorded>>

\* _check_active: an inactive employee is refused (409: nothing is shown).
CheckActive(i) ==
    /\ posts[i] # None /\ posts[i].at = "sent"
    /\ IF active[posts[i].employee]
       THEN /\ posts' = [posts EXCEPT ![i].at = "checked", ![i].checked = TRUE]
            /\ UNCHANGED <<waiting, notice>>
       ELSE posts' = [posts EXCEPT ![i] = None] /\ Answer(i, "none")
    /\ UNCHANGED <<server, pc, job, cache, fetch, enrol, ops, restarts, outdated, recorded>>

\* _check_cooldown refuses (429), or the attendance is recorded.
Record(i) ==
    /\ posts[i] # None /\ posts[i].at = "checked"
    /\ \/ posts' = [posts EXCEPT ![i] = None] /\ Answer(i, "denied") /\ UNCHANGED recorded
       \/ /\ posts' = [posts EXCEPT ![i].at = "recorded"]
          /\ recorded' = [recorded EXCEPT ![i] = @ + 1]
          /\ UNCHANGED <<waiting, notice>>
    /\ UNCHANGED <<server, pc, job, cache, fetch, enrol, ops, restarts, outdated>>

Reply(i) ==
    /\ posts[i] # None /\ posts[i].at = "recorded"
    /\ posts' = [posts EXCEPT ![i] = None]
    /\ Answer(i, "success")
    /\ UNCHANGED <<server, pc, job, cache, fetch, enrol, ops, restarts, outdated, recorded>>

\* The post never reaches the server.
LosePost(i) ==
    /\ posts[i] # None /\ posts[i].at = "sent"
    /\ posts' = [posts EXCEPT ![i] = None]
    /\ Answer(i, "none")
    /\ UNCHANGED <<server, pc, job, cache, fetch, enrol, ops, restarts, outdated, recorded>>

\* Mutant: the scan is posted once more.
GiveUp_Retries(i) ==
    /\ waiting = i
    /\ posts' = [posts EXCEPT ![i].at = "sent"]
    /\ UNCHANGED <<server, pc, job, kiosk, ops, restarts, outdated, recorded, notice>>

\* The kiosk hears nothing within HTTP_TIMEOUT and drops the scan.
GiveUp(i) ==
    /\ waiting = i
    /\ waiting' = None
    /\ UNCHANGED <<server, pc, job, cache, fetch, enrol, posts, ops, restarts, outdated, recorded,
                   notice>>

-----------------------------------------------------------------------------
(* The kiosk enrols for a remote request.                                  *)

StartEnrol(e) ==
    /\ enrol = None /\ waiting = None
    /\ e \in pending
    /\ enrol' = [employee |-> e, finger |-> None]
    /\ UNCHANGED <<server, pc, job, cache, fetch, waiting, posts, ops, restarts, outdated,
                   recorded, notice>>

CaptureAtKiosk(f) ==
    /\ enrol # None /\ enrol.finger = None
    /\ enrol' = [enrol EXCEPT !.finger = f]
    /\ UNCHANGED <<server, pc, job, cache, fetch, waiting, posts, ops, restarts, outdated,
                   recorded, notice>>

\* KioskEnrollView.post in one transaction: the template, new or in place of
\* the old one, and the request.
SubmitEnrol ==
    /\ enrol # None /\ enrol.finger # None
    /\ LET e == enrol.employee
       IN /\ \E k \in Keys :
                /\ IF templates[e] = None THEN FreshKey(k) ELSE k = templates[e].key
                /\ PutTemplate(e, [key |-> k, finger |-> enrol.finger])
          /\ job' = Raced(e)
          /\ pending' = pending \ {e}
    /\ enrol' = None
    /\ UNCHANGED <<active, pc, cache, waiting, ops, restarts, recorded, notice>>

\* No finger, no reader or no connection: the request stays.
DropEnrol ==
    /\ enrol # None
    /\ enrol' = None
    /\ UNCHANGED <<server, pc, job, cache, fetch, waiting, posts, ops, restarts, outdated,
                   recorded, notice>>

\* The agent starts again, with an empty cache.
RestartKiosk ==
    /\ restarts < MaxRestarts
    /\ restarts' = restarts + 1
    /\ cache' = {} /\ fetch' = None /\ enrol' = None /\ waiting' = None
    /\ UNCHANGED <<server, pc, job, posts, ops, outdated, recorded, notice>>

-----------------------------------------------------------------------------
Init ==
    /\ templates = [e \in Employees |-> None]
    /\ active = [e \in Employees |-> TRUE]
    /\ pending = {}
    /\ pc = [w \in Workers |-> "idle"] /\ job = [w \in Workers |-> NoJob]
    /\ cache = {} /\ fetch = None /\ enrol = None /\ waiting = None
    /\ posts = [i \in Touches |-> None]
    /\ ops = 0 /\ restarts = 0
    /\ outdated = {}
    /\ recorded = [i \in Touches |-> 0] /\ notice = [i \in Touches |-> "none"]

Staff(w) ==
    \/ \E e \in Employees : OpenEnroll(w, e) \/ OpenErase(w, e)
    \/ \E f \in Fingers \cup {None} : Capture(w, f)
    \/ RequestRemote(w) \/ GetOrCreate(w) \/ Resave(w)
    \/ EraseTemplate(w) \/ CancelRequests(w)

Scan(i) ==
    \/ \E f \in Fingers : Touch(i, f)
    \/ CheckActive(i) \/ Record(i) \/ Reply(i) \/ LosePost(i) \/ GiveUp(i)

Next ==
    \/ \E w \in Workers : Staff(w)
    \/ \E e \in Employees : SetActive(e) \/ StartEnrol(e)
    \/ ReadTemplates \/ StoreTemplates \/ FailRefresh
    \/ \E i \in Touches : Scan(i)
    \/ \E f \in Fingers : CaptureAtKiosk(f)
    \/ SubmitEnrol \/ DropEnrol
    \/ RestartKiosk

Spec == Init /\ [][Next]_vars

\* The refresh thread keeps asking, and not every request of it fails.
FairSpec == Spec /\ WF_vars(ReadTemplates) /\ SF_vars(StoreTemplates)

-----------------------------------------------------------------------------
Pair == [employee : Employees, finger : Fingers]

Job == [employee : Employees \cup {None}, finger : Fingers \cup {None},
        key : Keys \cup {None}, raced : BOOLEAN]

Post == [employee : Employees, finger : Fingers, at : {"sent", "checked", "recorded"},
         stale : BOOLEAN, checked : BOOLEAN]

Template == [key : Keys, finger : Fingers]

Labels == {"idle", "capture", "request", "store", "resave", "erase", "cancel"}

TypeOK ==
    /\ templates \in [Employees -> Template \cup {None}]
    /\ active \in [Employees -> BOOLEAN]
    /\ pending \subseteq Employees /\ outdated \subseteq Employees
    /\ pc \in [Workers -> Labels]
    /\ job \in [Workers -> Job]
    /\ cache \subseteq Pair
    /\ fetch \in [rows : SUBSET Pair, missed : SUBSET Employees] \cup {None}
    /\ enrol \in [employee : Employees, finger : Fingers \cup {None}] \cup {None}
    /\ waiting \in Touches \cup {None}
    /\ posts \in [Touches -> Post \cup {None}]
    /\ {ops, restarts} \subseteq Nat
    /\ recorded \in [Touches -> Nat]
    /\ notice \in [Touches -> {"none", "denied", "success"}]

\* However old the kiosk's copy, attendance is recorded only for an employee
\* who was active when the server was asked (TemplateCache, _check_active).
RecordedWasActive ==
    \A i \in Touches : posts[i] # None /\ posts[i].at # "sent" => posts[i].checked

\* A touch is recorded at most once, lost answers and time-outs included, and
\* what the kiosk announces was recorded (on_template drops, never repeats).
RecordedOnce ==
    \A i \in Touches :
        recorded[i] <= 1 /\ (notice[i] = "success" => recorded[i] = 1)
                         /\ (notice[i] = "denied" => recorded[i] = 0)

\* What is on its way: a post is not answered yet, and counted once recorded;
\* the cache, the list on its way to it and the posts agree with the templates,
\* except for those that were changed since; a request that found no template
\* and stores one beside another was overtaken.
ScanInv(i) ==
    posts[i] # None =>
        /\ notice[i] = "none"
        /\ recorded[i] = IF posts[i].at = "recorded" THEN 1 ELSE 0

Holds(p) == templates[p.employee] # None /\ templates[p.employee].finger = p.finger

CopyInv ==
    /\ \A p \in cache : p.employee \in outdated \/ Holds(p)
    /\ fetch # None => \A p \in fetch.rows : p.employee \in fetch.missed \/ Holds(p)
    /\ \A i \in Touches : posts[i] # None => posts[i].stale \/ Holds(posts[i])

StaffInv(w) ==
    /\ pc[w] # "idle" => job[w].employee \in Employees
    /\ pc[w] \in {"store", "resave"} => job[w].finger \in Fingers
    /\ pc[w] = "resave" => job[w].key \in Keys /\ job[w].raced
    /\ pc[w] \in {"capture", "request", "store"} =>
          job[w].raced \/ templates[job[w].employee] = None

IndInv ==
    /\ TypeOK
    /\ RecordedWasActive
    /\ RecordedOnce
    /\ \A i \in Touches : ScanInv(i)
    /\ CopyInv
    /\ \A w \in Workers : StaffInv(w)

\* A touch is recorded for the employee whose finger it is, unless that
\* employee's template was replaced or erased since the kiosk read it.
CreditedToOwner ==
    [][\A i \in Touches :
          recorded'[i] # recorded[i] /\ ~ posts[i].stale =>
              LET t == templates[posts[i].employee]
              IN t # None /\ t.finger = posts[i].finger]_vars

\* The server's own reader replaces a template only if that was stored while
\* the finger was being read (EmployeeEnrollView, "that path no longer exists").
ReplacedOnlyByRace ==
    [][\A e \in Employees :
          templates[e] # None /\ templates'[e] # None /\ templates'[e] # templates[e] =>
              \/ enrol # None /\ enrol' = None
              \/ \E w \in Workers : pc[w] = "resave" /\ job[w].employee = e /\ job[w].raced]_vars

\* An employee who is erased or deactivated for good disappears from the
\* kiosk's copy for good (refresh replaces the whole list).
CacheForgets ==
    \A e \in Employees :
        <>[](e \notin Enrolled) => <>[](\A p \in cache : p.employee # e)
=============================================================================
