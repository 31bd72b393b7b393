----------------------------- MODULE EnrollQueue -----------------------------
(***************************************************************************)
(* Remote enrollment: a clerk asks for an employee's fingerprint on the    *)
(* web site, the request waits in the table BiometricEnrollRequest, and a  *)
(* kiosk polls for it, captures the finger and posts the template.         *)
(*                                                                         *)
(* Three kinds of process work on the two tables: gunicorn workers serving *)
(* the employee pages (Clerks), gunicorn workers serving KioskEnrollView   *)
(* (Handlers), and the agents at the readers (Kiosks), which talk to the   *)
(* handlers over a network that loses requests and replies.  Outside of    *)
(* KioskEnrollView's transaction every statement autocommits.              *)
(*                                                                         *)
(* Rows are never deleted from BiometricEnrollRequest; requested_at and    *)
(* the primary key are both assigned by the INSERT, so the smallest key    *)
(* is the oldest request.                                                  *)
(***************************************************************************)
EXTENDS Naturals, Sequences, FiniteSets

CONSTANTS
    Employees,
    Clerks,       \* web workers that serve the employee pages
    Handlers,     \* web workers that serve KioskEnrollView
    Kiosks,       \* agents running `kiosk_agent.py listen`
    Operators,    \* runs of `kiosk_agent.py enroll`, at a reader of their own
    Null,
    MaxQueue,     \* bound: no form is opened once there are that many requests
    MaxDeletes    \* bound: how many templates are deleted

Agents == Kiosks \cup Operators

VARIABLES
    requests,  \* the BiometricEnrollRequest table, indexed by primary key
    template,  \* BiometricTemplate: the row of each employee, or Null
    deletes,   \* template rows deleted so far; a new row is named after it
    cpc, cjob, \* the statement a clerk's worker is at, and its employee
    apc, ajob, \* what an agent is doing, and for which request
    hpc, hjob  \* the statement a handler is at, and its local variables

clerk == <<cpc, cjob>>
agent == <<apc, ajob>>
handler == <<hpc, hjob>>
queueVars == <<requests, template, deletes, clerk, agent, handler>>

-----------------------------------------------------------------------------
Statuses == {"pending", "done", "cancelled"}

Request == [emp : Employees, status : Statuses]

\* A row of BiometricTemplate: its identity, and the request the agent that
\* captured it was serving (Null for `kiosk_agent.py enroll`).
Template == [row : Nat, for : Nat \cup {Null}]

ASSUME EnrollAssumption ==
    /\ Kiosks \cap Operators = {}
    /\ IsFiniteSet(Clerks)
    /\ {MaxQueue, MaxDeletes} \subseteq Nat
    /\ Null \notin Nat
    /\ Null \notin Employees
    /\ Null \notin Agents
    /\ Null \notin Template

\* What an agent captures for, and what it posts.
AgentJob == [req : Nat \cup {Null}, emp : Employees \cup {Null}]

\* The payload, the template row that was read (found), the pending request
\* that is to be closed (target), the agent that still waits for the answer,
\* and whether the answer is a 200.
HandlerJob ==
    [req : Nat \cup {Null}, emp : Employees \cup {Null},
     found : Nat \cup {Null}, target : Nat \cup {Null},
     agent : Agents \cup {Null}, ok : BOOLEAN]

NoAgentJob == [req |-> Null, emp |-> Null]

NoHandlerJob ==
    [req |-> Null, emp |-> Null, found |-> Null, target |-> Null,
     agent |-> Null, ok |-> FALSE]

Pending == {r \in DOMAIN requests : requests[r].status = "pending"}

PendingOf(e) == {r \in Pending : requests[r].emp = e}

Oldest(S) == {r \in S : \A q \in S : r <= q}

WithStatus(S, s) ==
    [r \in DOMAIN requests |->
        IF r \in S THEN [emp |-> requests[r].emp, status |-> s] ELSE requests[r]]

-----------------------------------------------------------------------------
(* The employee pages.                                                     *)

\* The page is rendered and the worker takes the next request.
Answer(c) ==
    /\ cpc' = [cpc EXCEPT ![c] = "idle"]
    /\ cjob' = [cjob EXCEPT ![c] = Null]

\* EmployeeEnrollView.post: the employee has no template.  A reader on the
\* server captures the finger there and then; without one a request is made.
OpenForm(c, e) ==
    /\ cpc[c] = "idle"
    /\ Len(requests) < MaxQueue
    /\ template[e] = Null
    /\ \E label \in {"lookup", "capture"} : cpc' = [cpc EXCEPT ![c] = label]
    /\ cjob' = [cjob EXCEPT ![c] = e]
    /\ UNCHANGED <<requests, template, deletes, agent, handler>>

\* Mutant: the request is created whether or not one is pending.
LookUpPending_Always(c) ==
    /\ cpc[c] = "lookup"
    /\ cpc' = [cpc EXCEPT ![c] = "create"]
    /\ UNCHANGED <<requests, template, deletes, cjob, agent, handler>>

\* get_or_create_pending(): the query for an existing request.
LookUpPending(c) ==
    /\ cpc[c] = "lookup"
    /\ IF PendingOf(cjob[c]) = {}
       THEN cpc' = [cpc EXCEPT ![c] = "create"] /\ UNCHANGED cjob
       ELSE Answer(c)
    /\ UNCHANGED <<requests, template, deletes, agent, handler>>

\* get_or_create_pending(): the INSERT.
CreatePending(c) ==
    /\ cpc[c] = "create"
    /\ requests' = Append(requests, [emp |-> cjob[c], status |-> "pending"])
    /\ Answer(c)
    /\ UNCHANGED <<template, deletes, agent, handler>>

\* A handler has an uncommitted template of this employee.
Saving(e) == \E h \in Handlers : hpc[h] = "close" /\ hjob[h].emp = e

\* The finger was captured on the server, or nobody came: get_or_create(), and
\* save() over a row that came up meanwhile, wait for an uncommitted write.
\* A pending request stays as it is.
EnrollHere(c) ==
    /\ cpc[c] = "capture"
    /\ \/ UNCHANGED template
       \/ LET e == cjob[c]
              row == IF template[e] = Null THEN deletes ELSE template[e].row
          IN /\ ~ Saving(e)
             /\ template' = [template EXCEPT ![e] = [row |-> row, for |-> Null]]
    /\ Answer(c)
    /\ UNCHANGED <<requests, deletes, agent, handler>>

\* Mutant: the UPDATE forgets the filter on the status.
CancelPending_AnyStatus(c, e) ==
    /\ cpc[c] = "idle"
    /\ PendingOf(e) # {}
    /\ requests' = WithStatus({r \in DOMAIN requests : requests[r].emp = e}, "cancelled")
    /\ UNCHANGED <<template, deletes, clerk, agent, handler>>

\* EmployeeEnrollView._cancel_pending: a single UPDATE.
CancelPending(c, e) ==
    /\ cpc[c] = "idle"
    /\ PendingOf(e) # {}
    /\ requests' = WithStatus(PendingOf(e), "cancelled")
    /\ UNCHANGED <<template, deletes, clerk, agent, handler>>

\* A handler has an uncommitted template of this employee, written to the row
\* given; whoever wants to write that row waits for the commit.
Locked(e, row) ==
    \E h \in Handlers :
        hpc[h] = "close" /\ hjob[h].emp = e /\ hjob[h].found = row

\* EmployeeDeleteBiometricView.post, first statement.
DeleteTemplate(c, e) ==
    /\ cpc[c] = "idle"
    /\ \/ /\ template[e] = Null
          /\ UNCHANGED <<template, deletes>>
       \/ /\ template[e] # Null
          /\ ~Locked(e, template[e].row)
          /\ deletes < MaxDeletes
          /\ template' = [template EXCEPT ![e] = Null]
          /\ deletes' = deletes + 1
    /\ cpc' = [cpc EXCEPT ![c] = "cancel"]
    /\ cjob' = [cjob EXCEPT ![c] = e]
    /\ UNCHANGED <<requests, agent, handler>>

\* EmployeeDeleteBiometricView.post, second statement.
CancelAfterDelete(c) ==
    /\ cpc[c] = "cancel"
    /\ requests' = WithStatus(PendingOf(cjob[c]), "cancelled")
    /\ Answer(c)
    /\ UNCHANGED <<template, deletes, agent, handler>>

-----------------------------------------------------------------------------
(* The kiosk agent.                                                        *)

\* Mutant: the queue leaves out employees who already have a template.
NextRequest_NoTemplate ==
    Oldest({r \in Pending : template[requests[r].emp] = Null})

\* KioskEnrollRequestNextView: the oldest pending request of all.
NextRequest == Oldest(Pending)

\* The poll of `kiosk_agent.py listen` finds a request.
PollNext(k) ==
    /\ apc[k] = "idle"
    /\ \E r \in NextRequest :
          ajob' = [ajob EXCEPT ![k] = [req |-> r, emp |-> requests[r].emp]]
    /\ apc' = [apc EXCEPT ![k] = "capture"]
    /\ UNCHANGED <<requests, template, deletes, clerk, handler>>

\* `kiosk_agent.py enroll --employee-id`, run by hand.
StartManualEnroll(k, e) ==
    /\ apc[k] = "idle"
    /\ ajob' = [ajob EXCEPT ![k] = [req |-> Null, emp |-> e]]
    /\ apc' = [apc EXCEPT ![k] = "capture"]
    /\ UNCHANGED <<requests, template, deletes, clerk, handler>>

\* Three samples of the finger were read and merged.
Capture(k) ==
    /\ apc[k] = "capture"
    /\ apc' = [apc EXCEPT ![k] = "post"]
    /\ UNCHANGED <<requests, template, deletes, clerk, ajob, handler>>

\* The agent drops what it is doing and will poll again: nobody came to the
\* reader, the reader is gone, the POST was refused or timed out, or the
\* agent was restarted.  A handler that has the POST goes on without it.
GiveUp(k) ==
    /\ apc[k] # "idle"
    /\ apc' = [apc EXCEPT ![k] = "idle"]
    /\ ajob' = [ajob EXCEPT ![k] = NoAgentJob]
    /\ hjob' = [h \in Handlers |->
                  IF hjob[h].agent = k
                  THEN [req |-> hjob[h].req, emp |-> hjob[h].emp,
                        found |-> hjob[h].found, target |-> hjob[h].target,
                        agent |-> Null, ok |-> hjob[h].ok]
                  ELSE hjob[h]]
    /\ UNCHANGED <<requests, template, deletes, clerk, hpc>>

\* The POST reaches a free worker.
SendEnroll(k, h) ==
    /\ apc[k] = "post"
    /\ hpc[h] = "idle"
    /\ apc' = [apc EXCEPT ![k] = "wait"]
    /\ hpc' = [hpc EXCEPT ![h] = "find"]
    /\ hjob' = [hjob EXCEPT ![h] =
                  [req |-> ajob[k].req, emp |-> ajob[k].emp, found |-> Null,
                   target |-> Null, agent |-> k, ok |-> FALSE]]
    /\ UNCHANGED <<requests, template, deletes, clerk, ajob>>

-----------------------------------------------------------------------------
(* KioskEnrollView.post.                                                   *)

\* The query for the employee's template row.
FindTemplate(h) ==
    /\ hpc[h] = "find"
    /\ hpc' = [hpc EXCEPT ![h] = "save"]
    /\ LET row == template[hjob[h].emp] IN
          hjob' = [hjob EXCEPT ![h].found = IF row = Null THEN Null ELSE row.row]
    /\ UNCHANGED <<requests, template, deletes, clerk, agent>>

\* Mutants: the given id is ignored; the newest is taken.
FindRequest_IgnoreId(j) == Oldest(PendingOf(j.emp))

FindRequest_Newest(j) == {r \in PendingOf(j.emp) : \A q \in PendingOf(j.emp) : q <= r}

\* _close_enroll_request(): the request with the id the agent sent, or else
\* the employee's oldest one, in either case only while it is pending.
FindRequest(j) ==
    IF j.req # Null THEN Pending \cap {j.req} ELSE Oldest(PendingOf(j.emp))

\* Another handler has an uncommitted template for the same employee.
Busy(h) ==
    \E g \in Handlers \ {h} : hpc[g] = "close" /\ hjob[g].emp = hjob[h].emp

\* The employee has a template in another row than the one that was found:
\* full_clean() or the unique index refuses a second row.
Conflict(h) ==
    LET row == template[hjob[h].emp] IN row # Null /\ row.row # hjob[h].found

\* Inside the transaction: bio.save() and the query of
\* _close_enroll_request().  A cancellation between the two has the effect of
\* one before the first, so they are one step.  bio.save() waits for another
\* uncommitted write to the row.
SaveTemplate(h) ==
    /\ hpc[h] = "save"
    /\ ~Busy(h)
    /\ ~Conflict(h)
    /\ hpc' = [hpc EXCEPT ![h] = "close"]
    /\ IF FindRequest(hjob[h]) = {}
       THEN UNCHANGED hjob
       ELSE \E r \in FindRequest(hjob[h]) : hjob' = [hjob EXCEPT ![h].target = r]
    /\ UNCHANGED <<requests, template, deletes, clerk, agent>>

\* bio.save() raises: 400 for the ValidationError, 500 for the IntegrityError
\* of an INSERT that met another handler's.
RefuseTemplate(h) ==
    /\ hpc[h] = "save"
    /\ \/ Conflict(h)
       \/ Busy(h) /\ template[hjob[h].emp] = Null
    /\ hpc' = [hpc EXCEPT ![h] = "reply"]
    /\ UNCHANGED <<requests, template, deletes, clerk, agent, hjob>>

\* mark_done() and the COMMIT.  mark_done() writes the status of the row it
\* holds, whatever the table says by now.  A found row that was deleted since
\* is inserted again under its old key.
CloseRequest(h) ==
    /\ hpc[h] = "close"
    /\ template' = [template EXCEPT ![hjob[h].emp] =
                       [row |-> IF hjob[h].found = Null THEN deletes ELSE hjob[h].found,
                        for |-> hjob[h].req]]
    /\ requests' = WithStatus({hjob[h].target} \cap DOMAIN requests, "done")
    /\ hjob' = [hjob EXCEPT ![h].ok = TRUE]
    /\ hpc' = [hpc EXCEPT ![h] = "reply"]
    /\ UNCHANGED <<deletes, clerk, agent>>

\* The agent goes back to polling once its handler has answered or died.
Release(h) ==
    /\ apc' = [a \in Agents |-> IF a = hjob[h].agent THEN "idle" ELSE apc[a]]
    /\ ajob' = [a \in Agents |-> IF a = hjob[h].agent THEN NoAgentJob ELSE ajob[a]]
    /\ hpc' = [hpc EXCEPT ![h] = "idle"]
    /\ hjob' = [hjob EXCEPT ![h] = NoHandlerJob]

AnswerAgent(h) ==
    /\ hpc[h] = "reply"
    /\ Release(h)
    /\ UNCHANGED <<requests, template, deletes, clerk>>

\* The worker is killed; the transaction rolls back and the proxy answers.
HandlerDies(h) ==
    /\ hpc[h] \notin {"idle", "reply"}
    /\ Release(h)
    /\ UNCHANGED <<requests, template, deletes, clerk>>

-----------------------------------------------------------------------------
QueueInit ==
    /\ requests = <<>>
    /\ template = [e \in Employees |-> Null]
    /\ deletes = 0
    /\ cpc = [c \in Clerks |-> "idle"]
    /\ cjob = [c \in Clerks |-> Null]
    /\ apc = [a \in Agents |-> "idle"]
    /\ ajob = [a \in Agents |-> NoAgentJob]
    /\ hpc = [h \in Handlers |-> "idle"]
    /\ hjob = [h \in Handlers |-> NoHandlerJob]

ServeClerk(c) ==
    \/ \E e \in Employees :
          OpenForm(c, e) \/ CancelPending(c, e) \/ DeleteTemplate(c, e)
    \/ LookUpPending(c) \/ CreatePending(c) \/ EnrollHere(c) \/ CancelAfterDelete(c)

RunAgent(a) ==
    \/ a \in Kiosks /\ PollNext(a)
    \/ a \in Operators /\ \E e \in Employees : StartManualEnroll(a, e)
    \/ Capture(a)
    \/ \E h \in Handlers : SendEnroll(a, h)
    \/ GiveUp(a)

ServeEnroll(h) ==
    \/ FindTemplate(h) \/ SaveTemplate(h) \/ RefuseTemplate(h)
    \/ CloseRequest(h) \/ AnswerAgent(h) \/ HandlerDies(h)

QueueNext ==
    \/ \E c \in Clerks : ServeClerk(c)
    \/ \E a \in Agents : RunAgent(a)
    \/ \E h \in Handlers : ServeEnroll(h)

QueueSpec == QueueInit /\ [][QueueNext]_queueVars

\* The agents keep polling; an employee who is asked for comes to the reader
\* sooner or later, the network lets a POST through sooner or later, and not
\* every worker that serves one is killed.
QueueFairness ==
    /\ \A k \in Kiosks :
          /\ WF_queueVars(PollNext(k))
          /\ SF_queueVars(Capture(k))
          /\ SF_queueVars(\E h \in Handlers : SendEnroll(k, h))
    /\ \A h \in Handlers :
          /\ SF_queueVars(FindTemplate(h))
          /\ SF_queueVars(SaveTemplate(h))
          /\ SF_queueVars(CloseRequest(h))
          /\ WF_queueVars(RefuseTemplate(h) \/ AnswerAgent(h))

FairQueueSpec == QueueSpec /\ QueueFairness

-----------------------------------------------------------------------------
QueueTypeOK ==
    /\ requests \in Seq(Request)
    /\ template \in [Employees -> Template \cup {Null}]
    /\ deletes \in Nat
    /\ cpc \in [Clerks -> {"idle", "lookup", "capture", "create", "cancel"}]
    /\ cjob \in [Clerks -> Employees \cup {Null}]
    /\ apc \in [Agents -> {"idle", "capture", "post", "wait"}]
    /\ ajob \in [Agents -> AgentJob]
    /\ hpc \in [Handlers -> {"idle", "find", "save", "close", "reply"}]
    /\ hjob \in [Handlers -> HandlerJob]

\* However the forms interleave, an employee never has more pending requests
\* than there are workers to serve forms: get_or_create_pending() looks before
\* it inserts.
PendingBounded ==
    \A e \in Employees : Cardinality(PendingOf(e)) <= Cardinality(Clerks)

\* When an agent is told 200, the request it served is no longer in the queue,
\* so it will not ask the same employee again for it.
OkMeansClosed ==
    \A h \in Handlers :
        hjob[h].ok /\ hjob[h].req # Null => hjob[h].req \notin Pending

\* A fulfilled request is final: neither a cancellation, nor the deletion of
\* the template, nor a late POST takes it back.
DoneIsFinal ==
    [][\A r \in DOMAIN requests :
          requests[r].status = "done" => requests'[r] = requests[r]]_queueVars

\* A request only becomes done together with the template it asked for: one of
\* its own employee, captured for it or by hand.
DoneDeliversTemplate ==
    [][\A r \in DOMAIN requests :
          requests[r].status # "done" /\ requests'[r].status = "done" =>
              /\ template'[requests[r].emp] # Null
              /\ template'[requests[r].emp].for \in {r, Null}]_queueVars

\* The strengthening of the invariants above that every step preserves.
Creating(e) == {c \in Clerks : cpc[c] = "create" /\ cjob[c] = e}

\* A form that has seen no pending request and a pending request never come
\* from the same worker.
FormsAndRequests ==
    \A e \in Employees :
        Cardinality(PendingOf(e)) + Cardinality(Creating(e)) <= Cardinality(Clerks)

IsRequestOf(r, e) == r \in DOMAIN requests /\ requests[r].emp = e

\* What a process remembers while it is at work.
ClerkInv(c) == cpc[c] # "idle" => cjob[c] \in Employees

AgentInv(a) ==
    apc[a] # "idle" =>
        /\ ajob[a].emp \in Employees
        /\ ajob[a].req # Null => IsRequestOf(ajob[a].req, ajob[a].emp)

HandlerInv(h) ==
    /\ hpc[h] # "idle" =>
          /\ hjob[h].emp \in Employees
          /\ hjob[h].req # Null => IsRequestOf(hjob[h].req, hjob[h].emp)
    /\ hpc[h] # "idle" /\ hjob[h].target # Null =>
          /\ IsRequestOf(hjob[h].target, hjob[h].emp)
          /\ hjob[h].req # Null => hjob[h].target = hjob[h].req
    /\ hpc[h] \in {"find", "save"} => hjob[h].target = Null
    /\ hpc[h] = "close" /\ hjob[h].target = Null => hjob[h].req \notin Pending
    /\ hjob[h].ok => hpc[h] = "reply"

QueueInv ==
    /\ QueueTypeOK
    /\ FormsAndRequests
    /\ \A c \in Clerks : ClerkInv(c)
    /\ \A a \in Agents : AgentInv(a)
    /\ \A h \in Handlers : HandlerInv(h)
    /\ OkMeansClosed

\* As long as somebody comes to the reader, every request is answered in the
\* end, whatever is lost, killed or cancelled on the way.
PendingIsServed ==
    \A r \in 1 .. MaxQueue : (r \in Pending) ~> (r \notin Pending)
=============================================================================
