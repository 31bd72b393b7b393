---------------------------- MODULE EnrollProofs ----------------------------
(***************************************************************************)
(* Proofs about the two sides of an enrolment.                             *)
(*                                                                         *)
(* About EnrollQueue, for any number of clerks, handlers, kiosks and       *)
(* operators: the queue stays bounded by the number of clerks, a kiosk is  *)
(* never told 200 for a request it will be asked again, and what the       *)
(* status of a request may never do.                                       *)
(*                                                                         *)
(* About KioskAgent, for any number of requests, presses, unplugged        *)
(* readers and threads that outlive join(): pausing and resuming leaves no *)
(* second loop behind, a signal caught while listening releases the        *)
(* reader, and when one press may be counted twice.                        *)
(***************************************************************************)
EXTENDS EnrollQueue, KioskAgent, SequenceTheorems, FiniteSetTheorems, TLAPS

-----------------------------------------------------------------------------
(* EnrollQueue: the table of requests.                                     *)

\* What no statement does: lose a row, move it to another employee, or put a
\* closed request back into the queue.
RowsKept ==
    \A r \in DOMAIN requests :
        /\ r \in DOMAIN requests'
        /\ requests'[r].emp = requests[r].emp
        /\ r \in Pending' => r \in Pending

\* The keys are natural numbers, and each row is well typed.
LEMMA RequestRows ==
    ASSUME requests \in Seq(Request)
    PROVE  /\ Len(requests) \in Nat
           /\ DOMAIN requests = 1 .. Len(requests)
           /\ DOMAIN requests \subseteq Nat
           /\ IsFiniteSet(DOMAIN requests)
           /\ Null \notin DOMAIN requests
           /\ \A r \in DOMAIN requests :
                 requests[r].emp \in Employees /\ requests[r].status \in Statuses
<1>1. Len(requests) \in Nat /\ DOMAIN requests = 1 .. Len(requests)
  BY LenProperties
<1>2. IsFiniteSet(1 .. Len(requests))
  BY <1>1, FS_Interval
<1>3. \A r \in DOMAIN requests : requests[r] \in Request
  BY <1>1, ElementOfSeq
<1> QED
  BY <1>1, <1>2, <1>3, EnrollAssumption DEF Request

\* An UPDATE of the status of some rows.
LEMMA StatusUpdate ==
    ASSUME requests \in Seq(Request), NEW S \in SUBSET DOMAIN requests,
           NEW s \in {"done", "cancelled"}, requests' = WithStatus(S, s)
    PROVE  /\ requests' \in Seq(Request)
           /\ RowsKept
           /\ Pending' = Pending \ S
           /\ \A e \in Employees : PendingOf(e)' \subseteq PendingOf(e)
           /\ DOMAIN requests' = DOMAIN requests
           /\ \A r \in DOMAIN requests :
                 /\ r \in S => requests'[r] = [emp |-> requests[r].emp, status |-> s]
                 /\ r \notin S => requests'[r] = requests[r]
<1>1. DOMAIN requests' = DOMAIN requests
  BY DEF WithStatus
<1>2. \A r \in DOMAIN requests :
         requests'[r] = IF r \in S THEN [emp |-> requests[r].emp, status |-> s]
                                   ELSE requests[r]
  BY DEF WithStatus
<1>3. \A r \in DOMAIN requests : requests'[r] \in Request
  <2> SUFFICES ASSUME NEW r \in DOMAIN requests
               PROVE  requests'[r] \in Request
    OBVIOUS
  <2>1. requests[r] \in Request
    BY ElementOfSeq, RequestRows
  <2>2. CASE r \in S
    <3>1. requests'[r] = [emp |-> requests[r].emp, status |-> s]
      BY <1>2, <2>2
    <3>2. requests[r].emp \in Employees /\ s \in Statuses
      BY <2>1 DEF Request, Statuses
    <3> QED
      BY <3>1, <3>2 DEF Request
  <2>3. CASE r \notin S
    BY <1>2, <2>1, <2>3
  <2> QED
    BY <2>2, <2>3
<1>4. requests' \in Seq(Request)
  <2>1. requests' \in [1 .. Len(requests) -> Request]
    BY <1>1, <1>3, RequestRows DEF WithStatus
  <2> QED
    BY <2>1, RequestRows, SeqDef
<1>5. ASSUME NEW r \in DOMAIN requests
      PROVE  /\ requests'[r].emp = requests[r].emp
             /\ r \in S => requests'[r].status = s
             /\ r \notin S => requests'[r].status = requests[r].status
  <2>1. CASE r \in S
    <3>1. requests'[r] = [emp |-> requests[r].emp, status |-> s]
      BY <1>2, <2>1
    <3> QED
      BY <3>1, <2>1
  <2>2. CASE r \notin S
    BY <1>2, <2>2
  <2> QED
    BY <2>1, <2>2
<1>6. Pending' = Pending \ S
  BY <1>1, <1>5 DEF Pending
<1>7. RowsKept
  BY <1>1, <1>5, <1>6 DEF RowsKept
<1>8. \A e \in Employees : PendingOf(e)' \subseteq PendingOf(e)
  BY <1>1, <1>5, <1>6 DEF PendingOf, Pending
<1>9. \A r \in DOMAIN requests :
         /\ r \in S => requests'[r] = [emp |-> requests[r].emp, status |-> s]
         /\ r \notin S => requests'[r] = requests[r]
  BY <1>2
<1> QED
  BY <1>1, <1>4, <1>6, <1>7, <1>8, <1>9

\* An INSERT by get_or_create_pending().
LEMMA RequestInsert ==
    ASSUME requests \in Seq(Request), NEW e \in Employees,
           requests' = Append(requests, [emp |-> e, status |-> "pending"])
    PROVE  /\ requests' \in Seq(Request)
           /\ RowsKept
           /\ Pending' = Pending \cup {Len(requests) + 1}
           /\ PendingOf(e)' = PendingOf(e) \cup {Len(requests) + 1}
           /\ \A d \in Employees \ {e} : PendingOf(d)' = PendingOf(d)
           /\ \A r \in DOMAIN requests : requests'[r] = requests[r]
<1> DEFINE n == Len(requests)
           new == [emp |-> e, status |-> "pending"]
<1>1. new \in Request
  BY DEF Request, Statuses
<1>2. /\ requests' \in Seq(Request)
      /\ Len(requests') = n + 1
      /\ requests'[n + 1] = new
      /\ \A r \in 1 .. n : requests'[r] = requests[r]
  BY <1>1, AppendProperties
<1>3. DOMAIN requests' = 1 .. n + 1 /\ n \in Nat /\ DOMAIN requests = 1 .. n
  BY <1>2, RequestRows, LenProperties
<1>4. DOMAIN requests' = DOMAIN requests \cup {n + 1} /\ n + 1 \notin DOMAIN requests
  BY <1>3
<1>5. \A r \in DOMAIN requests : requests'[r] = requests[r]
  BY <1>2, <1>3
<1>6. requests'[n + 1].emp = e /\ requests'[n + 1].status = "pending"
  BY <1>2
<1>7. Pending' = Pending \cup {n + 1}
  BY <1>4, <1>5, <1>6 DEF Pending
<1>8. PendingOf(e)' = PendingOf(e) \cup {n + 1}
  BY <1>4, <1>5, <1>6, <1>7 DEF PendingOf, Pending
<1>9. \A d \in Employees \ {e} : PendingOf(d)' = PendingOf(d)
  BY <1>4, <1>5, <1>6, <1>7 DEF PendingOf, Pending
<1>10. RowsKept
  BY <1>4, <1>5, <1>7 DEF RowsKept
<1> QED
  BY <1>2, <1>5, <1>7, <1>8, <1>9, <1>10

-----------------------------------------------------------------------------
(* Frames: what a step of one process leaves to the others.                *)

\* HandlerInv together with the handler's share of OkMeansClosed.
HandlerOK(h) ==
    /\ HandlerInv(h)
    /\ hjob[h].ok /\ hjob[h].req # Null => hjob[h].req \notin Pending

LEMMA RowsStay ==
    ASSUME requests' = requests
    PROVE  RowsKept
BY DEF RowsKept, Pending

LEMMA RequestStays ==
    ASSUME RowsKept, NEW r, NEW e, IsRequestOf(r, e)
    PROVE  /\ IsRequestOf(r, e)'
           /\ r \notin Pending => r \notin Pending'
BY DEF RowsKept, IsRequestOf

LEMMA AgentStays ==
    ASSUME NEW a, AgentInv(a), RowsKept,
           apc'[a] = apc[a], ajob'[a] = ajob[a]
    PROVE  AgentInv(a)'
BY RequestStays DEF AgentInv

\* A handler whose locals are the same, the agent that waits for it aside.
LEMMA HandlerStays ==
    ASSUME NEW h, HandlerOK(h), RowsKept, requests \in Seq(Request),
           requests' \in Seq(Request), hpc'[h] = hpc[h],
           hjob'[h].req = hjob[h].req, hjob'[h].emp = hjob[h].emp,
           hjob'[h].target = hjob[h].target, hjob'[h].ok = hjob[h].ok
    PROVE  HandlerOK(h)'
<1>1. CASE hpc[h] = "idle"
  BY <1>1 DEF HandlerOK, HandlerInv
<1>2. CASE hpc[h] # "idle"
  <2>1. hjob[h].req # Null =>
           /\ IsRequestOf(hjob[h].req, hjob[h].emp)'
           /\ hjob[h].req \notin Pending => hjob[h].req \notin Pending'
    BY <1>2, RequestStays DEF HandlerOK, HandlerInv
  <2>2. hjob[h].target # Null => IsRequestOf(hjob[h].target, hjob[h].emp)'
    BY <1>2, RequestStays DEF HandlerOK, HandlerInv
  <2>3. Null \notin Pending'
    BY RequestRows, EnrollAssumption, LenProperties DEF Pending
  <2> QED
    BY <1>2, <2>1, <2>2, <2>3 DEF HandlerOK, HandlerInv
<1> QED
  BY <1>1, <1>2

\* A step that opens no form and adds no request keeps the bound.
LEMMA FormsStay ==
    ASSUME FormsAndRequests, requests \in Seq(Request),
           \A e \in Employees : PendingOf(e)' \subseteq PendingOf(e),
           \A e \in Employees : Creating(e)' \subseteq Creating(e)
    PROVE  FormsAndRequests'
<1> SUFFICES ASSUME NEW e \in Employees
             PROVE  Cardinality(PendingOf(e)') + Cardinality(Creating(e)')
                       <= Cardinality(Clerks)
  BY DEF FormsAndRequests
<1>1. IsFiniteSet(PendingOf(e)) /\ IsFiniteSet(Creating(e))
  <2>1. PendingOf(e) \subseteq DOMAIN requests /\ Creating(e) \subseteq Clerks
    BY DEF PendingOf, Pending, Creating
  <2> QED
    BY <2>1, RequestRows, FS_Subset, EnrollAssumption
<1>2. /\ Cardinality(PendingOf(e)') <= Cardinality(PendingOf(e))
      /\ Cardinality(Creating(e)') <= Cardinality(Creating(e))
      /\ IsFiniteSet(PendingOf(e)') /\ IsFiniteSet(Creating(e)')
  BY <1>1, FS_Subset
<1>3. /\ {Cardinality(PendingOf(e)), Cardinality(PendingOf(e)'),
          Cardinality(Creating(e)), Cardinality(Creating(e)'),
          Cardinality(Clerks)} \subseteq Nat
  BY <1>1, <1>2, FS_CardinalityType, EnrollAssumption
<1>4. Cardinality(PendingOf(e)) + Cardinality(Creating(e)) <= Cardinality(Clerks)
  BY DEF FormsAndRequests
<1> QED
  BY <1>2, <1>3, <1>4

\* When neither the table nor the clerks move.
LEMMA ClerksStay ==
    ASSUME requests' = requests, clerk' = clerk, FormsAndRequests,
           requests \in Seq(Request)
    PROVE  FormsAndRequests'
BY FormsStay DEF clerk, PendingOf, Pending, Creating

-----------------------------------------------------------------------------
(* Clerks.                                                                 *)

\* The types a step of a clerk can disturb.
ClerkTypes ==
    /\ requests \in Seq(Request)
    /\ template \in [Employees -> Template \cup {Null}]
    /\ deletes \in Nat
    /\ cpc \in [Clerks -> {"idle", "lookup", "capture", "create", "cancel"}]
    /\ cjob \in [Clerks -> Employees \cup {Null}]

\* A clerk touches neither agents nor handlers; if it keeps the rows, the types,
\* the bound and its own locals, it keeps the invariant.
LEMMA ClerkFrame ==
    ASSUME QueueInv, UNCHANGED <<agent, handler>>, RowsKept,
           ClerkTypes', FormsAndRequests', \A c \in Clerks : ClerkInv(c)'
    PROVE  QueueInv'
<1>1. QueueTypeOK'
  BY DEF QueueInv, QueueTypeOK, ClerkTypes, agent, handler
<1>2. ASSUME NEW a \in Agents
      PROVE  AgentInv(a)'
  BY <1>2, AgentStays DEF QueueInv, agent
<1>3. ASSUME NEW h \in Handlers
      PROVE  HandlerOK(h)'
  <2>1. HandlerOK(h)
    BY DEF QueueInv, HandlerOK, OkMeansClosed
  <2>2. requests \in Seq(Request) /\ requests' \in Seq(Request)
    BY DEF QueueInv, QueueTypeOK, ClerkTypes
  <2> QED
    BY <2>1, <2>2, HandlerStays DEF handler
<1> QED
  BY <1>1, <1>2, <1>3 DEF QueueInv, HandlerOK, OkMeansClosed

LEMMA ClerkStep ==
    ASSUME QueueInv, NEW c \in Clerks, ServeClerk(c)
    PROVE  QueueInv'
<1>0. /\ requests \in Seq(Request) /\ FormsAndRequests /\ ClerkTypes
      /\ \A d \in Clerks : ClerkInv(d)
  BY DEF QueueInv, QueueTypeOK, ClerkTypes
<1>1. ASSUME NEW e \in Employees, OpenForm(c, e)
      PROVE  QueueInv'
  <2>1. RowsKept
    BY <1>1, RowsStay DEF OpenForm
  <2>2. ClerkTypes' /\ \A d \in Clerks : ClerkInv(d)'
    BY <1>0, <1>1 DEF OpenForm, ClerkTypes, ClerkInv
  <2>3. FormsAndRequests'
    <3>1. \A d \in Employees : Creating(d)' \subseteq Creating(d)
      BY <1>0, <1>1 DEF OpenForm, Creating, ClerkTypes
    <3>2. \A d \in Employees : PendingOf(d)' \subseteq PendingOf(d)
      BY <1>1 DEF OpenForm, PendingOf, Pending
    <3> QED
      BY <1>0, <3>1, <3>2, FormsStay
  <2> QED
    BY <1>1, <2>1, <2>2, <2>3, ClerkFrame DEF OpenForm
<1>2. ASSUME LookUpPending(c)
      PROVE  QueueInv'
  <2>1. RowsKept /\ requests' = requests
    BY <1>2, RowsStay DEF LookUpPending
  <2>2. CASE PendingOf(cjob[c]) = {}
    <3>1. cpc' = [cpc EXCEPT ![c] = "create"] /\ cjob' = cjob
      BY <1>2, <2>2 DEF LookUpPending
    <3>2. ClerkTypes' /\ \A d \in Clerks : ClerkInv(d)'
      BY <1>0, <1>2, <3>1 DEF LookUpPending, ClerkTypes, ClerkInv
    <3>3. FormsAndRequests'
      <4> SUFFICES ASSUME NEW e \in Employees
                   PROVE  Cardinality(PendingOf(e)') + Cardinality(Creating(e)')
                             <= Cardinality(Clerks)
        BY DEF FormsAndRequests
      <4>1. PendingOf(e)' = PendingOf(e)
        BY <2>1 DEF PendingOf, Pending
      <4>2. CASE e = cjob[c]
        <5>1. PendingOf(e)' = {}
          BY <2>2, <4>1, <4>2
        <5>2. Cardinality(Creating(e)') <= Cardinality(Clerks)
          BY FS_Subset, EnrollAssumption DEF Creating
        <5>3. Cardinality(Creating(e)') \in Nat
          BY FS_Subset, FS_CardinalityType, EnrollAssumption DEF Creating
        <5> QED
          BY <5>1, <5>2, <5>3, FS_EmptySet
      <4>3. CASE e # cjob[c]
        <5>1. Creating(e)' = Creating(e)
          BY <1>0, <3>1, <4>3 DEF Creating, ClerkTypes
        <5> QED
          BY <1>0, <4>1, <5>1 DEF FormsAndRequests
      <4> QED
        BY <4>2, <4>3
    <3> QED
      BY <1>2, <2>1, <3>2, <3>3, ClerkFrame DEF LookUpPending
  <2>3. CASE PendingOf(cjob[c]) # {}
    <3>1. Answer(c)
      BY <1>2, <2>3 DEF LookUpPending
    <3>2. ClerkTypes' /\ \A d \in Clerks : ClerkInv(d)'
      BY <1>0, <1>2, <3>1 DEF LookUpPending, Answer, ClerkTypes, ClerkInv
    <3>3. \A d \in Employees : Creating(d)' \subseteq Creating(d)
      BY <1>0, <3>1 DEF Answer, Creating, ClerkTypes
    <3>4. \A d \in Employees : PendingOf(d)' \subseteq PendingOf(d)
      BY <2>1 DEF PendingOf, Pending
    <3>5. FormsAndRequests'
      BY <1>0, <3>3, <3>4, FormsStay
    <3> QED
      BY <1>2, <2>1, <3>2, <3>5, ClerkFrame DEF LookUpPending
  <2> QED
    BY <2>2, <2>3
<1>3. ASSUME CreatePending(c)
      PROVE  QueueInv'
  <2> DEFINE n == Len(requests) + 1
  <2>0. PICK e \in Employees : cjob[c] = e
    BY <1>0, <1>3 DEF CreatePending, ClerkInv
  <2>1. c \in Creating(e)
    BY <1>3, <2>0 DEF CreatePending, Creating
  <2>2. requests' = Append(requests, [emp |-> e, status |-> "pending"])
    BY <1>3, <2>0 DEF CreatePending
  <2>3. /\ requests' \in Seq(Request) /\ RowsKept
        /\ PendingOf(e)' = PendingOf(e) \cup {n}
        /\ \A d \in Employees \ {e} : PendingOf(d)' = PendingOf(d)
    BY <1>0, <2>1, <2>2, RequestInsert
  <2>4. ClerkTypes' /\ \A d \in Clerks : ClerkInv(d)'
    BY <1>0, <1>3, <2>3 DEF CreatePending, Answer, ClerkTypes, ClerkInv
  <2>5. FormsAndRequests'
    <3>1. /\ Creating(e)' = Creating(e) \ {c}
          /\ \A d \in Employees \ {e} : Creating(d)' = Creating(d)
      BY <1>0, <1>3, <2>0 DEF CreatePending, Answer, Creating, ClerkTypes
    <3>2. /\ IsFiniteSet(PendingOf(e)) /\ IsFiniteSet(Creating(e))
      <4>1. PendingOf(e) \subseteq DOMAIN requests /\ Creating(e) \subseteq Clerks
        BY DEF PendingOf, Pending, Creating
      <4> QED
        BY <1>0, <4>1, RequestRows, FS_Subset, EnrollAssumption
    <3>3. Cardinality(PendingOf(e)') <= Cardinality(PendingOf(e)) + 1
      <4>1. /\ Cardinality(PendingOf(e)) \in Nat
            /\ Cardinality(PendingOf(e) \cup {n}) =
                  IF n \in PendingOf(e) THEN Cardinality(PendingOf(e))
                                       ELSE Cardinality(PendingOf(e)) + 1
        BY <3>2, FS_AddElement, FS_CardinalityType
      <4>2. Cardinality(PendingOf(e)') = Cardinality(PendingOf(e) \cup {n})
        BY <2>3
      <4> QED
        BY <4>1, <4>2
    <3>4. Cardinality(Creating(e)') = Cardinality(Creating(e)) - 1
      BY <2>1, <3>1, <3>2, FS_RemoveElement
    <3>5. /\ {Cardinality(PendingOf(e)), Cardinality(PendingOf(e)'),
              Cardinality(Creating(e)), Cardinality(Clerks)} \subseteq Nat
      BY <2>3, <3>2, FS_AddElement, FS_CardinalityType, EnrollAssumption
    <3>6. Cardinality(PendingOf(e)) + Cardinality(Creating(e)) <= Cardinality(Clerks)
      BY <1>0, <2>1 DEF FormsAndRequests
    <3>7. Cardinality(PendingOf(e)') + Cardinality(Creating(e)') <= Cardinality(Clerks)
      BY <3>3, <3>4, <3>5, <3>6
    <3> QED
      BY <1>0, <2>3, <3>1, <3>7 DEF FormsAndRequests
  <2> QED
    BY <1>3, <2>3, <2>4, <2>5, ClerkFrame DEF CreatePending
<1>4. ASSUME NEW e \in Employees, CancelPending(c, e)
      PROVE  QueueInv'
  <2>1. PendingOf(e) \subseteq DOMAIN requests
    BY DEF PendingOf, Pending
  <2>2. requests' = WithStatus(PendingOf(e), "cancelled")
    BY <1>4 DEF CancelPending
  <2>3. /\ requests' \in Seq(Request) /\ RowsKept
        /\ \A d \in Employees : PendingOf(d)' \subseteq PendingOf(d)
    BY <1>0, <2>1, <2>2, StatusUpdate
  <2>4. ClerkTypes' /\ \A d \in Clerks : ClerkInv(d)'
    BY <1>0, <1>4, <2>3 DEF CancelPending, clerk, ClerkTypes, ClerkInv
  <2>5. FormsAndRequests'
    BY <1>0, <1>4, <2>3, FormsStay DEF CancelPending, clerk, Creating
  <2> QED
    BY <1>4, <2>3, <2>4, <2>5, ClerkFrame DEF CancelPending
<1>5. ASSUME NEW e \in Employees, DeleteTemplate(c, e)
      PROVE  QueueInv'
  <2>1. RowsKept
    BY <1>5, RowsStay DEF DeleteTemplate
  <2>2. template' \in [Employees -> Template \cup {Null}] /\ deletes' \in Nat
    BY <1>0, <1>5 DEF DeleteTemplate, ClerkTypes
  <2>3. ClerkTypes' /\ \A d \in Clerks : ClerkInv(d)'
    BY <1>0, <1>5, <2>2 DEF DeleteTemplate, ClerkTypes, ClerkInv
  <2>4. FormsAndRequests'
    <3>1. \A d \in Employees : Creating(d)' \subseteq Creating(d)
      BY <1>0, <1>5 DEF DeleteTemplate, Creating, ClerkTypes
    <3>2. \A d \in Employees : PendingOf(d)' \subseteq PendingOf(d)
      BY <1>5 DEF DeleteTemplate, PendingOf, Pending
    <3> QED
      BY <1>0, <3>1, <3>2, FormsStay
  <2> QED
    BY <1>5, <2>1, <2>3, <2>4, ClerkFrame DEF DeleteTemplate
<1>6. ASSUME CancelAfterDelete(c)
      PROVE  QueueInv'
  <2>1. PendingOf(cjob[c]) \subseteq DOMAIN requests
    BY DEF PendingOf, Pending
  <2>2. requests' = WithStatus(PendingOf(cjob[c]), "cancelled")
    BY <1>6 DEF CancelAfterDelete
  <2>3. /\ requests' \in Seq(Request) /\ RowsKept
        /\ \A d \in Employees : PendingOf(d)' \subseteq PendingOf(d)
    BY <1>0, <2>1, <2>2, StatusUpdate
  <2>4. ClerkTypes' /\ \A d \in Clerks : ClerkInv(d)'
    BY <1>0, <1>6, <2>3 DEF CancelAfterDelete, Answer, ClerkTypes, ClerkInv
  <2>5. \A d \in Employees : Creating(d)' \subseteq Creating(d)
    BY <1>0, <1>6 DEF CancelAfterDelete, Answer, Creating, ClerkTypes
  <2>6. FormsAndRequests'
    BY <1>0, <2>3, <2>5, FormsStay
  <2> QED
    BY <1>6, <2>3, <2>4, <2>6, ClerkFrame DEF CancelAfterDelete
<1>7. ASSUME EnrollHere(c)
      PROVE  QueueInv'
  <2>1. RowsKept
    BY <1>7, RowsStay DEF EnrollHere
  <2>2. template' \in [Employees -> Template \cup {Null}]
    <3>1. CASE template' = template
      BY <1>0, <3>1 DEF ClerkTypes
    <3>2. CASE template' # template
      <4>1. PICK e \in Employees, row \in Nat :
               template' = [template EXCEPT ![e] = [row |-> row, for |-> Null]]
        <5>1. cjob[c] \in Employees
          BY <1>0, <1>7 DEF EnrollHere, ClerkInv
        <5>2. template[cjob[c]] = Null \/ template[cjob[c]].row \in Nat
          BY <1>0, <5>1 DEF ClerkTypes, Template
        <5> QED
          BY <1>0, <1>7, <3>2, <5>1, <5>2 DEF EnrollHere, ClerkTypes
      <4>2. [row |-> row, for |-> Null] \in Template
        BY DEF Template
      <4> QED
        BY <1>0, <4>1, <4>2 DEF ClerkTypes
    <3> QED
      BY <3>1, <3>2
  <2>3. ClerkTypes' /\ \A d \in Clerks : ClerkInv(d)'
    BY <1>0, <1>7, <2>2 DEF EnrollHere, Answer, ClerkTypes, ClerkInv
  <2>4. FormsAndRequests'
    <3>1. \A d \in Employees : Creating(d)' \subseteq Creating(d)
      BY <1>0, <1>7 DEF EnrollHere, Answer, Creating, ClerkTypes
    <3>2. \A d \in Employees : PendingOf(d)' \subseteq PendingOf(d)
      BY <1>7 DEF EnrollHere, PendingOf, Pending
    <3> QED
      BY <1>0, <3>1, <3>2, FormsStay
  <2> QED
    BY <1>7, <2>1, <2>3, <2>4, ClerkFrame DEF EnrollHere
<1> QED
  BY <1>1, <1>2, <1>3, <1>4, <1>5, <1>6, <1>7 DEF ServeClerk

-----------------------------------------------------------------------------
(* Agents.                                                                 *)

\* The types of what the agents and the handlers remember.
AgentTypes ==
    /\ apc \in [Agents -> {"idle", "capture", "post", "wait"}]
    /\ ajob \in [Agents -> AgentJob]

HandlerTypes ==
    /\ hpc \in [Handlers -> {"idle", "find", "save", "close", "reply"}]
    /\ hjob \in [Handlers -> HandlerJob]

\* A step that leaves both tables and the clerks alone.
LEMMA AgentFrame ==
    ASSUME QueueInv, UNCHANGED <<requests, template, deletes, clerk>>,
           AgentTypes', HandlerTypes',
           \A a \in Agents : AgentInv(a)',
           \A h \in Handlers : HandlerOK(h)'
    PROVE  QueueInv'
<1>1. QueueTypeOK'
  BY DEF QueueInv, QueueTypeOK, AgentTypes, HandlerTypes, clerk
<1>2. FormsAndRequests'
  BY ClerksStay DEF QueueInv, QueueTypeOK
<1>3. \A c \in Clerks : ClerkInv(c)'
  BY DEF QueueInv, clerk, ClerkInv
<1> QED
  BY <1>1, <1>2, <1>3 DEF QueueInv, HandlerOK, OkMeansClosed

LEMMA AgentStep ==
    ASSUME QueueInv, NEW a \in Agents, RunAgent(a)
    PROVE  QueueInv'
<1>0. /\ requests \in Seq(Request) /\ AgentTypes /\ HandlerTypes
      /\ \A b \in Agents : AgentInv(b)
      /\ \A h \in Handlers : HandlerOK(h)
  BY DEF QueueInv, QueueTypeOK, AgentTypes, HandlerTypes, HandlerOK, OkMeansClosed
<1>1. ASSUME requests' = requests
      PROVE  /\ RowsKept /\ requests' \in Seq(Request)
             /\ \A b \in Agents : apc'[b] = apc[b] /\ ajob'[b] = ajob[b] => AgentInv(b)'
             /\ \A h \in Handlers :
                   hpc'[h] = hpc[h] /\ hjob'[h] = hjob[h] => HandlerOK(h)'
  BY <1>0, <1>1, RowsStay, AgentStays, HandlerStays
<1>2. ASSUME PollNext(a)
      PROVE  QueueInv'
  <2>1. PICK r \in NextRequest : ajob' = [ajob EXCEPT ![a] = [req |-> r, emp |-> requests[r].emp]]
    BY <1>2 DEF PollNext
  <2>2. r \in DOMAIN requests /\ r \in Nat /\ requests[r].emp \in Employees
    BY <1>0, RequestRows DEF NextRequest, Oldest, Pending
  <2>3. AgentTypes' /\ HandlerTypes'
    BY <1>0, <1>2, <2>1, <2>2 DEF PollNext, AgentTypes, AgentJob, HandlerTypes, handler
  <2>4. AgentInv(a)'
    BY <1>0, <1>2, <2>1, <2>2 DEF PollNext, AgentInv, IsRequestOf, AgentTypes
  <2>5. \A b \in Agents : AgentInv(b)'
    BY <1>0, <1>1, <1>2, <2>1, <2>4 DEF PollNext, AgentTypes
  <2>6. \A h \in Handlers : HandlerOK(h)'
    BY <1>1, <1>2 DEF PollNext, handler
  <2> QED
    BY <1>2, <2>3, <2>5, <2>6, AgentFrame DEF PollNext
<1>3. ASSUME NEW e \in Employees, StartManualEnroll(a, e)
      PROVE  QueueInv'
  <2>1. AgentTypes' /\ HandlerTypes'
    BY <1>0, <1>3 DEF StartManualEnroll, AgentTypes, AgentJob, HandlerTypes, handler
  <2>2. AgentInv(a)'
    BY <1>0, <1>3 DEF StartManualEnroll, AgentInv, AgentTypes
  <2>3. \A b \in Agents : AgentInv(b)'
    BY <1>0, <1>1, <1>3, <2>2 DEF StartManualEnroll, AgentTypes
  <2>4. \A h \in Handlers : HandlerOK(h)'
    BY <1>1, <1>3 DEF StartManualEnroll, handler
  <2> QED
    BY <1>3, <2>1, <2>3, <2>4, AgentFrame DEF StartManualEnroll
<1>4. ASSUME Capture(a)
      PROVE  QueueInv'
  <2>1. AgentTypes' /\ HandlerTypes'
    BY <1>0, <1>4 DEF Capture, AgentTypes, HandlerTypes, handler
  <2>2. AgentInv(a)'
    <3>1. apc[a] # "idle" /\ AgentInv(a)
      BY <1>0, <1>4 DEF Capture
    <3> QED
      BY <1>4, <3>1 DEF Capture, AgentInv, IsRequestOf
  <2>3. \A b \in Agents : AgentInv(b)'
    BY <1>0, <1>1, <1>4, <2>2 DEF Capture, AgentTypes
  <2>4. \A h \in Handlers : HandlerOK(h)'
    BY <1>1, <1>4 DEF Capture, handler
  <2> QED
    BY <1>4, <2>1, <2>3, <2>4, AgentFrame DEF Capture
<1>5. ASSUME NEW h \in Handlers, SendEnroll(a, h)
      PROVE  QueueInv'
  <2>1. AgentInv(a) /\ apc[a] # "idle"
    BY <1>0, <1>5 DEF SendEnroll
  <2>2. ajob[a] \in AgentJob
    BY <1>0 DEF AgentTypes
  <2>3. AgentTypes'
    BY <1>0, <1>5 DEF SendEnroll, AgentTypes
  <2>4. HandlerTypes'
    BY <1>0, <1>5, <2>2 DEF SendEnroll, HandlerTypes, HandlerJob, AgentJob
  <2>5. AgentInv(a)'
    BY <1>5, <2>1 DEF SendEnroll, AgentInv, IsRequestOf
  <2>6. \A b \in Agents : AgentInv(b)'
    BY <1>0, <1>1, <1>5, <2>5 DEF SendEnroll, AgentTypes
  <2>7. HandlerOK(h)'
    <3>1. /\ hpc'[h] = "find"
          /\ hjob'[h] = [req |-> ajob[a].req, emp |-> ajob[a].emp, found |-> Null,
                         target |-> Null, agent |-> a, ok |-> FALSE]
          /\ requests' = requests
      BY <1>0, <1>5 DEF SendEnroll, HandlerTypes
    <3> QED
      BY <2>1, <3>1 DEF HandlerOK, HandlerInv, AgentInv, IsRequestOf
  <2>8. \A g \in Handlers : HandlerOK(g)'
    BY <1>0, <1>1, <1>5, <2>7 DEF SendEnroll, HandlerTypes
  <2> QED
    BY <1>5, <2>3, <2>4, <2>6, <2>8, AgentFrame DEF SendEnroll
<1>6. ASSUME GiveUp(a)
      PROVE  QueueInv'
  <2>1. AgentTypes'
    BY <1>0, <1>6 DEF GiveUp, AgentTypes, AgentJob, NoAgentJob
  <2>2. ASSUME NEW h \in Handlers
        PROVE  /\ hjob'[h].req = hjob[h].req /\ hjob'[h].emp = hjob[h].emp
               /\ hjob'[h].target = hjob[h].target /\ hjob'[h].ok = hjob[h].ok
               /\ hjob'[h] \in HandlerJob
    <3>1. hjob[h] \in HandlerJob
      BY <1>0 DEF HandlerTypes
    <3>2. CASE hjob[h].agent = a
      <4>1. hjob'[h] = [req |-> hjob[h].req, emp |-> hjob[h].emp,
                        found |-> hjob[h].found, target |-> hjob[h].target,
                        agent |-> Null, ok |-> hjob[h].ok]
        BY <1>6, <3>2 DEF GiveUp
      <4> QED
        BY <3>1, <4>1 DEF HandlerJob
    <3>3. CASE hjob[h].agent # a
      BY <1>6, <3>1, <3>3 DEF GiveUp
    <3> QED
      BY <3>2, <3>3
  <2>3. HandlerTypes'
    BY <1>0, <1>6, <2>2 DEF GiveUp, HandlerTypes
  <2>4. \A b \in Agents : AgentInv(b)'
    <3>1. AgentInv(a)'
      BY <1>0, <1>6 DEF GiveUp, AgentInv, AgentTypes
    <3> QED
      BY <1>0, <1>1, <1>6, <3>1 DEF GiveUp, AgentTypes
  <2>5. ASSUME NEW h \in Handlers
        PROVE  HandlerOK(h)'
    <3>1. RowsKept /\ requests' \in Seq(Request) /\ hpc'[h] = hpc[h]
      BY <1>1, <1>6 DEF GiveUp
    <3> QED
      BY <1>0, <2>2, <3>1, HandlerStays
  <2> QED
    BY <1>6, <2>1, <2>3, <2>4, <2>5, AgentFrame DEF GiveUp
<1> QED
  BY <1>2, <1>3, <1>4, <1>5, <1>6 DEF RunAgent

-----------------------------------------------------------------------------
(* Handlers.                                                               *)

\* The request a handler closes is pending, of its own employee, and the one
\* the agent named if it named one.
LEMMA FoundRequest ==
    ASSUME NEW j \in HandlerJob, NEW r \in FindRequest(j),
           j.req # Null => IsRequestOf(j.req, j.emp)
    PROVE  /\ r \in Pending /\ IsRequestOf(r, j.emp)
           /\ j.req # Null => r = j.req
<1>1. CASE j.req # Null
  BY <1>1 DEF FindRequest, Pending, IsRequestOf
<1>2. CASE j.req = Null
  BY <1>2 DEF FindRequest, Oldest, PendingOf, Pending, IsRequestOf
<1> QED
  BY <1>1, <1>2

\* If the agent named a request and none is found, that one is not pending.
LEMMA NoRequest ==
    ASSUME NEW j \in HandlerJob, FindRequest(j) = {}, j.req # Null
    PROVE  j.req \notin Pending
BY DEF FindRequest

\* A step of one handler that leaves the tables alone.
LEMMA HandlerFrame ==
    ASSUME QueueInv, NEW h \in Handlers,
           UNCHANGED <<requests, template, deletes, clerk, agent>>,
           HandlerTypes', HandlerOK(h)',
           \A g \in Handlers \ {h} : hpc'[g] = hpc[g] /\ hjob'[g] = hjob[g]
    PROVE  QueueInv'
<1>1. RowsKept /\ requests \in Seq(Request) /\ requests' \in Seq(Request)
  BY RowsStay DEF QueueInv, QueueTypeOK
<1>2. AgentTypes'
  BY DEF QueueInv, QueueTypeOK, AgentTypes, agent
<1>3. \A a \in Agents : AgentInv(a)'
  BY <1>1, AgentStays DEF QueueInv, agent
<1>4. ASSUME NEW g \in Handlers
      PROVE  HandlerOK(g)'
  <2>1. HandlerOK(g)
    BY DEF QueueInv, HandlerOK, OkMeansClosed
  <2> QED
    BY <1>1, <2>1, HandlerStays
<1> QED
  BY <1>2, <1>3, <1>4, AgentFrame

\* The end of a handler, whether it answers or dies.
LEMMA ReleaseStep ==
    ASSUME QueueInv, NEW h \in Handlers, Release(h),
           UNCHANGED <<requests, template, deletes, clerk>>
    PROVE  QueueInv'
<1>1. RowsKept /\ requests \in Seq(Request) /\ requests' \in Seq(Request)
  BY RowsStay DEF QueueInv, QueueTypeOK
<1>2. AgentTypes'
  BY DEF QueueInv, QueueTypeOK, Release, AgentTypes, AgentJob, NoAgentJob
<1>3. HandlerTypes'
  BY DEF QueueInv, QueueTypeOK, Release, HandlerTypes, HandlerJob, NoHandlerJob
<1>4. ASSUME NEW a \in Agents
      PROVE  AgentInv(a)'
  <2>1. CASE a = hjob[h].agent
    BY <2>1 DEF Release, AgentInv
  <2>2. CASE a # hjob[h].agent
    <3>1. apc'[a] = apc[a] /\ ajob'[a] = ajob[a]
      BY <2>2 DEF Release
    <3> QED
      BY <1>1, <3>1, AgentStays DEF QueueInv
  <2> QED
    BY <2>1, <2>2
<1>5. ASSUME NEW g \in Handlers
      PROVE  HandlerOK(g)'
  <2>1. CASE g = h
    <3>1. hpc'[h] = "idle" /\ hjob'[h] = NoHandlerJob
      BY DEF QueueInv, QueueTypeOK, Release
    <3> QED
      BY <2>1, <3>1 DEF HandlerOK, HandlerInv, NoHandlerJob
  <2>2. CASE g # h
    <3>1. hpc'[g] = hpc[g] /\ hjob'[g] = hjob[g]
      BY <2>2 DEF QueueInv, QueueTypeOK, Release
    <3>2. HandlerOK(g)
      BY DEF QueueInv, HandlerOK, OkMeansClosed
    <3> QED
      BY <1>1, <3>1, <3>2, HandlerStays
  <2> QED
    BY <2>1, <2>2
<1> QED
  BY <1>2, <1>3, <1>4, <1>5, AgentFrame

\* The commit of KioskEnrollView's transaction, seen from the tables.
LEMMA CommitTables ==
    ASSUME QueueInv, NEW h \in Handlers, CloseRequest(h)
    PROVE  /\ requests' \in Seq(Request) /\ RowsKept
           /\ Pending' = Pending \ {hjob[h].target}
           /\ \A e \in Employees : PendingOf(e)' \subseteq PendingOf(e)
           /\ DOMAIN requests' = DOMAIN requests
           /\ \A r \in DOMAIN requests :
                 /\ r = hjob[h].target =>
                       requests'[r] = [emp |-> requests[r].emp, status |-> "done"]
                 /\ r # hjob[h].target => requests'[r] = requests[r]
           /\ hjob[h].emp \in Employees
           /\ template' = [template EXCEPT ![hjob[h].emp] =
                             [row |-> IF hjob[h].found = Null THEN deletes
                                                              ELSE hjob[h].found,
                              for |-> hjob[h].req]]
           /\ template' \in [Employees -> Template \cup {Null}]
<1> DEFINE S == {hjob[h].target} \cap DOMAIN requests
<1>1. requests \in Seq(Request) /\ requests' = WithStatus(S, "done")
  BY DEF QueueInv, QueueTypeOK, CloseRequest
<1>2. /\ requests' \in Seq(Request) /\ RowsKept
      /\ Pending' = Pending \ S
      /\ \A e \in Employees : PendingOf(e)' \subseteq PendingOf(e)
      /\ DOMAIN requests' = DOMAIN requests
      /\ \A r \in DOMAIN requests :
            /\ r \in S => requests'[r] = [emp |-> requests[r].emp, status |-> "done"]
            /\ r \notin S => requests'[r] = requests[r]
  <2>1. S \in SUBSET DOMAIN requests
    OBVIOUS
  <2> HIDE DEF S
  <2> QED
    BY <1>1, <2>1, StatusUpdate
<1>3. Pending' = Pending \ {hjob[h].target}
  BY <1>2 DEF Pending
<1>4. hjob[h].emp \in Employees /\ hjob[h] \in HandlerJob
  BY DEF QueueInv, QueueTypeOK, HandlerInv, CloseRequest
<1>5. [row |-> IF hjob[h].found = Null THEN deletes ELSE hjob[h].found,
       for |-> hjob[h].req] \in Template
  BY <1>4 DEF QueueInv, QueueTypeOK, HandlerJob, Template
<1> QED
  BY <1>2, <1>3, <1>4, <1>5 DEF QueueInv, QueueTypeOK, CloseRequest

LEMMA HandleStep ==
    ASSUME QueueInv, NEW h \in Handlers, ServeEnroll(h)
    PROVE  QueueInv'
<1>0. /\ requests \in Seq(Request) /\ HandlerTypes /\ HandlerOK(h)
      /\ template \in [Employees -> Template \cup {Null}]
      /\ hjob[h] \in HandlerJob
  BY DEF QueueInv, QueueTypeOK, HandlerTypes, HandlerOK, OkMeansClosed
<1>1. ASSUME FindTemplate(h)
      PROVE  QueueInv'
  <2> DEFINE row == template[hjob[h].emp]
  <2>1. hjob[h].emp \in Employees
    BY <1>0, <1>1 DEF FindTemplate, HandlerOK, HandlerInv
  <2>2. PICK f \in Nat \cup {Null} : hjob' = [hjob EXCEPT ![h].found = f]
    <3>1. row \in Template \cup {Null}
      BY <1>0, <2>1
    <3>2. (IF row = Null THEN Null ELSE row.row) \in Nat \cup {Null}
      BY <3>1 DEF Template
    <3> QED
      BY <1>1, <3>2 DEF FindTemplate
  <2>3. /\ hjob'[h] = [hjob[h] EXCEPT !.found = f]
        /\ hpc'[h] = "save" /\ requests' = requests /\ hpc[h] = "find"
    BY <1>0, <1>1, <2>2 DEF FindTemplate, HandlerTypes
  <2>4. HandlerTypes'
    <3>1. hpc' = [hpc EXCEPT ![h] = "save"]
      BY <1>1 DEF FindTemplate
    <3> QED
      BY <1>0, <2>2, <3>1 DEF HandlerTypes, HandlerJob
  <2>5. HandlerOK(h)'
    <3>1. /\ hjob'[h].req = hjob[h].req /\ hjob'[h].emp = hjob[h].emp
          /\ hjob'[h].target = hjob[h].target /\ hjob'[h].ok = hjob[h].ok
      BY <1>0, <2>3 DEF HandlerJob
    <3> QED
      BY <1>0, <2>3, <3>1 DEF HandlerOK, HandlerInv, IsRequestOf
  <2> QED
    BY <1>1, <1>0, <2>2, <2>4, <2>5, HandlerFrame DEF FindTemplate, HandlerTypes
<1>2. ASSUME SaveTemplate(h)
      PROVE  QueueInv'
  <2>1. /\ hpc[h] = "save" /\ hpc'[h] = "close" /\ requests' = requests
        /\ HandlerInv(h) /\ hjob[h].ok = FALSE /\ hjob[h].target = Null
    BY <1>0, <1>2 DEF SaveTemplate, HandlerTypes, HandlerOK, HandlerInv, HandlerJob
  <2>2. CASE FindRequest(hjob[h]) = {}
    <3>1. hjob' = hjob
      BY <1>2, <2>2 DEF SaveTemplate
    <3>2. HandlerTypes'
      BY <1>0, <1>2, <3>1 DEF SaveTemplate, HandlerTypes
    <3>3. hjob[h].req \notin Pending
      <4>1. Null \notin Pending
        BY <1>0, RequestRows DEF Pending
      <4> QED
        BY <1>0, <2>2, <4>1, NoRequest
    <3>4. Pending' = Pending
      BY <2>1 DEF Pending
    <3>5. HandlerOK(h)'
      BY <2>1, <3>1, <3>3, <3>4 DEF HandlerOK, HandlerInv, IsRequestOf
    <3> QED
      BY <1>0, <1>2, <3>1, <3>2, <3>5, HandlerFrame DEF SaveTemplate, HandlerTypes
  <2>3. CASE FindRequest(hjob[h]) # {}
    <3>1. PICK r \in FindRequest(hjob[h]) : hjob' = [hjob EXCEPT ![h].target = r]
      BY <1>2, <2>3 DEF SaveTemplate
    <3>2. /\ r \in Pending /\ IsRequestOf(r, hjob[h].emp)
          /\ hjob[h].req # Null => r = hjob[h].req
      BY <1>0, <2>1, FoundRequest DEF HandlerInv
    <3>3. r \in Nat /\ r # Null
      BY <1>0, <3>2, RequestRows DEF Pending
    <3>4. HandlerTypes'
      BY <1>0, <1>2, <3>1, <3>3 DEF SaveTemplate, HandlerTypes, HandlerJob
    <3>5. /\ hjob'[h].req = hjob[h].req /\ hjob'[h].emp = hjob[h].emp
          /\ hjob'[h].target = r /\ hjob'[h].ok = FALSE
      BY <1>0, <2>1, <3>1 DEF HandlerTypes, HandlerJob
    <3>6. HandlerOK(h)'
      BY <2>1, <3>2, <3>3, <3>5 DEF HandlerOK, HandlerInv, IsRequestOf
    <3> QED
      BY <1>0, <1>2, <3>1, <3>4, <3>6, HandlerFrame DEF SaveTemplate, HandlerTypes
  <2> QED
    BY <2>2, <2>3
<1>3. ASSUME RefuseTemplate(h)
      PROVE  QueueInv'
  <2>1. HandlerTypes'
    BY <1>0, <1>3 DEF RefuseTemplate, HandlerTypes
  <2>2. HandlerOK(h)'
    <3>1. /\ hpc[h] = "save" /\ hpc'[h] = "reply" /\ hjob' = hjob
          /\ requests' = requests /\ hjob[h].ok = FALSE
      BY <1>0, <1>3 DEF RefuseTemplate, HandlerTypes, HandlerOK, HandlerInv, HandlerJob
    <3> QED
      BY <1>0, <3>1 DEF HandlerOK, HandlerInv, IsRequestOf
  <2> QED
    BY <1>0, <1>3, <2>1, <2>2, HandlerFrame DEF RefuseTemplate, HandlerTypes
<1>4. ASSUME CloseRequest(h)
      PROVE  QueueInv'
  <2>1. /\ requests' \in Seq(Request) /\ RowsKept
        /\ Pending' = Pending \ {hjob[h].target}
        /\ \A e \in Employees : PendingOf(e)' \subseteq PendingOf(e)
        /\ template' \in [Employees -> Template \cup {Null}]
    BY <1>4, CommitTables
  <2>2. hpc[h] = "close" /\ hjob[h] \in HandlerJob /\ HandlerInv(h)
    BY <1>0, <1>4 DEF CloseRequest, HandlerOK
  <2>3. /\ hpc'[h] = "reply" /\ hjob'[h].req = hjob[h].req
        /\ hjob'[h].emp = hjob[h].emp /\ hjob'[h].target = hjob[h].target
    BY <1>0, <1>4 DEF CloseRequest, HandlerTypes, HandlerJob
  <2>4. HandlerTypes'
    BY <1>0, <1>4 DEF CloseRequest, HandlerTypes, HandlerJob
  <2>5. QueueTypeOK'
    BY <1>4, <2>1, <2>4 DEF QueueInv, QueueTypeOK, CloseRequest, HandlerTypes, clerk, agent
  <2>6. FormsAndRequests'
    BY <1>0, <1>4, <2>1, FormsStay DEF QueueInv, CloseRequest, clerk, Creating
  <2>7. \A c \in Clerks : ClerkInv(c)'
    BY <1>4 DEF QueueInv, CloseRequest, clerk, ClerkInv
  <2>8. \A a \in Agents : AgentInv(a)'
    BY <1>4, <2>1, AgentStays DEF QueueInv, CloseRequest, agent
  <2>9. HandlerOK(h)'
    <3>1. hjob[h].req # Null =>
             /\ hjob[h].req \in DOMAIN requests'
             /\ requests'[hjob[h].req].emp = hjob[h].emp
             /\ hjob[h].req \notin Pending'
      BY <2>1, <2>2 DEF HandlerInv, RowsKept, IsRequestOf
    <3>2. hjob[h].target # Null =>
             /\ hjob[h].target \in DOMAIN requests'
             /\ requests'[hjob[h].target].emp = hjob[h].emp
      BY <2>1, <2>2 DEF HandlerInv, RowsKept, IsRequestOf
    <3> QED
      BY <2>2, <2>3, <3>1, <3>2 DEF HandlerOK, HandlerInv, IsRequestOf
  <2>10. ASSUME NEW g \in Handlers \ {h}
         PROVE  HandlerOK(g)'
    <3>1. HandlerOK(g)
      BY DEF QueueInv, HandlerOK, OkMeansClosed
    <3>2. hpc'[g] = hpc[g] /\ hjob'[g] = hjob[g]
      BY <1>0, <1>4 DEF CloseRequest, HandlerTypes
    <3> QED
      BY <1>0, <2>1, <3>1, <3>2, HandlerStays
  <2> QED
    BY <2>5, <2>6, <2>7, <2>8, <2>9, <2>10 DEF QueueInv, HandlerOK, OkMeansClosed
<1>5. ASSUME AnswerAgent(h) \/ HandlerDies(h)
      PROVE  QueueInv'
  BY <1>5, ReleaseStep DEF AnswerAgent, HandlerDies
<1> QED
  BY <1>1, <1>2, <1>3, <1>4, <1>5 DEF ServeEnroll

-----------------------------------------------------------------------------
(* The theorems.                                                           *)

LEMMA InitQueueInv ==
    ASSUME QueueInit
    PROVE  QueueInv
<1>1. /\ requests = <<>> /\ DOMAIN requests = {} /\ requests \in Seq(Request)
  BY EmptySeq DEF QueueInit
<1>2. QueueTypeOK
  BY <1>1 DEF QueueInit, QueueTypeOK, AgentJob, NoAgentJob, HandlerJob, NoHandlerJob
<1>3. FormsAndRequests
  <2> SUFFICES ASSUME NEW e \in Employees
               PROVE  Cardinality(PendingOf(e)) + Cardinality(Creating(e))
                         <= Cardinality(Clerks)
    BY DEF FormsAndRequests
  <2>1. PendingOf(e) = {}
    BY <1>1 DEF PendingOf, Pending
  <2>2. Creating(e) = {}
    BY DEF QueueInit, Creating
  <2>3. Cardinality(Clerks) \in Nat
    BY FS_CardinalityType, EnrollAssumption
  <2> QED
    BY <2>1, <2>2, <2>3, FS_EmptySet
<1>4. /\ \A c \in Clerks : ClerkInv(c)
      /\ \A a \in Agents : AgentInv(a)
      /\ \A h \in Handlers : HandlerInv(h)
      /\ OkMeansClosed
  BY DEF QueueInit, ClerkInv, AgentInv, HandlerInv, NoHandlerJob, OkMeansClosed
<1> QED
  BY <1>2, <1>3, <1>4 DEF QueueInv

LEMMA StepIndInv ==
    ASSUME QueueInv, [QueueNext]_queueVars
    PROVE  QueueInv'
<1>1. CASE QueueNext
  BY <1>1, ClerkStep, AgentStep, HandleStep DEF QueueNext
<1>2. CASE UNCHANGED queueVars
  <2>1. UNCHANGED <<requests, template, deletes, clerk, agent, handler>>
    BY <1>2 DEF queueVars
  <2>2. RowsKept
    BY <2>1, RowsStay
  <2>3. ClerkTypes' /\ \A c \in Clerks : ClerkInv(c)'
    BY <2>1 DEF QueueInv, QueueTypeOK, ClerkTypes, ClerkInv, clerk
  <2>4. FormsAndRequests'
    BY <2>1, ClerksStay DEF QueueInv, QueueTypeOK
  <2> QED
    BY <2>1, <2>2, <2>3, <2>4, ClerkFrame
<1> QED
  BY <1>1, <1>2

\* The inductive invariant holds for every number of clerks, handlers, kiosks
\* and operators: requests, forms, agents and transactions agree at every
\* statement of the code.
THEOREM EnrollInvariant == QueueSpec => []QueueInv
<1>1. QueueInit => QueueInv
  BY InitQueueInv
<1>2. QueueInv /\ [QueueNext]_queueVars => QueueInv'
  BY StepIndInv
<1> QED
  BY <1>1, <1>2, PTL DEF QueueSpec

\* get_or_create_pending() never leaves more pending requests of an employee
\* than there are workers serving forms.
THEOREM QueueBounded == QueueSpec => []PendingBounded
<1>1. QueueInv => PendingBounded
  <2> SUFFICES ASSUME QueueInv, NEW e \in Employees
               PROVE  Cardinality(PendingOf(e)) <= Cardinality(Clerks)
    BY DEF PendingBounded
  <2>1. PendingOf(e) \subseteq DOMAIN requests /\ Creating(e) \subseteq Clerks
    BY DEF PendingOf, Pending, Creating
  <2>2. IsFiniteSet(PendingOf(e)) /\ IsFiniteSet(Creating(e))
    BY <2>1, RequestRows, FS_Subset, EnrollAssumption DEF QueueInv, QueueTypeOK
  <2>3. {Cardinality(PendingOf(e)), Cardinality(Creating(e)),
         Cardinality(Clerks)} \subseteq Nat
    BY <2>2, FS_CardinalityType, EnrollAssumption
  <2>4. Cardinality(PendingOf(e)) + Cardinality(Creating(e)) <= Cardinality(Clerks)
    BY DEF QueueInv, FormsAndRequests
  <2> QED
    BY <2>3, <2>4
<1> QED
  BY <1>1, EnrollInvariant, PTL

\* A 200 of KioskEnrollView means that the kiosk will not be given the same
\* request again.
THEOREM OkIsFinal == QueueSpec => []OkMeansClosed
<1>1. QueueInv => OkMeansClosed
  BY DEF QueueInv
<1> QED
  BY <1>1, EnrollInvariant, PTL

\* What one step does to the status of a request: an UPDATE cancels pending
\* requests only, and a commit changes the one request it holds.
LEMMA StatusStep ==
    ASSUME QueueInv, [QueueNext]_queueVars, NEW r \in DOMAIN requests
    PROVE  \/ requests'[r] = requests[r]
           \/ /\ requests[r].status = "pending"
              /\ requests'[r].status = "cancelled"
           \/ \E h \in Handlers :
                 /\ CloseRequest(h)
                 /\ r = hjob[h].target
                 /\ requests'[r] = [emp |-> requests[r].emp, status |-> "done"]
<1>0. requests \in Seq(Request)
  BY DEF QueueInv, QueueTypeOK
<1>1. CASE UNCHANGED requests
  BY <1>1
<1>2. ASSUME NEW c \in Clerks, CreatePending(c)
      PROVE  requests'[r] = requests[r]
  <2>1. PICK e \in Employees : cjob[c] = e
    BY <1>2 DEF QueueInv, ClerkInv, CreatePending
  <2> QED
    BY <1>0, <1>2, <2>1, RequestInsert DEF CreatePending
<1>3. ASSUME NEW e, requests' = WithStatus(PendingOf(e), "cancelled")
      PROVE  \/ requests'[r] = requests[r]
             \/ /\ requests[r].status = "pending"
                /\ requests'[r].status = "cancelled"
  <2>1. PendingOf(e) \in SUBSET DOMAIN requests
    BY DEF PendingOf, Pending
  <2>2. /\ r \in PendingOf(e) =>
              requests'[r] = [emp |-> requests[r].emp, status |-> "cancelled"]
        /\ r \notin PendingOf(e) => requests'[r] = requests[r]
    BY <1>0, <1>3, <2>1, StatusUpdate
  <2> QED
    BY <2>2 DEF PendingOf, Pending
<1>4. ASSUME NEW h \in Handlers, CloseRequest(h)
      PROVE  \/ requests'[r] = requests[r]
             \/ /\ r = hjob[h].target
                /\ requests'[r] = [emp |-> requests[r].emp, status |-> "done"]
  BY <1>4, CommitTables
<1>5. CASE QueueNext
  <2>1. ASSUME NEW c \in Clerks, ServeClerk(c)
        PROVE  \/ UNCHANGED requests
               \/ CreatePending(c)
               \/ \E e : requests' = WithStatus(PendingOf(e), "cancelled")
    BY <2>1 DEF ServeClerk, OpenForm, LookUpPending, CancelPending,
                EnrollHere, DeleteTemplate, CancelAfterDelete
  <2>2. ASSUME NEW a \in Agents, RunAgent(a)
        PROVE  UNCHANGED requests
    BY <2>2 DEF RunAgent, PollNext, StartManualEnroll, Capture, SendEnroll, GiveUp
  <2>3. ASSUME NEW h \in Handlers, ServeEnroll(h)
        PROVE  UNCHANGED requests \/ CloseRequest(h)
    BY <2>3 DEF ServeEnroll, FindTemplate, SaveTemplate, RefuseTemplate,
                AnswerAgent, HandlerDies
  <2> QED
    BY <1>1, <1>2, <1>3, <1>4, <1>5, <2>1, <2>2, <2>3 DEF QueueNext
<1> QED
  BY <1>1, <1>5 DEF queueVars

\* A fulfilled request is never cancelled, reopened or reassigned.
THEOREM DoneStaysDone == QueueSpec => DoneIsFinal
<1>1. ASSUME QueueInv, [QueueNext]_queueVars, NEW r \in DOMAIN requests,
             requests[r].status = "done"
      PROVE  requests'[r] = requests[r]
  <2>1. requests[r] = [emp |-> requests[r].emp, status |-> requests[r].status]
    <3>1. requests[r] \in Request
      BY <1>1, ElementOfSeq, RequestRows DEF QueueInv, QueueTypeOK
    <3> QED
      BY <3>1 DEF Request
  <2> QED
    BY <1>1, <2>1, StatusStep
<1>2. QueueInv /\ [QueueNext]_queueVars =>
         [\A r \in DOMAIN requests :
             requests[r].status = "done" => requests'[r] = requests[r]]_queueVars
  BY <1>1
<1> QED
  BY <1>2, EnrollInvariant, PTL DEF QueueSpec, DoneIsFinal

\* A request only becomes done in the transaction that stores the template of
\* its own employee, captured for it or by hand.
THEOREM DoneComesWithTemplate == QueueSpec => DoneDeliversTemplate
<1>1. ASSUME QueueInv, [QueueNext]_queueVars, NEW r \in DOMAIN requests,
             requests[r].status # "done", requests'[r].status = "done"
      PROVE  /\ template'[requests[r].emp] # Null
             /\ template'[requests[r].emp].for \in {r, Null}
  <2>1. PICK h \in Handlers : CloseRequest(h) /\ r = hjob[h].target
    BY <1>1, StatusStep
  <2> DEFINE row == [row |-> IF hjob[h].found = Null THEN deletes ELSE hjob[h].found,
                     for |-> hjob[h].req]
  <2>2. r # Null
    BY <1>1, RequestRows DEF QueueInv, QueueTypeOK
  <2>3. requests[r].emp = hjob[h].emp /\ hjob[h].req \in {r, Null}
    BY <1>1, <2>1, <2>2 DEF QueueInv, HandlerInv, IsRequestOf, CloseRequest
  <2>4. hjob[h].emp \in Employees /\ template' = [template EXCEPT ![hjob[h].emp] = row]
    BY <1>1, <2>1, CommitTables
  <2>5. template'[hjob[h].emp] = row
    BY <1>1, <2>4 DEF QueueInv, QueueTypeOK
  <2>6. row # Null
    <3>1. row \in Template
      BY <1>1, <2>1 DEF QueueInv, QueueTypeOK, HandlerJob, Template
    <3> QED
      BY <3>1, EnrollAssumption
  <2>7. row.for = hjob[h].req
    OBVIOUS
  <2> QED
    BY <2>3, <2>5, <2>6, <2>7
<1>2. QueueInv /\ [QueueNext]_queueVars =>
         [\A r \in DOMAIN requests :
             requests[r].status # "done" /\ requests'[r].status = "done" =>
                 /\ template'[requests[r].emp] # Null
                 /\ template'[requests[r].emp].for \in {r, Null}]_queueVars
  BY <1>1
<1> QED
  BY <1>2, EnrollInvariant, PTL DEF QueueSpec, DoneDeliversTemplate

-----------------------------------------------------------------------------
(* KioskAgent: the sequences of loops, events and samples.                 *)

\* Threads are numbered from 1, and what each keeps is well typed.
LEMMA Rows ==
    ASSUME TypeOK
    PROVE  /\ Len(loops) \in Nat /\ DOMAIN loops = 1 .. Len(loops)
           /\ Len(events) \in Nat /\ DOMAIN events = 1 .. Len(events)
           /\ Len(samples) \in Nat /\ DOMAIN samples = 1 .. Len(samples)
           /\ \A g \in DOMAIN loops : g \in Nat /\ g # 0 /\ loops[g] \in Loop
           /\ \A i \in DOMAIN events : events[i] \in Event
           /\ \A i \in DOMAIN samples : samples[i] \in Nat
<1>1. loops \in Seq(Loop) /\ events \in Seq(Event) /\ samples \in Seq(Nat)
  BY DEF TypeOK
<1>2. /\ Len(loops) \in Nat /\ DOMAIN loops = 1 .. Len(loops)
      /\ Len(events) \in Nat /\ DOMAIN events = 1 .. Len(events)
      /\ Len(samples) \in Nat /\ DOMAIN samples = 1 .. Len(samples)
  BY <1>1, LenProperties
<1> QED
  BY <1>1, <1>2, ElementOfSeq

\* A loop moves on.
LEMMA MoveLoop ==
    ASSUME TypeOK, NEW g \in DOMAIN loops, NEW place \in LoopPlaces, NEW t \in Nat,
           loops' = [loops EXCEPT ![g] = [pc |-> place, seen |-> t]]
    PROVE  /\ loops' \in Seq(Loop)
           /\ DOMAIN loops' = DOMAIN loops
           /\ loops'[g].pc = place /\ loops'[g].seen = t
           /\ \A h \in DOMAIN loops \ {g} : loops'[h] = loops[h]
<1>1. [pc |-> place, seen |-> t] \in Loop
  BY DEF Loop
<1>2. loops' \in Seq(Loop)
  BY <1>1, Rows, ExceptSeq DEF TypeOK
<1> QED
  BY <1>2

\* The usual move keeps the template.
LEMMA GoToMoves ==
    ASSUME TypeOK, NEW g \in DOMAIN loops, NEW place \in LoopPlaces, GoTo(g, place)
    PROVE  loops' = [loops EXCEPT ![g] = [pc |-> place, seen |-> loops[g].seen]]
<1>1. loops[g] \in Loop
  BY Rows
<1>2. [loops[g] EXCEPT !.pc = place] = [pc |-> place, seen |-> loops[g].seen]
  BY <1>1 DEF Loop
<1> QED
  BY <1>2 DEF GoTo

\* What a loop has reported are presses that have happened.
LEMMA ReportedPresses ==
    ASSUME PressInv, NEW g
    PROVE  Reported(g) \subseteq 1 .. presses
BY DEF PressInv, Reported

\* A scan is reported.
LEMMA ReportOne ==
    ASSUME TypeOK, NEW g \in Nat, NEW p \in Nat,
           events' = Append(events, [loop |-> g, press |-> p])
    PROVE  /\ events' \in Seq(Event)
           /\ DOMAIN events' = DOMAIN events \cup {Len(events) + 1}
           /\ Len(events) + 1 \notin DOMAIN events
           /\ \A i \in DOMAIN events : events'[i] = events[i]
           /\ events'[Len(events) + 1] = [loop |-> g, press |-> p]
           /\ Reported(g)' = Reported(g) \cup {p}
<1>1. [loop |-> g, press |-> p] \in Event
  BY DEF Event
<1>2. /\ events' \in Seq(Event)
      /\ Len(events') = Len(events) + 1
      /\ \A i \in 1 .. Len(events) : events'[i] = events[i]
      /\ events'[Len(events) + 1] = [loop |-> g, press |-> p]
  BY <1>1, AppendProperties DEF TypeOK
<1>3. DOMAIN events' = 1 .. Len(events) + 1
  BY <1>2, LenProperties
<1>4. /\ DOMAIN events' = DOMAIN events \cup {Len(events) + 1}
      /\ Len(events) + 1 \notin DOMAIN events
      /\ \A i \in DOMAIN events : events'[i] = events[i]
  BY <1>2, <1>3, Rows
<1>5. Reported(g)' = Reported(g) \cup {p}
  BY <1>2, <1>4 DEF Reported
<1> QED
  BY <1>2, <1>4, <1>5

-----------------------------------------------------------------------------
(* The reader.                                                             *)

\* A finger that is put down has a new number, one that is lifted has none.
LEMMA ReaderStep ==
    ASSUME IndInv, Reader
    PROVE  IndInv'
<1> USE DEF hardware, listener, capture, signal
<1>1. /\ UNCHANGED <<thread, stop, armed, callback, loops, abandoned, events>>
      /\ UNCHANGED <<mpc, samples, overheld, spc, caught>>
      /\ handle' = "none" <=> handle = "none"
      /\ handle' \in {handle, "dead"}
  BY DEF Reader, Touch, Lift, Unplug, Plug, IsConnected
<1>2. /\ presses \in Nat /\ presses' \in Nat /\ presses <= presses'
      /\ finger' \in {finger, 0, presses + 1} /\ finger' \in Nat
      /\ finger' <= presses'
      /\ unplugs' \in Nat
  <2>1. {finger, presses, unplugs} \subseteq Nat /\ finger <= presses
    BY DEF IndInv, TypeOK, PressInv
  <2>2. Touch \/ Lift \/ Unplug \/ Plug
    BY DEF Reader
  <2>3. CASE Touch
    BY <2>1, <2>3 DEF Touch
  <2>4. CASE Lift
    BY <2>1, <2>4 DEF Lift
  <2>5. CASE Unplug
    BY <2>1, <2>5 DEF Unplug
  <2>6. CASE Plug
    BY <2>1, <2>6 DEF Plug
  <2> QED
    BY <2>2, <2>3, <2>4, <2>5, <2>6
<1>3. TypeOK'
  <2>1. plugged' \in BOOLEAN
    BY DEF IndInv, TypeOK, Reader, Touch, Lift, Unplug, Plug
  <2> QED
    BY <1>1, <1>2, <2>1 DEF IndInv, TypeOK
<1>4. Living' = Living /\ \A g : Reported(g)' = Reported(g)
  BY <1>1 DEF Living, Reported
<1>5. ListenerInv' /\ OneLoop' /\ ExitInv' /\ SamplesDiffer' /\ OneEventPerStart'
  BY <1>1, <1>4 DEF IndInv, ListenerInv, OneLoop, ExitInv, SamplesDiffer,
                    OneEventPerStart, ShutdownRequested
<1>6. PressInv'
  <2>1. \A i \in DOMAIN samples : samples[i] \in 1 .. presses'
    BY <1>2 DEF IndInv, PressInv
  <2>2. \A i \in DOMAIN events :
           events[i].loop \in DOMAIN loops /\ events[i].press \in 1 .. presses'
    BY <1>2 DEF IndInv, PressInv
  <2>3. \A g \in DOMAIN loops : loops[g].seen \in Nat
    BY Rows DEF IndInv, Loop
  <2>4. \A g \in DOMAIN loops :
           loops[g].seen <= presses' /\ (loops[g].pc = "callback" => loops[g].seen # 0)
    BY <1>2, <2>3 DEF IndInv, PressInv
  <2> QED
    BY <1>1, <1>2, <2>1, <2>2, <2>4 DEF PressInv
<1>7. SampleInv'
  <2>1. \A i \in DOMAIN samples : samples[i] \in 1 .. presses
    BY DEF IndInv, PressInv
  <2> QED
    BY <1>1, <1>2, <2>1 DEF IndInv, SampleInv
<1>8. ASSUME abandoned' = {}, NEW g \in Living'
      PROVE  DebounceInv(g)'
  <2>1. DebounceInv(g)
    BY <1>1, <1>4, <1>8 DEF IndInv
  <2>2. Reported(g) \subseteq 1 .. presses
    BY ReportedPresses DEF IndInv
  <2>3. finger \notin Reported(g) => finger' \notin Reported(g)
    BY <1>2, <2>2
  <2> QED
    BY <1>1, <1>4, <2>1, <2>3 DEF DebounceInv
<1> QED
  BY <1>3, <1>5, <1>6, <1>7, <1>8 DEF IndInv

-----------------------------------------------------------------------------
(* The listener's loop.                                                    *)

\* Where a loop can go, and what it can change.
MovesTo(g, place, t) ==
    /\ place \in LoopPlaces /\ t \in 0 .. presses
    /\ place = "callback" => t # 0
    /\ loops' = [loops EXCEPT ![g] = [pc |-> place, seen |-> t]]

\* Every action of a loop is a move of that loop.
LEMMA LoopFrame ==
    ASSUME IndInv, NEW g \in DOMAIN loops, RunLoop(g)
    PROVE  /\ g \in Living
           /\ \E place, t : MovesTo(g, place, t)
           /\ UNCHANGED <<plugged, finger, presses, unplugs, thread, stop, callback>>
           /\ UNCHANGED <<abandoned, mpc, samples, overheld, spc, caught>>
           /\ handle' \in {handle, "open"}
           /\ armed' \in BOOLEAN
           /\ \/ UNCHANGED events
              \/ /\ loops[g].pc = "callback"
                 /\ events' = Append(events, [loop |-> g, press |-> loops[g].seen])
<1> USE DEF hardware, listener, capture, signal
<1>1. TypeOK /\ loops[g] \in Loop /\ loops[g].seen \in Nat
  BY Rows DEF IndInv, Loop
<1>2. loops[g].seen <= presses /\ (loops[g].pc = "callback" => loops[g].seen # 0)
  BY DEF IndInv, PressInv
<1>3. {presses, finger} \subseteq Nat /\ finger <= presses
  BY DEF IndInv, TypeOK, PressInv
<1>4. ASSUME NEW place \in LoopPlaces, GoTo(g, place),
             place = "callback" => loops[g].seen # 0
      PROVE  \E p, t : MovesTo(g, p, t)
  <2>1. MovesTo(g, place, loops[g].seen)
    BY <1>1, <1>2, <1>3, <1>4, GoToMoves DEF MovesTo
  <2> QED
    BY <2>1
<1>5. \E place, t : MovesTo(g, place, t)
  <2>1. CASE LoopBegin(g)
    BY <1>4, <2>1 DEF LoopBegin, LoopPlaces
  <2>2. CASE LoopCheck(g)
    <3>1. CASE stop
      BY <1>4, <2>2, <3>1 DEF LoopCheck, LoopPlaces
    <3>2. CASE ~stop /\ IsConnected
      BY <1>4, <2>2, <3>2 DEF LoopCheck, LoopPlaces
    <3>3. CASE ~stop /\ ~IsConnected
      BY <1>4, <2>2, <3>3 DEF LoopCheck, LoopPlaces
    <3> QED
      BY <3>1, <3>2, <3>3
  <2>3. CASE LoopConnect(g)
    BY <1>4, <2>3 DEF LoopConnect, LoopPlaces
  <2>4. CASE LoopCapture(g)
    <3>1. CASE loops' = [loops EXCEPT ![g] = [pc |-> "debounce", seen |-> finger]]
      <4>1. MovesTo(g, "debounce", finger)
        BY <1>3, <3>1 DEF MovesTo, LoopPlaces
      <4> QED
        BY <4>1
    <3>2. CASE GoTo(g, "check")
      BY <1>4, <3>2 DEF LoopPlaces
    <3> QED
      BY <2>4, <3>1, <3>2 DEF LoopCapture
  <2>5. CASE LoopDebounce(g)
    <3>1. CASE armed /\ loops[g].seen # 0
      BY <1>4, <2>5, <3>1 DEF LoopDebounce, LoopPlaces
    <3>2. CASE ~(armed /\ loops[g].seen # 0)
      BY <1>4, <2>5, <3>2 DEF LoopDebounce, LoopPlaces
    <3> QED
      BY <3>1, <3>2
  <2>6. CASE LoopCallback(g)
    BY <1>4, <2>6 DEF LoopCallback, LoopPlaces
  <2> QED
    BY <2>1, <2>2, <2>3, <2>4, <2>5, <2>6 DEF RunLoop
<1>6. g \in Living
  BY DEF RunLoop, Living, LoopBegin, LoopCheck, LoopConnect, LoopCapture,
         LoopDebounce, LoopCallback
<1>7. /\ UNCHANGED <<plugged, finger, presses, unplugs, thread, stop, callback>>
      /\ UNCHANGED <<abandoned, mpc, samples, overheld, spc, caught>>
      /\ handle' \in {handle, "open"}
      /\ \/ UNCHANGED events
         \/ /\ loops[g].pc = "callback"
            /\ events' = Append(events, [loop |-> g, press |-> loops[g].seen])
  BY DEF RunLoop, LoopBegin, LoopCheck, LoopConnect, LoopCapture,
         LoopDebounce, LoopCallback
<1>8. armed' \in BOOLEAN
  BY DEF IndInv, TypeOK, RunLoop, LoopBegin, LoopCheck, LoopConnect, LoopCapture,
         LoopDebounce, LoopCallback
<1> QED
  BY <1>5, <1>6, <1>7, <1>8

\* A loop that lives reports a press only once: what it may report next is
\* new to it after each of its steps.
LEMMA LoopDebounces ==
    ASSUME IndInv, NEW g \in DOMAIN loops, RunLoop(g), DebounceInv(g)
    PROVE  DebounceInv(g)'
<1>1. /\ TypeOK /\ g \in Nat /\ loops[g] \in Loop /\ loops[g].seen \in Nat
      /\ finger \in Nat /\ finger' = finger
  BY Rows, LoopFrame DEF IndInv, TypeOK, Loop
<1>2. PICK place, t : MovesTo(g, place, t)
  BY LoopFrame
<1>3. loops'[g].pc = place /\ loops'[g].seen = t
  BY <1>1, <1>2, MoveLoop DEF MovesTo, IndInv, TypeOK
<1>4. UNCHANGED events => Reported(g)' = Reported(g)
  BY DEF Reported
<1>5. Reported(g) \subseteq 1 .. presses
  BY ReportedPresses DEF IndInv
<1>6. ASSUME NEW p \in LoopPlaces, GoTo(g, p)
      PROVE  loops'[g].pc = p /\ loops'[g].seen = loops[g].seen
  BY <1>1, <1>6, GoToMoves, MoveLoop
<1>7. CASE LoopBegin(g)
  BY <1>1, <1>4, <1>6, <1>7 DEF LoopBegin, LoopPlaces, DebounceInv
<1>8. CASE LoopCheck(g)
  <2>1. UNCHANGED <<armed, handle, events>>
    BY <1>8 DEF LoopCheck, listener
  <2>2. CASE stop
    BY <1>1, <1>4, <1>6, <1>8, <2>1, <2>2 DEF LoopCheck, LoopPlaces, DebounceInv
  <2>3. CASE ~stop /\ IsConnected
    BY <1>1, <1>4, <1>6, <1>8, <2>1, <2>3
       DEF LoopCheck, LoopPlaces, DebounceInv, IsConnected
  <2>4. CASE ~stop /\ ~IsConnected
    BY <1>1, <1>4, <1>6, <1>8, <2>1, <2>4
       DEF LoopCheck, LoopPlaces, DebounceInv, IsConnected
  <2> QED
    BY <2>2, <2>3, <2>4
<1>9. CASE LoopConnect(g)
  BY <1>1, <1>4, <1>6, <1>9 DEF LoopConnect, LoopPlaces, DebounceInv
<1>10. CASE LoopCapture(g)
  <2>1. UNCHANGED <<armed, handle, events>> /\ loops[g].pc = "capture"
    BY <1>10 DEF LoopCapture, listener
  <2>2. CASE loops' = [loops EXCEPT ![g] = [pc |-> "debounce", seen |-> finger]]
    <3>1. loops'[g].pc = "debounce" /\ loops'[g].seen = finger
      BY <1>1, <2>2, MoveLoop DEF LoopPlaces
    <3>2. handle' # "none"
      BY <2>1 DEF DebounceInv
    <3>3. finger = 0 => finger \notin Reported(g)
      BY <1>1, <1>5 DEF IndInv, TypeOK
    <3> QED
      BY <1>1, <1>4, <2>1, <3>1, <3>2, <3>3 DEF DebounceInv
  <2>3. CASE GoTo(g, "check")
    BY <1>1, <1>4, <1>6, <2>1, <2>3 DEF LoopPlaces, DebounceInv
  <2> QED
    BY <1>10, <2>2, <2>3 DEF LoopCapture
<1>11. CASE LoopDebounce(g)
  <2>1. /\ UNCHANGED <<handle, events>> /\ loops[g].pc = "debounce"
        /\ armed' = (loops[g].seen = 0)
    BY <1>11 DEF LoopDebounce
  <2>2. CASE armed /\ loops[g].seen # 0
    BY <1>1, <1>4, <1>6, <1>11, <2>1, <2>2 DEF LoopDebounce, LoopPlaces, DebounceInv
  <2>3. CASE ~(armed /\ loops[g].seen # 0)
    BY <1>1, <1>4, <1>6, <1>11, <2>1, <2>3 DEF LoopDebounce, LoopPlaces, DebounceInv
  <2> QED
    BY <2>2, <2>3
<1>12. CASE LoopCallback(g)
  <2>1. UNCHANGED <<armed, handle>> /\ loops[g].pc = "callback"
    BY <1>12 DEF LoopCallback, listener
  <2>2. loops'[g].pc = "check" /\ handle' # "none"
    BY <1>6, <1>12, <2>1 DEF LoopCallback, LoopPlaces, DebounceInv
  <2>3. ~armed
    BY <2>1 DEF DebounceInv
  <2> QED
    BY <2>1, <2>2, <2>3 DEF DebounceInv
<1> QED
  BY <1>7, <1>8, <1>9, <1>10, <1>11, <1>12 DEF RunLoop

\* A step of a loop.
LEMMA LoopStep ==
    ASSUME IndInv, NEW g \in DOMAIN loops, RunLoop(g)
    PROVE  IndInv'
<1>1. /\ TypeOK /\ g \in Nat /\ g # 0 /\ loops[g] \in Loop /\ loops[g].seen \in Nat
      /\ {finger, presses} \subseteq Nat
  BY Rows DEF IndInv, TypeOK, Loop
<1>2. PICK place, t : MovesTo(g, place, t)
  BY LoopFrame
<1>3. /\ loops' \in Seq(Loop) /\ DOMAIN loops' = DOMAIN loops
      /\ loops'[g].pc = place /\ loops'[g].seen = t
      /\ \A h \in DOMAIN loops \ {g} : loops'[h] = loops[h]
  <2>1. place \in LoopPlaces /\ t \in Nat
    BY <1>1, <1>2 DEF MovesTo
  <2> QED
    BY <1>1, <1>2, <2>1, MoveLoop DEF MovesTo
<1>4. g \in Living /\ Living' \subseteq Living
  BY <1>3, LoopFrame DEF Living
<1>5. /\ UNCHANGED <<plugged, finger, presses, unplugs, thread, stop, callback>>
      /\ UNCHANGED <<abandoned, mpc, samples, overheld, spc, caught>>
      /\ handle' \in {handle, "open"}
      /\ armed' \in BOOLEAN
  BY LoopFrame
<1>6. \/ UNCHANGED events
      \/ /\ loops[g].pc = "callback"
         /\ events' = Append(events, [loop |-> g, press |-> loops[g].seen])
  BY LoopFrame
<1>7. events' \in Seq(Event)
  BY <1>1, <1>6, ReportOne DEF TypeOK
<1>8. TypeOK'
  BY <1>1, <1>3, <1>5, <1>7 DEF TypeOK
<1>9. ListenerInv' /\ OneLoop' /\ SampleInv' /\ SamplesDiffer'
  BY <1>3, <1>4, <1>5 DEF IndInv, ListenerInv, OneLoop, SampleInv, SamplesDiffer
<1>10. ExitInv'
  <2>1. abandoned = {} => thread # 0
    BY <1>1, <1>4 DEF IndInv, OneLoop
  <2> QED
    BY <1>5, <2>1 DEF IndInv, ExitInv, ShutdownRequested
<1>11. PressInv'
  <2>1. \A h \in DOMAIN loops' :
           loops'[h].seen <= presses' /\ (loops'[h].pc = "callback" => loops'[h].seen # 0)
    BY <1>1, <1>2, <1>3, <1>5 DEF IndInv, PressInv, MovesTo
  <2>2. \A i \in DOMAIN events' :
           events'[i].loop \in DOMAIN loops' /\ events'[i].press \in 1 .. presses'
    <3>1. CASE UNCHANGED events
      BY <1>3, <1>5, <3>1 DEF IndInv, PressInv
    <3>2. CASE /\ loops[g].pc = "callback"
               /\ events' = Append(events, [loop |-> g, press |-> loops[g].seen])
      <4>1. loops[g].seen \in 1 .. presses
        BY <1>1, <3>2 DEF IndInv, PressInv
      <4>2. /\ DOMAIN events' = DOMAIN events \cup {Len(events) + 1}
            /\ \A i \in DOMAIN events : events'[i] = events[i]
            /\ events'[Len(events) + 1] = [loop |-> g, press |-> loops[g].seen]
        BY <1>1, <3>2, ReportOne
      <4> QED
        BY <1>3, <1>5, <4>1, <4>2 DEF IndInv, PressInv
    <3> QED
      BY <1>6, <3>1, <3>2
  <2> QED
    BY <1>5, <2>1, <2>2 DEF IndInv, PressInv
<1>12. abandoned' = {} => \A h \in Living' : DebounceInv(h)'
  <2> SUFFICES ASSUME abandoned = {}, NEW h \in Living'
               PROVE  DebounceInv(h)'
    BY <1>5
  <2>1. h = g
    BY <1>4 DEF IndInv, OneLoop
  <2>2. DebounceInv(g)
    BY <1>4 DEF IndInv
  <2> QED
    BY <2>1, <2>2, LoopDebounces
<1>13. OneEventPerStart'
  <2>1. CASE UNCHANGED events
    BY <1>5, <2>1 DEF IndInv, OneEventPerStart
  <2>2. CASE /\ loops[g].pc = "callback"
             /\ events' = Append(events, [loop |-> g, press |-> loops[g].seen])
    <3> SUFFICES ASSUME abandoned = {}
                 PROVE  \A i, j \in DOMAIN events' : events'[i] = events'[j] => i = j
      BY <1>5 DEF OneEventPerStart
    <3>1. /\ DOMAIN events' = DOMAIN events \cup {Len(events) + 1}
          /\ \A i \in DOMAIN events : events'[i] = events[i]
          /\ events'[Len(events) + 1] = [loop |-> g, press |-> loops[g].seen]
      BY <1>1, <2>2, ReportOne
    <3>2. loops[g].seen \notin Reported(g)
      BY <1>4, <2>2 DEF IndInv, DebounceInv
    <3>3. \A i \in DOMAIN events :
             events[i] # [loop |-> g, press |-> loops[g].seen]
      BY <3>2 DEF Reported
    <3> QED
      BY <3>1, <3>3 DEF IndInv, OneEventPerStart
  <2> QED
    BY <1>6, <2>1, <2>2
<1> QED
  BY <1>8, <1>9, <1>10, <1>11, <1>12, <1>13 DEF IndInv

-----------------------------------------------------------------------------
(* The main thread.                                                        *)

\* What no step of the main thread or of the signal handler touches.
LEMMA SameReports ==
    ASSUME UNCHANGED events, NEW g
    PROVE  Reported(g)' = Reported(g)
BY DEF Reported

\* A new thread has nothing to its name yet.
LEMMA NewLoop ==
    ASSUME IndInv, thread = 0, mpc \in Paused \cup {"start"}, StartListener,
           UNCHANGED <<events, abandoned, hardware, samples>>
    PROVE  /\ loops' \in Seq(Loop) /\ thread' \in DOMAIN loops' /\ thread' \in Nat
           /\ Living' \subseteq abandoned \cup {thread'}
           /\ PressInv'
           /\ abandoned = {} => \A g \in Living' : DebounceInv(g)'
<1> DEFINE new == [pc |-> "begin", seen |-> 0]
<1>1. TypeOK /\ new \in Loop
  BY DEF IndInv, Loop, LoopPlaces
<1>2. loops' = Append(loops, new) /\ thread' = Len(loops) + 1
  BY DEF StartListener
<1>3. /\ loops' \in Seq(Loop) /\ Len(loops') = Len(loops) + 1
      /\ \A g \in 1 .. Len(loops) : loops'[g] = loops[g]
      /\ loops'[Len(loops) + 1] = new
  BY <1>1, <1>2, AppendProperties DEF TypeOK
<1>4. /\ Len(loops) \in Nat
      /\ DOMAIN loops = 1 .. Len(loops)
      /\ DOMAIN loops' = 1 .. Len(loops) + 1
  BY <1>1, <1>3, Rows, LenProperties
<1>5. new.pc = "begin" /\ new.seen = 0
  OBVIOUS
<1> HIDE DEF new
<1>6. PICK k \in Nat : k = Len(loops) + 1
  BY <1>4
<1>7. /\ DOMAIN loops' = DOMAIN loops \cup {k} /\ k \notin DOMAIN loops
      /\ \A g \in DOMAIN loops : loops'[g] = loops[g]
      /\ loops'[k].pc = "begin" /\ loops'[k].seen = 0
      /\ thread' = k
  BY <1>2, <1>3, <1>4, <1>5, <1>6
<1>8. Living \subseteq abandoned
  <2>1. 0 \notin Living
    BY <1>1, Rows DEF Living
  <2>2. Living \subseteq abandoned \cup {thread}
    BY DEF IndInv, OneLoop
  <2> QED
    BY <2>1, <2>2
<1>9. Living' \subseteq Living \cup {k}
  <2>1. ASSUME NEW g \in Living'
        PROVE  g \in Living \cup {k}
    BY <1>7, <2>1 DEF Living
  <2> QED
    BY <2>1
<1>10. PressInv'
  BY <1>1, <1>7 DEF IndInv, TypeOK, PressInv, hardware
<1>11. Reported(k)' = {}
  <2>1. \A i \in DOMAIN events : events[i].loop # k
    BY <1>7 DEF IndInv, PressInv
  <2> QED
    BY <2>1 DEF Reported
<1>12. DebounceInv(k)'
  BY <1>7, <1>11 DEF DebounceInv
<1>13. abandoned = {} => \A g \in Living' : DebounceInv(g)'
  <2> SUFFICES ASSUME abandoned = {}, NEW g \in Living'
               PROVE  DebounceInv(g)'
    OBVIOUS
  <2>1. g = k
    BY <1>8, <1>9
  <2> QED
    BY <1>12, <2>1
<1> QED
  BY <1>3, <1>6, <1>7, <1>8, <1>9, <1>10, <1>13

\* A step that leaves the reader, the loops and the reports alone keeps what
\* is known of them.
LEMMA LoopsKept ==
    ASSUME IndInv, UNCHANGED <<loops, events, hardware, armed>>,
           abandoned' = {} => abandoned = {},
           handle' = "none" => handle = "none" \/ Living = {} \/ abandoned # {}
    PROVE  /\ Living' = Living /\ DOMAIN loops' = DOMAIN loops
           /\ OneEventPerStart'
           /\ samples' = samples => PressInv'
           /\ abandoned' = {} => \A g \in Living' : DebounceInv(g)'
<1> USE DEF hardware
<1>1. Living' = Living /\ DOMAIN loops' = DOMAIN loops
  BY DEF Living
<1>2. OneEventPerStart'
  BY DEF IndInv, OneEventPerStart
<1>3. samples' = samples => PressInv'
  BY DEF IndInv, PressInv
<1>4. ASSUME abandoned' = {}, NEW g \in Living'
      PROVE  DebounceInv(g)'
  <2>1. DebounceInv(g) /\ (handle' = "none" => handle = "none")
    BY <1>1, <1>4 DEF IndInv
  <2>2. Reported(g)' = Reported(g)
    BY SameReports
  <2> QED
    BY <2>1, <2>2 DEF DebounceInv
<1> QED
  BY <1>1, <1>2, <1>3, <1>4

\* The listener is started, at first or after a request.
LEMMA StartStep ==
    ASSUME IndInv, spc \in {"off", "done"}, Start \/ Resume,
           UNCHANGED <<hardware, events, signal>>
    PROVE  IndInv'
<1> USE DEF capture, signal
<1>1. /\ mpc \in {"start", "resume"} /\ mpc' = "tick" /\ thread = 0
      /\ UNCHANGED <<abandoned, samples, overheld, armed, events, spc, caught>>
      /\ UNCHANGED <<plugged, finger, presses, unplugs>>
      /\ handle' \in {handle, "open"}
  BY DEF Start, Resume, StartListener, IndInv, ListenerInv, Paused, listener, hardware
<1>2. caught \in {"tick", "join"} /\ ShutdownRequested => abandoned # {}
  BY <1>1 DEF IndInv, ExitInv
<1>3. /\ ExitInv'
      /\ SampleInv' /\ SamplesDiffer' /\ OneEventPerStart'
  BY <1>1, <1>2 DEF IndInv, ExitInv, SampleInv, SamplesDiffer, OneEventPerStart,
                    ShutdownRequested
<1>4. CASE StartListener
  <2>1. /\ loops' \in Seq(Loop) /\ thread' \in DOMAIN loops' /\ thread' \in Nat
        /\ Living' \subseteq abandoned \cup {thread'}
        /\ PressInv'
        /\ abandoned = {} => \A g \in Living' : DebounceInv(g)'
    BY <1>1, <1>4, NewLoop DEF Paused
  <2>2. TypeOK'
    BY <1>1, <1>4, <2>1 DEF IndInv, TypeOK, StartListener, MainPlaces
  <2>3. ListenerInv' /\ OneLoop'
    BY <1>1, <2>1 DEF ListenerInv, OneLoop, Paused
  <2> QED
    BY <1>1, <1>3, <2>1, <2>2, <2>3 DEF IndInv
<1>5. CASE UNCHANGED <<handle, listener, loops>>
  <2>1. UNCHANGED <<thread, stop, callback>>
    BY <1>5 DEF listener
  <2>2. /\ Living' = Living /\ PressInv'
        /\ abandoned' = {} => \A g \in Living' : DebounceInv(g)'
    BY <1>1, <1>5, LoopsKept
  <2>3. TypeOK'
    BY <1>1, <1>5, <2>1 DEF IndInv, TypeOK, MainPlaces
  <2>4. ListenerInv' /\ OneLoop'
    BY <1>1, <1>5, <2>1, <2>2 DEF IndInv, ListenerInv, OneLoop, Paused
  <2> QED
    BY <1>1, <1>3, <2>2, <2>3, <2>4 DEF IndInv
<1> QED
  BY <1>4, <1>5 DEF Start, Resume

\* What the other steps of the main thread leave alone.
LEMMA MainFrame ==
    ASSUME IndInv, UNCHANGED <<hardware, events, signal>>,
           \/ PollFindsRequest \/ LeaveRunLoop \/ StopListener \/ JoinListener
           \/ Connect \/ GiveUpCapture \/ CaptureSample \/ AwaitRelease \/ PostTemplate
    PROVE  /\ UNCHANGED <<plugged, finger, presses, unplugs, events, loops, armed>>
           /\ UNCHANGED <<spc, caught>>
           /\ handle' \in {handle, "open"}
           /\ abandoned \subseteq abandoned' /\ abandoned' \subseteq abandoned \cup {thread}
           /\ Living' = Living
           /\ OneEventPerStart'
           /\ samples' = samples => PressInv'
           /\ abandoned' = {} => \A g \in Living' : DebounceInv(g)'
<1> USE DEF hardware, signal, listener
<1>1. /\ UNCHANGED <<plugged, finger, presses, unplugs, events, loops, armed>>
      /\ UNCHANGED <<spc, caught>>
      /\ handle' \in {handle, "open"}
  BY DEF PollFindsRequest, LeaveRunLoop, StopListener, JoinListener, JoinReturns,
         Connect, GiveUpCapture, CaptureSample, AwaitRelease, PostTemplate
<1>2. abandoned' \in {abandoned, abandoned \cup {thread}}
  BY DEF PollFindsRequest, LeaveRunLoop, StopListener, JoinListener, JoinReturns,
         Connect, GiveUpCapture, CaptureSample, AwaitRelease, PostTemplate
<1>3. abandoned \subseteq abandoned' /\ abandoned' \subseteq abandoned \cup {thread}
  BY <1>2
<1> QED
  BY <1>1, <1>3, LoopsKept

\* Polling, and leaving the loop after a signal.
LEMMA TickStep ==
    ASSUME IndInv, UNCHANGED <<hardware, events, signal>>,
           spc \in {"off", "done"}, PollFindsRequest \/ LeaveRunLoop
    PROVE  IndInv'
<1> USE DEF signal, listener, capture
<1>1. /\ UNCHANGED <<handle, thread, stop, armed, callback, loops, abandoned>>
      /\ UNCHANGED <<samples, overheld, plugged, finger, presses, unplugs, events>>
      /\ UNCHANGED <<spc, caught>>
      /\ mpc = "tick"
      /\ \/ mpc' = "stop" /\ spc = "off"
         \/ mpc' = "exited" /\ spc = "done"
  BY DEF PollFindsRequest, LeaveRunLoop, ShutdownRequested, hardware
<1>2. /\ Living' = Living /\ OneEventPerStart' /\ PressInv'
      /\ abandoned' = {} => \A g \in Living' : DebounceInv(g)'
  BY <1>1, MainFrame
<1>3. TypeOK'
  BY <1>1 DEF IndInv, TypeOK, MainPlaces
<1>4. ListenerInv' /\ OneLoop' /\ ExitInv' /\ SampleInv' /\ SamplesDiffer'
  BY <1>1, <1>2 DEF IndInv, ListenerInv, OneLoop, ExitInv, SampleInv, SamplesDiffer,
                    Paused, ShutdownRequested
<1> QED
  BY <1>2, <1>3, <1>4 DEF IndInv

\* join() returns: a thread that has not ended is abandoned.
LEMMA JoinEnds ==
    ASSUME IndInv, JoinReturns
    PROVE  /\ thread' = 0 /\ thread \in Nat /\ callback' = FALSE
           /\ UNCHANGED <<stop, armed>>
           /\ abandoned \subseteq abandoned' /\ abandoned' \subseteq abandoned \cup {thread}
           /\ Living \subseteq abandoned'
<1>1. thread \in Nat /\ mpc \notin Paused
  BY DEF IndInv, TypeOK, ListenerInv, JoinReturns
<1>2. Living \subseteq abandoned \cup {thread}
  BY <1>1 DEF IndInv, OneLoop
<1> QED
  BY <1>1, <1>2 DEF JoinReturns

\* Stopping the listener.
LEMMA StopStep ==
    ASSUME IndInv, UNCHANGED <<hardware, events, signal>>,
           spc \in {"off", "done"}, StopListener \/ JoinListener
    PROVE  IndInv'
<1> USE DEF signal, capture
<1>1. /\ UNCHANGED <<handle, loops, samples, overheld, plugged, finger, presses>>
      /\ UNCHANGED <<unplugs, events, spc, caught, armed>>
      /\ mpc \in {"stop", "join"} /\ mpc' \in {"join", "connect", "tick"}
      /\ stop' \in {stop, TRUE} /\ callback' \in {callback, FALSE}
      /\ thread' \in {thread, 0}
      /\ abandoned \subseteq abandoned' /\ abandoned' \subseteq abandoned \cup {thread}
      /\ Living \subseteq abandoned' \cup (IF mpc' \in Paused THEN {} ELSE {thread'})
      /\ mpc' \in Paused => thread' = 0
      /\ thread' = 0 => mpc' # "join"
  <2>1. mpc \in {"stop", "join"}
    BY DEF StopListener, JoinListener
  <2>2. Living \subseteq abandoned \cup {thread}
    BY <2>1 DEF IndInv, OneLoop, Paused
  <2>3. 0 \notin Living
    BY Rows DEF IndInv, Living
  <2>4. CASE StopListener
    BY <2>2, <2>3, <2>4 DEF StopListener, Paused, hardware
  <2>5. CASE JoinListener /\ JoinReturns /\ mpc' = "connect"
    BY <2>5, JoinEnds DEF JoinListener, Paused, hardware
  <2>6. CASE JoinListener /\ thread = 0 /\ mpc' = "tick" /\ UNCHANGED <<listener, abandoned>>
    BY <2>2, <2>6 DEF JoinListener, listener, Paused, hardware
  <2> QED
    BY <2>4, <2>5, <2>6 DEF JoinListener
<1>2. /\ Living' = Living /\ OneEventPerStart' /\ PressInv'
      /\ abandoned' = {} => \A g \in Living' : DebounceInv(g)'
  BY <1>1, MainFrame
<1>3. TypeOK'
  <2>1. stop' \in BOOLEAN /\ callback' \in BOOLEAN
    BY <1>1, Zenon DEF IndInv, TypeOK
  <2>2. thread' \in Nat /\ abandoned' \subseteq Nat
    BY <1>1 DEF IndInv, TypeOK
  <2> QED
    BY <1>1, <2>1, <2>2 DEF IndInv, TypeOK, MainPlaces
<1>4. ListenerInv' /\ OneLoop' /\ SampleInv' /\ SamplesDiffer'
  BY <1>1, <1>2 DEF IndInv, ListenerInv, OneLoop, SampleInv, SamplesDiffer, Paused
<1>5. ExitInv'
  <2> SUFFICES ASSUME caught \in {"tick", "join"}, ShutdownRequested, abandoned = {}
               PROVE  mpc' = "tick" /\ thread' = 0 /\ handle = "none"
    BY <1>1 DEF IndInv, ExitInv, ShutdownRequested
  <2>1. mpc = "join" /\ spc = "done" /\ thread = 0 /\ handle = "none"
    BY <1>1 DEF IndInv, ExitInv, ShutdownRequested
  <2> QED
    BY <2>1 DEF StopListener, JoinListener, JoinReturns, listener
<1> QED
  BY <1>2, <1>3, <1>4, <1>5 DEF IndInv

\* Taking the samples and posting the template.
LEMMA CaptureStep ==
    ASSUME IndInv, UNCHANGED <<hardware, events, signal>>,
           spc \in {"off", "done"},
           Connect \/ GiveUpCapture \/ CaptureSample \/ AwaitRelease \/ PostTemplate
    PROVE  IndInv'
<1> USE DEF signal, listener, capture
<1>1. /\ UNCHANGED <<thread, stop, armed, callback, loops, abandoned>>
      /\ UNCHANGED <<plugged, finger, presses, unplugs, events, spc, caught>>
      /\ handle' \in {handle, "open"}
      /\ mpc \in Paused /\ mpc' \in Paused
  BY DEF Connect, GiveUpCapture, CaptureSample, AwaitRelease, PostTemplate,
         Paused, hardware
<1>2. /\ Living' = Living /\ OneEventPerStart'
      /\ samples' = samples => PressInv'
      /\ abandoned' = {} => \A g \in Living' : DebounceInv(g)'
  BY MainFrame
<1>3. ListenerInv' /\ OneLoop'
  BY <1>1, <1>2 DEF IndInv, ListenerInv, OneLoop
<1>4. ExitInv'
  BY <1>1 DEF IndInv, ExitInv, ShutdownRequested, Paused
<1>5. TypeOK /\ finger \in Nat /\ presses \in Nat /\ finger <= presses
  BY DEF IndInv, TypeOK, PressInv
<1>6. mpc' \in MainPlaces
  BY <1>1 DEF Paused, MainPlaces
<1>7. overheld' \in BOOLEAN
  BY DEF IndInv, TypeOK, Connect, GiveUpCapture, CaptureSample, AwaitRelease,
         PostTemplate
<1>8. ASSUME samples' \in Seq(Nat)
      PROVE  TypeOK'
  BY <1>1, <1>6, <1>7, <1>8 DEF IndInv, TypeOK
<1>9. CASE Connect
  <2>1. samples' = <<>> /\ samples' \in Seq(Nat) /\ DOMAIN samples' = {}
    BY <1>9 DEF Connect
  <2>2. SampleInv' /\ SamplesDiffer'
    BY <2>1 DEF SampleInv, SamplesDiffer
  <2>3. PressInv'
    BY <1>1, <2>1 DEF IndInv, PressInv
  <2> QED
    BY <1>2, <1>3, <1>4, <1>8, <2>1, <2>2, <2>3 DEF IndInv
<1>10. CASE CaptureSample
  <2>1. /\ finger # 0 /\ samples' = Append(samples, finger)
        /\ mpc = "capture" /\ mpc' # "capture" /\ overheld' = overheld
    BY <1>10 DEF CaptureSample
  <2>2. /\ samples' \in Seq(Nat) /\ Len(samples') = Len(samples) + 1
        /\ \A i \in 1 .. Len(samples) : samples'[i] = samples[i]
        /\ samples'[Len(samples) + 1] = finger
    BY <1>5, <2>1, AppendProperties DEF TypeOK
  <2>3. /\ DOMAIN samples' = DOMAIN samples \cup {Len(samples) + 1}
        /\ \A i \in DOMAIN samples : samples'[i] = samples[i]
    BY <1>5, <2>2, Rows, LenProperties
  <2>4. PressInv'
    BY <1>1, <1>5, <2>1, <2>2, <2>3 DEF IndInv, PressInv
  <2>5. SamplesDiffer'
    <3>1. ~overheld => \A i \in DOMAIN samples : samples[i] # finger
      BY <2>1 DEF IndInv, SampleInv
    <3> QED
      BY <2>1, <2>2, <2>3, <3>1 DEF IndInv, SamplesDiffer
  <2>6. SampleInv'
    BY <2>1 DEF SampleInv
  <2> QED
    BY <1>2, <1>3, <1>4, <1>8, <2>2, <2>4, <2>5, <2>6 DEF IndInv
<1>11. CASE AwaitRelease
  <2>1. samples' = samples /\ (overheld' = TRUE \/ (finger = 0 /\ overheld' = overheld))
    BY <1>11 DEF AwaitRelease
  <2>2. SampleInv'
    <3>1. \A i \in DOMAIN samples : samples[i] # 0
      BY DEF IndInv, PressInv
    <3> QED
      BY <1>1, <2>1, <3>1 DEF SampleInv
  <2>3. SamplesDiffer'
    BY <2>1 DEF IndInv, SamplesDiffer
  <2> QED
    BY <1>2, <1>3, <1>4, <1>5, <1>8, <2>1, <2>2, <2>3 DEF IndInv, TypeOK
<1>12. CASE GiveUpCapture \/ PostTemplate
  <2>1. samples' = samples /\ overheld' = overheld /\ mpc' # "capture"
    BY <1>12 DEF GiveUpCapture, PostTemplate
  <2>2. SampleInv' /\ SamplesDiffer'
    BY <2>1 DEF IndInv, SampleInv, SamplesDiffer
  <2> QED
    BY <1>2, <1>3, <1>4, <1>5, <1>8, <2>1, <2>2 DEF IndInv, TypeOK
<1> QED
  BY <1>9, <1>10, <1>11, <1>12

-----------------------------------------------------------------------------
(* The signal handler.                                                     *)

\* What the signal and its handler leave alone.
LEMMA SignalFrame ==
    ASSUME IndInv, UNCHANGED <<hardware, loops, events, mpc, capture>>, armed' = armed,
           abandoned' = {} => abandoned = {},
           handle' = "none" => handle = "none" \/ Living = {} \/ abandoned # {}
    PROVE  /\ Living' = Living
           /\ PressInv' /\ SampleInv' /\ SamplesDiffer' /\ OneEventPerStart'
           /\ abandoned' = {} => \A g \in Living' : DebounceInv(g)'
<1>1. UNCHANGED <<samples, overheld, finger>>
  BY DEF capture, hardware
<1>2. /\ Living' = Living /\ PressInv' /\ OneEventPerStart'
      /\ abandoned' = {} => \A g \in Living' : DebounceInv(g)'
  BY <1>1, LoopsKept
<1>3. SampleInv' /\ SamplesDiffer'
  BY <1>1 DEF IndInv, SampleInv, SamplesDiffer
<1> QED
  BY <1>2, <1>3

\* The signal arrives.
LEMMA InterruptStep ==
    ASSUME IndInv, Interrupt
    PROVE  IndInv'
<1>1. /\ UNCHANGED <<hardware, loops, events, mpc, capture, handle, listener, abandoned>>
      /\ spc = "off" /\ mpc # "exited" /\ spc' = "stop" /\ caught' = mpc
  BY DEF Interrupt, Signal
<1>2. UNCHANGED <<thread, stop, armed, callback, samples, overheld>>
  BY <1>1 DEF listener, capture
<1>3. UNCHANGED <<plugged, finger, presses, unplugs>>
  BY <1>1 DEF hardware
<1>4. /\ Living' = Living
      /\ PressInv' /\ SampleInv' /\ SamplesDiffer' /\ OneEventPerStart'
      /\ abandoned' = {} => \A g \in Living' : DebounceInv(g)'
  BY <1>1, <1>2, SignalFrame
<1>5. TypeOK'
  BY <1>1, <1>2, <1>3 DEF IndInv, TypeOK
<1>6. ListenerInv' /\ OneLoop' /\ ExitInv'
  BY <1>1, <1>2, <1>4 DEF IndInv, ListenerInv, OneLoop, ExitInv
<1> QED
  BY <1>4, <1>5, <1>6 DEF IndInv

\* The handler stops the listener and releases the reader.
LEMMA HandlerStep ==
    ASSUME IndInv, RunHandler
    PROVE  IndInv'
<1>1. UNCHANGED <<hardware, loops, events, mpc, capture>> /\ TypeOK
  BY DEF RunHandler, IndInv
<1>2. UNCHANGED <<plugged, finger, presses, unplugs, samples, overheld>>
  BY <1>1 DEF hardware, capture
<1>3. 0 \notin Living
  BY Rows, <1>1 DEF Living
<1>4. CASE HandlerStops
  <2>1. /\ UNCHANGED <<handle, thread, armed, callback, abandoned, caught>>
        /\ spc = "stop" /\ spc' \in {"disconnect", "join"}
        /\ spc' = "disconnect" => thread = 0
    BY <1>4 DEF HandlerStops
  <2>2. stop' \in BOOLEAN
    BY <1>1, <1>4 DEF TypeOK, HandlerStops
  <2>3. /\ Living' = Living
        /\ PressInv' /\ SampleInv' /\ SamplesDiffer' /\ OneEventPerStart'
        /\ abandoned' = {} => \A g \in Living' : DebounceInv(g)'
    BY <1>1, <2>1, SignalFrame
  <2>4. TypeOK'
    BY <1>1, <1>2, <2>1, <2>2 DEF TypeOK
  <2>5. ListenerInv' /\ OneLoop' /\ ExitInv'
    BY <1>1, <2>1, <2>3 DEF IndInv, ListenerInv, OneLoop, ExitInv, ShutdownRequested
  <2> QED
    BY <2>3, <2>4, <2>5 DEF IndInv
<1>5. CASE HandlerJoins
  <2>1. UNCHANGED <<handle, caught>> /\ JoinReturns /\ spc = "join" /\ spc' = "disconnect"
    BY <1>5 DEF HandlerJoins
  <2>2. /\ thread' = 0 /\ thread \in Nat /\ callback' = FALSE /\ UNCHANGED <<stop, armed>>
        /\ abandoned \subseteq abandoned' /\ abandoned' \subseteq abandoned \cup {thread}
        /\ Living \subseteq abandoned'
    BY <2>1, JoinEnds
  <2>3. /\ Living' = Living
        /\ PressInv' /\ SampleInv' /\ SamplesDiffer' /\ OneEventPerStart'
        /\ abandoned' = {} => \A g \in Living' : DebounceInv(g)'
    BY <1>1, <2>1, <2>2, SignalFrame
  <2>4. TypeOK'
    BY <1>1, <1>2, <2>1, <2>2 DEF TypeOK
  <2>5. ListenerInv' /\ OneLoop'
    BY <1>1, <2>2, <2>3 DEF ListenerInv, OneLoop
  <2>6. ExitInv'
    BY <1>1, <2>1, <2>2 DEF IndInv, ExitInv, ShutdownRequested
  <2> QED
    BY <2>3, <2>4, <2>5, <2>6 DEF IndInv
<1>6. CASE HandlerDisconnects
  <2>1. /\ UNCHANGED <<thread, stop, armed, callback, abandoned, caught>>
        /\ spc = "disconnect" /\ spc' = "done" /\ handle' = "none"
    BY <1>6 DEF HandlerDisconnects, listener
  <2>2. thread = 0
    BY <2>1 DEF IndInv, ExitInv
  <2>3. Living \subseteq abandoned
    <3>1. Living \subseteq abandoned \cup {thread}
      BY DEF IndInv, OneLoop
    <3> QED
      BY <1>3, <2>2, <3>1
  <2>4. /\ Living' = Living
        /\ PressInv' /\ SampleInv' /\ SamplesDiffer' /\ OneEventPerStart'
        /\ abandoned' = {} => \A g \in Living' : DebounceInv(g)'
    BY <1>1, <2>1, <2>3, SignalFrame
  <2>5. TypeOK'
    BY <1>1, <1>2, <2>1 DEF TypeOK
  <2>6. ListenerInv' /\ OneLoop' /\ ExitInv'
    BY <1>1, <2>1, <2>2, <2>4 DEF IndInv, ListenerInv, OneLoop, ExitInv, ShutdownRequested
  <2> QED
    BY <2>4, <2>5, <2>6 DEF IndInv
<1> QED
  BY <1>4, <1>5, <1>6 DEF RunHandler

-----------------------------------------------------------------------------
(* The results.                                                            *)

\* No thread of the agent, however they interleave, breaks the invariant.
THEOREM KioskInvariant == Spec => []IndInv
<1>1. Init => IndInv
  <2> SUFFICES ASSUME Init PROVE IndInv
    OBVIOUS
  <2>1. /\ loops = <<>> /\ events = <<>> /\ samples = <<>>
        /\ DOMAIN loops = {} /\ DOMAIN events = {} /\ DOMAIN samples = {}
    BY DEF Init
  <2>2. TypeOK
    <3>1. /\ plugged \in BOOLEAN /\ stop \in BOOLEAN /\ armed \in BOOLEAN
          /\ callback \in BOOLEAN /\ overheld \in BOOLEAN
      BY Zenon DEF Init
    <3>2. loops \in Seq(Loop) /\ events \in Seq(Event) /\ samples \in Seq(Nat)
      BY <2>1
    <3> QED
      BY <3>1, <3>2 DEF Init, TypeOK, MainPlaces
  <2>3. Living = {}
    BY <2>1 DEF Living
  <2>4. ListenerInv /\ OneLoop /\ ExitInv /\ PressInv
    BY <2>1, <2>3 DEF Init, ListenerInv, OneLoop, ExitInv, PressInv, ShutdownRequested
  <2>5. SampleInv /\ SamplesDiffer /\ OneEventPerStart
    BY <2>1 DEF SampleInv, SamplesDiffer, OneEventPerStart
  <2> QED
    BY <2>2, <2>3, <2>4, <2>5 DEF IndInv
<1>2. IndInv /\ [Next]_vars => IndInv'
  <2> SUFFICES ASSUME IndInv, [Next]_vars PROVE IndInv'
    OBVIOUS
  <2>1. CASE Reader
    BY <2>1, ReaderStep
  <2>2. CASE \E g \in DOMAIN loops : RunLoop(g)
    BY <2>2, LoopStep
  <2>3. CASE RunMain
    BY <2>3, StartStep, TickStep, StopStep, CaptureStep DEF RunMain
  <2>4. CASE Poll
    BY <2>4, TickStep DEF Poll
  <2>5. CASE Interrupt
    BY <2>5, InterruptStep
  <2>6. CASE RunHandler
    BY <2>6, HandlerStep
  <2>7. CASE UNCHANGED vars
    <3>1. UNCHANGED <<hardware, loops, events, mpc, capture, handle, abandoned>>
      BY <2>7 DEF vars
    <3>2. UNCHANGED <<plugged, finger, presses, unplugs, samples, overheld>>
      BY <2>7 DEF vars, hardware, capture
    <3>3. UNCHANGED <<thread, stop, armed, callback, spc, caught>>
      BY <2>7 DEF vars, listener, signal
    <3>4. /\ Living' = Living
          /\ PressInv' /\ SampleInv' /\ SamplesDiffer' /\ OneEventPerStart'
          /\ abandoned' = {} => \A g \in Living' : DebounceInv(g)'
      BY <3>1, <3>3, SignalFrame
    <3>5. TypeOK'
      BY <3>1, <3>2, <3>3 DEF IndInv, TypeOK
    <3>6. ListenerInv' /\ OneLoop' /\ ExitInv'
      BY <3>1, <3>3, <3>4 DEF IndInv, ListenerInv, OneLoop, ExitInv, ShutdownRequested
    <3> QED
      BY <3>4, <3>5, <3>6 DEF IndInv
  <2> QED
    BY <2>1, <2>2, <2>3, <2>4, <2>5, <2>6, <2>7 DEF Next
<1> QED
  BY <1>1, <1>2, PTL DEF Spec

\* Pausing and resuming for remote requests leaves one loop at most, and none
\* while the main thread captures, but for threads that outlived join().
THEOREM PauseLeavesOneLoop == Spec => []OneLoop
<1>1. IndInv => OneLoop
  BY DEF IndInv
<1> QED
  BY <1>1, KioskInvariant, PTL

\* A signal that meets the agent listening, or stopping the listener, ends
\* with the reader released.
THEOREM QuietExitReleases == Spec => []ReleasedOnQuietExit
<1>1. IndInv => ReleasedOnQuietExit
  BY DEF IndInv, ExitInv, ReleasedOnQuietExit, ShutdownRequested
<1> QED
  BY <1>1, KioskInvariant, PTL

\* One start of the listener reports one press once.
THEOREM StartReportsOnce == Spec => []OneEventPerStart
<1>1. IndInv => OneEventPerStart
  BY DEF IndInv
<1> QED
  BY <1>1, KioskInvariant, PTL

\* The merged samples are of different presses, unless a finger was held for
\* the whole wait.
THEOREM SamplesOfDifferentPresses == Spec => []SamplesDiffer
<1>1. IndInv => SamplesDiffer
  BY DEF IndInv
<1> QED
  BY <1>1, KioskInvariant, PTL

=============================================================================
