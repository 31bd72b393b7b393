--------------------------- MODULE FingerSyncProofs ---------------------------
(***************************************************************************)
(* Proofs about FingerSync for every number of employees, fingers, workers *)
(* and touches.  IndInv is inductive: a copy of a template, in the cache,  *)
(* on its way to it or in a post, is right or known to be outdated.        *)
(***************************************************************************)
EXTENDS FingerSync, TLAPS

-----------------------------------------------------------------------------
(* Types and frames.                                                       *)

LEMMA NoJobType == NoJob \in Job /\ \A e \in Employees : [NoJob EXCEPT !.employee = e] \in Job
BY DEF NoJob, Job

LEMMA Types ==
    ASSUME IndInv
    PROVE  /\ templates \in [Employees -> Template \cup {None}]
           /\ pc \in [Workers -> Labels] /\ job \in [Workers -> Job]
           /\ posts \in [Touches -> Post \cup {None}]
           /\ pending \subseteq Employees /\ ops \in Nat /\ restarts \in Nat
BY DEF IndInv, TypeOK

\* The values the variables hold are no None.
LEMMA NoneApart ==
    /\ None \notin Employees /\ None \notin Fingers /\ None \notin Touches /\ None \notin Keys
BY FingerSyncAssumption DEF Keys

\* A statement of a page that leaves the templates alone.
LEMMA PageStep ==
    ASSUME IndInv, NEW w \in Workers, NEW l \in Labels, NEW j \in Job,
           pc' = [pc EXCEPT ![w] = l], job' = [job EXCEPT ![w] = j],
           UNCHANGED <<templates, active, kiosk, posts, restarts, outdated, recorded, notice>>,
           pending' \subseteq Employees, ops' \in Nat, StaffInv(w)'
    PROVE  IndInv'
<1>1. pc \in [Workers -> Labels] /\ job \in [Workers -> Job]
  BY Types
<1>2. UNCHANGED <<cache, fetch, enrol, waiting>>
  BY DEF kiosk
<1>3. TypeOK'
  <2>1. pc' \in [Workers -> Labels] /\ job' \in [Workers -> Job]
    BY <1>1
  <2> QED
    BY <1>2, <2>1 DEF IndInv, TypeOK
<1>4. ASSUME NEW u \in Workers
      PROVE  StaffInv(u)'
  <2>1. CASE u = w
    BY <2>1
  <2>2. CASE u # w
    <3>1. pc'[u] = pc[u] /\ job'[u] = job[u] /\ StaffInv(u)
      BY <1>1, <2>2 DEF IndInv
    <3> QED
      BY <3>1 DEF StaffInv
  <2> QED
    BY <2>1, <2>2
<1>5. RecordedWasActive' /\ RecordedOnce' /\ CopyInv' /\ \A i \in Touches : ScanInv(i)'
  BY <1>2 DEF IndInv, RecordedWasActive, RecordedOnce, CopyInv, Holds, ScanInv
<1> QED
  BY <1>3, <1>4, <1>5 DEF IndInv

\* The template of e becomes t.
LEMMA PutStep ==
    ASSUME IndInv, NEW e \in Employees, NEW t \in Template \cup {None}, PutTemplate(e, t),
           pc' \in [Workers -> Labels], job' \in [Workers -> Job],
           pending' \subseteq Employees, ops' \in Nat,
           enrol' = enrol \/ enrol' = None,
           UNCHANGED <<active, cache, waiting, restarts, recorded, notice>>,
           \A w \in Workers : StaffInv(w)'
    PROVE  IndInv'
<1>1. /\ templates' = [templates EXCEPT ![e] = t] /\ outdated' = outdated \cup {e}
      /\ fetch' = IF fetch = None THEN None ELSE [fetch EXCEPT !.missed = @ \cup {e}]
      /\ posts' = [i \in Touches |->
            IF posts[i] # None /\ posts[i].employee = e THEN [posts[i] EXCEPT !.stale = TRUE]
            ELSE posts[i]]
  BY DEF PutTemplate
<1>2. /\ templates \in [Employees -> Template \cup {None}]
      /\ posts \in [Touches -> Post \cup {None}]
      /\ fetch \in [rows : SUBSET Pair, missed : SUBSET Employees] \cup {None}
      /\ cache \subseteq Pair
  BY DEF IndInv, TypeOK
<1>3. ASSUME NEW i \in Touches
      PROVE  /\ posts'[i] \in Post \cup {None}
             /\ posts[i] = None => posts'[i] = None
             /\ posts'[i] # None =>
                   /\ posts[i] # None /\ posts'[i].employee = posts[i].employee
                   /\ posts'[i].finger = posts[i].finger /\ posts'[i].at = posts[i].at
                   /\ posts'[i].checked = posts[i].checked
                   /\ posts[i].stale => posts'[i].stale
                   /\ posts[i].employee = e => posts'[i].stale
  <2>1. CASE posts[i] = None
    BY <1>1, <2>1
  <2>2. CASE posts[i] # None
    <3>1. posts[i] \in Post
      BY <1>2, <2>2
    <3>2. CASE posts[i].employee = e
      <4>1. posts'[i] = [posts[i] EXCEPT !.stale = TRUE]
        BY <1>1, <2>2, <3>2
      <4> QED
        BY <2>2, <3>1, <4>1 DEF Post
    <3>3. CASE posts[i].employee # e
      BY <1>1, <2>2, <3>1, <3>3
    <3> QED
      BY <3>2, <3>3
  <2> QED
    BY <2>1, <2>2
<1>4. /\ fetch' \in [rows : SUBSET Pair, missed : SUBSET Employees] \cup {None}
      /\ fetch' # None => /\ fetch # None /\ fetch'.rows = fetch.rows
                          /\ fetch'.missed = fetch.missed \cup {e}
  <2>1. CASE fetch = None
    BY <1>1, <2>1
  <2>2. CASE fetch # None
    BY <1>1, <1>2, <2>2
  <2> QED
    BY <2>1, <2>2
<1>5. TypeOK'
  <2>1. templates' \in [Employees -> Template \cup {None}] /\ outdated' \subseteq Employees
    BY <1>1, <1>2 DEF IndInv, TypeOK
  <2>2. posts' \in [Touches -> Post \cup {None}]
    BY <1>1, <1>3
  <2> QED
    BY <1>4, <2>1, <2>2 DEF IndInv, TypeOK
<1>6. RecordedWasActive' /\ RecordedOnce' /\ \A i \in Touches : ScanInv(i)'
  BY <1>3 DEF IndInv, RecordedWasActive, RecordedOnce, ScanInv
<1>7. CopyInv'
  <2>1. \A p : p.employee # e /\ p.employee \in Employees /\ Holds(p) => Holds(p)'
    BY <1>1, <1>2 DEF Holds
  <2>2. \A p \in cache : p.employee \in outdated' \/ Holds(p)'
    <3>1. \A p \in cache : p.employee \in Employees /\ (p.employee \in outdated \/ Holds(p))
      BY <1>2 DEF IndInv, CopyInv, Pair
    <3> QED
      BY <1>1, <2>1, <3>1
  <2>3. fetch' # None => \A p \in fetch'.rows : p.employee \in fetch'.missed \/ Holds(p)'
    <3>1. fetch # None => \A p \in fetch.rows : p.employee \in Employees
                                                /\ (p.employee \in fetch.missed \/ Holds(p))
      BY <1>2 DEF IndInv, CopyInv, Pair
    <3> QED
      BY <1>4, <2>1, <3>1
  <2>4. ASSUME NEW i \in Touches, posts'[i] # None
        PROVE  posts'[i].stale \/ Holds(posts[i])'
    <3>1. posts[i] # None /\ posts[i] \in Post /\ posts[i].employee \in Employees
      BY <1>2, <1>3, <2>4 DEF Post
    <3>2. posts[i].stale \/ Holds(posts[i])
      BY <3>1 DEF IndInv, CopyInv
    <3> QED
      BY <1>1, <1>2, <1>3, <2>4, <3>1, <3>2 DEF Holds
  <2> QED
    BY <1>3, <2>2, <2>3, <2>4 DEF CopyInv, Holds
<1> QED
  BY <1>5, <1>6, <1>7 DEF IndInv

\* The kiosk refreshes its cache, enrols, gives up or starts again.
LEMMA KioskStep ==
    ASSUME IndInv, UNCHANGED <<server, pc, job, posts, recorded, notice, ops>>,
           cache' \subseteq Pair, outdated' \subseteq Employees,
           fetch' \in [rows : SUBSET Pair, missed : SUBSET Employees] \cup {None},
           enrol' \in [employee : Employees, finger : Fingers \cup {None}] \cup {None},
           waiting' \in Touches \cup {None}, restarts' \in Nat,
           \A p \in cache' : p.employee \in outdated' \/ Holds(p),
           fetch' # None => \A p \in fetch'.rows : p.employee \in fetch'.missed \/ Holds(p)
    PROVE  IndInv'
<1>1. UNCHANGED <<templates, active, pending>>
  BY DEF server
<1>2. TypeOK'
  BY <1>1 DEF IndInv, TypeOK
<1>3. CopyInv'
  BY <1>1 DEF IndInv, CopyInv, Holds
<1>4. /\ RecordedWasActive' /\ RecordedOnce' /\ \A i \in Touches : ScanInv(i)'
      /\ \A w \in Workers : StaffInv(w)'
  BY <1>1 DEF IndInv, RecordedWasActive, RecordedOnce, ScanInv, StaffInv
<1> QED
  BY <1>2, <1>3, <1>4 DEF IndInv

\* A post of touch i advances or ends.
LEMMA PostStep ==
    ASSUME IndInv, NEW i \in Touches, NEW p \in Post \cup {None},
           UNCHANGED <<server, pc, job, cache, fetch, enrol, ops, restarts, outdated>>,
           posts' = [posts EXCEPT ![i] = p],
           waiting' \in Touches \cup {None},
           recorded' \in [Touches -> Nat], notice' \in [Touches -> {"none", "denied", "success"}],
           \A k \in Touches \ {i} : recorded'[k] = recorded[k] /\ notice'[k] = notice[k],
           recorded'[i] <= 1,
           notice'[i] = "success" => recorded'[i] = 1, notice'[i] = "denied" => recorded'[i] = 0,
           p # None => /\ notice'[i] = "none"
                       /\ recorded'[i] = IF p.at = "recorded" THEN 1 ELSE 0
                       /\ p.at # "sent" => p.checked
                       /\ p.stale \/ Holds(p)
    PROVE  IndInv'
<1>1. UNCHANGED <<templates, active, pending>>
  BY DEF server
<1>2. posts \in [Touches -> Post \cup {None}]
  BY Types
<1>3. posts'[i] = p /\ \A k \in Touches \ {i} : posts'[k] = posts[k]
  BY <1>2
<1>4. TypeOK'
  BY <1>1, <1>2 DEF IndInv, TypeOK
<1>5. RecordedWasActive' /\ RecordedOnce'
  BY <1>3 DEF IndInv, RecordedWasActive, RecordedOnce
<1>6. ASSUME NEW k \in Touches
      PROVE  ScanInv(k)'
  <2>1. CASE k = i
    BY <1>3, <2>1 DEF ScanInv
  <2>2. CASE k # i
    BY <1>3, <2>2 DEF IndInv, ScanInv
  <2> QED
    BY <2>1, <2>2
<1>7. CopyInv'
  <2>1. \A k \in Touches : posts'[k] # None => posts'[k].stale \/ Holds(posts'[k])
    BY <1>3 DEF IndInv, CopyInv
  <2> QED
    BY <1>1, <2>1 DEF IndInv, CopyInv, Holds
<1>8. \A w \in Workers : StaffInv(w)'
  BY <1>1 DEF IndInv, StaffInv
<1> QED
  BY <1>4, <1>5, <1>6, <1>7, <1>8 DEF IndInv

-----------------------------------------------------------------------------
(* The pages of the server.                                                *)

LEMMA OpenStep ==
    ASSUME IndInv, NEW w \in Workers, NEW e \in Employees, OpenEnroll(w, e) \/ OpenErase(w, e)
    PROVE  IndInv'
<1> DEFINE j == [NoJob EXCEPT !.employee = e]
<1>1. PICK l \in {"capture", "request", "erase"} :
         Begin(w, l, e) /\ (l # "erase" => templates[e] = None)
  <2>1. CASE OpenEnroll(w, e)
    BY <2>1 DEF OpenEnroll
  <2>2. CASE OpenErase(w, e)
    BY <2>2 DEF OpenErase
  <2> QED
    BY <2>1, <2>2
<1>2. UNCHANGED <<templates, active, kiosk, posts, restarts, outdated, recorded, notice, pending>>
  BY DEF OpenEnroll, OpenErase, server
<1>3. pc' = [pc EXCEPT ![w] = l] /\ job' = [job EXCEPT ![w] = j] /\ ops' \in Nat
  BY <1>1, Types DEF Begin
<1>4. j \in Job /\ j.employee = e
  BY NoJobType DEF NoJob
<1> HIDE DEF j
<1>5. pc'[w] = l /\ job'[w] = j
  BY <1>3, Types
<1>6. StaffInv(w)'
  BY <1>1, <1>2, <1>4, <1>5 DEF StaffInv
<1>7. l \in Labels /\ pending' \subseteq Employees
  BY <1>2, Types DEF Labels
<1> QED
  BY <1>2, <1>3, <1>4, <1>6, <1>7, PageStep

\* A page answers.
LEMMA RespondStep ==
    ASSUME IndInv, NEW w \in Workers, Respond(w), pending' \subseteq Employees,
           UNCHANGED <<templates, active, kiosk, posts, restarts, outdated, recorded, notice>>
    PROVE  IndInv'
<1>1. pc' = [pc EXCEPT ![w] = "idle"] /\ job' = [job EXCEPT ![w] = NoJob] /\ ops' \in Nat
  BY Types DEF Respond, Goto
<1>2. pc'[w] = "idle"
  BY <1>1, Types
<1>3. StaffInv(w)'
  BY <1>2 DEF StaffInv
<1>4. "idle" \in Labels
  BY DEF Labels
<1> QED
  BY <1>1, <1>3, <1>4, NoJobType, PageStep

LEMMA RequestStep ==
    ASSUME IndInv, NEW w \in Workers, RequestRemote(w) \/ CancelRequests(w)
    PROVE  IndInv'
<1>1. pc[w] # "idle" /\ job[w].employee \in Employees
  BY DEF RequestRemote, CancelRequests, IndInv, StaffInv
<1>2. /\ pending' \subseteq Employees /\ Respond(w)
      /\ UNCHANGED <<templates, active, kiosk, posts, restarts, outdated, recorded, notice>>
  BY <1>1, Types DEF RequestRemote, CancelRequests
<1> QED
  BY <1>2, RespondStep

LEMMA CaptureStep ==
    ASSUME IndInv, NEW w \in Workers, NEW f \in Fingers \cup {None}, Capture(w, f)
    PROVE  IndInv'
<1>1. /\ pc[w] = "capture" /\ pending' \subseteq Employees /\ pending' = pending
      /\ UNCHANGED <<templates, active, kiosk, posts, restarts, outdated, recorded, notice>>
  BY Types DEF Capture, server
<1>2. CASE f = None
  BY <1>1, <1>2, RespondStep DEF Capture
<1>3. CASE f # None
  <2> DEFINE j == [job[w] EXCEPT !.finger = f]
  <2>1. pc' = [pc EXCEPT ![w] = "store"] /\ job' = [job EXCEPT ![w] = j] /\ ops' \in Nat
    BY <1>3, Types DEF Capture, Goto
  <2>2. job[w] \in Job
    BY Types
  <2>3. j \in Job /\ j.finger = f /\ j.employee = job[w].employee /\ j.raced = job[w].raced
    BY <2>2 DEF Job
  <2> HIDE DEF j
  <2>4. pc'[w] = "store" /\ job'[w] = j
    BY <2>1, Types
  <2>5. /\ job[w].employee \in Employees
        /\ job[w].raced \/ templates[job[w].employee] = None
    BY <1>1 DEF IndInv, StaffInv
  <2>6. StaffInv(w)'
    BY <1>1, <1>3, <2>3, <2>4, <2>5 DEF StaffInv
  <2>7. "store" \in Labels
    BY DEF Labels
  <2> QED
    BY <1>1, <2>1, <2>3, <2>6, <2>7, PageStep
<1> QED
  BY <1>2, <1>3

\* Of the requests for e, those under way are marked as overtaken.
LEMMA RacedType ==
    ASSUME IndInv, NEW e \in Employees
    PROVE  /\ Raced(e) \in [Workers -> Job]
           /\ \A u \in Workers :
                 /\ Raced(e)[u].employee = job[u].employee /\ Raced(e)[u].finger = job[u].finger
                 /\ Raced(e)[u].key = job[u].key
                 /\ job[u].raced => Raced(e)[u].raced
                 /\ pc[u] # "idle" /\ job[u].employee = e => Raced(e)[u].raced
<1>1. ASSUME NEW u \in Workers
      PROVE  /\ Raced(e)[u] \in Job
             /\ Raced(e)[u].employee = job[u].employee /\ Raced(e)[u].finger = job[u].finger
             /\ Raced(e)[u].key = job[u].key
             /\ job[u].raced => Raced(e)[u].raced
             /\ pc[u] # "idle" /\ job[u].employee = e => Raced(e)[u].raced
  <2>1. job[u] \in Job
    BY Types
  <2>2. Raced(e)[u] = IF pc[u] # "idle" /\ job[u].employee = e
                      THEN [job[u] EXCEPT !.raced = TRUE] ELSE job[u]
    BY DEF Raced
  <2>3. CASE pc[u] # "idle" /\ job[u].employee = e
    BY <2>1, <2>2, <2>3 DEF Job
  <2>4. CASE ~ (pc[u] # "idle" /\ job[u].employee = e)
    <3>1. Raced(e)[u] = job[u]
      BY <2>2, <2>4
    <3> QED
      BY <2>1, <2>4, <3>1
  <2> QED
    BY <2>3, <2>4
<1>2. Raced(e) = [u \in Workers |-> Raced(e)[u]]
  BY DEF Raced
<1> QED
  BY <1>1, <1>2

\* A template is stored: the requests that were overtaken know.
LEMMA StaffAfterPut ==
    ASSUME IndInv, NEW e \in Employees, NEW u \in Workers,
           \A x \in Employees \ {e} : templates'[x] = templates[x],
           pc'[u] = "idle" \/ (pc'[u] = pc[u] /\ job'[u] = Raced(e)[u])
    PROVE  StaffInv(u)'
<1>1. CASE pc'[u] = "idle"
  BY <1>1 DEF StaffInv
<1>2. CASE pc'[u] = pc[u] /\ pc[u] # "idle" /\ job'[u] = Raced(e)[u]
  <2>1. StaffInv(u) /\ job[u].employee \in Employees
    BY <1>2 DEF IndInv, StaffInv
  <2>2. /\ job'[u].employee = job[u].employee /\ job'[u].finger = job[u].finger
        /\ job'[u].key = job[u].key
        /\ job[u].raced => job'[u].raced
        /\ job[u].employee = e => job'[u].raced
    BY <1>2, RacedType
  <2> QED
    BY <1>2, <2>1, <2>2 DEF StaffInv
<1> QED
  BY <1>1, <1>2

LEMMA StoreStep ==
    ASSUME IndInv, NEW w \in Workers, NEW t \in Template,
           job[w].employee \in Employees, PutTemplate(job[w].employee, t),
           job' = [Raced(job[w].employee) EXCEPT ![w] = NoJob], Goto(w, "idle"),
           UNCHANGED <<active, pending, cache, enrol, waiting, restarts, recorded, notice>>
    PROVE  IndInv'
<1> DEFINE e == job[w].employee
<1>1. pc' = [pc EXCEPT ![w] = "idle"] /\ ops' \in Nat
  BY Types DEF Goto
<1>2. pc' \in [Workers -> Labels] /\ job' \in [Workers -> Job]
  BY <1>1, Types, RacedType, NoJobType DEF Labels
<1>3. \A x \in Employees \ {e} : templates'[x] = templates[x]
  BY Types DEF PutTemplate
<1>4. \A u \in Workers : pc'[u] = "idle" \/ (pc'[u] = pc[u] /\ job'[u] = Raced(e)[u])
  BY <1>1, Types, RacedType
<1>5. \A u \in Workers : StaffInv(u)'
  BY <1>3, <1>4, StaffAfterPut
<1>6. pending' \subseteq Employees
  BY Types
<1> QED
  BY <1>1, <1>2, <1>5, <1>6, PutStep

LEMMA GetOrCreateStep ==
    ASSUME IndInv, NEW w \in Workers, GetOrCreate(w)
    PROVE  IndInv'
<1> DEFINE e == job[w].employee
<1>1. /\ pc[w] = "store" /\ e \in Employees /\ job[w].finger \in Fingers /\ job[w] \in Job
      /\ job[w].raced \/ templates[e] = None
  BY Types DEF GetOrCreate, IndInv, StaffInv
<1>2. UNCHANGED <<active, pending, cache, enrol, waiting, restarts, recorded, notice>>
  BY DEF GetOrCreate
<1>3. CASE templates[e] = None
  <2>1. PICK k \in Keys : PutTemplate(e, [key |-> k, finger |-> job[w].finger])
    BY <1>3 DEF GetOrCreate
  <2>2. [key |-> k, finger |-> job[w].finger] \in Template
    BY <1>1 DEF Template
  <2>3. job' = [Raced(e) EXCEPT ![w] = NoJob] /\ Goto(w, "idle")
    BY <1>3 DEF GetOrCreate
  <2> QED
    BY <1>1, <1>2, <2>1, <2>2, <2>3, StoreStep
<1>4. CASE templates[e] # None
  <2> DEFINE j == [job[w] EXCEPT !.key = templates[e].key]
  <2>1. templates[e].key \in Keys
    BY <1>1, <1>4, Types DEF Template
  <2>2. /\ job' = [job EXCEPT ![w] = j] /\ pc' = [pc EXCEPT ![w] = "resave"] /\ ops' \in Nat
        /\ UNCHANGED <<templates, outdated, fetch, posts>>
    BY <1>4, Types DEF GetOrCreate, Goto
  <2>3. /\ j \in Job /\ j.employee = e /\ j.finger = job[w].finger /\ j.raced
        /\ j.key = templates[e].key
    BY <1>1, <1>4, <2>1 DEF Job
  <2> HIDE DEF j
  <2>4. pc'[w] = "resave" /\ job'[w] = j
    BY <2>2, Types
  <2>5. StaffInv(w)'
    BY <1>1, <2>1, <2>3, <2>4 DEF StaffInv
  <2>6. "resave" \in Labels /\ pending' \subseteq Employees
    BY <1>2, Types DEF Labels
  <2> QED
    BY <1>2, <2>2, <2>3, <2>5, <2>6, PageStep DEF kiosk
<1> QED
  BY <1>3, <1>4

LEMMA ResaveStep ==
    ASSUME IndInv, NEW w \in Workers, Resave(w)
    PROVE  IndInv'
<1> DEFINE e == job[w].employee
           t == [key |-> job[w].key, finger |-> job[w].finger]
<1>1. e \in Employees /\ t \in Template
  BY DEF Resave, IndInv, StaffInv, Template
<1>2. /\ UNCHANGED <<active, pending, cache, enrol, waiting, restarts, recorded, notice>>
      /\ Goto(w, "idle")
  BY DEF Resave
<1>3. CASE templates[e] = None \/ templates[e].key = job[w].key
  <2>1. PutTemplate(e, t) /\ job' = [Raced(e) EXCEPT ![w] = NoJob]
    BY <1>3 DEF Resave
  <2> QED
    BY <1>1, <1>2, <2>1, StoreStep
<1>4. CASE ~ (templates[e] = None \/ templates[e].key = job[w].key)
  <2>1. job' = [job EXCEPT ![w] = NoJob] /\ UNCHANGED <<templates, outdated, fetch, posts>>
    BY <1>4 DEF Resave
  <2>2. Respond(w) /\ pending' \subseteq Employees
    BY <1>2, <2>1, Types DEF Respond
  <2> QED
    BY <1>2, <2>1, <2>2, RespondStep DEF kiosk
<1> QED
  BY <1>3, <1>4

LEMMA EraseStep ==
    ASSUME IndInv, NEW w \in Workers, EraseTemplate(w)
    PROVE  IndInv'
<1> DEFINE e == job[w].employee
<1>1. /\ pc[w] = "erase" /\ e \in Employees /\ PutTemplate(e, None) /\ job' = job
      /\ pc' = [pc EXCEPT ![w] = "cancel"] /\ ops' = ops
      /\ UNCHANGED <<active, pending, cache, enrol, waiting, restarts, recorded, notice>>
  BY DEF EraseTemplate, Goto, IndInv, StaffInv
<1>2. pc' \in [Workers -> Labels] /\ job' \in [Workers -> Job] /\ ops' \in Nat
      /\ pending' \subseteq Employees
  BY <1>1, Types DEF Labels
<1>3. templates'[e] = None /\ \A x \in Employees \ {e} : templates'[x] = templates[x]
  BY <1>1, Types DEF PutTemplate
<1>4. ASSUME NEW u \in Workers
      PROVE  StaffInv(u)'
  <2>1. StaffInv(u) /\ StaffInv(w)
    BY DEF IndInv
  <2>2. CASE u = w
    <3>1. pc'[w] = "cancel" /\ job'[w] = job[w]
      BY <1>1, Types
    <3> QED
      BY <1>1, <2>2, <3>1 DEF StaffInv
  <2>3. CASE u # w
    <3>1. pc'[u] = pc[u] /\ job'[u] = job[u]
      BY <1>1, <2>3, Types
    <3> QED
      BY <1>3, <2>1, <3>1 DEF StaffInv
  <2> QED
    BY <2>2, <2>3
<1> QED
  BY <1>1, <1>2, <1>4, PutStep

LEMMA SetActiveStep ==
    ASSUME IndInv, NEW e \in Employees, SetActive(e)
    PROVE  IndInv'
<1>1. /\ active' = [active EXCEPT ![e] = ~ @] /\ ops' \in Nat
      /\ UNCHANGED <<templates, pending, pc, job, cache, fetch, enrol, waiting, posts, restarts,
                     outdated, recorded, notice>>
  BY Types DEF SetActive, kiosk
<1>2. active \in [Employees -> BOOLEAN]
  BY DEF IndInv, TypeOK
<1>3. TypeOK'
  BY <1>1, <1>2 DEF IndInv, TypeOK
<1>4. /\ RecordedWasActive' /\ RecordedOnce' /\ CopyInv' /\ \A i \in Touches : ScanInv(i)'
      /\ \A w \in Workers : StaffInv(w)'
  BY <1>1 DEF IndInv, RecordedWasActive, RecordedOnce, CopyInv, Holds, ScanInv, StaffInv
<1> QED
  BY <1>3, <1>4 DEF IndInv

-----------------------------------------------------------------------------
(* The kiosk.                                                              *)

LEMMA KioskFacts ==
    ASSUME IndInv
    PROVE  /\ cache \subseteq Pair /\ outdated \subseteq Employees
           /\ fetch \in [rows : SUBSET Pair, missed : SUBSET Employees] \cup {None}
           /\ enrol \in [employee : Employees, finger : Fingers \cup {None}] \cup {None}
           /\ waiting \in Touches \cup {None} /\ restarts \in Nat
           /\ \A p \in cache : p.employee \in outdated \/ Holds(p)
           /\ fetch # None => \A p \in fetch.rows : p.employee \in fetch.missed \/ Holds(p)
BY DEF IndInv, TypeOK, CopyInv

LEMMA RefreshStep ==
    ASSUME IndInv, ReadTemplates \/ StoreTemplates \/ FailRefresh
    PROVE  IndInv'
<1>1. UNCHANGED <<server, pc, job, posts, recorded, notice, ops, enrol, waiting, restarts>>
  BY DEF ReadTemplates, StoreTemplates, FailRefresh
<1>2. CASE ReadTemplates
  <2>1. Pairs \subseteq Pair /\ \A p \in Pairs : Holds(p)
    BY Types DEF Pairs, Enrolled, Pair, Template, Holds
  <2>2. /\ fetch' = [rows |-> Pairs, missed |-> {}] /\ cache' = cache /\ outdated' = outdated
    BY <1>2 DEF ReadTemplates
  <2>3. fetch' \in [rows : SUBSET Pair, missed : SUBSET Employees] \cup {None}
        /\ \A p \in fetch'.rows : Holds(p)
    BY <2>1, <2>2
  <2> QED
    BY <1>1, <2>2, <2>3, KioskFacts, KioskStep
<1>3. CASE StoreTemplates
  <2>1. /\ fetch # None /\ cache' = fetch.rows /\ outdated' = fetch.missed /\ fetch' = None
    BY <1>3 DEF StoreTemplates
  <2>2. cache' \subseteq Pair /\ outdated' \subseteq Employees
    BY <2>1, KioskFacts
  <2> QED
    BY <1>1, <2>1, <2>2, KioskFacts, KioskStep
<1>4. CASE FailRefresh
  BY <1>1, <1>4, KioskFacts, KioskStep DEF FailRefresh
<1> QED
  BY <1>2, <1>3, <1>4

LEMMA KioskEnrolStep ==
    ASSUME IndInv,
           \/ \E e \in Employees : StartEnrol(e)
           \/ \E f \in Fingers : CaptureAtKiosk(f)
           \/ DropEnrol
    PROVE  IndInv'
<1>1. /\ UNCHANGED <<server, pc, job, posts, recorded, notice, ops, cache, fetch, waiting>>
      /\ restarts' = restarts /\ outdated' = outdated
  BY DEF StartEnrol, CaptureAtKiosk, DropEnrol
<1>2. enrol' \in [employee : Employees, finger : Fingers \cup {None}] \cup {None}
  BY KioskFacts DEF StartEnrol, CaptureAtKiosk, DropEnrol
<1> QED
  BY <1>1, <1>2, KioskFacts, KioskStep

LEMMA RestartStep ==
    ASSUME IndInv, RestartKiosk
    PROVE  IndInv'
<1>1. /\ UNCHANGED <<server, pc, job, posts, recorded, notice, ops>>
      /\ restarts' \in Nat /\ outdated' = outdated
      /\ cache' = {} /\ fetch' = None /\ enrol' = None /\ waiting' = None
  BY KioskFacts DEF RestartKiosk
<1> QED
  BY <1>1, KioskFacts, KioskStep

LEMMA GiveUpStep ==
    ASSUME IndInv, NEW i \in Touches, GiveUp(i)
    PROVE  IndInv'
<1>1. /\ UNCHANGED <<server, pc, job, posts, recorded, notice, ops, cache, fetch, enrol>>
      /\ restarts' = restarts /\ outdated' = outdated /\ waiting' = None
  BY DEF GiveUp
<1> QED
  BY <1>1, KioskFacts, KioskStep

LEMMA SubmitEnrolStep ==
    ASSUME IndInv, SubmitEnrol
    PROVE  IndInv'
<1> DEFINE e == enrol.employee
<1>1. /\ enrol # None /\ enrol.finger # None /\ enrol' = None
      /\ job' = Raced(e) /\ pending' = pending \ {e}
      /\ UNCHANGED <<active, pc, cache, waiting, ops, restarts, recorded, notice>>
  BY DEF SubmitEnrol
<1>2. e \in Employees /\ enrol.finger \in Fingers
  BY <1>1, KioskFacts
<1>3. PICK k \in Keys : PutTemplate(e, [key |-> k, finger |-> enrol.finger])
  BY DEF SubmitEnrol
<1>4. [key |-> k, finger |-> enrol.finger] \in Template
  BY <1>2 DEF Template
<1>5. pc' \in [Workers -> Labels] /\ job' \in [Workers -> Job] /\ ops' \in Nat
      /\ pending' \subseteq Employees
  BY <1>1, <1>2, Types, RacedType
<1>6. \A x \in Employees \ {e} : templates'[x] = templates[x]
  BY <1>3, Types DEF PutTemplate
<1>7. \A u \in Workers : StaffInv(u)'
  BY <1>1, <1>2, <1>6, StaffAfterPut
<1> QED
  BY <1>1, <1>2, <1>3, <1>4, <1>5, <1>7, PutStep

-----------------------------------------------------------------------------
(* Scans.                                                                  *)

LEMMA ScanFacts ==
    ASSUME IndInv, NEW i \in Touches
    PROVE  /\ posts[i] \in Post \cup {None}
           /\ waiting \in Touches \cup {None} /\ recorded \in [Touches -> Nat]
           /\ notice \in [Touches -> {"none", "denied", "success"}]
           /\ recorded[i] <= 1 /\ (notice[i] = "success" => recorded[i] = 1)
           /\ notice[i] = "denied" => recorded[i] = 0
           /\ posts[i] # None =>
                 /\ notice[i] = "none" /\ (posts[i].stale \/ Holds(posts[i]))
                 /\ recorded[i] = IF posts[i].at = "recorded" THEN 1 ELSE 0
                 /\ posts[i].at # "sent" => posts[i].checked
BY DEF IndInv, TypeOK, RecordedOnce, RecordedWasActive, ScanInv, CopyInv

LEMMA AnswerFacts ==
    ASSUME IndInv, NEW i \in Touches, NEW what \in {"none", "denied", "success"}, Answer(i, what)
    PROVE  /\ notice' \in [Touches -> {"none", "denied", "success"}]
           /\ \A k \in Touches \ {i} : notice'[k] = notice[k]
           /\ notice'[i] \in {what, notice[i]}
           /\ waiting' \in Touches \cup {None}
BY ScanFacts DEF Answer

LEMMA TouchStep ==
    ASSUME IndInv, NEW i \in Touches, NEW f \in Fingers, Touch(i, f)
    PROVE  IndInv'
<1>1. PICK e \in Matches(f) :
         posts' = [posts EXCEPT ![i] = [employee |-> e, finger |-> f, at |-> "sent",
                                        stale |-> e \in outdated, checked |-> FALSE]]
  BY DEF Touch
<1> DEFINE p == [employee |-> e, finger |-> f, at |-> "sent",
                 stale |-> e \in outdated, checked |-> FALSE]
<1>2. e \in Employees /\ (e \in outdated \/ Holds([employee |-> e, finger |-> f]))
  <2>1. PICK q \in cache : q.finger = f /\ q.employee = e
    BY DEF Matches
  <2>2. q \in Pair /\ (q.employee \in outdated \/ Holds(q))
    BY KioskFacts
  <2> QED
    BY <2>1, <2>2 DEF Pair, Holds
<1>3. p \in Post
  <2>1. (e \in outdated) \in BOOLEAN
    OBVIOUS
  <2> QED
    BY <1>2, <2>1 DEF Post
<1>4. p.stale \/ Holds(p)
  BY <1>2 DEF Holds
<1>5. p.at = "sent"
  OBVIOUS
<1>6. /\ UNCHANGED <<server, pc, job, cache, fetch, enrol, ops, restarts, outdated>>
      /\ recorded' = recorded /\ notice' = notice /\ waiting' = i
      /\ recorded[i] = 0 /\ notice[i] = "none"
  BY DEF Touch
<1>7. posts' = [posts EXCEPT ![i] = p]
  BY <1>1
<1> HIDE DEF p
<1> QED
  BY <1>3, <1>4, <1>5, <1>6, <1>7, ScanFacts, PostStep

LEMMA CheckActiveStep ==
    ASSUME IndInv, NEW i \in Touches, CheckActive(i)
    PROVE  IndInv'
<1>1. /\ posts[i] # None /\ posts[i].at = "sent" /\ recorded' = recorded
      /\ UNCHANGED <<server, pc, job, cache, fetch, enrol, ops, restarts, outdated>>
  BY DEF CheckActive
<1>2. CASE active[posts[i].employee]
  <2> DEFINE p == [posts[i] EXCEPT !.at = "checked", !.checked = TRUE]
  <2>1. posts' = [posts EXCEPT ![i] = p] /\ waiting' = waiting /\ notice' = notice
    BY <1>2 DEF CheckActive
  <2>2. posts[i] \in Post
    BY <1>1, ScanFacts
  <2>3. /\ p \in Post /\ p.at = "checked" /\ p.checked /\ p.stale = posts[i].stale
        /\ p.employee = posts[i].employee /\ p.finger = posts[i].finger
    BY <2>2 DEF Post
  <2> HIDE DEF p
  <2>4. p.stale \/ Holds(p)
    BY <1>1, <2>3, ScanFacts DEF Holds
  <2> QED
    BY <1>1, <2>1, <2>3, <2>4, ScanFacts, PostStep
<1>3. CASE ~ active[posts[i].employee]
  <2>1. posts' = [posts EXCEPT ![i] = None] /\ Answer(i, "none")
    BY <1>3 DEF CheckActive
  <2> QED
    BY <1>1, <2>1, ScanFacts, AnswerFacts, PostStep
<1> QED
  BY <1>2, <1>3

LEMMA RecordStep ==
    ASSUME IndInv, NEW i \in Touches, Record(i)
    PROVE  IndInv'
<1>1. /\ posts[i] # None /\ posts[i].at = "checked"
      /\ UNCHANGED <<server, pc, job, cache, fetch, enrol, ops, restarts, outdated>>
  BY DEF Record
<1>2. CASE posts' = [posts EXCEPT ![i] = None] /\ Answer(i, "denied") /\ UNCHANGED recorded
  <2>1. recorded[i] = 0
    BY <1>1, ScanFacts
  <2> QED
    BY <1>1, <1>2, <2>1, ScanFacts, AnswerFacts, PostStep
<1>3. CASE /\ posts' = [posts EXCEPT ![i].at = "recorded"]
           /\ recorded' = [recorded EXCEPT ![i] = @ + 1]
           /\ UNCHANGED <<waiting, notice>>
  <2> DEFINE p == [posts[i] EXCEPT !.at = "recorded"]
  <2>1. posts' = [posts EXCEPT ![i] = p]
    BY <1>3
  <2>2. posts[i] \in Post
    BY <1>1, ScanFacts
  <2>3. /\ p \in Post /\ p.at = "recorded" /\ p.checked = posts[i].checked
        /\ p.stale = posts[i].stale
        /\ p.employee = posts[i].employee /\ p.finger = posts[i].finger
    BY <2>2 DEF Post
  <2> HIDE DEF p
  <2>4. p.stale \/ Holds(p)
    BY <1>1, <2>3, ScanFacts DEF Holds
  <2>5. /\ recorded' \in [Touches -> Nat] /\ recorded'[i] = 1
        /\ \A k \in Touches \ {i} : recorded'[k] = recorded[k]
    BY <1>1, <1>3, ScanFacts
  <2>6. /\ notice' = notice /\ notice[i] = "none" /\ posts[i].checked
        /\ notice' \in [Touches -> {"none", "denied", "success"}]
        /\ waiting' \in Touches \cup {None}
    BY <1>1, <1>3, ScanFacts
  <2>7. recorded'[i] <= 1 /\ recorded'[i] = IF p.at = "recorded" THEN 1 ELSE 0
    BY <2>3, <2>5
  <2> QED
    BY <1>1, <2>1, <2>3, <2>4, <2>5, <2>6, <2>7, PostStep
<1> QED
  BY <1>2, <1>3 DEF Record

LEMMA ReplyStep ==
    ASSUME IndInv, NEW i \in Touches, Reply(i) \/ LosePost(i)
    PROVE  IndInv'
<1>1. /\ posts[i] # None /\ recorded' = recorded /\ posts' = [posts EXCEPT ![i] = None]
      /\ UNCHANGED <<server, pc, job, cache, fetch, enrol, ops, restarts, outdated>>
  BY DEF Reply, LosePost
<1>2. PICK what \in {"none", "success"} :
         Answer(i, what) /\ (what = "success" => recorded[i] = 1)
  <2>1. CASE Reply(i)
    BY <2>1, ScanFacts DEF Reply
  <2>2. CASE LosePost(i)
    BY <2>2 DEF LosePost
  <2> QED
    BY <2>1, <2>2
<1> QED
  BY <1>1, <1>2, ScanFacts, AnswerFacts, PostStep

-----------------------------------------------------------------------------
(* The specification.                                                      *)

LEMMA InitInv ==
    ASSUME Init
    PROVE  IndInv
<1>1. /\ templates = [e \in Employees |-> None] /\ active = [e \in Employees |-> TRUE]
      /\ pending = {} /\ pc = [w \in Workers |-> "idle"] /\ job = [w \in Workers |-> NoJob]
      /\ cache = {} /\ fetch = None /\ enrol = None /\ waiting = None
      /\ posts = [i \in Touches |-> None] /\ ops = 0 /\ restarts = 0 /\ outdated = {}
      /\ recorded = [i \in Touches |-> 0] /\ notice = [i \in Touches |-> "none"]
  BY DEF Init
<1>2. TypeOK
  <2>1. pc \in [Workers -> Labels] /\ job \in [Workers -> Job]
    BY <1>1, NoJobType DEF Labels
  <2> QED
    BY <1>1, <2>1 DEF TypeOK
<1>3. RecordedWasActive /\ RecordedOnce /\ CopyInv /\ \A i \in Touches : ScanInv(i)
  BY <1>1 DEF RecordedWasActive, RecordedOnce, CopyInv, ScanInv
<1>4. \A w \in Workers : StaffInv(w)
  BY <1>1 DEF StaffInv
<1> QED
  BY <1>2, <1>3, <1>4 DEF IndInv

LEMMA NextInv ==
    ASSUME IndInv, [Next]_vars
    PROVE  IndInv'
<1>1. ASSUME NEW w \in Workers, Staff(w)
      PROVE  IndInv'
  BY <1>1, OpenStep, CaptureStep, RequestStep, GetOrCreateStep, ResaveStep, EraseStep DEF Staff
<1>2. ASSUME NEW i \in Touches, Scan(i)
      PROVE  IndInv'
  BY <1>2, TouchStep, CheckActiveStep, RecordStep, ReplyStep, GiveUpStep DEF Scan
<1>3. CASE \E e \in Employees : SetActive(e)
  BY <1>3, SetActiveStep
<1>4. CASE \/ \E e \in Employees : StartEnrol(e)
           \/ \E f \in Fingers : CaptureAtKiosk(f)
           \/ DropEnrol
  BY <1>4, KioskEnrolStep
<1>5. CASE ReadTemplates \/ StoreTemplates \/ FailRefresh
  BY <1>5, RefreshStep
<1>6. CASE SubmitEnrol
  BY <1>6, SubmitEnrolStep
<1>7. CASE RestartKiosk
  BY <1>7, RestartStep
<1>8. CASE UNCHANGED vars
  <2>1. UNCHANGED <<server, pc, job, posts, recorded, notice, ops, cache, fetch, enrol, waiting,
                    restarts, outdated>>
    BY <1>8 DEF vars, kiosk
  <2> QED
    BY <2>1, KioskFacts, KioskStep
<1> QED
  BY <1>1, <1>2, <1>3, <1>4, <1>5, <1>6, <1>7, <1>8 DEF Next

\* IndInv is an invariant for any number of employees, fingers, workers and
\* touches: a touch is recorded at most once and only for an active employee,
\* and every copy of a template is right or known to be outdated.
THEOREM SyncInvariant == Spec => []IndInv
BY InitInv, NextInv, PTL DEF Spec

\* What the kiosk announces was recorded, once, for an employee who was active
\* when asked, however old its copy and whatever posts and answers are lost.
THEOREM ScansSound == Spec => [](RecordedWasActive /\ RecordedOnce)
<1>1. IndInv => RecordedWasActive /\ RecordedOnce
  BY DEF IndInv
<1> QED
  BY <1>1, SyncInvariant, PTL

LEMMA CreditStep ==
    ASSUME IndInv, [Next]_vars, NEW i \in Touches,
           recorded'[i] # recorded[i], ~ posts[i].stale
    PROVE  /\ templates[posts[i].employee] # None
           /\ templates[posts[i].employee].finger = posts[i].finger
<1>1. PICK k \in Touches : Record(k) /\ recorded' = [recorded EXCEPT ![k] = @ + 1]
  <2>1. recorded' # recorded
    OBVIOUS
  <2>2. \E k \in Touches : Record(k)
    <3>1. CASE UNCHANGED vars
      BY <2>1, <3>1 DEF vars
    <3>2. ASSUME NEW w \in Workers, Staff(w)
          PROVE  FALSE
      BY <2>1, <3>2 DEF Staff, OpenEnroll, OpenErase, Capture, RequestRemote, GetOrCreate, Resave,
                        EraseTemplate, CancelRequests
    <3>3. CASE \/ \E e \in Employees : SetActive(e) \/ StartEnrol(e)
               \/ ReadTemplates \/ StoreTemplates \/ FailRefresh
               \/ \E f \in Fingers : CaptureAtKiosk(f)
               \/ SubmitEnrol \/ DropEnrol \/ RestartKiosk
      BY <2>1, <3>3 DEF SetActive, StartEnrol, ReadTemplates, StoreTemplates, FailRefresh,
                        CaptureAtKiosk, SubmitEnrol, DropEnrol, RestartKiosk
    <3>4. ASSUME NEW k \in Touches, Scan(k)
          PROVE  Record(k)
      BY <2>1, <3>4 DEF Scan, Touch, CheckActive, Reply, LosePost, GiveUp
    <3> QED
      BY <3>1, <3>2, <3>3, <3>4 DEF Next
  <2> QED
    BY <2>1, <2>2 DEF Record
<1>2. k = i
  BY <1>1, ScanFacts
<1>3. posts[i] # None
  BY <1>1, <1>2 DEF Record
<1> QED
  BY <1>3, ScanFacts DEF Holds

\* A touch is never credited to another employee than the one whose finger it
\* is, unless the template changed since the kiosk read it.
THEOREM CreditedSoundly == Spec => CreditedToOwner
<1>1. IndInv /\ [Next]_vars =>
        [\A i \in Touches :
            recorded'[i] # recorded[i] /\ ~ posts[i].stale =>
                LET t == templates[posts[i].employee]
                IN t # None /\ t.finger = posts[i].finger]_vars
  BY CreditStep
<1> QED
  BY <1>1, SyncInvariant, PTL DEF Spec, CreditedToOwner

LEMMA ReplaceStep ==
    ASSUME IndInv, [Next]_vars, NEW e \in Employees,
           templates[e] # None, templates'[e] # None, templates'[e] # templates[e]
    PROVE  \/ enrol # None /\ enrol' = None
           \/ \E w \in Workers : pc[w] = "resave" /\ job[w].employee = e /\ job[w].raced
<1>1. templates' # templates
  OBVIOUS
<1>2. CASE UNCHANGED vars
  BY <1>1, <1>2 DEF vars, server
<1>3. ASSUME NEW w \in Workers, Staff(w)
      PROVE  pc[w] = "resave" /\ job[w].employee = e /\ job[w].raced
  <2>1. GetOrCreate(w) \/ Resave(w) \/ EraseTemplate(w)
    BY <1>1, <1>3 DEF Staff, OpenEnroll, OpenErase, Capture, RequestRemote, CancelRequests, server
  <2>2. job[w].employee = e
    BY <2>1, Types DEF GetOrCreate, Resave, EraseTemplate, PutTemplate
  <2>3. ~ GetOrCreate(w) /\ ~ EraseTemplate(w)
    BY <2>2, Types DEF GetOrCreate, EraseTemplate, PutTemplate
  <2>4. pc[w] = "resave"
    BY <2>1, <2>3 DEF Resave
  <2> QED
    BY <2>2, <2>4 DEF IndInv, StaffInv
<1>4. CASE \/ \E x \in Employees : SetActive(x) \/ StartEnrol(x)
           \/ ReadTemplates \/ StoreTemplates \/ FailRefresh
           \/ \E f \in Fingers : CaptureAtKiosk(f)
           \/ DropEnrol \/ RestartKiosk
           \/ \E i \in Touches : Scan(i)
  BY <1>1, <1>4 DEF SetActive, StartEnrol, ReadTemplates, StoreTemplates, FailRefresh,
                    CaptureAtKiosk, DropEnrol, RestartKiosk, Scan, Touch, CheckActive, Record,
                    Reply, LosePost, GiveUp, server
<1>5. CASE SubmitEnrol
  BY <1>5 DEF SubmitEnrol
<1> QED
  BY <1>2, <1>3, <1>4, <1>5 DEF Next

\* A template is replaced only by the kiosk or by a page of the server that
\* found none when it was opened (EmployeeEnrollView).
THEOREM ReplacedRarely == Spec => ReplacedOnlyByRace
<1>1. IndInv /\ [Next]_vars =>
        [\A e \in Employees :
            templates[e] # None /\ templates'[e] # None /\ templates'[e] # templates[e] =>
                \/ enrol # None /\ enrol' = None
                \/ \E w \in Workers :
                      pc[w] = "resave" /\ job[w].employee = e /\ job[w].raced]_vars
  BY ReplaceStep
<1> QED
  BY <1>1, SyncInvariant, PTL DEF Spec, ReplacedOnlyByRace
=============================================================================
