----------------------------- MODULE FleetProofs -----------------------------
(***************************************************************************)
(* Proofs about Fleet for every number of workers, trucks, brands, models  *)
(* and drivers.  IndInv is inductive: the catalogue stays whole although   *)
(* it is checked before it is changed, and a truck has two drivers only    *)
(* when two workers stored them.                                           *)
(***************************************************************************)
EXTENDS Fleet, FiniteSetTheorems, SequenceTheorems, TLAPS

-----------------------------------------------------------------------------
(* Types and frames.                                                       *)

LEMMA CountIsNat ==
    ASSUME NEW S, IsFiniteSet(S)
    PROVE  Cardinality(S) \in Nat
BY FS_CardinalityType

LEMMA NoJobType == NoJob \in Job
BY FleetAssumption DEF NoJob, Job

LEMMA Types ==
    ASSUME TypeOK
    PROVE  /\ pc \in [Workers -> Labels] /\ job \in [Workers -> Job]
           /\ trucks \in [Trucks -> Truck \cup {None}]
           /\ now \in Nat /\ ops \in Nat /\ edits \in Nat
BY DEF TypeOK

\* The rows of the table of assignments.
LEMMA Rows ==
    ASSUME assignments \in Seq(Assignment)
    PROVE  /\ Len(assignments) \in Nat
           /\ DOMAIN assignments = 1 .. Len(assignments)
           /\ \A i \in DOMAIN assignments :
                 assignments[i] \in Assignment /\ assignments[i].until \in Nat
<1>1. Len(assignments) \in Nat /\ DOMAIN assignments = 1 .. Len(assignments)
  BY LenProperties
<1>2. \A i \in DOMAIN assignments : assignments[i] \in Assignment
  BY <1>1, ElementOfSeq
<1> QED
  BY <1>1, <1>2 DEF Assignment

\* What Touch cleans passes, so the invariant needs no word about it.
LEMMA Assemble ==
    ASSUME TypeOK', CatalogueIntact', PlatesDiffer', DoubleDriverOnlyByRace',
           UnfitOnlyIfOvertaken', \A w \in Workers : RequestInv(w)'
    PROVE  TablesInv'
<1>1. ASSUME NEW w \in Workers, pc'[w] = "touch", ~ job'[w].raced
      PROVE  FullClean(job[w].copy, job[w].truck)'
  <2>1. /\ job'[w].truck \in Trucks /\ trucks'[job'[w].truck] # None
        /\ job'[w].copy = trucks'[job'[w].truck]
    BY <1>1 DEF RequestInv
  <2>2. models'[job'[w].copy.model] = "live"
    BY <2>1 DEF CatalogueIntact
  <2>3. \A u \in Trucks \ {job'[w].truck} :
           trucks'[u] # None => trucks'[u].plate # job'[w].copy.plate
    BY <2>1 DEF PlatesDiffer
  <2> QED
    BY <2>2, <2>3 DEF FullClean
<1> QED
  BY <1>1 DEF TablesInv, TouchFailsOnlyIfOvertaken

\* A request that does not move: it is overtaken, or what it has read stands.
LEMMA RequestStays ==
    ASSUME TypeOK, NEW u \in Workers, RequestInv(u), pc'[u] = pc[u],
           job'[u] = job[u] \/ job'[u] = [job[u] EXCEPT !.raced = TRUE],
           \A t \in Trucks : job[u].truck = t /\ trucks[t] # None =>
              trucks'[t] # None /\ (job'[u].raced \/ trucks'[t] = trucks[t]),
           \A d \in Drivers : job[u].driver = d => job'[u].raced \/ eligible'[d] = eligible[d],
           pc[u] = "insert" =>
              \A i \in Open(job[u].truck)' :
                 assignments'[i].by # u \/ (i \in Open(job[u].truck) /\ assignments'[i].by = assignments[i].by),
           pc[u] = "close" =>
              /\ job[u].row \in DOMAIN assignments'
              /\ \/ assignments'[job[u].row] = assignments[job[u].row]
                 \/ assignments'[job[u].row].closer # u
    PROVE  RequestInv(u)'
<1>1. job[u] \in Job
  BY DEF TypeOK
<1>2. /\ job'[u].truck = job[u].truck /\ job'[u].copy = job[u].copy
      /\ job'[u].form = job[u].form /\ job'[u].driver = job[u].driver
      /\ job'[u].row = job[u].row /\ job'[u].brand = job[u].brand
      /\ job'[u].model = job[u].model /\ job'[u].add = job[u].add
      /\ job[u].raced => job'[u].raced
  BY <1>1 DEF Job
<1>3. pc[u] \in {"update", "photos", "upload", "choose", "clean", "insert", "touch",
                 "find", "close"} =>
         /\ job[u].truck \in Trucks /\ trucks'[job[u].truck] # None
         /\ job'[u].raced \/ trucks'[job[u].truck] = trucks[job[u].truck]
  BY DEF RequestInv
<1>4. pc[u] \in {"clean", "insert"} =>
         job[u].driver \in Drivers /\ (job'[u].raced \/ eligible'[job[u].driver])
  BY <1>2 DEF RequestInv
<1>5. pc[u] = "insert" => \A i \in Open(job[u].truck)' : assignments'[i].by # u
  BY DEF RequestInv
<1>6. pc[u] = "close" =>
         assignments'[job[u].row].until = 0 \/ assignments'[job[u].row].closer # u
  BY DEF RequestInv
<1>7. /\ pc[u] \in {"create", "update"} => job'[u].form \in TruckForm
      /\ pc[u] = "upload" => job'[u].add > 0
      /\ pc[u] = "drop_brand" => job'[u].brand \in Brands
      /\ pc[u] = "drop_model" => job'[u].model \in Models
      /\ pc[u] \in {"choose", "clean", "insert", "touch", "find", "close"} =>
            job'[u].copy \in Truck
      /\ pc[u] = "insert" => job'[u].copy.active
  BY <1>2 DEF RequestInv
<1>8. pc[u] \in {"choose", "clean", "insert", "touch", "find", "close"} /\ ~ job'[u].raced =>
         job'[u].copy = trucks'[job'[u].truck]
  BY <1>2, <1>3 DEF RequestInv
<1>9. pc[u] = "close" =>
          /\ job'[u].row \in DOMAIN assignments'
          /\ assignments'[job'[u].row].until = 0 \/ assignments'[job'[u].row].closer # u
  BY <1>2, <1>6
<1> HIDE DEF Open
<1> QED
  BY <1>2, <1>3, <1>4, <1>5, <1>7, <1>8, <1>9 DEF RequestInv

\* A step of w that changes neither catalogue, trucks nor assignments.
LEMMA LocalStep ==
    ASSUME TablesInv, NEW w \in Workers, NEW l \in Labels, NEW j \in Job,
           pc' = [pc EXCEPT ![w] = l], job' = [job EXCEPT ![w] = j],
           UNCHANGED <<brands, models, trucks, assignments, eligible>>,
           stale' \subseteq Trucks, failed' \subseteq Trucks,
           GalleryOK', now' \in Nat, ops' \in Nat, edits' \in Nat,
           RequestInv(w)'
    PROVE  TablesInv'
<1>1. pc \in [Workers -> Labels] /\ job \in [Workers -> Job]
  BY DEF TablesInv, TypeOK
<1>2. TypeOK'
  BY <1>1 DEF TablesInv, TypeOK
<1>3. ASSUME NEW u \in Workers
      PROVE  RequestInv(u)'
  <2>1. CASE u = w
    BY <2>1
  <2>2. CASE u # w
    <3>1. pc'[u] = pc[u] /\ job'[u] = job[u]
      BY <1>1, <2>2
    <3>2. TypeOK /\ RequestInv(u)
      BY DEF TablesInv
    <3>3. \A i \in Open(job[u].truck)' :
             i \in Open(job[u].truck) /\ assignments'[i].by = assignments[i].by
      BY <3>1 DEF Open
    <3>4. pc[u] = "close" => job[u].row \in DOMAIN assignments'
      BY <3>2 DEF RequestInv
    <3> QED
      BY <3>1, <3>2, <3>3, <3>4, RequestStays
  <2> QED
    BY <2>1, <2>2
<1>4. CatalogueIntact' /\ PlatesDiffer' /\ DoubleDriverOnlyByRace' /\ UnfitOnlyIfOvertaken'
  BY DEF TablesInv, CatalogueIntact, PlatesDiffer, DoubleDriverOnlyByRace, UnfitOnlyIfOvertaken, Open
<1> QED
  BY <1>2, <1>3, <1>4, Assemble

LEMMA SameGallery ==
    ASSUME TypeOK, UNCHANGED gallery
    PROVE  GalleryOK'
BY DEF TypeOK, GalleryOK, gallery

\* A worker that has answered.
LEMMA IdleInv ==
    ASSUME NEW w \in Workers, pc'[w] = "idle"
    PROVE  RequestInv(w)'
BY DEF RequestInv

\* A request is accepted.
LEMMA OpenStep ==
    ASSUME TablesInv, NEW w \in Workers, NEW l \in Labels, NEW j \in Job, Begin(w, l, j),
           UNCHANGED <<catalogue, trucks, gallery, drive, eligible>>, RequestInv(w)'
    PROVE  TablesInv'
<1>1. pc' = [pc EXCEPT ![w] = l] /\ job' = [job EXCEPT ![w] = j]
      /\ ops' \in Nat /\ edits' \in Nat
  BY DEF Begin, TablesInv, TypeOK
<1>2. UNCHANGED <<brands, models, trucks, assignments, eligible, gallery, stale, failed, now>>
  BY DEF catalogue, drive
<1>3. stale' \subseteq Trucks /\ failed' \subseteq Trucks /\ now' \in Nat
  BY <1>2 DEF TablesInv, TypeOK
<1> QED
  BY <1>1, <1>2, <1>3, SameGallery, LocalStep DEF TablesInv

\* A request goes on to its next statement, or ends.
LEMMA MoveStep ==
    ASSUME TablesInv, NEW w \in Workers, NEW l \in Labels, NEW j \in Job,
           pc' = [pc EXCEPT ![w] = l], job' = [job EXCEPT ![w] = j],
           UNCHANGED <<brands, models, trucks, assignments, eligible, gallery, bounds>>,
           stale' \subseteq Trucks, failed' \subseteq Trucks, now' \in Nat,
           RequestInv(w)'
    PROVE  TablesInv'
<1>1. ops' \in Nat /\ edits' \in Nat
  BY DEF bounds, TablesInv, TypeOK
<1> QED
  BY <1>1, SameGallery, LocalStep DEF TablesInv

LEMMA RespondStep ==
    ASSUME TablesInv, NEW w \in Workers, Respond(w),
           UNCHANGED <<brands, models, trucks, assignments, eligible, gallery>>,
           stale' \subseteq Trucks, failed' \subseteq Trucks, now' \in Nat
    PROVE  TablesInv'
<1>1. pc' = [pc EXCEPT ![w] = "idle"] /\ job' = [job EXCEPT ![w] = NoJob] /\ UNCHANGED bounds
  BY DEF Respond, Goto
<1>2. RequestInv(w)'
  BY <1>1, IdleInv DEF TablesInv, TypeOK
<1>3. "idle" \in Labels
  BY DEF Labels
<1> QED
  BY <1>1, <1>2, <1>3, NoJobType, MoveStep

-----------------------------------------------------------------------------
(* Brands and models.                                                      *)

\* The catalogue changes; the worker that changed it answers.
LEMMA CatalogueStep ==
    ASSUME TablesInv, CatalogueIntact',
           brands' \in [Brands -> {"new", "live", "gone"}],
           models' \in [Models -> {"new", "live", "gone"}],
           UNCHANGED <<trucks, gallery, drive, eligible, bounds>>,
           pc' \in [Workers -> Labels], job' \in [Workers -> Job],
           \A u \in Workers : pc'[u] = "idle" \/ (pc'[u] = pc[u] /\ job'[u] = job[u])
    PROVE  TablesInv'
<1>1. TypeOK'
  BY SameGallery DEF TablesInv, TypeOK, drive, bounds
<1>2. ASSUME NEW u \in Workers
      PROVE  RequestInv(u)'
  <2>1. CASE pc'[u] = "idle"
    BY <2>1, IdleInv
  <2>2. CASE pc'[u] = pc[u] /\ job'[u] = job[u]
    <3>1. TypeOK /\ RequestInv(u) /\ assignments' = assignments
      BY DEF TablesInv, drive
    <3>2. \A i \in Open(job[u].truck)' :
             i \in Open(job[u].truck) /\ assignments'[i].by = assignments[i].by
      BY <2>2, <3>1 DEF Open
    <3>3. pc[u] = "close" => job[u].row \in DOMAIN assignments'
      BY <3>1 DEF RequestInv
    <3> QED
      BY <2>2, <3>1, <3>2, <3>3, RequestStays
  <2> QED
    BY <2>1, <2>2
<1>3. PlatesDiffer' /\ DoubleDriverOnlyByRace' /\ UnfitOnlyIfOvertaken'
  BY DEF TablesInv, PlatesDiffer, DoubleDriverOnlyByRace, UnfitOnlyIfOvertaken, Open, drive
<1> QED
  BY <1>1, <1>2, <1>3, Assemble

LEMMA AddStep ==
    ASSUME TablesInv,
           \/ \E b \in Brands : AddBrand(b)
           \/ \E m \in Models : AddModel(m)
    PROVE  TablesInv'
<1>1. UNCHANGED <<trucks, gallery, drive, eligible, pc, job, bounds>>
  BY DEF AddBrand, AddModel
<1>2. /\ ModelBrand \in [Models -> Brands]
      /\ brands \in [Brands -> {"new", "live", "gone"}]
      /\ models \in [Models -> {"new", "live", "gone"}]
      /\ \A t \in Trucks : trucks[t] # None => trucks[t].model \in Models
  BY FleetAssumption DEF TablesInv, TypeOK, Truck
<1>3. CASE \E b \in Brands : AddBrand(b)
  <2>1. PICK b \in Brands : brands' = [brands EXCEPT ![b] = "live"] /\ models' = models
    BY <1>3 DEF AddBrand
  <2>2. CatalogueIntact'
    BY <1>1, <1>2, <2>1 DEF TablesInv, CatalogueIntact
  <2> QED
    BY <1>1, <1>2, <2>1, <2>2, CatalogueStep DEF TablesInv, TypeOK
<1>4. CASE \E m \in Models : AddModel(m)
  <2>1. PICK m \in Models : /\ models' = [models EXCEPT ![m] = "live"] /\ brands' = brands
                            /\ brands[ModelBrand[m]] = "live"
    BY <1>4 DEF AddModel
  <2>2. CatalogueIntact'
    BY <1>1, <1>2, <2>1 DEF TablesInv, CatalogueIntact
  <2> QED
    BY <1>1, <1>2, <2>1, <2>2, CatalogueStep DEF TablesInv, TypeOK
<1> QED
  BY <1>3, <1>4

LEMMA DeleteStep ==
    ASSUME TablesInv, NEW w \in Workers, DeleteBrand(w) \/ DeleteModel(w)
    PROVE  TablesInv'
<1>1. /\ UNCHANGED <<trucks, gallery, drive, eligible, bounds>>
      /\ pc' = [pc EXCEPT ![w] = "idle"] /\ job' = [job EXCEPT ![w] = NoJob]
  BY DEF DeleteBrand, DeleteModel, Respond, Goto
<1>2. /\ ModelBrand \in [Models -> Brands]
      /\ brands \in [Brands -> {"new", "live", "gone"}]
      /\ models \in [Models -> {"new", "live", "gone"}]
      /\ pc \in [Workers -> Labels] /\ job \in [Workers -> Job]
      /\ \A t \in Trucks : trucks[t] # None => trucks[t].model \in Models
  BY FleetAssumption DEF TablesInv, TypeOK, Truck
<1>3. /\ pc' \in [Workers -> Labels] /\ job' \in [Workers -> Job]
      /\ \A u \in Workers : pc'[u] = "idle" \/ (pc'[u] = pc[u] /\ job'[u] = job[u])
  BY <1>1, <1>2, NoJobType DEF Labels
<1>4. CASE UNCHANGED catalogue
  <2>1. CatalogueIntact'
    BY <1>1, <1>4 DEF TablesInv, CatalogueIntact, catalogue
  <2> QED
    BY <1>1, <1>2, <1>3, <1>4, <2>1, CatalogueStep DEF catalogue
<1>5. CASE DeleteBrand(w) /\ ~ UNCHANGED catalogue
  <2> DEFINE b == job[w].brand
             mine == {m \in Models : ModelBrand[m] = b /\ models[m] = "live"}
  <2>1. /\ brands' = [brands EXCEPT ![b] = "gone"]
        /\ models' = [m \in Models |-> IF m \in mine THEN "gone" ELSE models[m]]
        /\ \A t \in Trucks : trucks[t] # None => trucks[t].model \notin mine
    BY <1>5 DEF DeleteBrand
  <2>2. \A m \in Models : models'[m] = "live" =>
           models[m] = "live" /\ ModelBrand[m] # b
    BY <1>2, <2>1
  <2>3. CatalogueIntact'
    BY <1>1, <1>2, <2>1, <2>2 DEF TablesInv, CatalogueIntact
  <2> QED
    BY <1>1, <1>2, <1>3, <2>1, <2>3, CatalogueStep
<1>6. CASE DeleteModel(w) /\ ~ UNCHANGED catalogue
  <2>1. /\ models' = [models EXCEPT ![job[w].model] = "gone"] /\ brands' = brands
        /\ \A t \in Trucks : trucks[t] # None => trucks[t].model # job[w].model
    BY <1>6 DEF DeleteModel, catalogue
  <2>2. CatalogueIntact'
    BY <1>1, <1>2, <2>1 DEF TablesInv, CatalogueIntact
  <2> QED
    BY <1>1, <1>2, <1>3, <2>1, <2>2, CatalogueStep
<1> QED
  BY <1>4, <1>5, <1>6

LEMMA OpenDeleteStep ==
    ASSUME TablesInv, NEW w \in Workers,
           \/ \E b \in Brands : OpenDeleteBrand(w, b)
           \/ \E m \in Models : OpenDeleteModel(w, m)
    PROVE  TablesInv'
<1>1. ASSUME NEW b \in Brands, OpenDeleteBrand(w, b)
      PROVE  TablesInv'
  <2> DEFINE j == [NoJob EXCEPT !.brand = b]
  <2>1. j \in Job /\ j.brand = b
    BY NoJobType DEF NoJob, Job
  <2>2. Begin(w, "drop_brand", j) /\ UNCHANGED <<catalogue, trucks, gallery, drive, eligible>>
    BY <1>1 DEF OpenDeleteBrand
  <2>3. pc'[w] = "drop_brand" /\ job'[w] = j
    BY <2>2 DEF Begin, TablesInv, TypeOK
  <2>4. RequestInv(w)'
    BY <2>1, <2>3 DEF RequestInv
  <2>5. "drop_brand" \in Labels
    BY DEF Labels
  <2> HIDE DEF j
  <2> QED
    BY <2>1, <2>2, <2>4, <2>5, OpenStep
<1>2. ASSUME NEW m \in Models, OpenDeleteModel(w, m)
      PROVE  TablesInv'
  <2> DEFINE j == [NoJob EXCEPT !.model = m]
  <2>1. j \in Job /\ j.model = m
    BY NoJobType DEF NoJob, Job
  <2>2. Begin(w, "drop_model", j) /\ UNCHANGED <<catalogue, trucks, gallery, drive, eligible>>
    BY <1>2 DEF OpenDeleteModel
  <2>3. pc'[w] = "drop_model" /\ job'[w] = j
    BY <2>2 DEF Begin, TablesInv, TypeOK
  <2>4. RequestInv(w)'
    BY <2>1, <2>3 DEF RequestInv
  <2>5. "drop_model" \in Labels
    BY DEF Labels
  <2> HIDE DEF j
  <2> QED
    BY <2>1, <2>2, <2>4, <2>5, OpenStep
<1> QED
  BY <1>1, <1>2

-----------------------------------------------------------------------------
(* Trucks and their photos.                                                *)

LEMMA OpenFormStep ==
    ASSUME TablesInv, NEW w \in Workers, NEW f \in Posts,
           \/ OpenCreate(w, f)
           \/ \E t \in Trucks : \E del \in SUBSET DOMAIN photos[t] : OpenUpdate(w, t, f, del)
    PROVE  TablesInv'
<1>1. f \in TruckForm /\ f.add \in Nat /\ trucks' = trucks
  BY FleetAssumption DEF TruckForm, OpenCreate, OpenUpdate
<1>2. CASE OpenCreate(w, f)
  <2> DEFINE j == [NoJob EXCEPT !.form = f, !.add = f.add]
  <2>1. j \in Job /\ j.form = f
    BY <1>1, NoJobType DEF NoJob, Job
  <2>2. Begin(w, "create", j) /\ UNCHANGED <<catalogue, trucks, gallery, drive, eligible>>
    BY <1>2 DEF OpenCreate
  <2>3. pc'[w] = "create" /\ job'[w] = j
    BY <2>2 DEF Begin, TablesInv, TypeOK
  <2>4. RequestInv(w)'
    BY <1>1, <2>1, <2>3 DEF RequestInv
  <2>5. "create" \in Labels
    BY DEF Labels
  <2> HIDE DEF j
  <2> QED
    BY <2>1, <2>2, <2>4, <2>5, OpenStep
<1>3. CASE \E t \in Trucks : \E del \in SUBSET DOMAIN photos[t] : OpenUpdate(w, t, f, del)
  <2>1. PICK t \in Trucks : \E del \in SUBSET DOMAIN photos[t] : OpenUpdate(w, t, f, del)
    BY <1>3
  <2>2. PICK del \in SUBSET DOMAIN photos[t] : OpenUpdate(w, t, f, del)
    BY <2>1
  <2> DEFINE j == [NoJob EXCEPT !.truck = t, !.copy = trucks[t], !.form = f,
                                !.del = del, !.add = f.add]
  <2>3. del \in SUBSET Nat /\ trucks[t] \in Truck \cup {None} /\ trucks[t] # None
    BY <2>2 DEF OpenUpdate, TablesInv, TypeOK, GalleryOK
  <2>4. j \in Job /\ j.form = f /\ j.truck = t
    BY <1>1, <2>3, NoJobType DEF NoJob, Job
  <2>5. Begin(w, "update", j) /\ UNCHANGED <<catalogue, trucks, gallery, drive, eligible>>
    BY <2>2 DEF OpenUpdate
  <2>6. pc'[w] = "update" /\ job'[w] = j
    BY <2>5 DEF Begin, TablesInv, TypeOK
  <2>7. RequestInv(w)'
    BY <1>1, <2>3, <2>4, <2>6 DEF RequestInv
  <2>8. "update" \in Labels
    BY DEF Labels
  <2> HIDE DEF j
  <2> QED
    BY <2>4, <2>5, <2>7, <2>8, OpenStep
<1> QED
  BY <1>2, <1>3

\* The row of a truck is inserted or written over.
LEMMA StoreTruckStep ==
    ASSUME TablesInv, NEW w \in Workers, NEW t \in Trucks, NEW f \in TruckForm, FullClean(f, t),
           trucks' = [trucks EXCEPT ![t] = Row(f)],
           pc' = [pc EXCEPT ![w] = "photos"], job' \in [Workers -> Job], job'[w].truck = t,
           \A u \in Workers \ {w} :
              /\ job'[u] = job[u] \/ job'[u] = [job[u] EXCEPT !.raced = TRUE]
              /\ job[u].truck = t /\ trucks[t] # None => job'[u].raced,
           UNCHANGED <<catalogue, gallery, assignments, failed, now, eligible, bounds>>,
           stale' \subseteq Trucks
    PROVE  TablesInv'
<1>1. /\ ModelBrand \in [Models -> Brands] /\ None \notin Truck
      /\ pc \in [Workers -> Labels] /\ trucks \in [Trucks -> Truck \cup {None}]
  BY FleetAssumption DEF TablesInv, TypeOK
<1>2. Row(f) \in Truck
  BY <1>1 DEF Row, Truck, TruckForm
<1>3. TypeOK'
  <2>1. trucks' \in [Trucks -> Truck \cup {None}] /\ pc' \in [Workers -> Labels]
    BY <1>1, <1>2 DEF Labels
  <2> QED
    BY <2>1, SameGallery DEF TablesInv, TypeOK, catalogue, bounds
<1>4. \A u \in Trucks : trucks'[u] = IF u = t THEN Row(f) ELSE trucks[u]
  BY <1>1
<1>5. CatalogueIntact'
  <2>1. models[f.model] = "live" /\ Row(f).model = f.model
        /\ Row(f).brand = ModelBrand[f.model]
    BY DEF FullClean, Row
  <2> HIDE DEF Row
  <2> QED
    BY <1>4, <2>1 DEF TablesInv, CatalogueIntact, catalogue
<1>6. PlatesDiffer'
  <2>1. Row(f).plate = f.plate
    BY DEF Row
  <2>2. \A u \in Trucks \ {t} : trucks[u] # None => trucks[u].plate # f.plate
    BY DEF FullClean
  <2> HIDE DEF Row
  <2> QED
    BY <1>4, <2>1, <2>2 DEF TablesInv, PlatesDiffer
<1>7. DoubleDriverOnlyByRace' /\ UnfitOnlyIfOvertaken'
  BY DEF TablesInv, DoubleDriverOnlyByRace, UnfitOnlyIfOvertaken, Open
<1>8. ASSUME NEW u \in Workers
      PROVE  RequestInv(u)'
  <2>1. CASE u = w
    <3>1. pc'[w] = "photos" /\ trucks'[t] # None
      BY <1>1, <1>2, <1>4
    <3> QED
      BY <2>1, <3>1 DEF RequestInv
  <2>2. CASE u # w
    <3>1. pc'[u] = pc[u] /\ TypeOK /\ RequestInv(u)
      BY <1>1, <2>2 DEF TablesInv
    <3>2. job'[u] = job[u] \/ job'[u] = [job[u] EXCEPT !.raced = TRUE]
      BY <2>2
    <3>3. job'[u].truck = job[u].truck
      <4>1. job[u] \in Job
        BY <3>1 DEF TypeOK
      <4> QED
        BY <3>2, <4>1 DEF Job
    <3>4. \A i \in Open(job[u].truck)' :
             i \in Open(job[u].truck) /\ assignments'[i].by = assignments[i].by
      BY <3>3 DEF Open
    <3>5. pc[u] = "close" => job[u].row \in DOMAIN assignments'
      BY <3>1 DEF RequestInv
    <3>6. \A x \in Trucks : job[u].truck = x /\ trucks[x] # None =>
             trucks'[x] # None /\ (job'[u].raced \/ trucks'[x] = trucks[x])
      BY <1>1, <1>2, <1>4, <2>2
    <3> QED
      BY <3>1, <3>2, <3>4, <3>5, <3>6, RequestStays
  <2> QED
    BY <2>1, <2>2
<1> QED
  BY <1>3, <1>5, <1>6, <1>7, <1>8, Assemble

LEMMA CreateTruckStep ==
    ASSUME TablesInv, NEW w \in Workers, CreateTruck(w)
    PROVE  TablesInv'
<1>1. job[w].form \in TruckForm /\ job \in [Workers -> Job]
  BY DEF CreateTruck, TablesInv, RequestInv, TypeOK
<1>2. stale' \subseteq Trucks /\ failed' \subseteq Trucks /\ now' \in Nat
      /\ UNCHANGED <<brands, models, assignments, eligible, gallery, stale, failed, now>>
  BY DEF CreateTruck, catalogue, drive, TablesInv, TypeOK
<1>3. CASE \E t \in Trucks : trucks[t] = None /\ FullClean(job[w].form, t)
  <2>1. PICK t \in Trucks :
           /\ trucks[t] = None
           /\ trucks' = [trucks EXCEPT ![t] = Row(job[w].form)]
           /\ job' = [job EXCEPT ![w].truck = t]
           /\ Goto(w, "photos")
    BY <1>3 DEF CreateTruck
  <2>2. FullClean(job[w].form, t)
    <3>1. PICK x \in Trucks : trucks[x] = None /\ FullClean(job[w].form, x)
      BY <1>3
    <3> QED
      BY <2>1, <3>1 DEF FullClean
  <2>3. [job[w] EXCEPT !.truck = t] \in Job /\ job' = [job EXCEPT ![w] = [job[w] EXCEPT !.truck = t]]
    BY <1>1, <2>1 DEF Job
  <2>4. job' \in [Workers -> Job] /\ job'[w].truck = t
        /\ \A u \in Workers \ {w} : job'[u] = job[u]
    BY <1>1, <2>3 DEF Job
  <2>5. pc' = [pc EXCEPT ![w] = "photos"] /\ UNCHANGED bounds /\ UNCHANGED catalogue
    BY <2>1 DEF Goto, CreateTruck
  <2> QED
    BY <1>1, <1>2, <2>1, <2>2, <2>4, <2>5, StoreTruckStep
<1>4. CASE ~ \E t \in Trucks : trucks[t] = None /\ FullClean(job[w].form, t)
  <2>1. Respond(w) /\ trucks' = trucks
    BY <1>4 DEF CreateTruck
  <2> QED
    BY <1>2, <2>1, RespondStep
<1> QED
  BY <1>3, <1>4

LEMMA UpdateTruckStep ==
    ASSUME TablesInv, NEW w \in Workers, UpdateTruck(w)
    PROVE  TablesInv'
<1> DEFINE t == job[w].truck
           f == job[w].form
<1>1. /\ f \in TruckForm /\ t \in Trucks /\ job \in [Workers -> Job]
      /\ stale \subseteq Trucks /\ failed \subseteq Trucks /\ now \in Nat
  BY DEF UpdateTruck, TablesInv, RequestInv, TypeOK
<1>2. UNCHANGED <<catalogue, gallery, assignments, failed, now, eligible>>
  BY DEF UpdateTruck
<1>3. CASE FullClean(f, t)
  <2>1. /\ trucks' = [trucks EXCEPT ![t] = Row(f)] /\ stale' = stale \ {t}
        /\ job' = Overtake(w, t) /\ pc' = [pc EXCEPT ![w] = "photos"] /\ UNCHANGED bounds
    BY <1>3 DEF UpdateTruck, Goto
  <2>2. ASSUME NEW u \in Workers
        PROVE  [job[u] EXCEPT !.raced = TRUE] \in Job /\ [job[u] EXCEPT !.raced = TRUE].raced
    BY <1>1 DEF Job
  <2>3. \A u \in Workers :
           job'[u] = IF u # w /\ job[u].truck = t THEN [job[u] EXCEPT !.raced = TRUE] ELSE job[u]
    BY <2>1 DEF Overtake
  <2>4. job' \in [Workers -> Job]
    BY <1>1, <2>1, <2>2 DEF Overtake
  <2>5. job'[w].truck = t
    BY <2>3
  <2>6. \A u \in Workers \ {w} :
           /\ job'[u] = job[u] \/ job'[u] = [job[u] EXCEPT !.raced = TRUE]
           /\ job[u].truck = t /\ trucks[t] # None => job'[u].raced
    BY <2>2, <2>3
  <2> HIDE DEF t, f
  <2> QED
    BY <1>1, <1>2, <1>3, <2>1, <2>4, <2>5, <2>6, StoreTruckStep
<1>4. CASE ~ FullClean(f, t)
  <2>1. Respond(w) /\ UNCHANGED <<trucks, stale>>
    BY <1>4 DEF UpdateTruck
  <2> QED
    BY <1>1, <1>2, <2>1, RespondStep DEF catalogue
<1> QED
  BY <1>3, <1>4

\* DeletePhoto, CountPhotos and UploadPhoto keep the truck they are about.
LEMMA PhotoStep ==
    ASSUME TablesInv, NEW w \in Workers, DeletePhoto(w) \/ CountPhotos(w) \/ UploadPhoto(w)
    PROVE  TablesInv'
<1> DEFINE t == job[w].truck
<1>1. /\ pc[w] \in {"photos", "upload"} /\ t \in Trucks /\ trucks[t] # None
      /\ pc[w] = "upload" => job[w].add > 0
      /\ job \in [Workers -> Job] /\ job[w] \in Job
      /\ stale \subseteq Trucks /\ failed \subseteq Trucks /\ now \in Nat
      /\ ops \in Nat /\ edits \in Nat /\ GalleryOK
  BY DEF DeletePhoto, CountPhotos, UploadPhoto, TablesInv, RequestInv, TypeOK
<1>2. UNCHANGED <<brands, models, trucks, assignments, eligible, stale, failed, now>>
  BY DEF DeletePhoto, CountPhotos, UploadPhoto, catalogue, drive
<1>3. ASSUME NEW j \in Job, NEW l \in {"photos", "upload"}, j.truck = t, l = "upload" => j.add > 0,
             job' = [job EXCEPT ![w] = j], Goto(w, l), GalleryOK'
      PROVE  TablesInv'
  <2>1. pc' = [pc EXCEPT ![w] = l] /\ ops' = ops /\ edits' = edits
    BY <1>3 DEF Goto, bounds
  <2>2. pc'[w] = l /\ job'[w] = j
    BY <1>1, <1>3, <2>1 DEF TablesInv, TypeOK
  <2>3. RequestInv(w)'
    BY <1>1, <1>2, <1>3, <2>2 DEF RequestInv
  <2>4. l \in Labels
    BY DEF Labels
  <2>5. stale' \subseteq Trucks /\ failed' \subseteq Trucks /\ now' \in Nat
        /\ ops' \in Nat /\ edits' \in Nat
    BY <1>1, <1>2, <2>1
  <2> QED
    BY <1>1, <1>2, <1>3, <2>1, <2>3, <2>4, <2>5, LocalStep
<1>4. CASE DeletePhoto(w)
  <2>1. PICK p \in job[w].del :
           /\ job' = [job EXCEPT ![w].del = @ \ {p}]
           /\ photos' = [photos EXCEPT ![t] = [q \in DOMAIN @ \ {p} |-> @[q]]]
    BY <1>4 DEF DeletePhoto
  <2> DEFINE j == [job[w] EXCEPT !.del = job[w].del \ {p}]
             rest == [q \in DOMAIN photos[t] \ {p} |-> photos[t][q]]
  <2>2. j \in Job /\ j.truck = t /\ job' = [job EXCEPT ![w] = j]
    BY <1>1, <2>1 DEF Job
  <2>3. photos' = [photos EXCEPT ![t] = rest]
    BY <2>1
  <2>4. /\ DOMAIN rest \subseteq Nat /\ rest \in [DOMAIN rest -> Nat]
        /\ IsFiniteSet(DOMAIN rest)
    <3>1. /\ DOMAIN photos[t] \subseteq Nat /\ photos[t] \in [DOMAIN photos[t] -> Nat]
          /\ IsFiniteSet(DOMAIN photos[t])
      BY <1>1 DEF GalleryOK
    <3>2. DOMAIN rest = DOMAIN photos[t] \ {p} /\ IsFiniteSet(DOMAIN photos[t] \ {p})
      BY <3>1, FS_RemoveElement
    <3> QED
      BY <3>1, <3>2
  <2> HIDE DEF rest, t, j
  <2>5. uploads' = uploads
    BY <1>4 DEF DeletePhoto
  <2>6. GalleryOK'
    BY <1>1, <2>3, <2>4, <2>5 DEF GalleryOK
  <2>7. Goto(w, "photos")
    BY <1>4 DEF DeletePhoto
  <2> QED
    BY <1>1, <1>3, <2>2, <2>6, <2>7
<1>5. CASE CountPhotos(w)
  <2>1. UNCHANGED gallery /\ GalleryOK'
    BY <1>1, <1>5 DEF CountPhotos, GalleryOK, gallery
  <2>2. CASE job[w].add = 0
    <3>1. Respond(w)
      BY <1>5, <2>2 DEF CountPhotos
    <3> QED
      BY <1>1, <1>2, <2>1, <3>1, RespondStep
  <2>3. CASE job[w].add # 0
    <3> DEFINE n == Cardinality(DOMAIN photos[t])
               j == [job[w] EXCEPT !.next = n, !.seen = n]
    <3>1. Goto(w, "upload") /\ job' = [job EXCEPT ![w] = j]
      BY <1>5, <2>3 DEF CountPhotos
    <3>2. n \in Nat
      <4>1. IsFiniteSet(DOMAIN photos[t])
        BY <1>1 DEF GalleryOK
      <4> QED
        BY <4>1, CountIsNat
    <3> HIDE DEF n
    <3>3. job[w].add \in Nat /\ job[w].add > 0
      BY <1>1, <2>3 DEF Job
    <3>4. j \in Job /\ j.truck = t /\ j.add > 0
      BY <1>1, <3>2, <3>3 DEF Job
    <3> HIDE DEF j, t
    <3> QED
      BY <1>3, <2>1, <3>1, <3>4
  <2> QED
    BY <2>2, <2>3
<1>6. CASE UploadPhoto(w)
  <2> DEFINE p == uploads[t] + 1
             more == [q \in DOMAIN photos[t] \cup {p} |->
                        IF q = p THEN job[w].next ELSE photos[t][q]]
  <2>1. photos' = [photos EXCEPT ![t] = more] /\ uploads' = [uploads EXCEPT ![t] = p]
    BY <1>6 DEF UploadPhoto
  <2>2. p \in Nat /\ job[w].next \in Nat
    BY <1>1 DEF GalleryOK, Job
  <2>3. /\ DOMAIN more \subseteq Nat /\ more \in [DOMAIN more -> Nat]
        /\ IsFiniteSet(DOMAIN more)
    <3>1. /\ DOMAIN photos[t] \subseteq Nat /\ photos[t] \in [DOMAIN photos[t] -> Nat]
          /\ IsFiniteSet(DOMAIN photos[t])
      BY <1>1 DEF GalleryOK
    <3>2. DOMAIN more = DOMAIN photos[t] \cup {p} /\ IsFiniteSet(DOMAIN photos[t] \cup {p})
      BY <3>1, FS_AddElement
    <3> HIDE DEF p
    <3> QED
      BY <2>2, <3>1, <3>2
  <2> HIDE DEF more, p
  <2>4. GalleryOK'
    <3> HIDE DEF t
    <3> QED
      BY <1>1, <2>1, <2>2, <2>3 DEF GalleryOK
  <2>5. CASE job[w].add = 1
    <3>1. Respond(w)
      BY <1>6, <2>5 DEF UploadPhoto
    <3>2. NoJob \in Job /\ "idle" \in Labels
      BY NoJobType DEF Labels
    <3>3. pc' = [pc EXCEPT ![w] = "idle"] /\ job' = [job EXCEPT ![w] = NoJob]
          /\ ops' = ops /\ edits' = edits
      BY <3>1 DEF Respond, Goto, bounds
    <3>4. RequestInv(w)'
      BY <3>3, IdleInv DEF TablesInv, TypeOK
    <3>5. stale' \subseteq Trucks /\ failed' \subseteq Trucks /\ now' \in Nat
          /\ ops' \in Nat /\ edits' \in Nat
      BY <1>1, <1>2, <3>3
    <3> QED
      BY <1>1, <1>2, <2>4, <3>2, <3>3, <3>4, <3>5, LocalStep
  <2>6. CASE job[w].add # 1
    <3> DEFINE j == [job[w] EXCEPT !.add = job[w].add - 1, !.next = job[w].next + 1,
                                   !.seen = job[w].seen + 1]
    <3>1. Goto(w, "upload") /\ job' = [job EXCEPT ![w] = j]
      BY <1>6, <2>6 DEF UploadPhoto
    <3>2. pc[w] = "upload" /\ job[w].add \in Nat /\ job[w].next \in Nat /\ job[w].seen \in Nat
      BY <1>1, <1>6 DEF UploadPhoto, Job
    <3>3. job[w].add - 1 \in Nat /\ job[w].add - 1 > 0
          /\ job[w].next + 1 \in Nat /\ job[w].seen + 1 \in Nat
      BY <1>1, <2>6, <3>2
    <3>4. j \in Job /\ j.truck = t /\ j.add > 0
      BY <1>1, <3>3 DEF Job
    <3> HIDE DEF j, t
    <3> QED
      BY <1>3, <2>4, <3>1, <3>4
  <2> QED
    BY <2>5, <2>6
<1> QED
  BY <1>4, <1>5, <1>6

-----------------------------------------------------------------------------
(* Drivers.                                                                *)

LEMMA OpenTruckStep ==
    ASSUME TablesInv, NEW w \in Workers, NEW t \in Trucks, NEW l \in {"choose", "find"},
           OpenTruck(w, t, l)
    PROVE  TablesInv'
<1> DEFINE j == [NoJob EXCEPT !.truck = t, !.copy = trucks[t]]
<1>1. trucks[t] \in Truck /\ trucks' = trucks
  BY DEF OpenTruck, TablesInv, TypeOK
<1>2. j \in Job /\ j.truck = t /\ j.copy = trucks[t]
  BY <1>1, NoJobType DEF NoJob, Job
<1>3. Begin(w, l, j) /\ UNCHANGED <<catalogue, trucks, gallery, drive, eligible>>
  BY DEF OpenTruck
<1>4. pc'[w] = l /\ job'[w] = j /\ trucks[t] # None
  BY <1>3 DEF Begin, TablesInv, TypeOK, OpenTruck
<1> HIDE DEF j
<1>5. RequestInv(w)'
  BY <1>1, <1>2, <1>4 DEF RequestInv
<1>6. l \in Labels
  BY DEF Labels
<1> QED
  BY <1>2, <1>3, <1>5, <1>6, OpenStep

\* What holds of a worker about to serve a statement of the drivers' views.
LEMMA DriveFacts ==
    ASSUME TablesInv, NEW w \in Workers, pc[w] \in {"choose", "clean", "insert", "touch", "find", "close"}
    PROVE  /\ job \in [Workers -> Job] /\ pc \in [Workers -> Labels] /\ job[w] \in Job
           /\ job[w].truck \in Trucks /\ trucks[job[w].truck] # None
           /\ job[w].copy \in Truck
           /\ job[w].raced \/ job[w].copy = trucks[job[w].truck]
           /\ stale \subseteq Trucks /\ failed \subseteq Trucks
           /\ now \in Nat /\ ops \in Nat /\ edits \in Nat
           /\ assignments \in Seq(Assignment)
BY DEF TablesInv, TypeOK, RequestInv

LEMMA ChooseDriverStep ==
    ASSUME TablesInv, NEW w \in Workers, NEW d \in Drivers, ChooseDriver(w, d)
    PROVE  TablesInv'
<1>1. pc[w] = "choose"
      /\ UNCHANGED <<brands, models, trucks, assignments, eligible, gallery, stale, failed>>
  BY DEF ChooseDriver, catalogue
<1>2. CASE eligible[d]
  <2> DEFINE j == [job[w] EXCEPT !.driver = d, !.at = now + 1]
  <2>1. job' = [job EXCEPT ![w] = j] /\ now' = now + 1 /\ Goto(w, "clean")
    BY <1>2 DEF ChooseDriver
  <2>2. pc' = [pc EXCEPT ![w] = "clean"] /\ UNCHANGED bounds /\ now' \in Nat /\ now + 1 \in Nat
    BY <1>1, <2>1, DriveFacts DEF Goto
  <2>3. j \in Job /\ j.driver = d /\ j.truck = job[w].truck /\ j.copy = job[w].copy
        /\ j.raced = job[w].raced
    BY <1>1, <2>2, DriveFacts DEF Job
  <2> HIDE DEF j
  <2>4. pc'[w] = "clean" /\ job'[w] = j
    BY <1>1, <2>1, <2>2, DriveFacts
  <2>5. RequestInv(w)'
    BY <1>1, <1>2, <2>3, <2>4, DriveFacts DEF RequestInv
  <2>6. "clean" \in Labels /\ stale' \subseteq Trucks /\ failed' \subseteq Trucks
    BY <1>1, DriveFacts DEF Labels
  <2> QED
    BY <1>1, <2>1, <2>2, <2>3, <2>5, <2>6, MoveStep
<1>3. CASE ~ eligible[d]
  <2>1. Respond(w) /\ now' = now
    BY <1>3 DEF ChooseDriver
  <2>2. stale' \subseteq Trucks /\ failed' \subseteq Trucks /\ now' \in Nat
    BY <1>1, <2>1, DriveFacts
  <2> QED
    BY <1>1, <2>1, <2>2, RespondStep
<1> QED
  BY <1>2, <1>3

\* A statement that leaves the local variables alone and only reads.
LEMMA ReadStep ==
    ASSUME TablesInv, NEW w \in Workers, NEW l \in Labels, NEW j \in Job,
           Goto(w, l), job' = [job EXCEPT ![w] = j], RequestInv(w)',
           UNCHANGED <<catalogue, trucks, gallery, drive, eligible>>
    PROVE  TablesInv'
<1>1. /\ pc' = [pc EXCEPT ![w] = l]
      /\ UNCHANGED <<brands, models, trucks, assignments, eligible, gallery, bounds>>
      /\ stale' = stale /\ failed' = failed /\ now' = now
  BY DEF Goto, catalogue, drive
<1>2. stale' \subseteq Trucks /\ failed' \subseteq Trucks /\ now' \in Nat
  BY <1>1 DEF TablesInv, TypeOK
<1> QED
  BY <1>1, <1>2, MoveStep

LEMMA QuietRespondStep ==
    ASSUME TablesInv, NEW w \in Workers, Respond(w),
           UNCHANGED <<catalogue, trucks, gallery, drive, eligible>>
    PROVE  TablesInv'
<1>1. /\ Goto(w, "idle") /\ job' = [job EXCEPT ![w] = NoJob]
      /\ pc' = [pc EXCEPT ![w] = "idle"]
  BY DEF Respond, Goto
<1>2. RequestInv(w)' /\ "idle" \in Labels
  BY <1>1, IdleInv DEF TablesInv, TypeOK, Labels
<1> QED
  BY <1>1, <1>2, NoJobType, ReadStep

LEMMA CleanAssignmentStep ==
    ASSUME TablesInv, NEW w \in Workers, CleanAssignment(w)
    PROVE  TablesInv'
<1>1. pc[w] = "clean" /\ UNCHANGED <<catalogue, trucks, gallery, drive, eligible>>
  BY DEF CleanAssignment
<1>2. CASE job[w].copy.active /\ Open(job[w].truck) = {}
  <2>1. Goto(w, "insert") /\ job' = job
    BY <1>2 DEF CleanAssignment
  <2>2. pc'[w] = "insert" /\ job' = [job EXCEPT ![w] = job[w]]
    BY <1>1, <2>1, DriveFacts DEF Goto
  <2>3. Open(job[w].truck)' = {}
    BY <1>1, <1>2, <2>1 DEF Open, drive
  <2>4. RequestInv(w)
    BY DEF TablesInv
  <2>5. RequestInv(w)'
    BY <1>1, <1>2, <2>1, <2>2, <2>3, <2>4 DEF RequestInv
  <2>6. "insert" \in Labels /\ job[w] \in Job
    BY <1>1, DriveFacts DEF Labels
  <2> QED
    BY <1>1, <2>1, <2>2, <2>5, <2>6, ReadStep
<1>3. CASE ~ (job[w].copy.active /\ Open(job[w].truck) = {})
  <2>1. Respond(w)
    BY <1>3 DEF CleanAssignment
  <2> QED
    BY <1>1, <2>1, QuietRespondStep
<1> QED
  BY <1>2, <1>3

\* A row of the table changes, is closed or is added at its end.
LEMMA AssignmentStep ==
    ASSUME TablesInv, NEW w \in Workers, pc' = [pc EXCEPT ![w] = "touch"], job' = job,
           pc[w] \in {"insert", "close"},
           UNCHANGED <<catalogue, trucks, gallery, failed, eligible, bounds>>,
           now' \in Nat, stale' = stale \cup {job[w].truck},
           assignments' \in Seq(Assignment), DOMAIN assignments \subseteq DOMAIN assignments',
           DoubleDriverOnlyByRace', UnfitOnlyIfOvertaken',
           \A u \in Workers \ {w} : \A i \in DOMAIN assignments' :
              assignments'[i].truck = job[u].truck /\ assignments'[i].until = 0 =>
                 \/ assignments'[i].by # u
                 \/ /\ i \in DOMAIN assignments /\ assignments[i].until = 0
                    /\ assignments[i].truck = assignments'[i].truck
                    /\ assignments[i].by = assignments'[i].by,
           \A i \in DOMAIN assignments :
              assignments'[i] = assignments[i] \/ assignments'[i].closer = w
    PROVE  TablesInv'
<1>1. TypeOK'
  <2>1. pc' \in [Workers -> Labels] /\ stale' \subseteq Trucks
    BY DriveFacts DEF Labels
  <2> QED
    BY <2>1, SameGallery DEF TablesInv, TypeOK, catalogue, bounds
<1>2. CatalogueIntact' /\ PlatesDiffer'
  BY DEF TablesInv, CatalogueIntact, PlatesDiffer, catalogue
<1>3. ASSUME NEW u \in Workers
      PROVE  RequestInv(u)'
  <2>1. CASE u = w
    <3>1. pc'[w] = "touch" /\ job'[w] = job[w]
      BY DriveFacts
    <3> QED
      BY <2>1, <3>1, DriveFacts DEF RequestInv
  <2>2. CASE u # w
    <3>1. pc'[u] = pc[u] /\ TypeOK /\ RequestInv(u)
      <4>1. pc \in [Workers -> Labels]
        BY DriveFacts
      <4>2. pc'[u] = pc[u]
        BY <2>2, <4>1
      <4> QED
        BY <4>2 DEF TablesInv
    <3>2. \A i \in Open(job[u].truck)' :
             assignments'[i].by # u \/ (i \in Open(job[u].truck) /\ assignments'[i].by = assignments[i].by)
      <4> TAKE i \in Open(job[u].truck)'
      <4>1. i \in DOMAIN assignments' /\ assignments'[i].truck = job[u].truck
            /\ assignments'[i].until = 0
        BY DEF Open
      <4> QED
        BY <2>2, <4>1 DEF Open
    <3>3. pc[u] = "close" =>
             /\ job[u].row \in DOMAIN assignments'
             /\ \/ assignments'[job[u].row] = assignments[job[u].row]
                \/ assignments'[job[u].row].closer # u
      BY <2>2, <3>1 DEF RequestInv
    <3> QED
      BY <3>1, <3>2, <3>3, RequestStays
  <2> QED
    BY <2>1, <2>2
<1> QED
  BY <1>1, <1>2, <1>3, Assemble

LEMMA InsertAssignmentStep ==
    ASSUME TablesInv, NEW w \in Workers, InsertAssignment(w)
    PROVE  TablesInv'
<1> DEFINE t == job[w].truck
           d == job[w].driver
           s == (trucks[t].active /\ eligible[d]) \/ job[w].raced
           a == [truck |-> t, driver |-> d, at |-> job[w].at, until |-> 0, by |-> w,
                 closer |-> None, sound |-> s]
           n == Len(assignments)
<1>1. /\ pc[w] = "insert" /\ assignments' = Append(assignments, a)
      /\ stale' = stale \cup {t} /\ pc' = [pc EXCEPT ![w] = "touch"] /\ job' = job
      /\ UNCHANGED <<catalogue, trucks, gallery, failed, now, eligible, bounds>>
  BY DEF InsertAssignment, Goto
<1>2. /\ d \in Drivers /\ (job[w].raced \/ eligible[d])
      /\ job[w].copy.active /\ \A i \in Open(t) : assignments[i].by # w
  BY <1>1 DEF TablesInv, RequestInv
<1>3. s
  <2>1. CASE job[w].raced
    BY <2>1
  <2>2. CASE ~ job[w].raced
    <3>1. eligible[d] /\ job[w].copy = trucks[t]
      BY <1>1, <1>2, <2>2, DriveFacts
    <3> QED
      BY <1>2, <3>1
  <2> QED
    BY <2>1, <2>2
<1>4. a \in Assignment
  <2>1. job[w].at \in Nat /\ t \in Trucks
    BY <1>1, DriveFacts DEF Job
  <2>2. s \in BOOLEAN
    OBVIOUS
  <2> HIDE DEF s, t, d
  <2> QED
    BY <1>2, <2>1, <2>2 DEF Assignment
<1>5. a.truck = t /\ a.until = 0 /\ a.by = w /\ a.sound
  BY <1>3
<1> HIDE DEF a, s
<1>6. /\ n \in Nat /\ DOMAIN assignments = 1 .. n
      /\ assignments' \in Seq(Assignment) /\ DOMAIN assignments' = 1 .. n + 1
      /\ \A i \in 1 .. n : assignments'[i] = assignments[i]
      /\ assignments'[n + 1] = a
  BY <1>1, <1>4, DriveFacts, LenProperties, AppendProperties
<1>7. DoubleDriverOnlyByRace'
  <2>1. ASSUME NEW x \in Trucks, NEW i \in Open(x)', NEW k \in Open(x)', i # k
        PROVE  assignments'[i].by # assignments'[k].by
    <3>1. /\ i \in 1 .. n + 1 /\ k \in 1 .. n + 1
          /\ assignments'[i].truck = x /\ assignments'[i].until = 0
          /\ assignments'[k].truck = x /\ assignments'[k].until = 0
      BY <1>6 DEF Open
    <3>2. CASE i = n + 1
      <4>1. k \in 1 .. n /\ x = t
        BY <1>5, <1>6, <2>1, <3>1, <3>2
      <4>2. k \in Open(t) /\ assignments'[k].by = assignments[k].by
        BY <1>6, <3>1, <4>1 DEF Open
      <4> QED
        BY <1>2, <1>5, <1>6, <3>2, <4>2
    <3>3. CASE k = n + 1
      <4>1. i \in 1 .. n /\ x = t
        BY <1>5, <1>6, <2>1, <3>1, <3>3
      <4>2. i \in Open(t) /\ assignments'[i].by = assignments[i].by
        BY <1>6, <3>1, <4>1 DEF Open
      <4> QED
        BY <1>2, <1>5, <1>6, <3>3, <4>2
    <3>4. CASE i # n + 1 /\ k # n + 1
      <4>1. i \in 1 .. n /\ k \in 1 .. n
        BY <1>6, <3>1, <3>4
      <4>2. i \in Open(x) /\ k \in Open(x)
        BY <1>6, <3>1, <4>1 DEF Open
      <4> QED
        BY <1>6, <2>1, <4>1, <4>2 DEF TablesInv, DoubleDriverOnlyByRace
    <3> QED
      BY <3>2, <3>3, <3>4
  <2> QED
    BY <2>1 DEF DoubleDriverOnlyByRace
<1>8. UnfitOnlyIfOvertaken'
  <2>1. \A i \in 1 .. n : assignments[i].sound
    BY <1>6 DEF TablesInv, UnfitOnlyIfOvertaken
  <2>2. \A i \in 1 .. n + 1 : i \in 1 .. n \/ i = n + 1
    BY <1>6
  <2> QED
    BY <1>5, <1>6, <2>1, <2>2 DEF UnfitOnlyIfOvertaken
<1>9. \A u \in Workers \ {w} : \A i \in DOMAIN assignments' :
         assignments'[i].truck = job[u].truck /\ assignments'[i].until = 0 =>
            \/ assignments'[i].by # u
            \/ /\ i \in DOMAIN assignments /\ assignments[i].until = 0
               /\ assignments[i].truck = assignments'[i].truck
               /\ assignments[i].by = assignments'[i].by
  <2>1. \A i \in 1 .. n + 1 : i \in 1 .. n \/ i = n + 1
    BY <1>6
  <2> QED
    BY <1>5, <1>6, <2>1
<1>10. DOMAIN assignments \subseteq DOMAIN assignments'
       /\ \A i \in DOMAIN assignments : assignments'[i] = assignments[i]
  BY <1>6
<1>11. now' \in Nat
  BY <1>1, DriveFacts
<1> QED
  BY <1>1, <1>6, <1>7, <1>8, <1>9, <1>10, <1>11, AssignmentStep

LEMMA CloseAssignmentStep ==
    ASSUME TablesInv, NEW w \in Workers, CloseAssignment(w)
    PROVE  TablesInv'
<1> DEFINE r == job[w].row
           a == [assignments[r] EXCEPT !.until = now + 1, !.closer = w]
<1>1. /\ pc[w] = "close" /\ assignments' = [assignments EXCEPT ![r] = a]
      /\ now' = now + 1 /\ stale' = stale \cup {job[w].truck}
      /\ pc' = [pc EXCEPT ![w] = "touch"] /\ job' = job
      /\ UNCHANGED <<catalogue, trucks, gallery, failed, eligible, bounds>>
  BY DEF CloseAssignment, Goto
<1>2. r \in DOMAIN assignments /\ now \in Nat /\ now' \in Nat /\ assignments \in Seq(Assignment)
  BY <1>1, DriveFacts DEF TablesInv, RequestInv
<1>3. /\ a \in Assignment /\ a.until = now + 1 /\ a.closer = w
      /\ a.sound = assignments[r].sound
  <2>1. assignments[r] \in Assignment /\ now + 1 \in Nat
    BY <1>2, Rows
  <2> QED
    BY <2>1 DEF Assignment
<1> HIDE DEF a
<1>4. /\ DOMAIN assignments' = DOMAIN assignments
      /\ assignments'[r] = a
      /\ \A i \in DOMAIN assignments : i # r => assignments'[i] = assignments[i]
  BY <1>1, <1>2
<1>5. assignments' \in Seq(Assignment)
  <2>1. /\ Len(assignments) \in Nat /\ DOMAIN assignments = 1 .. Len(assignments)
        /\ \A i \in DOMAIN assignments : assignments[i] \in Assignment
    BY <1>2, Rows
  <2>2. assignments' \in [1 .. Len(assignments) -> Assignment]
    BY <1>1, <1>2, <1>3, <2>1
  <2> QED
    BY <2>1, <2>2, SeqDef
<1> HIDE DEF r
<1>6. \A i \in DOMAIN assignments' :
         assignments'[i].until = 0 => assignments'[i] = assignments[i]
  BY <1>2, <1>3, <1>4
<1>7. DoubleDriverOnlyByRace'
  <2>1. \A t \in Trucks : \A i \in Open(t)' :
           i \in Open(t) /\ assignments'[i] = assignments[i]
    BY <1>4, <1>6 DEF Open
  <2> QED
    BY <2>1 DEF TablesInv, DoubleDriverOnlyByRace
<1>8. UnfitOnlyIfOvertaken'
  BY <1>2, <1>3, <1>4 DEF TablesInv, UnfitOnlyIfOvertaken
<1>9. \A i \in DOMAIN assignments : assignments'[i] = assignments[i] \/ assignments'[i].closer = w
  BY <1>3, <1>4
<1>10. \A u \in Workers \ {w} : \A i \in DOMAIN assignments' :
         assignments'[i].truck = job[u].truck /\ assignments'[i].until = 0 =>
            \/ assignments'[i].by # u
            \/ /\ i \in DOMAIN assignments /\ assignments[i].until = 0
               /\ assignments[i].truck = assignments'[i].truck
               /\ assignments[i].by = assignments'[i].by
  BY <1>4, <1>6
<1> QED
  BY <1>1, <1>2, <1>4, <1>5, <1>7, <1>8, <1>9, <1>10, AssignmentStep

LEMMA FindOpenStep ==
    ASSUME TablesInv, NEW w \in Workers, FindOpen(w)
    PROVE  TablesInv'
<1>1. pc[w] = "find" /\ UNCHANGED <<catalogue, trucks, gallery, drive, eligible>>
  BY DEF FindOpen
<1>2. CASE Open(job[w].truck) = {}
  <2>1. Respond(w)
    BY <1>2 DEF FindOpen
  <2> QED
    BY <1>1, <2>1, QuietRespondStep
<1>3. CASE Open(job[w].truck) # {}
  <2>1. PICK i \in Open(job[w].truck) :
           job' = [job EXCEPT ![w].row = i] /\ Goto(w, "close")
    BY <1>3 DEF FindOpen
  <2>2. i \in DOMAIN assignments /\ assignments[i].until = 0 /\ i \in Nat
    <3>1. i \in DOMAIN assignments /\ assignments[i].until = 0
      BY DEF Open
    <3> QED
      BY <1>1, <3>1, DriveFacts, Rows
  <2> DEFINE j == [job[w] EXCEPT !.row = i]
  <2>3. j \in Job /\ j.row = i /\ j.truck = job[w].truck /\ j.copy = job[w].copy
        /\ j.raced = job[w].raced
    BY <1>1, <2>2, DriveFacts DEF Job
  <2>4. job' = [job EXCEPT ![w] = j]
    BY <2>1
  <2> HIDE DEF j
  <2>5. pc'[w] = "close" /\ job'[w] = j
    BY <1>1, <2>1, <2>4, DriveFacts DEF Goto
  <2>6. RequestInv(w)'
    BY <1>1, <2>2, <2>3, <2>5, DriveFacts DEF RequestInv, drive
  <2>7. "close" \in Labels
    BY DEF Labels
  <2> QED
    BY <1>1, <2>1, <2>3, <2>4, <2>6, <2>7, ReadStep
<1> QED
  BY <1>2, <1>3

LEMMA TouchStep ==
    ASSUME TablesInv, NEW w \in Workers, Touch(w)
    PROVE  TablesInv'
<1>1. /\ pc[w] = "touch" /\ Respond(w)
      /\ UNCHANGED <<brands, models, trucks, gallery, assignments, now, eligible>>
  BY DEF Touch, catalogue
<1>2. stale' \subseteq Trucks /\ failed' \subseteq Trucks
  <2> DEFINE t == job[w].truck
  <2>1. \/ stale' = stale \ {t} /\ failed' = failed
        \/ failed' = failed \cup {t} /\ stale' = stale
    BY DEF Touch
  <2> QED
    BY <1>1, <2>1, DriveFacts
<1>3. now' \in Nat
  BY <1>1, DriveFacts
<1> QED
  BY <1>1, <1>2, <1>3, RespondStep

-----------------------------------------------------------------------------
(* The specification.                                                      *)

LEMMA EditEmployeeStep ==
    ASSUME TablesInv, NEW d \in Drivers, EditEmployee(d)
    PROVE  TablesInv'
<1>1. /\ eligible' = [eligible EXCEPT ![d] = ~ @] /\ edits' = edits + 1
      /\ job' = [w \in Workers |->
                   IF job[w].driver = d THEN [job[w] EXCEPT !.raced = TRUE] ELSE job[w]]
      /\ UNCHANGED <<brands, models, trucks, gallery, assignments, stale, failed, now, pc, ops>>
  BY DEF EditEmployee, catalogue, drive
<1>2. job \in [Workers -> Job] /\ eligible \in [Drivers -> BOOLEAN] /\ edits \in Nat
  BY DEF TablesInv, TypeOK
<1>3. ASSUME NEW u \in Workers
      PROVE  [job[u] EXCEPT !.raced = TRUE] \in Job /\ [job[u] EXCEPT !.raced = TRUE].raced
  BY <1>2 DEF Job
<1>4. TypeOK'
  <2>1. job' \in [Workers -> Job] /\ eligible' \in [Drivers -> BOOLEAN] /\ edits' \in Nat
    BY <1>1, <1>2, <1>3
  <2> QED
    BY <1>1, <2>1, SameGallery DEF TablesInv, TypeOK
<1>5. CatalogueIntact' /\ PlatesDiffer' /\ DoubleDriverOnlyByRace' /\ UnfitOnlyIfOvertaken'
  BY <1>1 DEF TablesInv, CatalogueIntact, PlatesDiffer, DoubleDriverOnlyByRace,
              UnfitOnlyIfOvertaken, Open
<1>6. ASSUME NEW u \in Workers
      PROVE  RequestInv(u)'
  <2>1. TypeOK /\ RequestInv(u)
    BY DEF TablesInv
  <2>2. job'[u] = IF job[u].driver = d THEN [job[u] EXCEPT !.raced = TRUE] ELSE job[u]
    BY <1>1
  <2>3. \A i \in Open(job[u].truck)' :
           i \in Open(job[u].truck) /\ assignments'[i].by = assignments[i].by
    BY <1>1 DEF Open
  <2>4. pc[u] = "close" => job[u].row \in DOMAIN assignments'
    BY <1>1, <2>1 DEF RequestInv
  <2>5. \A e \in Drivers : job[u].driver = e => job'[u].raced \/ eligible'[e] = eligible[e]
    BY <1>1, <1>2, <1>3, <2>2
  <2> QED
    BY <1>1, <2>1, <2>2, <2>3, <2>4, <2>5, RequestStays
<1> QED
  BY <1>4, <1>5, <1>6, Assemble

LEMMA StutterStep ==
    ASSUME TablesInv, UNCHANGED vars
    PROVE  TablesInv'
<1>1. UNCHANGED <<brands, models, trucks, gallery, drive, eligible, pc, job, bounds>>
  BY DEF vars, catalogue
<1>2. CatalogueIntact'
  BY <1>1 DEF TablesInv, CatalogueIntact
<1> QED
  BY <1>1, <1>2, CatalogueStep DEF TablesInv, TypeOK

LEMMA ServeStep ==
    ASSUME TablesInv, NEW w \in Workers, Serve(w)
    PROVE  TablesInv'
<1>1. CASE DeleteBrand(w) \/ DeleteModel(w)
  BY <1>1, DeleteStep
<1>2. CASE CreateTruck(w)
  BY <1>2, CreateTruckStep
<1>3. CASE UpdateTruck(w)
  BY <1>3, UpdateTruckStep
<1>4. CASE DeletePhoto(w) \/ CountPhotos(w) \/ UploadPhoto(w)
  BY <1>4, PhotoStep
<1>5. CASE \E d \in Drivers : ChooseDriver(w, d)
  BY <1>5, ChooseDriverStep
<1>6. CASE CleanAssignment(w)
  BY <1>6, CleanAssignmentStep
<1>7. CASE InsertAssignment(w)
  BY <1>7, InsertAssignmentStep
<1>8. CASE FindOpen(w)
  BY <1>8, FindOpenStep
<1>9. CASE CloseAssignment(w)
  BY <1>9, CloseAssignmentStep
<1>10. CASE Touch(w)
  BY <1>10, TouchStep
<1> QED
  BY <1>1, <1>2, <1>3, <1>4, <1>5, <1>6, <1>7, <1>8, <1>9, <1>10 DEF Serve

LEMMA AcceptStep ==
    ASSUME TablesInv, NEW w \in Workers, Accept(w)
    PROVE  TablesInv'
<1>1. CASE \/ \E b \in Brands : OpenDeleteBrand(w, b)
           \/ \E m \in Models : OpenDeleteModel(w, m)
  BY <1>1, OpenDeleteStep
<1>2. CASE \E f \in Posts :
             \/ OpenCreate(w, f)
             \/ \E t \in Trucks : \E del \in SUBSET DOMAIN photos[t] : OpenUpdate(w, t, f, del)
  BY <1>2, OpenFormStep
<1>3. CASE \E t \in Trucks, label \in {"choose", "find"} : OpenTruck(w, t, label)
  BY <1>3, OpenTruckStep
<1> QED
  BY <1>1, <1>2, <1>3 DEF Accept

LEMMA NextStep ==
    ASSUME TablesInv, [Next]_vars
    PROVE  TablesInv'
<1>1. CASE \/ \E b \in Brands : AddBrand(b)
           \/ \E m \in Models : AddModel(m)
  BY <1>1, AddStep
<1>2. CASE \E w \in Workers : Accept(w) \/ Serve(w)
  BY <1>2, AcceptStep, ServeStep
<1>3. CASE \E d \in Drivers : EditEmployee(d)
  BY <1>3, EditEmployeeStep
<1>4. CASE UNCHANGED vars
  BY <1>4, StutterStep
<1> QED
  BY <1>1, <1>2, <1>3, <1>4 DEF Next

LEMMA InitInv ==
    ASSUME Init
    PROVE  TablesInv
<1>1. PICK t \in Trucks :
         /\ trucks = [u \in Trucks |-> IF u = t THEN InitTruck ELSE None]
         /\ uploads = [u \in Trucks |-> IF u = t THEN InitPhotos ELSE 0]
  BY DEF Init
<1>2. GalleryOK
  <2>1. uploads \in [Trucks -> Nat]
    BY <1>1, FleetAssumption
  <2>2. photos = [u \in Trucks |-> [p \in 1 .. uploads[u] |-> p - 1]]
    BY DEF Init
  <2>3. ASSUME NEW u \in Trucks
        PROVE  /\ DOMAIN photos[u] \subseteq Nat /\ IsFiniteSet(DOMAIN photos[u])
               /\ photos[u] \in [DOMAIN photos[u] -> Nat]
    <3>1. photos[u] = [p \in 1 .. uploads[u] |-> p - 1] /\ uploads[u] \in Nat
      BY <2>1, <2>2
    <3>2. DOMAIN photos[u] = 1 .. uploads[u] /\ IsFiniteSet(1 .. uploads[u])
      BY <3>1, FS_Interval
    <3>3. \A p \in 1 .. uploads[u] : p \in Nat /\ p - 1 \in Nat
      BY <3>1
    <3> QED
      BY <3>1, <3>2, <3>3
  <2> QED
    BY <2>1, <2>2, <2>3 DEF GalleryOK
<1>3. /\ models = [m \in Models |-> IF m \in InitModels THEN "live" ELSE "new"]
      /\ brands = [b \in Brands |->
                     IF \E m \in InitModels : ModelBrand[m] = b THEN "live" ELSE "new"]
      /\ eligible = [d \in Drivers |-> TRUE] /\ stale = {} /\ failed = {}
      /\ pc = [w \in Workers |-> "idle"] /\ job = [w \in Workers |-> NoJob]
      /\ assignments = << >> /\ now = 0 /\ ops = 0 /\ edits = 0
  BY DEF Init
<1>4. assignments \in Seq(Assignment) /\ DOMAIN assignments = {}
  <2>1. assignments \in Seq(Assignment) /\ Len(assignments) = 0
    BY <1>3, EmptySeq
  <2> QED
    BY <1>3
<1>5. /\ InitTruck \in Truck /\ InitTruck.model \in InitModels /\ InitModels \subseteq Models
      /\ InitTruck.brand = ModelBrand[InitTruck.model] /\ ModelBrand \in [Models -> Brands]
      /\ None \notin Truck
  BY FleetAssumption
<1>6. TypeOK
  <2>1. trucks \in [Trucks -> Truck \cup {None}]
    BY <1>1, <1>5
  <2>2. pc \in [Workers -> Labels] /\ job \in [Workers -> Job]
    BY <1>3, NoJobType DEF Labels
  <2> QED
    BY <1>2, <1>3, <1>4, <2>1, <2>2 DEF TypeOK
<1>7. CatalogueIntact
  BY <1>1, <1>3, <1>5 DEF CatalogueIntact
<1>8. PlatesDiffer
  BY <1>1 DEF PlatesDiffer
<1>9. DoubleDriverOnlyByRace /\ UnfitOnlyIfOvertaken
  BY <1>4 DEF DoubleDriverOnlyByRace, UnfitOnlyIfOvertaken, Open
<1>10. \A w \in Workers : pc[w] = "idle"
  BY <1>3
<1>11. TouchFailsOnlyIfOvertaken /\ \A w \in Workers : RequestInv(w)
  BY <1>10 DEF TouchFailsOnlyIfOvertaken, RequestInv
<1> QED
  BY <1>6, <1>7, <1>8, <1>9, <1>11 DEF TablesInv

-----------------------------------------------------------------------------
(* The gallery.                                                            *)

\* A step that leaves the gallery alone, and of those about to upload a photo
\* changes nothing but what they know of the truck.
LEMMA GalleryFrame ==
    ASSUME GalleryInv, UNCHANGED gallery,
           \A u \in Workers : pc'[u] = "upload" =>
              /\ pc[u] = "upload" /\ job'[u].truck = job[u].truck
              /\ job'[u].next = job[u].next /\ job'[u].seen = job[u].seen
    PROVE  GalleryInv'
BY DEF GalleryInv, gallery

\* All statements but those of the photos are such steps.
LEMMA OtherStep ==
    ASSUME TablesInv, [Next]_vars,
           ~ \E w \in Workers : DeletePhoto(w) \/ CountPhotos(w) \/ UploadPhoto(w)
    PROVE  /\ UNCHANGED gallery
           /\ \A u \in Workers : pc'[u] = "upload" =>
                 /\ pc[u] = "upload" /\ job'[u].truck = job[u].truck
                 /\ job'[u].next = job[u].next /\ job'[u].seen = job[u].seen
<1>1. pc \in [Workers -> Labels] /\ job \in [Workers -> Job]
  BY DEF TablesInv, TypeOK
<1>2. ASSUME NEW w \in Workers, NEW t \in Trucks, NEW u \in Workers
      PROVE  /\ Overtake(w, t)[u].truck = job[u].truck
             /\ Overtake(w, t)[u].next = job[u].next
             /\ Overtake(w, t)[u].seen = job[u].seen
  <2>1. job[u] \in Job
    BY <1>1
  <2> QED
    BY <2>1 DEF Overtake, Job
<1>3. ASSUME NEW w \in Workers, NEW l \in Labels \ {"upload"},
             UNCHANGED gallery, pc' = [pc EXCEPT ![w] = l],
             \A u \in Workers \ {w} :
                /\ job'[u].truck = job[u].truck
                /\ job'[u].next = job[u].next /\ job'[u].seen = job[u].seen
      PROVE  /\ UNCHANGED gallery
             /\ \A u \in Workers : pc'[u] = "upload" =>
                   /\ pc[u] = "upload" /\ job'[u].truck = job[u].truck
                   /\ job'[u].next = job[u].next /\ job'[u].seen = job[u].seen
  BY <1>1, <1>3
<1>4. ASSUME NEW w \in Workers, Accept(w)
      PROVE  /\ UNCHANGED gallery
             /\ \E l \in Labels \ {"upload"} : pc' = [pc EXCEPT ![w] = l]
             /\ \A u \in Workers \ {w} : job'[u] = job[u]
  BY <1>1, <1>4 DEF Accept, OpenDeleteBrand, OpenDeleteModel, OpenCreate, OpenUpdate, OpenTruck,
                    Begin, Labels
<1>5. ASSUME NEW w \in Workers, Serve(w), ~ UpdateTruck(w)
      PROVE  /\ UNCHANGED gallery
             /\ \E l \in Labels \ {"upload"} : pc' = [pc EXCEPT ![w] = l]
             /\ \A u \in Workers \ {w} : job'[u] = job[u]
  BY <1>1, <1>5 DEF Serve, DeleteBrand, DeleteModel, CreateTruck, ChooseDriver, CleanAssignment,
                    InsertAssignment, FindOpen, CloseAssignment, Touch, Respond, Goto, Labels
<1>6. ASSUME NEW w \in Workers, UpdateTruck(w)
      PROVE  /\ UNCHANGED gallery
             /\ \E l \in Labels \ {"upload"} : pc' = [pc EXCEPT ![w] = l]
             /\ \A u \in Workers \ {w} :
                   /\ job'[u].truck = job[u].truck
                   /\ job'[u].next = job[u].next /\ job'[u].seen = job[u].seen
  <2>1. job[w].truck \in Trucks
    BY <1>6 DEF UpdateTruck, TablesInv, RequestInv
  <2>2. job' = Overtake(w, job[w].truck) \/ job' = [job EXCEPT ![w] = NoJob]
    BY <1>6 DEF UpdateTruck, Respond
  <2>3. \A u \in Workers \ {w} :
           /\ job'[u].truck = job[u].truck
           /\ job'[u].next = job[u].next /\ job'[u].seen = job[u].seen
    BY <1>1, <1>2, <2>1, <2>2
  <2>4. UNCHANGED gallery /\ \E l \in Labels \ {"upload"} : pc' = [pc EXCEPT ![w] = l]
    BY <1>6 DEF UpdateTruck, Respond, Goto, Labels
  <2> QED
    BY <2>3, <2>4
<1>7. ASSUME NEW d \in Drivers, EditEmployee(d)
      PROVE  /\ UNCHANGED gallery /\ pc' = pc
             /\ \A u \in Workers :
                   /\ job'[u].truck = job[u].truck
                   /\ job'[u].next = job[u].next /\ job'[u].seen = job[u].seen
  <2>1. \A u \in Workers : job[u] \in Job
    BY <1>1
  <2> QED
    BY <1>7, <2>1 DEF EditEmployee, Job
<1>8. ASSUME \/ \E b \in Brands : AddBrand(b)
             \/ \E m \in Models : AddModel(m)
             \/ UNCHANGED vars
      PROVE  UNCHANGED <<gallery, pc, job>>
  BY <1>8 DEF AddBrand, AddModel, vars
<1>9. CASE \E w \in Workers : Accept(w) \/ Serve(w)
  BY <1>3, <1>4, <1>5, <1>6, <1>9
<1>10. CASE ~ \E w \in Workers : Accept(w) \/ Serve(w)
  BY <1>7, <1>8, <1>10 DEF Next
<1> QED
  BY <1>9, <1>10

\* There are no more photos than were uploaded.
LEMMA PhotosCounted ==
    ASSUME TablesInv, GalleryInv, NEW t \in Trucks
    PROVE  /\ uploads[t] \in Nat
           /\ DOMAIN photos[t] \subseteq 1 .. uploads[t]
           /\ Cardinality(DOMAIN photos[t]) \in Nat
           /\ Cardinality(DOMAIN photos[t]) <= uploads[t]
<1>1. uploads[t] \in Nat /\ DOMAIN photos[t] \subseteq 1 .. uploads[t]
  BY DEF TablesInv, TypeOK, GalleryOK, GalleryInv
<1>2. IsFiniteSet(1 .. uploads[t]) /\ Cardinality(1 .. uploads[t]) = uploads[t]
  BY <1>1, FS_Interval
<1>3. IsFiniteSet(DOMAIN photos[t]) /\ Cardinality(DOMAIN photos[t]) <= Cardinality(1 .. uploads[t])
  BY <1>1, <1>2, FS_Subset
<1>4. Cardinality(DOMAIN photos[t]) \in Nat
  BY <1>3, FS_CardinalityType
<1> QED
  BY <1>1, <1>2, <1>3, <1>4

\* A statement of the photos of one truck.
LEMMA PhotoGalleryStep ==
    ASSUME TablesInv, GalleryInv, NEW w \in Workers,
           DeletePhoto(w) \/ CountPhotos(w) \/ UploadPhoto(w)
    PROVE  GalleryInv'
<1> DEFINE t == job[w].truck
<1>1. /\ pc \in [Workers -> Labels] /\ job \in [Workers -> Job] /\ job[w] \in Job
      /\ GalleryOK /\ t \in Trucks
  BY DEF DeletePhoto, CountPhotos, UploadPhoto, TablesInv, RequestInv, TypeOK
<1>2. \A u \in Workers \ {w} : pc'[u] = pc[u] /\ job'[u] = job[u]
  BY <1>1 DEF DeletePhoto, CountPhotos, UploadPhoto, Respond, Goto
<1>3. \A u \in Workers : pc[u] = "upload" => job[u].truck \in Trucks /\ job[u].next \in Nat
  BY <1>1 DEF TablesInv, RequestInv, Job
<1>4. CASE DeletePhoto(w)
  <2>1. PICK p \in job[w].del :
           photos' = [photos EXCEPT ![t] = [q \in DOMAIN photos[t] \ {p} |-> photos[t][q]]]
    BY <1>4 DEF DeletePhoto
  <2>2. uploads' = uploads /\ pc'[w] = "photos"
    BY <1>1, <1>4 DEF DeletePhoto, Goto
  <2>3. ASSUME NEW x \in Trucks, NEW q \in DOMAIN photos'[x]
        PROVE  q \in 1 .. uploads'[x] /\ photos'[x][q] < q
    <3>1. q \in DOMAIN photos[x] /\ photos'[x][q] = photos[x][q]
      BY <1>1, <2>1, <2>3 DEF GalleryOK
    <3> QED
      BY <2>2, <3>1 DEF GalleryInv
  <2> QED
    BY <1>2, <2>2, <2>3 DEF GalleryInv
<1>5. CASE CountPhotos(w)
  <2>1. UNCHANGED <<photos, uploads>>
    BY <1>5 DEF CountPhotos, gallery
  <2>2. CASE job[w].add = 0
    <3>1. pc'[w] = "idle"
      BY <1>1, <1>5, <2>2 DEF CountPhotos, Respond, Goto
    <3> QED
      BY <1>2, <2>1, <3>1 DEF GalleryInv
  <2>3. CASE job[w].add # 0
    <3> DEFINE n == Cardinality(DOMAIN photos[t])
               j == [job[w] EXCEPT !.next = n, !.seen = n]
    <3>1. job'[w] = j
      BY <1>1, <1>5, <2>3 DEF CountPhotos
    <3>2. n <= uploads[t] /\ n \in Nat
      BY <1>1, PhotosCounted
    <3> HIDE DEF n
    <3>3. job'[w].next = n /\ job'[w].seen = n /\ job'[w].truck = t
      BY <1>1, <3>1 DEF Job
    <3> QED
      BY <1>2, <2>1, <3>2, <3>3 DEF GalleryInv
  <2> QED
    BY <2>2, <2>3
<1>6. CASE UploadPhoto(w)
  <2> DEFINE p == uploads[t] + 1
             more == [q \in DOMAIN photos[t] \cup {p} |->
                        IF q = p THEN job[w].next ELSE photos[t][q]]
  <2>1. /\ photos' = [photos EXCEPT ![t] = more] /\ uploads' = [uploads EXCEPT ![t] = p]
        /\ pc[w] = "upload"
    BY <1>6 DEF UploadPhoto
  <2>2. uploads \in [Trucks -> Nat] /\ p \in Nat /\ job[w].next \in Nat
        /\ job[w].next = job[w].seen /\ job[w].next <= uploads[t]
    BY <1>1, <2>1 DEF GalleryOK, GalleryInv, Job
  <2>3. \A x \in Trucks : uploads[x] <= uploads'[x] /\ uploads'[x] \in Nat
    BY <1>1, <2>1, <2>2
  <2>4. ASSUME NEW x \in Trucks, NEW q \in DOMAIN photos'[x]
        PROVE  q \in 1 .. uploads'[x] /\ photos'[x][q] < q
    <3>1. CASE x # t
      <4>1. photos'[x] = photos[x] /\ uploads'[x] = uploads[x]
        BY <1>1, <2>1, <2>2, <3>1 DEF GalleryOK
      <4> QED
        BY <2>4, <4>1 DEF GalleryInv
    <3>2. CASE x = t
      <4>1. photos'[x] = more /\ uploads'[x] = p
        BY <1>1, <2>1, <2>2, <3>2 DEF GalleryOK
      <4>2. CASE q = p
        <5>1. photos'[x][q] = job[w].next
          BY <2>4, <4>1, <4>2
        <5> QED
          BY <1>1, <2>2, <4>1, <4>2, <5>1
      <4>3. CASE q # p
        <5>1. q \in DOMAIN photos[t] /\ photos'[x][q] = photos[t][q]
          BY <2>4, <4>1, <4>3
        <5>2. q \in 1 .. uploads[t] /\ photos[t][q] < q
          BY <1>1, <5>1 DEF GalleryInv
        <5> QED
          BY <1>1, <2>2, <4>1, <5>1, <5>2
      <4> QED
        BY <4>2, <4>3
    <3> QED
      BY <3>1, <3>2
  <2>5. ASSUME NEW u \in Workers, pc'[u] = "upload"
        PROVE  job'[u].next = job'[u].seen /\ job'[u].next <= uploads'[job'[u].truck]
    <3>1. CASE u # w
      <4>1. pc[u] = "upload" /\ job'[u] = job[u]
        BY <1>2, <2>5, <3>1
      <4>2. job[u].next = job[u].seen /\ job[u].next <= uploads[job[u].truck]
            /\ job[u].truck \in Trucks /\ job[u].next \in Nat
        BY <1>3, <4>1 DEF GalleryInv
      <4> QED
        BY <2>2, <2>3, <4>1, <4>2
    <3>2. CASE u = w
      <4> DEFINE j == [job[w] EXCEPT !.add = job[w].add - 1, !.next = job[w].next + 1,
                                     !.seen = job[w].seen + 1]
      <4>1. job'[w] = j
        BY <1>1, <1>6, <2>5, <3>2 DEF UploadPhoto, Respond, Goto
      <4>2. j.next = job[w].next + 1 /\ j.seen = job[w].seen + 1 /\ j.truck = t
        BY <1>1 DEF Job
      <4>3. uploads'[t] = uploads[t] + 1 /\ uploads[t] \in Nat
        BY <1>1, <2>1, <2>2
      <4> HIDE DEF j, t, p
      <4> QED
        BY <2>2, <3>2, <4>1, <4>2, <4>3
    <3> QED
      BY <3>1, <3>2
  <2> QED
    BY <2>4, <2>5 DEF GalleryInv
<1> QED
  BY <1>4, <1>5, <1>6

LEMMA GalleryStep ==
    ASSUME TablesInv, GalleryInv, [Next]_vars
    PROVE  GalleryInv'
<1>1. CASE \E w \in Workers : DeletePhoto(w) \/ CountPhotos(w) \/ UploadPhoto(w)
  BY <1>1, PhotoGalleryStep
<1>2. CASE ~ \E w \in Workers : DeletePhoto(w) \/ CountPhotos(w) \/ UploadPhoto(w)
  BY <1>2, OtherStep, GalleryFrame
<1> QED
  BY <1>1, <1>2

LEMMA GalleryInit ==
    ASSUME Init
    PROVE  GalleryInv
<1>1. \A w \in Workers : pc[w] = "idle"
  BY DEF Init
<1>2. photos = [u \in Trucks |-> [p \in 1 .. uploads[u] |-> p - 1]]
  BY DEF Init
<1>3. uploads \in [Trucks -> Nat]
  BY FleetAssumption DEF Init
<1>4. ASSUME NEW u \in Trucks, NEW p \in DOMAIN photos[u]
      PROVE  p \in 1 .. uploads[u] /\ photos[u][p] < p
  <2>1. photos[u] = [q \in 1 .. uploads[u] |-> q - 1] /\ uploads[u] \in Nat
    BY <1>2, <1>3
  <2>2. p \in 1 .. uploads[u] /\ photos[u][p] = p - 1
    BY <1>4, <2>1
  <2> QED
    BY <2>1, <2>2
<1> QED
  BY <1>1, <1>4 DEF GalleryInv

\* What is shown first of a gallery stays first when a photo is added whose
\* order is no less than that of some photo there, and which is the last one;
\* if its order is greater it does not tie with the cover either.
LEMMA CoverStays ==
    ASSUME NEW t \in Trucks, NEW p \in Nat, NEW n \in Nat,
           DOMAIN photos[t] \subseteq Nat, photos[t] \in [DOMAIN photos[t] -> Nat],
           \A q \in DOMAIN photos[t] : q < p,
           photos'[t] = [q \in DOMAIN photos[t] \cup {p} |-> IF q = p THEN n ELSE photos[t][q]],
           NEW m \in DOMAIN photos[t], photos[t][m] <= n
    PROVE  /\ PageFirst(t)' = PageFirst(t)
           /\ ListCovers(t) \subseteq ListCovers(t)'
           /\ photos[t][m] < n => ListCovers(t)' = ListCovers(t)
<1> DEFINE D == DOMAIN photos[t]
<1>1. /\ DOMAIN photos'[t] = D \cup {p} /\ photos'[t][p] = n
      /\ \A q \in D : photos'[t][q] = photos[t][q] /\ photos[t][q] \in Nat /\ q \in Nat /\ q < p
  OBVIOUS
<1>2. \A x \in ListCovers(t) : x \in D /\ photos[t][x] <= photos[t][m]
  BY DEF ListCovers
<1>3. ListCovers(t)' = {x \in D \cup {p} : \A q \in D \cup {p} : photos'[t][x] <= photos'[t][q]}
  BY <1>1 DEF ListCovers
<1>4. ListCovers(t) \subseteq ListCovers(t)'
  <2> SUFFICES ASSUME NEW x \in ListCovers(t)
               PROVE  \A q \in D \cup {p} : photos'[t][x] <= photos'[t][q]
    BY <1>2, <1>3
  <2>1. \A q \in D : photos[t][x] <= photos[t][q]
    BY DEF ListCovers
  <2>2. photos[t][x] <= n
    BY <1>1, <1>2
  <2> QED
    BY <1>1, <1>2, <2>1, <2>2
<1>5. \A x \in ListCovers(t)' : x # p => x \in ListCovers(t)
  BY <1>1, <1>3 DEF ListCovers
<1>6. p \in ListCovers(t)' => photos[t][m] = n
  BY <1>1, <1>3
<1>7. \A x \in ListCovers(t) : x < p
  BY <1>1, <1>2
<1>8. ListCovers(t) # {} \/ ~ p \in ListCovers(t)'
  <2> SUFFICES ASSUME p \in ListCovers(t)' PROVE m \in ListCovers(t)
    OBVIOUS
  <2>1. \A q \in D : n <= photos[t][q]
    BY <1>1, <1>3
  <2> QED
    BY <1>6, <2>1 DEF ListCovers
<1>9. PageFirst(t)' = {x \in ListCovers(t)' : \A q \in ListCovers(t)' : x <= q}
  BY DEF PageFirst
<1>10. PageFirst(t)' = PageFirst(t)
  <2>1. ASSUME NEW x \in PageFirst(t)
        PROVE  x \in PageFirst(t)'
    <3>1. x \in ListCovers(t) /\ \A q \in ListCovers(t) : x <= q
      BY <2>1 DEF PageFirst
    <3>2. ASSUME NEW q \in ListCovers(t)' PROVE x <= q
      BY <1>1, <1>2, <1>5, <1>7, <3>1, <3>2
    <3> QED
      BY <1>4, <1>9, <3>1, <3>2
  <2>2. ASSUME NEW x \in PageFirst(t)'
        PROVE  x \in PageFirst(t)
    <3>1. x # p
      <4> SUFFICES ASSUME x = p PROVE FALSE
        OBVIOUS
      <4>1. PICK y \in ListCovers(t) : TRUE
        BY <1>8, <1>9, <2>2
      <4> QED
        BY <1>1, <1>2, <1>4, <1>7, <1>9, <2>2, <4>1
    <3> QED
      BY <1>4, <1>5, <1>9, <2>2, <3>1 DEF PageFirst
  <2> QED
    BY <2>1, <2>2
<1>11. ASSUME photos[t][m] < n
       PROVE  ListCovers(t)' = ListCovers(t)
  <2>1. p \notin ListCovers(t)'
    BY <1>1, <1>6, <1>11
  <2> QED
    BY <1>4, <1>5, <2>1
<1> QED
  BY <1>4, <1>10, <1>11

\* A gallery that is not empty shows something.
LEMMA EmptyGallery ==
    ASSUME NEW f, f \in [DOMAIN f -> Nat], f # << >>
    PROVE  DOMAIN f # {}
<1>1. << >> \in Seq(Nat) /\ Len(<< >>) = 0
  BY EmptySeq
<1>2. << >> \in [{} -> Nat] /\ \A g, h \in [{} -> Nat] : g = h
  BY <1>1
<1> QED
  BY <1>2

\* If no photo was deleted the first is still there, and if one was, one of the
\* first two: at the number of photos or below, and strictly in the first case.
LEMMA EarlyPhoto ==
    ASSUME TablesInv, GalleryInv, NEW t \in Trucks, photos[t] # << >>, Removed(t) < 2
    PROVE  \E m \in DOMAIN photos[t] :
              /\ photos[t][m] <= Cardinality(DOMAIN photos[t])
              /\ Removed(t) = 0 => photos[t][m] < Cardinality(DOMAIN photos[t])
<1> DEFINE D == DOMAIN photos[t]
           n == Cardinality(D)
           gone == IF Removed(t) = 0 THEN 0 ELSE 1
<1>1. /\ uploads[t] \in Nat /\ D \subseteq 1 .. uploads[t] /\ n \in Nat
      /\ IsFiniteSet(D) /\ photos[t] \in [D -> Nat]
  BY PhotosCounted DEF TablesInv, TypeOK, GalleryOK
<1>2. D # {}
  BY <1>1, EmptyGallery
<1>3. n # 0
  BY <1>1, <1>2, FS_EmptySet
<1>4. uploads[t] <= n + gone /\ gone \in {0, 1}
  BY <1>1 DEF Removed
<1> HIDE DEF gone
<1>5. PICK m \in D : m <= 1 + gone
  <2> SUFFICES ASSUME \A m \in D : m > 1 + gone PROVE FALSE
    BY <1>1, <1>4
  <2>1. D \subseteq 2 + gone .. uploads[t]
    BY <1>1, <1>4
  <2>2. IsFiniteSet(2 + gone .. uploads[t])
        /\ Cardinality(2 + gone .. uploads[t])
               = IF 2 + gone > uploads[t] THEN 0 ELSE uploads[t] - gone - 1
    <3>1. 2 + gone \in Int /\ uploads[t] \in Int
          /\ uploads[t] - (2 + gone) + 1 = uploads[t] - gone - 1
      BY <1>1, <1>4
    <3> QED
      BY <3>1, FS_Interval
  <2>3. n <= Cardinality(2 + gone .. uploads[t])
    BY <2>1, <2>2, FS_Subset
  <2> QED
    BY <1>1, <1>3, <1>4, <2>2, <2>3
<1>6. photos[t][m] \in Nat /\ photos[t][m] < m /\ m \in Nat
  BY <1>1, <1>5 DEF GalleryInv
<1>7. photos[t][m] <= gone
  BY <1>4, <1>5, <1>6
<1> QED
  BY <1>1, <1>3, <1>4, <1>5, <1>6, <1>7 DEF gone

LEMMA CoverStep ==
    ASSUME TablesInv, GalleryInv, [Next]_vars, NEW w \in Workers, NEW t \in Trucks,
           pc[w] = "upload", job[w].truck = t, job'[w] # job[w],
           job[w].seen = Cardinality(DOMAIN photos[t]), photos[t] # << >>, Removed(t) < 2
    PROVE  /\ PageFirst(t)' = PageFirst(t)
           /\ ListCovers(t) \subseteq ListCovers(t)'
           /\ Removed(t) = 0 => ListCovers(t)' = ListCovers(t)
<1>1. pc \in [Workers -> Labels] /\ job \in [Workers -> Job] /\ GalleryOK
  BY DEF TablesInv, TypeOK
<1>2. ASSUME NEW v \in Workers, v # w, DeletePhoto(v) \/ CountPhotos(v) \/ UploadPhoto(v)
      PROVE  job'[w] = job[w]
  BY <1>1, <1>2 DEF DeletePhoto, CountPhotos, UploadPhoto, Respond
<1>3. CASE UploadPhoto(w)
  <2> DEFINE p == uploads[t] + 1
             n == job[w].next
  <2>1. uploads \in [Trucks -> Nat] /\ photos[t] \in [DOMAIN photos[t] -> Nat]
        /\ DOMAIN photos = Trucks
    BY <1>1 DEF GalleryOK
  <2>2. photos'[t] = [q \in DOMAIN photos[t] \cup {p} |-> IF q = p THEN n ELSE photos[t][q]]
    BY <1>3, <2>1 DEF UploadPhoto
  <2>3. n \in Nat /\ n = Cardinality(DOMAIN photos[t])
    BY <1>1, PhotosCounted DEF GalleryInv
  <2>4. DOMAIN photos[t] \subseteq Nat /\ \A q \in DOMAIN photos[t] : q < p
    BY <2>1, PhotosCounted
  <2>5. PICK m \in DOMAIN photos[t] :
            photos[t][m] <= n /\ (Removed(t) = 0 => photos[t][m] < n)
    BY <2>3, EarlyPhoto
  <2>6. p \in Nat
    BY <2>1
  <2> HIDE DEF p, n
  <2> QED
    BY <2>1, <2>2, <2>3, <2>4, <2>5, <2>6, CoverStays
<1>4. CASE ~ \E v \in Workers : DeletePhoto(v) \/ CountPhotos(v) \/ UploadPhoto(v)
  BY <1>4, OtherStep DEF PageFirst, ListCovers, gallery
<1>5. ~ (DeletePhoto(w) \/ CountPhotos(w))
  BY DEF DeletePhoto, CountPhotos
<1> QED
  BY <1>2, <1>3, <1>4, <1>5

-----------------------------------------------------------------------------
(* The theorems.                                                           *)

\* IndInv is an invariant, for every fleet, every form and every number of
\* workers (the trucks application).
THEOREM FleetInvariant == Spec => []IndInv
<1>1. Init => IndInv
  BY InitInv, GalleryInit DEF IndInv
<1>2. IndInv /\ [Next]_vars => IndInv'
  BY NextStep, GalleryStep DEF IndInv
<1> QED
  BY <1>1, <1>2, PTL DEF Spec

\* The catalogue is never left with a truck whose model or brand is gone, a
\* truck has two drivers only if two workers stored them, no driver is given
\* who was unfit all along, and updated_at moves unless the truck was edited.
THEOREM RacesBounded ==
    Spec => [](/\ CatalogueIntact /\ PlatesDiffer /\ DoubleDriverOnlyByRace
               /\ UnfitOnlyIfOvertaken /\ TouchFailsOnlyIfOvertaken)
<1>1. IndInv => /\ CatalogueIntact /\ PlatesDiffer /\ DoubleDriverOnlyByRace
                /\ UnfitOnlyIfOvertaken /\ TouchFailsOnlyIfOvertaken
  BY DEF IndInv, TablesInv
<1> QED
  BY <1>1, FleetInvariant, PTL

\* The time of a hand-over is overwritten only by a worker that had not closed
\* the row itself (UnassignDriverView).
LEMMA RecloseStep ==
    ASSUME TablesInv, [Next]_vars, NEW i \in DOMAIN assignments,
           assignments[i].until # 0, assignments'[i] # assignments[i]
    PROVE  assignments'[i].closer # assignments[i].closer
<1>1. CASE \E w \in Workers : CloseAssignment(w)
  <2>1. PICK w \in Workers : CloseAssignment(w)
    BY <1>1
  <2>2. /\ pc[w] = "close" /\ job[w].row \in DOMAIN assignments
        /\ assignments[job[w].row].until = 0 \/ assignments[job[w].row].closer # w
    BY <2>1 DEF CloseAssignment, TablesInv, RequestInv
  <2>3. assignments \in Seq(Assignment)
    BY DEF TablesInv, TypeOK
  <2>4. assignments[job[w].row] \in Assignment
    BY <2>2, <2>3, Rows
  <2>5. assignments' = [assignments EXCEPT ![job[w].row] =
                          [assignments[job[w].row] EXCEPT !.until = now + 1, !.closer = w]]
    BY <2>1 DEF CloseAssignment
  <2>6. i = job[w].row
    BY <2>5
  <2>7. assignments'[i].closer = w
    BY <2>2, <2>4, <2>5, <2>6 DEF Assignment
  <2> QED
    BY <2>2, <2>6, <2>7
<1>2. CASE \E w \in Workers : InsertAssignment(w)
  <2>1. PICK w \in Workers : InsertAssignment(w)
    BY <1>2
  <2> DEFINE a == [truck |-> job[w].truck, driver |-> job[w].driver, at |-> job[w].at,
                   until |-> 0, by |-> w, closer |-> None,
                   sound |-> (trucks[job[w].truck].active /\ eligible[job[w].driver])
                             \/ job[w].raced]
  <2>2. assignments' = Append(assignments, a) /\ assignments \in Seq(Assignment)
    BY <2>1 DEF InsertAssignment, TablesInv, TypeOK
  <2> HIDE DEF a
  <2>3. i \in 1 .. Len(assignments) /\ Len(assignments) \in Nat
    BY <2>2, Rows
  <2>4. assignments'[i] = assignments[i]
    BY <2>2, <2>3
  <2> QED
    BY <2>4
<1>3. CASE ~ (\E w \in Workers : CloseAssignment(w) \/ InsertAssignment(w))
  <2>1. assignments' = assignments
    <3>1. CASE UNCHANGED vars
      BY <3>1 DEF vars, drive
    <3>2. CASE \/ \E b \in Brands : AddBrand(b)
               \/ \E m \in Models : AddModel(m)
               \/ \E d \in Drivers : EditEmployee(d)
      BY <3>2 DEF AddBrand, AddModel, EditEmployee, drive
    <3>3. ASSUME NEW w \in Workers, Accept(w)
          PROVE  assignments' = assignments
      BY <3>3 DEF Accept, OpenDeleteBrand, OpenDeleteModel, OpenCreate, OpenUpdate, OpenTruck, drive
    <3>4. ASSUME NEW w \in Workers, Serve(w)
          PROVE  assignments' = assignments
      BY <1>3, <3>4 DEF Serve, DeleteBrand, DeleteModel, CreateTruck, UpdateTruck, DeletePhoto,
                        CountPhotos, UploadPhoto, ChooseDriver, CleanAssignment, FindOpen, Touch, drive
    <3> QED
      BY <3>1, <3>2, <3>3, <3>4 DEF Next
  <2> QED
    BY <2>1
<1> QED
  BY <1>1, <1>2, <1>3

\* Of two workers that close one assignment each closes it once: a time that
\* is overwritten is overwritten by the other (UnassignDriverView).
THEOREM ClosedByAnother == Spec => ReclosedByAnother
<1>1. IndInv /\ [Next]_vars =>
        [\A i \in DOMAIN assignments :
            assignments[i].until # 0 /\ assignments'[i] # assignments[i] =>
                assignments'[i].closer # assignments[i].closer]_vars
  BY RecloseStep DEF IndInv
<1> QED
  BY <1>1, FleetInvariant, PTL DEF Spec, ReclosedByAnother

\* A photo that is added does not become the cover, however many workers fill
\* and prune the gallery at once, while no photo of the truck was deleted and the
\* form's count still stands; after one deletion it may tie with the cover in the
\* list, and comes after it on the truck's page (save_truck_photos).
THEOREM CoverStaysFirst == Spec => CoverKept
<1>1. IndInv /\ [Next]_vars =>
        [\A w \in Workers, t \in Trucks :
            /\ pc[w] = "upload" /\ job[w].truck = t /\ job'[w] # job[w]
            /\ job[w].seen = Cardinality(DOMAIN photos[t])
            /\ photos[t] # << >> /\ Removed(t) < 2
            => /\ PageFirst(t)' = PageFirst(t)
               /\ ListCovers(t) \subseteq ListCovers(t)'
               /\ Removed(t) = 0 => ListCovers(t)' = ListCovers(t)]_vars
  BY CoverStep DEF IndInv
<1> QED
  BY <1>1, FleetInvariant, PTL DEF Spec, CoverKept
=============================================================================
