------------------------------- MODULE Fleet -------------------------------
(***************************************************************************)
(* The trucks application: brands and models, trucks, the photo gallery of *)
(* a truck and the drivers assigned to it.  Gunicorn workers (Workers)     *)
(* serve the pages; every statement autocommits, so that the reads of a    *)
(* request, its checks on what it read and its writes are separate steps.  *)
(*                                                                         *)
(* A row keeps the fields the checks read.  A form whose fields are not    *)
(* well-formed (plate, chassis, year, a brand other than the model's, a    *)
(* photo that is no image) is rendered again and changes nothing; it is no *)
(* action here.  A brand or model that was deleted is not entered again,   *)
(* so that a name identifies a row.                                        *)
(***************************************************************************)
EXTENDS Integers, Sequences, FiniteSets

CONSTANTS
    Workers,
    Trucks,      \* primary keys of trucks
    Plates,      \* license plates, in upper case
    Models,      \* truck models
    Brands,
    ModelBrand,  \* the brand of each model
    Drivers,     \* employees an assignment can name
    None,
    InitModels,  \* models entered before the start, and their brands
    InitTruck,   \* the row of the truck there at the start
    InitPhotos,  \* how many photos that truck has
    Posts,       \* the truck forms that are sent
    MaxOps,      \* bound: requests served
    MaxEdits     \* bound: how often an employee record is edited

\* A TruckForm as it is sent: its fields, how many photos come with it, how
\* many of those there are it ticks for deletion.
TruckForm == [plate : Plates, model : Models, active : BOOLEAN, add : Nat, tick : Nat]

\* The row of Truck: its brand is a column of its own, filled in from the
\* model.
Truck == [plate : Plates, model : Models, brand : Brands, active : BOOLEAN]

\* The row of TruckAssignment.  at and until are times, until is 0 while the
\* driver has the truck.  The others are history: the workers that stored (by)
\* and last closed (closer) the row, and sound: when it was stored the truck
\* was active and the driver eligible, or edited since the request read them.
Assignment ==
    [truck : Trucks, driver : Drivers, at : Nat, until : Nat,
     by : Workers, closer : Workers \cup {None}, sound : BOOLEAN]

ASSUME FleetAssumption ==
    /\ ModelBrand \in [Models -> Brands]
    /\ InitModels \subseteq Models
    /\ Posts \subseteq TruckForm
    /\ InitTruck \in Truck
    /\ InitTruck.model \in InitModels
    /\ InitTruck.brand = ModelBrand[InitTruck.model]
    /\ {InitPhotos, MaxOps, MaxEdits} \subseteq Nat
    /\ None \notin Truck /\ None \notin Trucks /\ None \notin Models
    /\ None \notin Workers /\ None \notin Brands /\ None \notin Drivers /\ None \notin TruckForm

VARIABLES
    brands, models, \* TruckBrand and TruckModel: "new", "live" or "gone"
    trucks,         \* the Truck table: a row or None
    assignments,    \* the TruckAssignment table, in the order of the inserts
    photos,         \* TruckPhoto rows of a truck: upload number |-> order
    uploads,        \* photos uploaded to a truck so far
    eligible,       \* is_driver and is_active of an employee
    stale,          \* trucks whose driver changed after their updated_at
    failed,         \* trucks whose updated_at a request failed to move
    pc, job,        \* the statement a worker is at, its local variables
    now, ops, edits

catalogue == <<brands, models>>
gallery == <<photos, uploads>>
drive == <<assignments, stale, failed, now>>
bounds == <<ops, edits>>
vars == <<catalogue, trucks, gallery, drive, eligible, pc, job, bounds>>

\* The local variables of a request; seen, the photos its form has counted and
\* added, and raced, that the truck or driver it read was edited since, are
\* history.
NoJob ==
    [truck |-> None, copy |-> None, form |-> None, driver |-> None, at |-> 0,
     row |-> 0, brand |-> None, model |-> None, add |-> 0, next |-> 0, seen |-> 0,
     del |-> {}, raced |-> FALSE]

Open(t) ==
    {i \in DOMAIN assignments : assignments[i].truck = t /\ assignments[i].until = 0}

\* Truck.save: the brand follows the model.
Row(f) ==
    [plate |-> f.plate, model |-> f.model, brand |-> ModelBrand[f.model],
     active |-> f.active]

\* Truck.clean, the foreign keys and the unique columns, for a row that is to
\* be stored under t.
FullClean(f, t) ==
    /\ models[f.model] = "live"
    /\ \A u \in Trucks \ {t} : trucks[u] # None => trucks[u].plate # f.plate

Begin(w, label, j) ==
    /\ pc[w] = "idle"
    /\ ops < MaxOps
    /\ ops' = ops + 1
    /\ pc' = [pc EXCEPT ![w] = label]
    /\ job' = [job EXCEPT ![w] = j]
    /\ UNCHANGED edits

Goto(w, label) == pc' = [pc EXCEPT ![w] = label] /\ UNCHANGED bounds

Respond(w) == Goto(w, "idle") /\ job' = [job EXCEPT ![w] = NoJob]

-----------------------------------------------------------------------------
(* Brands and models: TruckBrandModelManageView.                           *)

\* get_or_create finds the name or inserts it; the unique column decides
\* between two requests, of which the later answers an error.
AddBrand(b) ==
    /\ brands[b] = "new"
    /\ brands' = [brands EXCEPT ![b] = "live"]
    /\ UNCHANGED <<models, trucks, gallery, drive, eligible, pc, job, bounds>>

AddModel(m) ==
    /\ models[m] = "new"
    /\ brands[ModelBrand[m]] = "live"
    /\ models' = [models EXCEPT ![m] = "live"]
    /\ UNCHANGED <<brands, trucks, gallery, drive, eligible, pc, job, bounds>>

\* The test whether a truck has the brand.
OpenDeleteBrand(w, b) ==
    /\ brands[b] = "live"
    /\ ~ \E t \in Trucks : trucks[t] # None /\ trucks[t].brand = b
    /\ Begin(w, "drop_brand", [NoJob EXCEPT !.brand = b])
    /\ UNCHANGED <<catalogue, trucks, gallery, drive, eligible>>

\* Mutant: the models go with their brand whatever refers to them.
DeleteBrand_Cascades(w) ==
    /\ pc[w] = "drop_brand"
    /\ brands' = [brands EXCEPT ![job[w].brand] = "gone"]
    /\ models' = [m \in Models |-> IF ModelBrand[m] = job[w].brand THEN "gone" ELSE models[m]]
    /\ Respond(w)
    /\ UNCHANGED <<trucks, gallery, drive, eligible>>

\* brand.delete() takes the models along, unless a truck refers to one of them
\* (on_delete=PROTECT): then the request ends in an error.
DeleteBrand(w) ==
    /\ pc[w] = "drop_brand"
    /\ LET b == job[w].brand
           mine == {m \in Models : ModelBrand[m] = b /\ models[m] = "live"}
           protected == \E t \in Trucks :
               trucks[t] # None /\ (trucks[t].brand = b \/ trucks[t].model \in mine)
       IN IF protected THEN UNCHANGED catalogue
          ELSE /\ brands' = [brands EXCEPT ![b] = "gone"]
               /\ models' = [m \in Models |-> IF m \in mine THEN "gone" ELSE models[m]]
    /\ Respond(w)
    /\ UNCHANGED <<trucks, gallery, drive, eligible>>

OpenDeleteModel(w, m) ==
    /\ models[m] = "live"
    /\ ~ \E t \in Trucks : trucks[t] # None /\ trucks[t].model = m
    /\ Begin(w, "drop_model", [NoJob EXCEPT !.model = m])
    /\ UNCHANGED <<catalogue, trucks, gallery, drive, eligible>>

\* Mutant: a model that a truck was given meanwhile is deleted too.
DeleteModel_Unprotected(w) ==
    /\ pc[w] = "drop_model"
    /\ models' = [models EXCEPT ![job[w].model] = "gone"]
    /\ Respond(w)
    /\ UNCHANGED <<brands, trucks, gallery, drive, eligible>>

DeleteModel(w) ==
    /\ pc[w] = "drop_model"
    /\ IF \E t \in Trucks : trucks[t] # None /\ trucks[t].model = job[w].model
       THEN UNCHANGED models
       ELSE models' = [models EXCEPT ![job[w].model] = "gone"]
    /\ Respond(w)
    /\ UNCHANGED <<brands, trucks, gallery, drive, eligible>>

-----------------------------------------------------------------------------
(* Trucks and their photos: TruckCreateView and TruckUpdateView.           *)

\* form.is_valid() on a new truck.
OpenCreate(w, f) ==
    /\ models[f.model] = "live"
    /\ \A u \in Trucks : trucks[u] # None => trucks[u].plate # f.plate
    /\ Begin(w, "create", [NoJob EXCEPT !.form = f, !.add = f.add])
    /\ UNCHANGED <<catalogue, trucks, gallery, drive, eligible>>

\* form.save(): full_clean again, then the INSERT.
CreateTruck(w) ==
    /\ pc[w] = "create"
    /\ IF \E t \in Trucks : trucks[t] = None /\ FullClean(job[w].form, t)
       THEN \E t \in Trucks :
              /\ trucks[t] = None
              /\ trucks' = [trucks EXCEPT ![t] = Row(job[w].form)]
              /\ job' = [job EXCEPT ![w].truck = t]
              /\ Goto(w, "photos")
       ELSE Respond(w) /\ UNCHANGED trucks
    /\ UNCHANGED <<catalogue, gallery, drive, eligible>>

\* The form of an existing truck, with the photos to delete and to add.
OpenUpdate(w, t, f, del) ==
    /\ trucks[t] # None
    /\ Cardinality(del) = f.tick
    /\ FullClean(f, t)
    /\ Begin(w, "update", [NoJob EXCEPT !.truck = t, !.copy = trucks[t], !.form = f,
                                        !.del = del, !.add = f.add])
    /\ UNCHANGED <<catalogue, trucks, gallery, drive, eligible>>

\* Requests that hold a copy of the truck are marked as overtaken.
Overtake(w, t) ==
    [v \in Workers |->
        IF v # w /\ job[v].truck = t THEN [job[v] EXCEPT !.raced = TRUE] ELSE job[v]]

\* form.save(): every column of the row is written, updated_at included.
UpdateTruck(w) ==
    /\ pc[w] = "update"
    /\ LET t == job[w].truck
       IN IF FullClean(job[w].form, t)
          THEN /\ trucks' = [trucks EXCEPT ![t] = Row(job[w].form)]
               /\ stale' = stale \ {t}
               /\ job' = Overtake(w, t)
               /\ Goto(w, "photos")
          ELSE Respond(w) /\ UNCHANGED <<trucks, stale>>
    /\ UNCHANGED <<catalogue, gallery, assignments, failed, now, eligible>>

\* photo.delete() for each photo ticked in the form.
DeletePhoto(w) ==
    /\ pc[w] = "photos"
    /\ \E p \in job[w].del :
          /\ job' = [job EXCEPT ![w].del = @ \ {p}]
          /\ photos' = [photos EXCEPT ![job[w].truck] =
                          [q \in DOMAIN @ \ {p} |-> @[q]]]
    /\ Goto(w, "photos")
    /\ UNCHANGED <<catalogue, trucks, uploads, drive, eligible>>

\* Mutant: the order starts at 0 with every form.
CountPhotos_FromZero(w) ==
    /\ pc[w] = "photos"
    /\ job[w].del = {}
    /\ IF job[w].add = 0 THEN Respond(w)
       ELSE /\ job' = [job EXCEPT ![w].seen = Cardinality(DOMAIN photos[job[w].truck])]
            /\ Goto(w, "upload")
    /\ UNCHANGED <<catalogue, trucks, gallery, drive, eligible>>

\* save_truck_photos: the first order is the number of photos there are.
CountPhotos(w) ==
    /\ pc[w] = "photos"
    /\ job[w].del = {}
    /\ IF job[w].add = 0 THEN Respond(w)
       ELSE /\ job' = LET n == Cardinality(DOMAIN photos[job[w].truck])
                     IN [job EXCEPT ![w].next = n, ![w].seen = n]
            /\ Goto(w, "upload")
    /\ UNCHANGED <<catalogue, trucks, gallery, drive, eligible>>

UploadPhoto(w) ==
    /\ pc[w] = "upload"
    /\ LET t == job[w].truck
           p == uploads[t] + 1
       IN /\ photos' = [photos EXCEPT ![t] =
                          [q \in DOMAIN @ \cup {p} |-> IF q = p THEN job[w].next ELSE @[q]]]
          /\ uploads' = [uploads EXCEPT ![t] = p]
    /\ IF job[w].add = 1 THEN Respond(w)
       ELSE /\ job' = [job EXCEPT ![w].add = @ - 1, ![w].next = @ + 1,
                                  ![w].seen = @ + 1]
            /\ Goto(w, "upload")
    /\ UNCHANGED <<catalogue, trucks, drive, eligible>>

-----------------------------------------------------------------------------
(* Drivers: AssignDriverView and UnassignDriverView.                       *)

\* Both views first read the truck.
OpenTruck(w, t, label) ==
    /\ trucks[t] # None
    /\ Begin(w, label, [NoJob EXCEPT !.truck = t, !.copy = trucks[t]])
    /\ UNCHANGED <<catalogue, trucks, gallery, drive, eligible>>

\* TruckAssignmentForm offers active drivers only; then assigned_at is set.
ChooseDriver(w, d) ==
    /\ pc[w] = "choose"
    /\ IF eligible[d]
       THEN /\ job' = [job EXCEPT ![w].driver = d, ![w].at = now + 1]
            /\ now' = now + 1
            /\ Goto(w, "clean")
       ELSE Respond(w) /\ UNCHANGED now
    /\ UNCHANGED <<catalogue, trucks, gallery, assignments, stale, failed, eligible>>

\* Mutant: the query for an open assignment is left out.
CleanAssignment_NoConflict(w) ==
    /\ pc[w] = "clean"
    /\ IF job[w].copy.active THEN Goto(w, "insert") /\ UNCHANGED job ELSE Respond(w)
    /\ UNCHANGED <<catalogue, trucks, gallery, drive, eligible>>

\* TruckAssignment.clean: the truck as it was read, and no open assignment.
CleanAssignment(w) ==
    /\ pc[w] = "clean"
    /\ IF job[w].copy.active /\ Open(job[w].truck) = {}
       THEN Goto(w, "insert") /\ UNCHANGED job
       ELSE Respond(w)
    /\ UNCHANGED <<catalogue, trucks, gallery, drive, eligible>>

InsertAssignment(w) ==
    /\ pc[w] = "insert"
    /\ LET t == job[w].truck
           d == job[w].driver
       IN /\ assignments' = Append(assignments,
                [truck |-> t, driver |-> d, at |-> job[w].at, until |-> 0, by |-> w,
                 closer |-> None, sound |-> (trucks[t].active /\ eligible[d]) \/ job[w].raced])
          /\ stale' = stale \cup {t}
    /\ Goto(w, "touch")
    /\ UNCHANGED <<catalogue, trucks, gallery, failed, now, eligible, job>>

\* Mutant: updated_at of the truck is not moved.
Touch_Forgotten(w) ==
    /\ pc[w] = "touch"
    /\ Respond(w)
    /\ UNCHANGED <<catalogue, trucks, gallery, drive, eligible>>

\* truck.save(update_fields=['updated_at']) cleans the whole copy before it
\* writes the one column; a copy that no longer passes is an error.
Touch(w) ==
    /\ pc[w] = "touch"
    /\ LET t == job[w].truck
       IN IF FullClean(job[w].copy, t)
          THEN stale' = stale \ {t} /\ UNCHANGED failed
          ELSE failed' = failed \cup {t} /\ UNCHANGED stale
    /\ Respond(w)
    /\ UNCHANGED <<catalogue, trucks, gallery, assignments, now, eligible>>

\* Mutant: the query forgets unassigned_at__isnull.
FindOpen_AnyRow(w) ==
    /\ pc[w] = "find"
    /\ IF \A i \in DOMAIN assignments : assignments[i].truck # job[w].truck THEN Respond(w)
       ELSE \E i \in DOMAIN assignments :
              /\ assignments[i].truck = job[w].truck
              /\ job' = [job EXCEPT ![w].row = i]
              /\ Goto(w, "close")
    /\ UNCHANGED <<catalogue, trucks, gallery, drive, eligible>>

\* The assignment that was made last among those that are open.
FindOpen(w) ==
    /\ pc[w] = "find"
    /\ IF Open(job[w].truck) = {} THEN Respond(w)
       ELSE \E i \in Open(job[w].truck) :
              /\ \A k \in Open(job[w].truck) : assignments[k].at <= assignments[i].at
              /\ job' = [job EXCEPT ![w].row = i]
              /\ Goto(w, "close")
    /\ UNCHANGED <<catalogue, trucks, gallery, drive, eligible>>

CloseAssignment(w) ==
    /\ pc[w] = "close"
    /\ assignments' = [assignments EXCEPT ![job[w].row].until = now + 1,
                                            ![job[w].row].closer = w]
    /\ now' = now + 1
    /\ stale' = stale \cup {job[w].truck}
    /\ Goto(w, "touch")
    /\ UNCHANGED <<catalogue, trucks, gallery, failed, eligible, job>>

-----------------------------------------------------------------------------
\* An employee becomes a driver or stops being one (the Employees pages).
EditEmployee(d) ==
    /\ edits < MaxEdits
    /\ eligible' = [eligible EXCEPT ![d] = ~ @]
    /\ job' = [w \in Workers |->
                 IF job[w].driver = d THEN [job[w] EXCEPT !.raced = TRUE] ELSE job[w]]
    /\ edits' = edits + 1
    /\ UNCHANGED <<catalogue, trucks, gallery, drive, pc, ops>>

Init ==
    /\ models = [m \in Models |-> IF m \in InitModels THEN "live" ELSE "new"]
    /\ brands = [b \in Brands |->
                   IF \E m \in InitModels : ModelBrand[m] = b THEN "live" ELSE "new"]
    /\ \E t \in Trucks :
          /\ trucks = [u \in Trucks |-> IF u = t THEN InitTruck ELSE None]
          /\ uploads = [u \in Trucks |-> IF u = t THEN InitPhotos ELSE 0]
    /\ photos = [u \in Trucks |-> [p \in 1 .. uploads[u] |-> p - 1]]
    /\ assignments = << >>
    /\ eligible = [d \in Drivers |-> TRUE]
    /\ stale = {}
    /\ failed = {}
    /\ pc = [w \in Workers |-> "idle"]
    /\ job = [w \in Workers |-> NoJob]
    /\ now = 0
    /\ ops = 0
    /\ edits = 0

\* The next statement of the request a worker serves.
Serve(w) ==
    \/ DeleteBrand(w) \/ DeleteModel(w)
    \/ CreateTruck(w) \/ UpdateTruck(w)
    \/ DeletePhoto(w) \/ CountPhotos(w) \/ UploadPhoto(w)
    \/ \E d \in Drivers : ChooseDriver(w, d)
    \/ CleanAssignment(w) \/ InsertAssignment(w)
    \/ FindOpen(w) \/ CloseAssignment(w)
    \/ Touch(w)

Accept(w) ==
    \/ \E b \in Brands : OpenDeleteBrand(w, b)
    \/ \E m \in Models : OpenDeleteModel(w, m)
    \/ \E f \in Posts :
          \/ OpenCreate(w, f)
          \/ \E t \in Trucks : \E del \in SUBSET DOMAIN photos[t] : OpenUpdate(w, t, f, del)
    \/ \E t \in Trucks, label \in {"choose", "find"} : OpenTruck(w, t, label)

Next ==
    \/ \E b \in Brands : AddBrand(b)
    \/ \E m \in Models : AddModel(m)
    \/ \E w \in Workers : Accept(w) \/ Serve(w)
    \/ \E d \in Drivers : EditEmployee(d)

Spec == Init /\ [][Next]_vars

\* A worker runs the request it serves to its end.
Fairness == \A w \in Workers : WF_vars(Serve(w))

FairSpec == Spec /\ Fairness

-----------------------------------------------------------------------------
Job ==
    [truck : Trucks \cup {None}, copy : Truck \cup {None}, form : TruckForm \cup {None},
     driver : Drivers \cup {None}, at : Nat, row : Nat, brand : Brands \cup {None},
     model : Models \cup {None}, add : Nat, next : Nat, seen : Nat,
     del : SUBSET Nat, raced : BOOLEAN]

Labels == {"idle", "drop_brand", "drop_model", "create", "update", "photos",
           "upload", "choose", "clean", "insert", "touch", "find", "close"}

GalleryOK ==
    /\ uploads \in [Trucks -> Nat]
    /\ DOMAIN photos = Trucks
    /\ \A t \in Trucks :
          /\ DOMAIN photos[t] \subseteq Nat /\ IsFiniteSet(DOMAIN photos[t])
          /\ photos[t] \in [DOMAIN photos[t] -> Nat]

TypeOK ==
    /\ brands \in [Brands -> {"new", "live", "gone"}]
    /\ models \in [Models -> {"new", "live", "gone"}]
    /\ trucks \in [Trucks -> Truck \cup {None}]
    /\ assignments \in Seq(Assignment)
    /\ GalleryOK
    /\ eligible \in [Drivers -> BOOLEAN]
    /\ stale \subseteq Trucks /\ failed \subseteq Trucks
    /\ pc \in [Workers -> Labels]
    /\ job \in [Workers -> Job]
    /\ {now, ops, edits} \subseteq Nat

\* A truck's model and brand exist and belong together, whatever is added and
\* deleted meanwhile: delete_brand only asks for trucks of the brand, and yet
\* takes no model along that a truck has (TruckBrandModelManageView).
CatalogueIntact ==
    /\ \A m \in Models : models[m] = "live" => brands[ModelBrand[m]] = "live"
    /\ \A t \in Trucks : trucks[t] # None =>
          /\ trucks[t].brand = ModelBrand[trucks[t].model]
          /\ models[trucks[t].model] = "live"

\* clean() refuses a second driver, but nothing in the table does: a truck has
\* two drivers only if two workers stored them, both having found it free.
\* With one worker a truck never has two (TruckAssignment.clean).
DoubleDriverOnlyByRace ==
    \A t \in Trucks : \A i, k \in Open(t) :
        i # k => assignments[i].by # assignments[k].by

\* A driver is assigned who is no eligible driver, or to an inactive truck, only
\* if one of the two was edited during the request (TruckAssignment.clean).
UnfitOnlyIfOvertaken == \A i \in DOMAIN assignments : assignments[i].sound

\* The UPDATE that moves updated_at after a change of driver cannot fail unless
\* the truck was edited during the request: a truck protects its model, and
\* its plate is its own (Truck.save runs full_clean on the copy).
TouchFailsOnlyIfOvertaken ==
    \A w \in Workers :
        pc[w] = "touch" /\ ~ job[w].raced => FullClean(job[w].copy, job[w].truck)

PlatesDiffer ==
    \A t, u \in Trucks :
        t # u /\ trucks[t] # None /\ trucks[u] # None => trucks[t].plate # trucks[u].plate

\* What a request has read still stands, unless it was overtaken; a worker that
\* is about to store an assignment has none of its own that is open, and one
\* that is about to close an assignment did not close it before.
RequestInv(w) ==
    /\ pc[w] \in {"create", "update"} => job[w].form \in TruckForm
    /\ pc[w] \in {"update", "photos", "upload", "choose", "clean", "insert", "touch",
                  "find", "close"} =>
          job[w].truck \in Trucks /\ trucks[job[w].truck] # None
    /\ pc[w] = "upload" => job[w].add > 0
    /\ pc[w] = "drop_brand" => job[w].brand \in Brands
    /\ pc[w] = "drop_model" => job[w].model \in Models
    /\ pc[w] \in {"choose", "clean", "insert", "touch", "find", "close"} /\ ~ job[w].raced =>
          job[w].copy = trucks[job[w].truck]
    /\ pc[w] \in {"choose", "clean", "insert", "touch", "find", "close"} => job[w].copy \in Truck
    /\ pc[w] \in {"clean", "insert"} =>
          job[w].driver \in Drivers /\ (job[w].raced \/ eligible[job[w].driver])
    /\ pc[w] = "insert" =>
          /\ job[w].copy.active
          /\ \A i \in Open(job[w].truck) : assignments[i].by # w
    /\ pc[w] = "close" =>
          /\ job[w].row \in DOMAIN assignments
          /\ assignments[job[w].row].until = 0 \/ assignments[job[w].row].closer # w

\* A photo comes no later in the gallery than it was uploaded, and the order a
\* form gives next is the number of photos it has counted and added.
GalleryInv ==
    /\ \A t \in Trucks : \A p \in DOMAIN photos[t] : p \in 1 .. uploads[t] /\ photos[t][p] < p
    /\ \A w \in Workers : pc[w] = "upload" =>
          job[w].next = job[w].seen /\ job[w].next <= uploads[job[w].truck]

\* What the requests rely on.
TablesInv ==
    /\ TypeOK
    /\ CatalogueIntact /\ PlatesDiffer
    /\ DoubleDriverOnlyByRace /\ UnfitOnlyIfOvertaken /\ TouchFailsOnlyIfOvertaken
    /\ \A w \in Workers : RequestInv(w)

IndInv == TablesInv /\ GalleryInv

\* The photos the truck list may show as the cover: it orders by nothing but the
\* order, so that any of those with the least may come first.
ListCovers(t) ==
    {p \in DOMAIN photos[t] : \A q \in DOMAIN photos[t] : photos[t][p] <= photos[t][q]}

\* The one the truck's own page shows first, where the upload decides.
PageFirst(t) == {p \in ListCovers(t) : \A q \in ListCovers(t) : p <= q}

Removed(t) == uploads[t] - Cardinality(DOMAIN photos[t])

\* A photo that is added does not take the place of the cover, as long as no
\* photo of the truck has been deleted and no other form changed the gallery
\* since this one counted it (save_truck_photos).  After one deletion it can
\* tie with the cover: the page still shows the older first, the list may show
\* either.
CoverKept ==
    [][\A w \in Workers, t \in Trucks :
          /\ pc[w] = "upload" /\ job[w].truck = t /\ job'[w] # job[w]
          /\ job[w].seen = Cardinality(DOMAIN photos[t])
          /\ photos[t] # << >> /\ Removed(t) < 2
          => /\ PageFirst(t)' = PageFirst(t)
             /\ ListCovers(t) \subseteq ListCovers(t)'
             /\ Removed(t) = 0 => ListCovers(t)' = ListCovers(t)]_vars

\* The time at which a driver gave back the truck is overwritten only by
\* another worker that found the assignment open too (UnassignDriverView).
ReclosedByAnother ==
    [][\A i \in DOMAIN assignments :
          assignments[i].until # 0 /\ assignments'[i] # assignments[i] =>
              assignments'[i].closer # assignments[i].closer]_vars

\* The truck list refreshes the rows whose updated_at moved: each change of
\* driver is followed by such a move, or the request answers an error.
DriverChangeAnnounced ==
    \A t \in Trucks : t \in stale ~> (t \notin stale \/ t \in failed)
=============================================================================
