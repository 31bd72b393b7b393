------------------------------ MODULE LivePoll ------------------------------
(***************************************************************************)
(* A list page that keeps itself up to date: the script in the browser     *)
(* (templates/base.html) and the list view that answers it.  The script    *)
(* asks every five seconds for rows created after its first cursor, which  *)
(* it puts in front of the table, and for rows changed after its second    *)
(* one, which replace those shown or are appended; scrolling down appends  *)
(* the next page.  The calendar asks for the days in which records were    *)
(* created or changed and draws those anew.                                *)
(*                                                                         *)
(* The list views are this one view with other filters; a page says which  *)
(* of the mechanisms it runs, how its rows are ordered and what of them    *)
(* can be edited (EmployeeList and those after it).  A row has a place in  *)
(* the order of the list (its name, plate or arrival), which it may share  *)
(* with others - no view breaks the tie - and is one of the tab or not, by *)
(* the one field (active, departed) that changes.  A hidden browser tab    *)
(* only delays the requests.                                               *)
(***************************************************************************)
EXTENDS Integers, FiniteSets, SequencesExt

CONSTANTS
    N,          \* rows there may be
    Span,       \* places they may have in the order of a list
    Nil, Sent,
    Pages,      \* the pages that are looked at
    PageSize,   \* PAGE_SIZE of the views
    Limit,      \* LIVE_POLL_LIMIT
    Skew,       \* how far the browser's clock is ahead of the server's
    MaxWrites,  \* bound: rows created and changed while a page is looked at
    MaxLosses   \* bound: requests of the script that fail

Rows == 1 .. N
Channels == {"poll", "update", "scroll"}

Places == 1 .. Span

\* first: the rows there when the page is loaded.  entered: the times of the
\* rows are typed in (the arrivals and departures in the presence history).
Page ==
    [tab : {"all", "active", "other"}, order : {"place", "active", "latest"},
     edits : SUBSET {"place", "active"}, update : BOOLEAN, calendar : BOOLEAN,
     scroll : BOOLEAN, entered : BOOLEAN,
     first : UNION {[S -> [place : Places, active : BOOLEAN]] : S \in SUBSET Rows}]

Row == [created : Nat, updated : Nat, active : BOOLEAN, place : Places]

\* A row as it is shown, and the mechanism that put it there.
Entry == [row : Rows, was : Row, via : Channels \cup {"load"}]

Answer == [new : Seq(Entry), removed : SUBSET Rows, newest : Nat, more : BOOLEAN]

ASSUME LivePollAssumption ==
    /\ {N, Span} \subseteq Nat \ {0} /\ PageSize \in Nat \ {0} /\ Limit \in Nat \ {0}
    /\ {Skew, MaxLosses} \subseteq Nat /\ MaxWrites \in [Pages -> Nat]
    /\ Pages \subseteq Page
    /\ Nil \notin Row /\ Nil \notin Answer /\ Sent \notin Answer /\ Nil # Sent

Listing(tab, order, edits, first) ==
    [tab |-> tab, order |-> order, edits |-> edits, update |-> TRUE, calendar |-> FALSE,
     scroll |-> TRUE, entered |-> FALSE, first |-> first]

\* Employees: the active ones by name, or with show_inactive all of them, the
\* inactive ones after the others.
EmployeeList(inactive, first) ==
    IF inactive THEN Listing("all", "active", {"active", "place"}, first)
                ELSE Listing("active", "place", {"active", "place"}, first)

\* Visits on site, those completed (departed), or all, by their arrival.
VisitList(tab, first) == Listing(tab, "place", {"active"}, first)

TruckList(first) == Listing("all", "place", {"place"}, first)

\* Users and the records of one employee are listed on one page.
UserList(first) == [Listing("all", "place", {"active"}, first) EXCEPT !.scroll = FALSE]
RecordList(first) == [Listing("all", "place", {"active"}, first) EXCEPT !.scroll = FALSE]

\* Visitors and the audit log are only asked for new rows.
VisitorList(first) == [Listing("all", "place", {"place"}, first) EXCEPT !.update = FALSE]
LogList(first) == [Listing("all", "latest", {}, first) EXCEPT !.update = FALSE]

\* The events of employees, and the arrivals and departures of visitors at the
\* times that were typed in for them.
PresenceHistory(first) == [LogList(first) EXCEPT !.entered = TRUE]

\* The records of one employee in one month, here of one day.
Calendar(first) ==
    [Listing("all", "place", {"active"}, first) EXCEPT
        !.update = FALSE, !.scroll = FALSE, !.calendar = TRUE]

VARIABLES
    page,
    rows,      \* the table: a row or Nil
    writing,   \* a write that has taken its time and is not committed
    clock, writes, losses,
    dom,       \* the rows of the page, from the top
    cursor,    \* since of startLivePoll and of startLiveUpdate
    req,       \* a mechanism's request: Nil, Sent, or its answer on the way
    next,      \* nextPage, 0 when there is none
    \* history
    due,       \* by which mechanisms the last write to a row can be noticed
    kept       \* the first rows that no edit has moved up, out or beside another

table == <<rows, writing, clock, writes>>
client == <<dom, cursor, next>>
pollVars == <<page, table, losses, client, req, due, kept>>

InTab(row) ==
    \/ page.tab = "all"
    \/ page.tab = "active" /\ row.active
    \/ page.tab = "other" /\ ~ row.active

Present == {r \in Rows : rows[r] # Nil}
Listed == {r \in Present : InTab(rows[r])}

Entries(s, via) == [i \in DOMAIN s |-> [row |-> s[i], was |-> rows[s[i]], via |-> via]]

Created(r) == rows[r].created
Updated(r) == rows[r].updated

\* Where a row stands in its list.
Key(row) ==
    IF page.order = "latest" THEN 0 - row.created
    ELSE IF page.order = "active" /\ ~ row.active THEN Span + row.place
    ELSE row.place

\* How the database orders rows that stand in one place: another way each time.
Ties == {f \in [Rows -> Rows] : IsInjective(f)}

\* The members of the finite set S in the strict order before: each has as many
\* before it as there are places before its own.
Arranged(S, before(_, _)) ==
    [k \in 1 .. Cardinality(S) |->
        CHOOSE r \in S : Cardinality({q \in S : before(q, r)}) = k - 1]

Ascending(S) == Arranged(S, LAMBDA r, s : r < s)

\* The rows of the tab as the view orders them.
InOrder(tie) ==
    Arranged(Listed, LAMBDA r, s : \/ Key(rows[r]) < Key(rows[s])
                                   \/ Key(rows[r]) = Key(rows[s]) /\ tie[r] < tie[s])

\* The first Limit of the rows in S, the latest by a field first.
Newest(S, field, tie) ==
    LET later(r, s) == \/ rows[r][field] > rows[s][field]
                       \/ rows[r][field] = rows[s][field] /\ tie[r] < tie[s]
    IN SubSeq(Arranged(S, later), 1, Min({Limit, Cardinality(S)}))

\* What a sequence has at the places in I.
Picked(s, I) == LET at == Ascending(I) IN [k \in DOMAIN at |-> s[at[k]]]

\* Places of a row in the table.
Copies(r) == {i \in DOMAIN dom : dom[i].row = r}

\* Rows of the tab that stand before a row or in its place, and whether another
\* one does in its place.
Position(r) == Cardinality({q \in Listed : Key(rows[q]) <= Key(rows[r])})
Alone(r) == \A q \in Listed : Key(rows[q]) = Key(rows[r]) => q = r

\* An answer is on its way, and has the row.
OnItsWay(ch) == req[ch] \notin {Nil, Sent}
Carried(ch, r) == \E i \in DOMAIN req[ch].new : req[ch].new[i].row = r

-----------------------------------------------------------------------------
(* The database: rows are created and changed by other requests, which take *)
(* created_at and updated_at before the statement that stores them commits. *)

Insert(r) ==
    /\ rows[r] = Nil /\ writing[r] = Nil
    /\ writes < MaxWrites[page]
    /\ \E t \in IF page.entered THEN 0 .. clock + 2 ELSE {clock + 1}, place \in Places :
          writing' = [writing EXCEPT ![r] =
                        [created |-> t, updated |-> clock + 1, active |-> TRUE, place |-> place]]
    /\ clock' = clock + 1
    /\ writes' = writes + 1
    /\ UNCHANGED <<page, rows, losses, client, req, due, kept>>

\* A row with another place, switched, or with something else changed.
Changed(row) ==
    [created : {row.created}, updated : {clock + 1},
     active : IF "active" \in page.edits THEN BOOLEAN ELSE {row.active},
     place : IF "place" \in page.edits THEN Places ELSE {row.place}]

\* An employee, a visitor or a truck is edited, an employee or an account
\* switched, a driver assigned, a visit or a record closed: updated_at is moved.
Change(r) ==
    /\ page.edits # {}
    /\ rows[r] # Nil /\ writing[r] = Nil
    /\ writes < MaxWrites[page]
    /\ \E row \in Changed(rows[r]) : writing' = [writing EXCEPT ![r] = row]
    /\ clock' = clock + 1
    /\ writes' = writes + 1
    /\ UNCHANGED <<page, rows, losses, client, req, due, kept>>

\* Where the cursor will be once the answer on the way has arrived.
Horizon(ch) ==
    IF OnItsWay(ch) THEN Max({cursor[ch], req[ch].newest}) ELSE cursor[ch]

Commit(r) ==
    /\ writing[r] # Nil
    /\ LET row == writing[r]
           poll == ~ page.calendar /\ rows[r] = Nil /\ row.created > Horizon("poll")
           update == /\ page.update \/ page.calendar
                     /\ row.updated > Horizon("update")
                     /\ \A ch \in {"poll", "scroll"} : ~ (OnItsWay(ch) /\ Carried(ch, r))
       IN /\ rows' = [rows EXCEPT ![r] = row]
          /\ due' = [due EXCEPT ![r] = {ch \in Channels :
                       (ch = "poll" /\ poll) \/ (ch = "update" /\ update)}]
    /\ writing' = [writing EXCEPT ![r] = Nil]
    /\ UNCHANGED <<page, clock, writes, losses, client, req>>
    /\ kept' = {q \in kept : q \in Listed' /\ Position(q)' >= Position(q) /\ Alone(q)'}

-----------------------------------------------------------------------------
(* The requests of the script.                                             *)

\* tick and loadMore: one request of a kind at a time (polling, loading).
Send(ch) ==
    /\ req[ch] = Nil
    /\ ch = "poll" => ~ page.calendar
    /\ ch = "update" => page.update \/ page.calendar
    /\ ch = "scroll" => next # 0
    /\ req' = [req EXCEPT ![ch] = Sent]
    /\ UNCHANGED <<page, table, losses, client, due, kept>>

Reply(ch, answer, seen, eligible) ==
    /\ req' = [req EXCEPT ![ch] = answer]
    /\ due' = [r \in Rows |-> IF r \in eligible \ seen THEN due[r] \ {ch} ELSE due[r]]
    /\ UNCHANGED <<page, table, losses, client, kept>>

\* Mutant: created_at__gte.
AnswerPoll_Gte ==
    /\ req["poll"] = Sent
    /\ \E tie \in Ties :
       LET fresh == {r \in Listed : rows[r].created >= cursor["poll"]}
           s == Newest(fresh, "created", tie)
       IN Reply("poll", [new |-> Entries(s, "poll"), removed |-> {}, more |-> FALSE,
                         newest |-> IF s = << >> THEN cursor["poll"] ELSE Created(s[1])],
                ToSet(s), fresh)

\* _poll_response: the newest rows of the tab created after the cursor.
AnswerPoll ==
    /\ req["poll"] = Sent
    /\ \E tie \in Ties :
       LET fresh == {r \in Listed : rows[r].created > cursor["poll"]}
           s == Newest(fresh, "created", tie)
       IN Reply("poll", [new |-> Entries(s, "poll"), removed |-> {}, more |-> FALSE,
                         newest |-> IF s = << >> THEN cursor["poll"] ELSE Created(s[1])],
                ToSet(s), fresh)

\* Mutant: rows that have left the tab are not found.
AnswerUpdate_OfTab ==
    /\ req["update"] = Sent /\ ~ page.calendar
    /\ \E tie \in Ties :
       LET changed == {r \in Listed : rows[r].updated > cursor["update"]}
           s == Newest(changed, "updated", tie)
       IN Reply("update", [new |-> Entries(s, "update"), removed |-> {}, more |-> FALSE,
                           newest |-> IF s = << >> THEN cursor["update"] ELSE Updated(s[1])],
                ToSet(s), changed)

\* _update_response: the rows changed after the cursor, whatever their tab;
\* those that are not in this one (any more) are only named.
AnswerUpdate ==
    /\ req["update"] = Sent /\ ~ page.calendar
    /\ \E tie \in Ties :
       LET changed == {r \in Present : rows[r].updated > cursor["update"]}
           s == Newest(changed, "updated", tie)
           visible == Picked(s, {i \in DOMAIN s : InTab(rows[s[i]])})
       IN Reply("update", [new |-> Entries(visible, "update"),
                           removed |-> {r \in ToSet(s) : ~ InTab(rows[r])}, more |-> FALSE,
                           newest |-> IF s = << >> THEN cursor["update"] ELSE Updated(s[1])],
                ToSet(s), changed)

\* The day in which a record was created or changed, with all its records.
AnswerCalendar ==
    /\ req["update"] = Sent /\ page.calendar
    /\ LET changed == {r \in Present : Max({Created(r), Updated(r)}) > cursor["update"]}
           day == IF changed = {} THEN {} ELSE Present
       IN Reply("update", [new |-> Entries(Ascending(day), "update"), removed |-> {},
                           more |-> FALSE,
                           newest |-> Max({cursor["update"]} \cup {Updated(r) : r \in changed})],
                {}, {})

\* Mutant: pages counted from 0.
AnswerScroll_FromZero ==
    /\ req["scroll"] = Sent
    /\ \E tie \in Ties :
       LET all == InOrder(tie)
           last == Max({1, (Len(all) + PageSize - 1) \div PageSize})
           at == Min({next, last})
       IN Reply("scroll", [new |-> Entries(SubSeq(all, at * PageSize + 1,
                                                  Min({(at + 1) * PageSize, Len(all)})), "scroll"),
                           removed |-> {}, newest |-> 0, more |-> at < last], {}, {})

\* Paginator.get_page as infinite_scroll_json sends it: past the last page it
\* is the last one.
AnswerScroll ==
    /\ req["scroll"] = Sent
    /\ \E tie \in Ties :
       LET all == InOrder(tie)
           last == Max({1, (Len(all) + PageSize - 1) \div PageSize})
           at == Min({next, last})
       IN Reply("scroll", [new |-> Entries(SubSeq(all, (at - 1) * PageSize + 1,
                                                  Min({at * PageSize, Len(all)})), "scroll"),
                           removed |-> {}, newest |-> 0, more |-> at < last], {}, {})

\* The request or its answer is lost: the next tick sends another.
Lose(ch) ==
    /\ req[ch] # Nil
    /\ losses < MaxLosses
    /\ losses' = losses + 1
    /\ req' = [req EXCEPT ![ch] = Nil]
    /\ UNCHANGED <<page, table, client, due, kept>>

-----------------------------------------------------------------------------
(* What the script does with the answers.                                  *)

Received(ch) ==
    /\ OnItsWay(ch)
    /\ req' = [req EXCEPT ![ch] = Nil]
    /\ UNCHANGED <<page, table, losses, due, kept>>

ApplyPoll ==
    /\ Received("poll")
    /\ LET new == req["poll"].new
       IN IF new = << >> THEN UNCHANGED <<dom, cursor>>
          ELSE /\ dom' = new \o dom
               /\ cursor' = [cursor EXCEPT !["poll"] = req["poll"].newest]
    /\ UNCHANGED next

\* querySelector finds the first row with the id.
IsFirst(i) == \A k \in DOMAIN dom : dom[k].row = dom[i].row => i <= k

\* The table with the rows of an answer, each once, in the place of those shown.
Replaced(new) ==
    LET sent(i) == {k \in DOMAIN new : new[k].row = dom[i].row}
    IN [i \in DOMAIN dom |->
          IF IsFirst(i) /\ sent(i) # {}
          THEN [new[CHOOSE k \in sent(i) : TRUE] EXCEPT !.via = dom[i].via]
          ELSE dom[i]]

\* The rows that are not shown come to the end, those named as removed go; no
\* answer sends a row and names it as well.
Absent(new) == {k \in DOMAIN new : Copies(new[k].row) = {}}
Staying(gone) == {i \in DOMAIN dom : ~ (dom[i].row \in gone /\ IsFirst(i))}

ApplyUpdate ==
    /\ Received("update")
    /\ LET a == req["update"]
       IN IF page.calendar
          THEN /\ dom' = IF a.new = << >> THEN dom ELSE a.new
               /\ cursor' = [cursor EXCEPT !["update"] = a.newest]
          ELSE /\ dom' = Picked(Replaced(a.new), Staying(a.removed))
                       \o Picked(a.new, Absent(a.new))
               /\ cursor' = IF a.new = << >> THEN cursor
                            ELSE [cursor EXCEPT !["update"] = a.newest]
    /\ UNCHANGED next

ApplyScroll ==
    /\ Received("scroll")
    /\ dom' = dom \o req["scroll"].new
    /\ next' = IF req["scroll"].more THEN next + 1 ELSE 0
    /\ UNCHANGED cursor

-----------------------------------------------------------------------------
\* The latest time among the rows of the page, or the browser's clock.
StartCursor(times, browser) == IF times = {} THEN browser ELSE Max(times)

\* The page as it is loaded: the first PageSize rows of the tab, which were
\* created in some order.
PollInit ==
    /\ page \in Pages
    /\ \E f \in [DOMAIN page.first -> 1 .. Cardinality(DOMAIN page.first)] :
          /\ IsInjective(f)
          /\ rows = [r \in Rows |-> IF r \in DOMAIN page.first
                       THEN [created |-> f[r], updated |-> f[r],
                             active |-> page.first[r].active, place |-> page.first[r].place]
                       ELSE Nil]
    /\ writing = [r \in Rows |-> Nil]
    /\ clock = Cardinality(DOMAIN page.first)
    /\ \E tie \in Ties :
       LET all == InOrder(tie)
           shown == IF ~ page.scroll THEN all ELSE SubSeq(all, 1, Min({PageSize, Len(all)}))
       IN /\ dom = Entries(shown, "load")
          /\ next = IF Len(shown) < Len(all) THEN 2 ELSE 0
          /\ cursor = [ch \in {"poll", "update"} |->
                 StartCursor(IF page.calendar THEN {}
                             ELSE {IF ch = "poll" THEN Created(r) ELSE Updated(r) :
                                     r \in ToSet(shown)},
                             clock + Skew)]
    /\ req = [ch \in Channels |-> Nil]
    /\ due = [r \in Rows |-> {}]
    /\ kept = {r \in Listed : Alone(r)}
    /\ writes = 0
    /\ losses = 0

PollNext ==
    \/ \E r \in Rows : Insert(r) \/ Change(r) \/ Commit(r)
    \/ \E ch \in Channels : Send(ch) \/ Lose(ch)
    \/ AnswerPoll \/ AnswerUpdate \/ AnswerCalendar \/ AnswerScroll
    \/ ApplyPoll \/ ApplyUpdate \/ ApplyScroll

PollSpec == PollInit /\ [][PollNext]_pollVars

\* Writes commit, the timers of the script tick, the server answers and the
\* browser takes the answers; nobody has to scroll.
Fairness ==
    /\ \A r \in Rows : WF_pollVars(Commit(r))
    /\ \A ch \in {"poll", "update"} : WF_pollVars(Send(ch))
    /\ WF_pollVars(AnswerPoll) /\ WF_pollVars(AnswerUpdate) /\ WF_pollVars(AnswerCalendar)
    /\ WF_pollVars(ApplyPoll) /\ WF_pollVars(ApplyUpdate)

FairPollSpec == PollSpec /\ Fairness

-----------------------------------------------------------------------------
PollTypeOK ==
    /\ page \in Pages
    /\ rows \in [Rows -> Row \cup {Nil}] /\ writing \in [Rows -> Row \cup {Nil}]
    /\ {clock, writes, losses, next} \subseteq Nat
    /\ dom \in Seq(Entry)
    /\ cursor \in [{"poll", "update"} -> Nat]
    /\ req \in [Channels -> {Nil, Sent} \cup Answer]
    /\ due \in [Rows -> SUBSET Channels]
    /\ kept \subseteq Rows

\* The cursor of the new rows never asks for a row that it has put there or
\* that was on the page when it was loaded, and a row that is updated takes
\* the place of the one shown: a row is twice on the page only if one copy
\* came by scrolling, or by an update that overtook the poll (base.html).
TwiceOnlyByCrossing ==
    \A i, k \in DOMAIN dom :
        i < k /\ dom[i].row = dom[k].row =>
            \/ "scroll" \in {dom[i].via, dom[k].via}
            \/ {dom[i].via, dom[k].via} = {"poll", "update"}

\* Who scrolls to the end has seen every row that was there when the page was
\* loaded, unless it left the tab, moved up in the list or shared its place
\* with another, whose order the database may turn from page to page (loadMore).
NothingSkipped == next = 0 => \A r \in kept : Copies(r) # {}

RowsOnce(new) == \A i, k \in DOMAIN new : i < k => new[i].row # new[k].row

\* A change leaves created_at alone.
CreatedStays ==
    \A r \in Rows : writing[r] # Nil /\ rows[r] # Nil => writing[r].created = rows[r].created

\* The cursor of the new rows has passed every row that it put there, and those
\* that were there when the page was loaded; an answer to it brings later ones.
BehindCursor ==
    \A i \in DOMAIN dom : dom[i].via \in {"load", "poll"} =>
        dom[i].row \in Present /\ Created(dom[i].row) <= cursor["poll"]

PollBringsLater ==
    /\ req["poll"] # Nil => ~ page.calendar
    /\ OnItsWay("poll") =>
          /\ RowsOnce(req["poll"].new)
          /\ \A e \in ToSet(req["poll"].new) :
                /\ e.via = "poll" /\ e.row \in Present
                /\ Created(e.row) \in cursor["poll"] + 1 .. req["poll"].newest

UpdateBringsOnce ==
    /\ OnItsWay("update") =>
          /\ RowsOnce(req["update"].new)
          /\ \A e \in ToSet(req["update"].new) :
                e.via = "update" /\ e.row \notin req["update"].removed
    /\ OnItsWay("scroll") => \A e \in ToSet(req["scroll"].new) : e.via = "scroll"

\* The rows that were kept are in the tab and nothing takes them from the page.
KeptStay ==
    /\ kept \subseteq Listed /\ \A r \in kept : Alone(r)
    /\ OnItsWay("update") /\ ~ page.calendar => req["update"].removed \cap kept = {}
    /\ page.calendar /\ OnItsWay("update") /\ req["update"].new # << >> =>
          \A r \in kept : Carried("update", r)

\* The pages before the next one, and the one on its way, have brought the rows
\* that stand there: those that were kept only moved down.
PagesBrought ==
    /\ req["scroll"] # Nil => next # 0
    /\ \A r \in kept :
          /\ next # 0 /\ Position(r) <= (next - 1) * PageSize => Copies(r) # {}
          /\ OnItsWay("scroll") /\ (Position(r) <= next * PageSize \/ ~ req["scroll"].more) =>
                Copies(r) # {} \/ Carried("scroll", r)

PollInv ==
    /\ PollTypeOK
    /\ TwiceOnlyByCrossing /\ NothingSkipped
    /\ CreatedStays /\ BehindCursor /\ PollBringsLater /\ UpdateBringsOnce
    /\ KeptStay /\ PagesBrought

\* Once nothing is written any more the page shows each row as it is, and none
\* that left its tab - but for rows no request can notice: committed behind a
\* cursor, cut off by the limit, overtaken by an older copy, or there twice.
Settles ==
    <>[](\A r \in Rows :
            due[r] # {} /\ Cardinality(Copies(r)) <= 1 =>
                IF InTab(rows[r]) \/ page.calendar
                THEN \E i \in Copies(r) : dom[i].was = rows[r]
                ELSE Copies(r) = {})
=============================================================================
