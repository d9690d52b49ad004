----------------------------- MODULE Dashboard -----------------------------
(***************************************************************************)
(* The first page of the web application (web/src/pages/Dashboard.jsx):    *)
(* the counts of jobs by status and the list of jobs, fetched together     *)
(* when the page is mounted, when a filter is chosen and after every event *)
(* of the server.  Fetches overlap, and each sets the state when both its  *)
(* answers are there.                                                      *)
(*                                                                         *)
(* One number of the page is followed to the screen, through the 300 ms    *)
(* animations of components/design-system/AnimatedNumber.jsx.              *)
(***************************************************************************)
EXTENDS Integers, Sequences, FiniteSets

CONSTANTS
    Jobs,        \* the ids of jobs
    TypeOf,      \* the type of each
    NoData,      \* nothing fetched yet
    FirstRows,   \* the statuses at the start
    Chosen,      \* the filters the user chooses
    Followed,    \* the status whose number is followed to the screen
    MaxFetches,  \* bound: fetches under way at once
    MaxChanges,  \* bound: changes of rows
    MaxEvents    \* bound: events on their way to the page

Status == {"scheduled", "queued", "running", "completed", "failed"}
Types == {"csv_processing", "log_analysis", "monitoring"}

\* The filters of the page; "" is "All".
Filter == [status : Status \union {""}, type : Types \union {""}]

Entry == [id : Jobs, status : Status, type : Types]

ASSUME DashboardAssumption ==
    /\ IsFiniteSet(Jobs)
    /\ TypeOf \in [Jobs -> Types]
    /\ NoData \notin [Status -> Nat]
    /\ Chosen \subseteq Filter
    /\ Followed \in Status
    /\ FirstRows \subseteq Status \union {"absent"}
    /\ MaxFetches \in Nat \ {0}
    /\ MaxChanges \in Nat
    /\ MaxEvents \in Nat

VARIABLES
    rows,      \* the server's table: the status of each job, or "absent"
    changes,   \* how often it has changed
    events,    \* how many events are on their way to the page
    filter,    \* the filters that are set
    stats,     \* the counts the page holds
    list,      \* the jobs the page holds
    loading,   \* no fetch has come to an end yet
    error,     \* the alert is shown
    seeding,   \* the load demo: "no", "asked", or "served" and not answered yet
    fetches,   \* the fetches under way, in the order they were sent
    missed,    \* history: a change since the last fetch, and no event will tell
    stale,     \* history: what is shown is of a fetch that a later one had overtaken
    display,   \* the number followed, on the screen, when no animation runs
    prevRef,   \* the value at the end of the last animation
    tweens,    \* the values the animations under way lead to
    returned   \* history: the value came back to prevRef while an animation led away from it

serverVars == <<rows, changes>>
numberVars == <<display, prevRef, tweens, returned>>
dataVars == <<stats, list, loading, stale, numberVars>>
dashboardVars == <<serverVars, events, filter, dataVars, error, seeding, fetches, missed>>

\* A fetch, and the answers of its two requests that are there.
Fetch == [filter : Filter, stats : [Status -> Nat] \union {NoData},
          list : (SUBSET Entry) \union {NoData}, late : BOOLEAN]

DashboardTypeOK ==
    /\ rows \in [Jobs -> Status \union {"absent"}]
    /\ changes \in 0..MaxChanges
    /\ events \in 0..MaxEvents
    /\ filter \in Filter
    /\ stats \in [Status -> Nat] \union {NoData}
    /\ list \subseteq Entry
    /\ loading \in BOOLEAN
    /\ error \in BOOLEAN
    /\ seeding \in {"no", "asked", "served"}
    /\ fetches \in Seq(Fetch)
    /\ missed \in BOOLEAN
    /\ stale \in BOOLEAN
    /\ display \in Nat
    /\ prevRef \in Nat
    /\ tweens \in Seq(Nat)
    /\ returned \in BOOLEAN

-----------------------------------------------------------------------------
(* What the server answers, and what the page makes of it *)

\* GetStats
Counts == [s \in Status |-> Cardinality({id \in Jobs : rows[id] = s})]

Matches(entry, f) ==
    /\ f.status = "" \/ entry.status = f.status
    /\ f.type = "" \/ entry.type = f.type

\* ListJobs; the first 50 are all there are.
Listed(f) ==
    {e \in {[id |-> id, status |-> rows[id], type |-> TypeOf[id]] : id \in {j \in Jobs : rows[j] # "absent"}} :
        Matches(e, f)}

\* The chart of the counts, or the hint that there are no data.
Chart(counts) == IF \E s \in Status : counts[s] > 0 THEN counts ELSE [s \in Status |-> 0]

\* A card of the list: the badge (which reads "retrying" by counts of retries that are left
\* out here), the type, and the link to the job's page.
Card(e) == [badge |-> e.status, type |-> e.type, link |-> e.id]

\* The table, or the cards on a narrow screen; or the hint that no job matches.
Table(jobs) == [hint |-> jobs = {}, lines |-> {Card(e) : e \in jobs}]

\* Metrics, chart and table.
View(counts, jobs) == [metrics |-> counts, chart |-> Chart(counts), table |-> Table(jobs)]

-----------------------------------------------------------------------------
(* Fetching *)

BlankFilter == [status |-> "", type |-> ""]

NewFetch(f) == [filter |-> f, stats |-> NoData, list |-> NoData, late |-> FALSE]

\* fetchAll up to its two requests.
FetchAll(f) ==
    /\ Len(fetches) < MaxFetches
    /\ fetches' = Append(fetches, NewFetch(f))
    /\ missed' = FALSE

\* The page is mounted when the application starts.
DashboardInit ==
    /\ rows \in [Jobs -> FirstRows]
    /\ changes = 0
    /\ events = 0
    /\ filter = BlankFilter
    /\ stats = NoData
    /\ list = {}
    /\ loading = TRUE
    /\ error = FALSE
    /\ seeding = "no"
    /\ fetches = <<NewFetch(BlankFilter)>>
    /\ missed = FALSE
    /\ stale = FALSE
    /\ display = 0
    /\ prevRef = 0
    /\ tweens = <<>>
    /\ returned = FALSE

ServeStats(i) ==
    /\ fetches[i].stats = NoData
    /\ fetches' = [fetches EXCEPT ![i].stats = Counts]
    /\ UNCHANGED <<serverVars, events, filter, dataVars, error, seeding, missed>>

ServeList(i) ==
    /\ fetches[i].list = NoData
    /\ fetches' = [fetches EXCEPT ![i].list = Listed(fetches[i].filter)]
    /\ UNCHANGED <<serverVars, events, filter, dataVars, error, seeding, missed>>

\* The fetches under way without the i-th, which has overtaken those before it.
Without(i) ==
    [k \in 1..(Len(fetches) - 1) |->
        IF k < i THEN [fetches[k] EXCEPT !.late = TRUE] ELSE fetches[k + 1]]

\* The number is mounted with the first counts, and then animated from prevRef to each new
\* value; if that is where it starts from, the effect returns, and leaves the animations that
\* run alone.
ShowNumber(n) ==
    IF stats = NoData
    THEN display' = n /\ prevRef' = n /\ UNCHANGED <<tweens, returned>>
    ELSE IF n = stats[Followed] THEN UNCHANGED numberVars
    ELSE /\ UNCHANGED <<display, prevRef>>
         /\ tweens' = IF n = prevRef THEN tweens ELSE Append(tweens, n)
         /\ returned' = (n = prevRef /\ tweens # <<>>)

\* Promise.all has both answers.
Answered(i) == fetches[i].stats # NoData /\ fetches[i].list # NoData

FetchSucceeds(i) ==
    /\ Answered(i)
    /\ fetches' = Without(i)
    /\ stats' = fetches[i].stats
    /\ list' = fetches[i].list
    /\ ShowNumber(fetches[i].stats[Followed])
    /\ error' = FALSE
    /\ loading' = FALSE
    /\ stale' = fetches[i].late
    /\ UNCHANGED <<serverVars, events, filter, seeding, missed>>

\* Fault: a fetch that fails is dropped without a word.
FetchFailsSilently(i) ==
    /\ ~Answered(i)
    /\ fetches' = Without(i)
    /\ loading' = FALSE
    /\ UNCHANGED <<serverVars, events, filter, stats, list, stale, numberVars, error, seeding, missed>>

\* One of the requests fails, or its answer is lost; Promise.all fails with the first.
FetchFails(i) ==
    /\ ~Answered(i)
    /\ fetches' = Without(i)
    /\ error' = TRUE
    /\ loading' = FALSE
    /\ UNCHANGED <<serverVars, events, filter, stats, list, stale, numberVars, seeding, missed>>

\* Fault: the end of an animation is not recorded.
TweenEndsUnrecorded ==
    /\ tweens # <<>>
    /\ display' = Head(tweens)
    /\ tweens' = Tail(tweens)
    /\ UNCHANGED <<serverVars, events, filter, stats, list, loading, stale, error, seeding, fetches,
                   missed, prevRef, returned>>

\* Animations all take 300 ms, so they end in the order they began.
TweenEnds ==
    /\ tweens # <<>>
    /\ display' = Head(tweens)
    /\ prevRef' = Head(tweens)
    /\ tweens' = Tail(tweens)
    /\ UNCHANGED <<serverVars, events, filter, stats, list, loading, stale, error, seeding, fetches,
                   missed, returned>>

-----------------------------------------------------------------------------
(* The user *)

\* handleFilter and handleTypeFilter.
SetFilter(f) ==
    /\ ~loading
    /\ filter' = f
    /\ FetchAll(f)
    /\ UNCHANGED <<serverVars, events, dataVars, error, seeding>>

\* The widget of a status is a button, too, that filters by it.
StatusChosen(s) == SetFilter([filter EXCEPT !.status = s])

TypeChosen(t) == SetFilter([filter EXCEPT !.type = t])

\* The buttons of JobFilters.
ChooseFilter == \E f \in Chosen : StatusChosen(f.status) \/ TypeChosen(f.type)

\* handleSeed up to its request.
RunLoadDemo ==
    /\ seeding = "no"
    /\ seeding' = "asked"
    /\ UNCHANGED <<serverVars, events, filter, dataVars, error, fetches, missed>>

\* handleSeed goes on, with an error if the request has failed or its answer is lost.
LoadDemoAnswered ==
    /\ seeding # "no"
    /\ seeding' = "no"
    /\ \/ error' = TRUE
       \/ seeding = "served" /\ UNCHANGED error
    /\ UNCHANGED <<serverVars, events, filter, dataVars, fetches, missed>>

-----------------------------------------------------------------------------
(* The server *)

\* An event reaches the page, or is dropped by the hub or lost with the stream.
Emit ==
    \/ /\ events < MaxEvents
       /\ events' = events + 1
       /\ UNCHANGED missed
    \/ /\ missed' = TRUE
       /\ UNCHANGED events

\* The steps of a job's life that are saved and announced.  A worker's Save of a job that
\* was deleted under it inserts the row again, in any status it may come to.
Announced == ({"absent"} \X Status)
             \union (Status \X {"absent"})
             \union {<<"queued", "running">>, <<"running", "completed">>, <<"running", "failed">>,
                     <<"running", "queued">>, <<"failed", "queued">>}

\* The steps told to nobody: poll dispatches a job, which may have been deleted since it was
\* read, and the scheduler creates one of its own.
Unannounced == {<<"scheduled", "queued">>, <<"absent", "queued">>, <<"absent", "scheduled">>}

ChangeRow(id) ==
    /\ changes < MaxChanges
    /\ changes' = changes + 1
    /\ \E s \in Status \union {"absent"} :
          /\ rows' = [rows EXCEPT ![id] = s]
          /\ \/ <<rows[id], s>> \in Announced /\ Emit
             \/ /\ <<rows[id], s>> \in Unannounced
                /\ missed' = TRUE
                /\ UNCHANGED events
    /\ UNCHANGED <<filter, dataVars, error, seeding, fetches>>

\* SeedJobs creates jobs, one of them for later, and announces them with one event.
ServeSeed ==
    /\ seeding = "asked"
    /\ seeding' = "served"
    /\ changes < MaxChanges
    /\ changes' = changes + 1
    /\ \E seeds \in [Jobs -> {"queued", "scheduled"}] :
          rows' = [id \in Jobs |-> IF rows[id] = "absent" THEN seeds[id] ELSE rows[id]]
    /\ Emit
    /\ UNCHANGED <<filter, dataVars, error, fetches>>

\* Fault: an event fetches with the filters the page was mounted with.
DeliverWithFirstFilter ==
    /\ events > 0
    /\ events' = events - 1
    /\ FetchAll(BlankFilter)
    /\ UNCHANGED <<serverVars, filter, dataVars, error, seeding>>

\* handleWsMessage: every event of a job fetches, with the filters set by then.
Deliver ==
    /\ events > 0
    /\ events' = events - 1
    /\ FetchAll(filter)
    /\ UNCHANGED <<serverVars, filter, dataVars, error, seeding>>

-----------------------------------------------------------------------------
DashboardNext ==
    \/ \E i \in 1..Len(fetches) : ServeStats(i) \/ ServeList(i) \/ FetchSucceeds(i) \/ FetchFails(i)
    \/ TweenEnds
    \/ ChooseFilter \/ RunLoadDemo \/ LoadDemoAnswered
    \/ \E id \in Jobs : ChangeRow(id)
    \/ ServeSeed
    \/ Deliver

DashboardSpec == DashboardInit /\ [][DashboardNext]_dashboardVars

-----------------------------------------------------------------------------
(* Properties *)

\* The page shows only jobs that match the filters set, unless the fetch for these filters
\* is under way or has failed, or an answer that later ones had overtaken is on show.
ListIsForItsFilters ==
    \/ error \/ stale
    \/ \E i \in 1..Len(fetches) : fetches[i].filter = filter /\ ~fetches[i].late
    \/ \A e \in list : Matches(e, filter)

\* With nothing under way, no event lost and no error on show, the page shows the server's
\* counts and all jobs that match the filters, unless an overtaken answer came last.
ShownIsCurrent ==
    fetches = <<>> /\ events = 0 /\ ~missed /\ ~error /\ ~stale =>
        stats # NoData /\ View(stats, list) = View(Counts, Listed(filter))

\* A number that has come to rest is the one fetched last, unless it came back to where an
\* animation had started before that ended.
NumberSettles == stats # NoData /\ tweens = <<>> /\ ~returned => display = stats[Followed]
=============================================================================
