------------------------------- MODULE WebApp -------------------------------
(***************************************************************************)
(* The web application in one tab of a browser: the routes of              *)
(* web/src/App.jsx, the wizard of SubmitWizard, the job page of JobPage,   *)
(* the requests of web/src/api/client.js, and the events of the server.    *)
(*                                                                         *)
(* Requests are served and answered in any order; an answer may be lost    *)
(* after its effect.  A handler that awaits an answer goes on when it      *)
(* comes, also when its page has been left: own tells whether the page     *)
(* that sent the request is still the one on show.                         *)
(***************************************************************************)
EXTENDS SubmitWizard, JobPage, FiniteSets

CONSTANTS
    Present,     \* the jobs there at the start; the others are yet to be created
    FirstRows,   \* the rows they may have
    Visited,     \* the pages of the navigation that are visited
    MaxEdits,    \* bound: changes of the form on a visit, and deeds before them
    MaxDeeds,    \* bound: requests of this tab, and changes of jobs it did not ask for
    MaxEvents    \* bound: events on their way to the tab

ASSUME WebAppAssumption ==
    /\ MaxEdits \in Nat
    /\ MaxDeeds \in Nat
    /\ MaxEvents \in Nat
    /\ Present \subseteq Jobs
    /\ FirstRows \subseteq Row

\* navItems: the links of the sidebar and of the two mobile bars.
NavItems == {"/", "/submit", "/architecture", "/about"}

ASSUME RouteAssumption ==
    /\ NavItems \intersect Jobs = {} /\ NoJob \notin NavItems
    /\ Visited \subseteq NavItems

VARIABLES
    edits,     \* changes of the form on this visit
    requests,  \* the requests of the buttons and the wizard under way
    jobs,      \* the server's rows
    gone,      \* history: the jobs that were ever deleted
    deeds,     \* how often this tab has sent a request, and how often another did something
    events     \* the events on their way, oldest first

serverVars == <<jobs, gone>>
webVars == <<wizardVars, location, pageVars, edits, requests, deeds, serverVars, events>>

Request == [n : 1..MaxDeeds, kind : {"create", "retry", "delete", "diagnose"}, id : Jobs \union {NoJob},
            answer : {"none", "ok", "error"}, own : BOOLEAN, fits : BOOLEAN]

EventType == {"job_created", "job_updated", "job_deleted", "job_diagnosed"}

WebTypeOK ==
    /\ WizardTypeOK
    /\ JobPageTypeOK
    /\ location \in NavItems \union Jobs
    /\ edits \in 0..MaxEdits
    /\ requests \subseteq Request
    /\ jobs \in [Jobs -> Row \union {NoJob}]
    /\ gone \subseteq Jobs
    /\ deeds \in 0..MaxDeeds
    /\ events \in Seq([type : EventType, id : Jobs])

WebInit ==
    /\ WizardInit
    /\ location = "/"
    /\ NotMounted
    /\ edits = 0
    /\ requests = {}
    /\ \E rows \in [Present -> FirstRows] :
          jobs = [id \in Jobs |-> IF id \in Present THEN rows[id] ELSE NoJob]
    /\ gone = {}
    /\ deeds = 0
    /\ events = <<>>

-----------------------------------------------------------------------------
(* The routes *)

\* The address becomes l while the requests in rest are under way.
Navigate(l, rest) ==
    /\ location' = l
    /\ IF l = location
       THEN requests' = rest /\ UNCHANGED <<wizardVars, pageVars, edits>>
       ELSE IF l \in Jobs /\ OnJobPage
       THEN requests' = rest /\ Reroute /\ UNCHANGED <<wizardVars, edits>>
       ELSE /\ requests' = {[r EXCEPT !.own = FALSE] : r \in rest}
            /\ WizardReset
            /\ edits' = 0
            /\ Remount(IF l \in Jobs THEN <<GetFor(l, "page")>> ELSE <<>>)

\* A link: the navigation is on every page, links to jobs on the first.  The browser's
\* history holds any of them.
Go ==
    /\ \E l \in Visited \union Jobs : l # location /\ Navigate(l, requests)
    /\ UNCHANGED <<deeds, serverVars, events>>

-----------------------------------------------------------------------------
(* The user on the wizard and on the job page *)

\* No request under way has the number n.
Unused(n) == \A r \in requests : r.n # n

Send(kind, id, fits) ==
    /\ deeds < MaxDeeds
    /\ deeds' = deeds + 1
    /\ \E n \in 1..MaxDeeds :
          /\ Unused(n) /\ \A k \in 1..(n - 1) : ~Unused(k)
          /\ requests' = requests \union
                 {[n |-> n, kind |-> kind, id |-> id, answer |-> "none", own |-> TRUE, fits |-> fits]}

EditForm ==
    /\ location = "/submit"
    /\ edits + deeds < MaxEdits
    /\ FillIn
    /\ edits' = edits + 1
    /\ UNCHANGED <<location, pageVars, requests, deeds, serverVars, events>>

StepThrough ==
    /\ location = "/submit"
    /\ Continue \/ Back
    /\ UNCHANGED <<location, pageVars, edits, requests, deeds, serverVars, events>>

\* "Back" on the first step reads "Cancel" and leads to the first page.
Cancel ==
    /\ location = "/submit" /\ step = 0
    /\ Navigate("/", requests)
    /\ UNCHANGED <<deeds, serverVars, events>>

\* The request notes whether the row made of its body is the job the preview has shown.
Enqueue ==
    /\ location = "/submit"
    /\ Submit
    /\ IF Valid(payloadText)
       THEN Send("create", NoJob, ShownIn(previewed, StoredJob(BuildBody)))
       ELSE UNCHANGED <<requests, deeds>>
    /\ UNCHANGED <<location, pageVars, edits, serverVars, events>>

\* The handlers use the id of the address, whatever job the page shows.
ClickButton ==
    /\ \/ DiagnoseClicked /\ Send("diagnose", location, TRUE)
       \/ RetryClicked /\ Send("retry", location, TRUE)
       \/ DeleteConfirmed /\ Send("delete", location, TRUE)
    /\ UNCHANGED <<wizardVars, edits, serverVars, events>>

-----------------------------------------------------------------------------
(* The server *)

\* An event about a job: it reaches the tab, or is dropped by the hub or lost with the
\* stream.
Emit(type, id) ==
    \/ /\ Len(events) < MaxEvents
       /\ events' = Append(events, [type |-> type, id |-> id])
       /\ UNCHANGED missed
    \/ /\ missed' = (missed \/ id = location)
       /\ UNCHANGED events

SetRow(id, row) == jobs' = [jobs EXCEPT ![id] = row]

NewRows == {[status |-> s, diagnosed |-> FALSE] : s \in {"scheduled", "queued"}}

\* CreateJob; an id is never used twice.
Created(id) ==
    /\ jobs[id] = NoJob /\ id \notin gone
    /\ \E row \in NewRows : SetRow(id, row)
    /\ Emit("job_created", id)
    /\ UNCHANGED gone

\* RetryJob
Retried(id) ==
    /\ jobs[id] # NoJob /\ jobs[id].status = "failed"
    /\ SetRow(id, [status |-> "queued", diagnosed |-> FALSE])
    /\ Emit("job_updated", id)
    /\ UNCHANGED gone

\* DeleteJob
Deleted(id) ==
    /\ jobs[id] # NoJob
    /\ SetRow(id, NoJob)
    /\ gone' = gone \union {id}
    /\ Emit("job_deleted", id)

\* DiagnoseJob, and generateDiagnostic for a job that has failed.
Diagnosed(id) ==
    /\ jobs[id] # NoJob
    /\ SetRow(id, [jobs[id] EXCEPT !.diagnosed = TRUE])
    /\ Emit("job_diagnosed", id)
    /\ UNCHANGED gone

\* The Saves of processJob and handleFailure, each followed by its event.
SavedByWorker(id) ==
    /\ jobs[id] # NoJob
    /\ \/ jobs[id].status = "queued" /\ SetRow(id, [jobs[id] EXCEPT !.status = "running"])
       \/ /\ jobs[id].status = "running"
          /\ \E s \in {"completed", "failed", "queued"} : SetRow(id, [jobs[id] EXCEPT !.status = s])
    /\ Emit("job_updated", id)
    /\ UNCHANGED gone

\* A Save of a job deleted under its worker inserts it again.
Resurrected(id) ==
    /\ jobs[id] = NoJob /\ id \in gone
    /\ \E s \in {"running", "completed", "failed", "queued"} :
          SetRow(id, [status |-> s, diagnosed |-> FALSE])
    /\ Emit("job_updated", id)
    /\ UNCHANGED gone

\* poll dispatches a scheduled job and tells nobody.
Dispatched(id) ==
    /\ jobs[id] # NoJob /\ jobs[id].status = "scheduled"
    /\ SetRow(id, [jobs[id] EXCEPT !.status = "queued"])
    /\ missed' = (missed \/ id = location)
    /\ UNCHANGED <<events, gone>>

pageVarsButMissed == <<shown, loading, pageError, diagLoading, retrying, deleting, gets, stale, rerouted>>

\* Workers, the scheduler and the users of other tabs.
Change(id) ==
    /\ deeds < MaxDeeds
    /\ deeds' = deeds + 1
    /\ \/ Created(id) \/ Retried(id) \/ Deleted(id) \/ Diagnosed(id)
       \/ SavedByWorker(id) \/ Resurrected(id) \/ Dispatched(id)
    /\ UNCHANGED <<wizardVars, location, pageVarsButMissed, edits, requests>>

Reply(r, id, a) == requests' = (requests \ {r}) \union {[r EXCEPT !.id = id, !.answer = a]}

\* A request does what it asks for, and its answer arrives or is lost on the way.
Serve(r) ==
    /\ r.answer = "none"
    /\ \E id \in Jobs :
          /\ r.kind # "create" => id = r.id
          /\ CASE r.kind = "create" -> Created(id)
               [] r.kind = "retry" -> Retried(id)
               [] r.kind = "delete" -> Deleted(id)
               [] OTHER -> Diagnosed(id)
          /\ \E a \in {"ok", "error"} : Reply(r, id, a)
    /\ UNCHANGED <<wizardVars, location, pageVarsButMissed, edits, deeds>>

\* It is refused, fails, or does not reach the server.
Refuse(r) ==
    /\ r.answer = "none"
    /\ Reply(r, r.id, "error")
    /\ UNCHANGED <<wizardVars, location, pageVars, edits, deeds, serverVars, events>>

\* A fetch reads the row there is, or fails, or its answer is lost.
ServeGet(i) ==
    /\ gets[i].reply = "none"
    /\ \E row \in {jobs[gets[i].id], NoJob} :
          gets' = [gets EXCEPT ![i].reply = IF row = NoJob THEN "error" ELSE "ok", ![i].row = row]
    /\ UNCHANGED <<wizardVars, location, shown, loading, pageError, diagLoading, retrying, deleting,
                   stale, rerouted, missed, edits, requests, deeds, serverVars, events>>

-----------------------------------------------------------------------------
(* Answers and events *)

\* handleSubmit goes on.  navigate works from a wizard that was left as well.
CreateAnswered(r) ==
    /\ r.kind = "create" /\ r.answer # "none"
    /\ IF r.answer = "ok"
       THEN Navigate(r.id, requests \ {r})
       ELSE /\ requests' = requests \ {r}
            /\ IF r.own THEN SubmitFailed ELSE UNCHANGED wizardVars
            /\ UNCHANGED <<location, pageVars, edits>>
    /\ UNCHANGED <<deeds, serverVars, events>>

\* handleDelete goes on: navigate works from a job page that was left as well.
DeleteAnswered(r) ==
    /\ r.kind = "delete" /\ r.answer # "none"
    /\ IF r.answer = "ok"
       THEN Navigate("/", requests \ {r})
       ELSE /\ requests' = requests \ {r}
            /\ IF r.own THEN ActionFailed("delete") ELSE UNCHANGED <<location, pageVars>>
            /\ UNCHANGED <<wizardVars, edits>>
    /\ UNCHANGED <<deeds, serverVars, events>>

\* handleRetry and handleDiagnose go on; what they set on a page that was left is lost.
ActionAnswered(r) ==
    /\ r.kind \in {"retry", "diagnose"} /\ r.answer # "none"
    /\ requests' = requests \ {r}
    /\ IF ~r.own THEN UNCHANGED <<location, pageVars>>
       ELSE IF r.answer = "ok" THEN ActionDone(r.kind)
       ELSE ActionFailed(r.kind)
    /\ UNCHANGED <<wizardVars, edits, deeds, serverVars, events>>

FetchAnswered(i) ==
    /\ GetAnswered(i)
    /\ UNCHANGED <<wizardVars, edits, requests, deeds, serverVars, events>>

\* Fault: an event that comes while a fetch is under way is taken for answered by it.
DeliverCoalesced ==
    /\ events # <<>>
    /\ events' = Tail(events)
    /\ LET event == Head(events)
       IN IF event.id # location \/ event.type = "job_created" \/ gets # <<>>
          THEN UNCHANGED <<wizardVars, location, pageVars, edits, requests>>
          ELSE IF event.type = "job_deleted" THEN Navigate("/", requests)
          ELSE ActionDone("page") /\ UNCHANGED <<wizardVars, edits, requests>>
    /\ UNCHANGED <<deeds, serverVars>>

\* Fault: the job page follows every deletion.
DeliverUnfiltered ==
    /\ events # <<>>
    /\ events' = Tail(events)
    /\ LET event == Head(events)
       IN IF event.type = "job_deleted" /\ OnJobPage THEN Navigate("/", requests)
          ELSE IF event.id # location \/ event.type = "job_created"
          THEN UNCHANGED <<wizardVars, location, pageVars, edits, requests>>
          ELSE ActionDone("page") /\ UNCHANGED <<wizardVars, edits, requests>>
    /\ UNCHANGED <<deeds, serverVars>>

\* handleWsMessage of the job page.  The wizard listens to no event.
Deliver ==
    /\ events # <<>>
    /\ events' = Tail(events)
    /\ LET event == Head(events)
       IN IF event.id # location \/ event.type = "job_created"
          THEN UNCHANGED <<wizardVars, location, pageVars, edits, requests>>
          ELSE IF event.type = "job_deleted" THEN Navigate("/", requests)
          ELSE ActionDone("page") /\ UNCHANGED <<wizardVars, edits, requests>>
    /\ UNCHANGED <<deeds, serverVars>>

-----------------------------------------------------------------------------
UserStep == Go \/ EditForm \/ StepThrough \/ Cancel \/ Enqueue \/ ClickButton

AnswerStep(r) == CreateAnswered(r) \/ DeleteAnswered(r) \/ ActionAnswered(r)

WebNext ==
    \/ UserStep
    \/ \E id \in Jobs : Change(id)
    \/ \E r \in requests : Serve(r) \/ Refuse(r) \/ AnswerStep(r)
    \/ \E i \in 1..Len(gets) : ServeGet(i) \/ FetchAnswered(i)
    \/ Deliver

\* The browser goes on with the answers and the events that have come, and no more than
\* that: a handler that is stuck in the queue of the workers never answers, WriteTimeout
\* does not end it, and fetch has no timeout.
WebFairness ==
    /\ \A n \in 1..MaxDeeds : WF_webVars(\E r \in requests : r.n = n /\ AnswerStep(r))
    /\ WF_webVars(\E i \in 1..Len(gets) : FetchAnswered(i))
    /\ WF_webVars(Deliver)

WebSpec == WebInit /\ [][WebNext]_webVars /\ WebFairness

-----------------------------------------------------------------------------
(* Properties *)

\* What is enqueued is the job the preview step has shown, through every way back and
\* forth between the steps, two copies of the payload and a text typed by hand; but for a
\* limit of 0 and a text that is no object, which the preview shows and nobody keeps.
SentAsPreviewed == \A r \in requests : r.kind = "create" => r.fits

\* A wizard has one request under way at most, and shows that it has one; also after the
\* user went back to change the form and on again.
NoSecondSubmission ==
    LET own == {r \in requests : r.kind = "create" /\ r.own}
    IN /\ submitting <=> own # {}
       /\ \A r, s \in own : r = s

\* A job page that has loaded has a job to show or an error to report; and the job is the
\* one its address names, unless another address came under it or an answer overtaken by
\* later ones.
PageShowsItsJob ==
    OnJobPage =>
        /\ ~loading /\ shown = NoJob => pageError
        /\ shown # NoJob /\ ~rerouted /\ ~stale => shown.id = location

\* Unless a change went by without an event, an error is shown, an answer came late or the
\* address changed under the page, a page with nothing under way shows the job as it is.
PageIsCurrent ==
    LET quiet == gets = <<>> /\ \A k \in 1..Len(events) : events[k].id # location
    IN OnJobPage /\ quiet /\ ~missed /\ ~pageError /\ ~stale /\ ~rerouted =>
          /\ shown # NoJob /\ jobs[location] # NoJob
          /\ JobView(shown.row) = JobView(jobs[location])

Serials(rs) == {r.n : r \in rs}

\* The user is moved to another page by nothing but the success of a request that says so,
\* and the deletion of the job on show.
LeavesForCause ==
    [][location' # location /\ (events' # events \/ Serials(requests') # Serials(requests)) =>
          \/ location \in gone
          \/ \E r \in requests : /\ r.n \notin Serials(requests')
                                 /\ r.kind \in {"create", "delete"} /\ r.answer = "ok"]_webVars

\* Something is under way, and the user is told so.
Busy == submitting \/ diagLoading \/ retrying \/ deleting \/ (OnJobPage /\ loading)

\* No request and no fetch is left without an answer, if only an error.
AllAnswered ==
    /\ \A r \in requests : r.answer # "none"
    /\ \A i \in 1..Len(gets) : gets[i].reply # "none"

\* Nothing stays busy of its own: when requests are answered, the fetches that follow them
\* too, loading, enqueueing, diagnosing, retrying and deleting end, whatever fails.
BusyEnds == []<>AllAnswered => (Busy ~> ~Busy)
=============================================================================
