------------------------------ MODULE JobPage ------------------------------
(***************************************************************************)
(* The page /jobs/:id of the web application (web/src/pages/               *)
(* JobDetails.jsx and components/jobs/JobActionsBar.jsx): one job, fetched *)
(* when the page is mounted and after every event about it, with the       *)
(* buttons that diagnose, retry and delete it.                             *)
(*                                                                         *)
(* Fetches overlap, and each sets the state when its answer comes.  The    *)
(* requests of the buttons, the server and the routes are in WebApp.       *)
(***************************************************************************)
EXTENDS Integers, Sequences

CONSTANTS
    Jobs,     \* the ids of jobs
    NoJob,    \* no job, and no row of one
    MaxGets   \* bound: fetches of the page under way at once

ASSUME JobPageAssumption ==
    /\ MaxGets \in Nat \ {0}
    /\ NoJob \notin Jobs

Status == {"scheduled", "queued", "running", "completed", "failed"}

Row == [status : Status, diagnosed : BOOLEAN]

ASSUME NoRowAssumption == NoJob \notin Row /\ NoJob \notin [id : Jobs, row : Row]

VARIABLES
    location,     \* the address: a page of the shell, or the job of a job page
    shown,        \* data: the job the page holds and its row, or NoJob
    loading,      \* no fetch has been answered yet
    pageError,    \* the alert is shown
    diagLoading,  \* a diagnosis is under way
    retrying,     \* a retry is under way
    deleting,     \* a deletion is under way
    gets,         \* the fetches under way, in the order they were sent
    stale,        \* history: what is shown is of a fetch that a later one had overtaken
    rerouted,     \* history: another job's address came, and no fetch for it was answered
    missed        \* history: the job has changed since the last fetch, and no event will tell

pageVars == <<shown, loading, pageError, diagLoading, retrying, deleting,
              gets, stale, rerouted, missed>>

\* A fetch: for which job, what waits for it, and its answer.
Get == [id : Jobs, then : {"page", "retry", "diagnose"}, reply : {"none", "ok", "error"},
        row : Row \union {NoJob}, late : BOOLEAN]

JobPageTypeOK ==
    /\ shown \in [id : Jobs, row : Row] \union {NoJob}
    /\ loading \in BOOLEAN
    /\ pageError \in BOOLEAN
    /\ diagLoading \in BOOLEAN
    /\ retrying \in BOOLEAN
    /\ deleting \in BOOLEAN
    /\ gets \in Seq(Get)
    /\ stale \in BOOLEAN
    /\ rerouted \in BOOLEAN
    /\ missed \in BOOLEAN

OnJobPage == location \in Jobs

-----------------------------------------------------------------------------
(* What the page shows of a row *)

IsDone(row) == row.status \in {"completed", "failed"}

\* The stages of JobLifecycleTimeline, those marked complete and those marked active; the
\* stage of a job that was given a time is left out.
Timeline(status) ==
    [complete |-> {"created"}
        \union (IF status \in {"running", "completed", "failed"} THEN {"queued"} ELSE {})
        \union (IF status \in {"completed", "failed"} THEN {"running", "terminal"} ELSE {}),
     active |-> CASE status = "scheduled" -> {"created"}
                  [] status \in {"queued", "running"} -> {status}
                  [] OTHER -> {"terminal"}]

\* The diagnostic tab: none, the text, or the hint that there is no diagnostic yet.
DiagnosticTab(row) ==
    IF ~IsDone(row) THEN "no tab" ELSE IF row.diagnosed THEN "diagnostic" ELSE "hint"

\* The badge reads "retrying" by counts of retries that are left out here.
JobView(row) ==
    [badge |-> row.status, timeline |-> Timeline(row.status), diagnostic |-> DiagnosticTab(row)]

-----------------------------------------------------------------------------
(* Fetching *)

GetFor(id, then) == [id |-> id, then |-> then, reply |-> "none", row |-> NoJob, late |-> FALSE]

\* Fault: the page asks for the job it shows instead of the one its address names.
RefreshShown(then) ==
    /\ Len(gets) < MaxGets
    /\ gets' = Append(gets, GetFor(IF shown = NoJob THEN location ELSE shown.id, then))
    /\ missed' = FALSE

\* refresh(): idRef.current is the job of the address at this moment.
Refresh(then) ==
    /\ Len(gets) < MaxGets
    /\ gets' = Append(gets, GetFor(location, then))
    /\ missed' = FALSE

\* The fetches under way without the i-th, which has overtaken those before it.
Without(i) ==
    [k \in 1..(Len(gets) - 1) |-> IF k < i THEN [gets[k] EXCEPT !.late = TRUE] ELSE gets[k + 1]]

\* The answer of the i-th fetch: refresh goes on, and then the handler that waits for it.
GetAnswered(i) ==
    LET get == gets[i]
    IN /\ get.reply # "none"
       /\ gets' = Without(i)
       /\ IF get.reply = "ok"
          THEN /\ shown' = [id |-> get.id, row |-> get.row]
               /\ pageError' = FALSE
               /\ stale' = get.late
               /\ rerouted' = (rerouted /\ get.late)
          ELSE pageError' = TRUE /\ UNCHANGED <<shown, stale, rerouted>>
       /\ loading' = FALSE
       /\ retrying' = (retrying /\ get.then # "retry")
       /\ diagLoading' = (diagLoading /\ get.then # "diagnose")
       /\ UNCHANGED <<location, deleting, missed>>

-----------------------------------------------------------------------------
(* Coming and going *)

NotMounted ==
    /\ shown = NoJob
    /\ loading = TRUE
    /\ pageError = FALSE
    /\ diagLoading = FALSE
    /\ retrying = FALSE
    /\ deleting = FALSE
    /\ gets = <<>>
    /\ stale = FALSE
    /\ rerouted = FALSE
    /\ missed = FALSE

\* Leaving forgets the state; the answers to its fetches find no page.  The effect of a
\* page that is mounted sends its first fetch.
Remount(fetches) ==
    /\ shown' = NoJob
    /\ loading' = TRUE
    /\ pageError' = FALSE
    /\ diagLoading' = FALSE
    /\ retrying' = FALSE
    /\ deleting' = FALSE
    /\ gets' = fetches
    /\ stale' = FALSE
    /\ rerouted' = FALSE
    /\ missed' = FALSE

\* From one job's address to another's the page stays mounted with all it holds, and the
\* effect, which depends on refresh alone, does not run again.
Reroute ==
    /\ rerouted' = TRUE
    /\ gets' = [k \in 1..Len(gets) |-> [gets[k] EXCEPT !.late = TRUE]]
    /\ UNCHANGED <<shown, loading, pageError, diagLoading, retrying, deleting, stale, missed>>

-----------------------------------------------------------------------------
(* The buttons *)

PageReady == OnJobPage /\ ~loading /\ shown # NoJob

DiagnoseClicked ==
    /\ PageReady /\ IsDone(shown.row) /\ ~diagLoading
    /\ diagLoading' = TRUE
    /\ UNCHANGED <<location, shown, loading, pageError, retrying, deleting, gets, stale, rerouted, missed>>

\* Retry is offered for every failed job, whatever its count of retries.
RetryClicked ==
    /\ PageReady /\ shown.row.status = "failed" /\ ~retrying
    /\ retrying' = TRUE
    /\ UNCHANGED <<location, shown, loading, pageError, diagLoading, deleting, gets, stale, rerouted, missed>>

\* The dialog that asks for confirmation, and its button.  The dialog can be closed while
\* the deletion is under way, so it keeps the user from no other button.
DeleteConfirmed ==
    /\ PageReady /\ ~deleting
    /\ deleting' = TRUE
    /\ UNCHANGED <<location, shown, loading, pageError, diagLoading, retrying, gets, stale, rerouted, missed>>

\* The button's request has succeeded: the handler awaits a refresh.
ActionDone(kind) ==
    /\ Refresh(kind)
    /\ UNCHANGED <<location, shown, loading, pageError, diagLoading, retrying, deleting, stale, rerouted>>

\* Fault: no finally; a button whose request has failed stays busy.
ActionFailedAndBusy(kind) ==
    /\ pageError' = TRUE
    /\ deleting' = (deleting /\ kind # "delete")
    /\ UNCHANGED <<location, shown, loading, diagLoading, retrying, gets, stale, rerouted, missed>>

\* It has failed: the alert, and the button can be used again.
ActionFailed(kind) ==
    /\ pageError' = TRUE
    /\ retrying' = (retrying /\ kind # "retry")
    /\ diagLoading' = (diagLoading /\ kind # "diagnose")
    /\ deleting' = (deleting /\ kind # "delete")
    /\ UNCHANGED <<location, shown, loading, gets, stale, rerouted, missed>>
=============================================================================
