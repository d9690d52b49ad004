---------------------------- MODULE WebAppProofs ----------------------------
(***************************************************************************)
(* Proofs about WebApp: types, what is enqueued, what the job page shows,  *)
(* what moves the user to another page, and what he is shown to wait for,  *)
(* for any jobs, any contents of the form and any number of requests,      *)
(* fetches and events under way.                                           *)
(***************************************************************************)
EXTENDS WebApp, TLAPS

-----------------------------------------------------------------------------
(* The wizard *)

\* What the preview step shows is what it has shown when the user came to it.
PreviewInv == step = 6 => previewed = Shown /\ Valid(payloadText)

WizardInv == WizardTypeOK /\ PreviewInv

\* A payload with a label, and one changed by a field, is a payload.
LEMMA LabelType ==
    ASSUME NEW o \in Object, NEW l \in Labels PROVE WithLabel(o, l) \in Object
  BY DEF WithLabel, Object

LEMMA DefaultType == \A t \in JobTypes \union {"nothing"} : Default(t) \in Object
  BY WizardAssumption DEF Default, Object

LEMMA InitWizard == WizardInit => WizardInv
<1> SUFFICES ASSUME WizardInit PROVE WizardInv
  OBVIOUS
<1>1. BlankForm \in Form /\ Default("csv_processing") \in Object
  BY DefaultType, WizardAssumption DEF BlankForm, Form
<1>2. 0 \in 0..6 /\ 0 # 6
  OBVIOUS
<1> QED
  BY <1>1, <1>2, Zenon DEF WizardInit, WizardInv, WizardTypeOK, PreviewInv, Text

LEMMA ResetWizard == WizardReset => WizardInv'
<1> SUFFICES ASSUME WizardReset PROVE WizardInv'
  OBVIOUS
<1>1. BlankForm \in Form /\ Default("csv_processing") \in Object
  BY DefaultType, WizardAssumption DEF BlankForm, Form
<1>2. 0 \in 0..6 /\ 0 # 6
  OBVIOUS
<1> QED
  BY <1>1, <1>2, Zenon DEF WizardReset, WizardInv, WizardTypeOK, PreviewInv, Text

\* Filling in happens before the preview.
LEMMA FillInKeeps == WizardInv /\ FillIn => WizardInv'
<1> SUFFICES ASSUME WizardInv, FillIn PROVE WizardInv'
  OBVIOUS
<1>1. /\ UNCHANGED <<step, submitting, error, previewed>> /\ step # 6
      /\ WizardTypeOK
  BY DEF FillIn, MetadataStep, WorkflowStep, PriorityStep, SchedulingStep, RetryStep, WizardInv
<1>2. form' \in Form
  BY <1>1 DEF FillIn, MetadataStep, WorkflowStep, SelectType, PriorityStep, SchedulingStep, RetryStep,
              WizardTypeOK, Form
<1>3. payload' \in Object /\ payloadText' \in Text /\ payloadErr' \in BOOLEAN
  <2>1. CASE MetadataStep \/ PriorityStep \/ SchedulingStep
    BY <1>1, <2>1 DEF MetadataStep, PriorityStep, SchedulingStep, WizardTypeOK
  <2>2. CASE WorkflowStep
    BY <2>2, DefaultType DEF WorkflowStep, SelectType, Text
  <2>3. CASE RetryStep /\ SyncPayload
    <3>1. [payload EXCEPT !.how = "field"] \in Object /\ form.label \in Labels
      BY <1>1 DEF WizardTypeOK, Object, Form
    <3> QED
      BY <2>3, <3>1, LabelType DEF SyncPayload, Text
  <2>4. CASE RetryStep /\ ~SyncPayload
    BY <1>1, <2>4, WizardAssumption DEF RetryStep, EditText, WizardTypeOK
  <2> QED
    BY <2>1, <2>2, <2>3, <2>4 DEF FillIn
<1> QED
  BY <1>1, <1>2, <1>3 DEF WizardInv, WizardTypeOK, PreviewInv

LEMMA ThroughKeeps == WizardInv /\ (Continue \/ Back \/ Submit \/ SubmitFailed) => WizardInv'
<1> SUFFICES ASSUME WizardInv, Continue \/ Back \/ Submit \/ SubmitFailed PROVE WizardInv'
  OBVIOUS
<1>1. UNCHANGED <<form, payload, payloadText>> /\ WizardTypeOK
  BY DEF Continue, Back, Submit, SubmitFailed, WizardInv
<1>2. Shown' = Shown /\ Shown \in Preview
  BY <1>1 DEF Shown, Preview, WizardTypeOK
<1>3. payloadErr' \in BOOLEAN /\ submitting' \in BOOLEAN /\ error' \in BOOLEAN
  <2>1. /\ (~Valid(payloadText)) \in BOOLEAN /\ Valid(payloadText) \in BOOLEAN
        /\ (error /\ ~Valid(payloadText)) \in BOOLEAN
    BY DEF Valid
  <2>2. payloadErr \in BOOLEAN /\ submitting \in BOOLEAN /\ error \in BOOLEAN
    BY <1>1 DEF WizardTypeOK
  <2>3. CASE Continue
    BY <2>1, <2>2, <2>3 DEF Continue
  <2>4. CASE Back
    BY <2>2, <2>4 DEF Back
  <2>5. CASE Submit
    <3>1. payloadErr' = ~Valid(payloadText) /\ submitting' = Valid(payloadText)
          /\ error' = (error /\ ~Valid(payloadText))
      BY <2>5 DEF Submit
    <3> QED
      BY <2>1, <3>1
  <2>6. CASE SubmitFailed
    BY <2>2, <2>6 DEF SubmitFailed
  <2> QED
    BY <2>3, <2>4, <2>5, <2>6
<1>4. step' \in 0..6
  BY <1>1 DEF Continue, Back, Submit, SubmitFailed, WizardTypeOK
<1>5. previewed' \in Preview \union {None}
  BY <1>1, <1>2 DEF Continue, Back, Submit, SubmitFailed, WizardTypeOK
<1>6. PreviewInv'
  BY <1>1, <1>2 DEF Continue, Back, Submit, SubmitFailed, WizardTypeOK, WizardInv, PreviewInv, Valid
<1> QED
  BY <1>1, <1>3, <1>4, <1>5, <1>6 DEF WizardInv, WizardTypeOK

\* What a step of the application is to the wizard.
LEMMA WizardMoves ==
    [WebNext]_webVars =>
        \/ UNCHANGED wizardVars
        \/ WizardReset \/ FillIn \/ Continue \/ Back \/ Submit \/ SubmitFailed
<1> SUFFICES ASSUME [WebNext]_webVars,
                    ~(WizardReset \/ FillIn \/ Continue \/ Back \/ Submit \/ SubmitFailed)
             PROVE  UNCHANGED wizardVars
  OBVIOUS
<1>1. ASSUME NEW l, NEW rest, Navigate(l, rest) PROVE UNCHANGED wizardVars
  BY <1>1 DEF Navigate
<1>2. CASE UserStep
  BY <1>1, <1>2 DEF UserStep, Go, EditForm, StepThrough, Cancel, Enqueue, ClickButton
<1>3. ASSUME NEW id \in Jobs, Change(id) PROVE UNCHANGED wizardVars
  BY <1>3 DEF Change
<1>4. ASSUME NEW r \in requests, Serve(r) \/ Refuse(r) \/ AnswerStep(r) PROVE UNCHANGED wizardVars
  BY <1>1, <1>4 DEF Serve, Refuse, AnswerStep, CreateAnswered, DeleteAnswered, ActionAnswered
<1>5. ASSUME NEW i \in 1..Len(gets), ServeGet(i) \/ FetchAnswered(i) PROVE UNCHANGED wizardVars
  BY <1>5 DEF ServeGet, FetchAnswered
<1>6. CASE Deliver
  BY <1>1, <1>6 DEF Deliver
<1>7. CASE UNCHANGED webVars
  BY <1>7 DEF webVars
<1> QED
  BY <1>2, <1>3, <1>4, <1>5, <1>6, <1>7 DEF WebNext

LEMMA StepWizard == WizardInv /\ [WebNext]_webVars => WizardInv'
<1> SUFFICES ASSUME WizardInv, UNCHANGED wizardVars PROVE WizardInv'
  BY WizardMoves, ResetWizard, FillInKeeps, ThroughKeeps
<1> QED
  BY DEF wizardVars, WizardInv, WizardTypeOK, PreviewInv, Shown, Valid

\* A text sent is an object, or JSON that is none.
LEMMA ObjectSent == \A t \in Object : Spread(t) = t
  BY WizardAssumption DEF Spread

\* A label given is the one of the payload; the rest of it is untouched.
LEMMA LabelSent ==
    ASSUME NEW o \in Object, NEW l \in Labels
    PROVE  LET q == WithLabel(o, l)
           IN q.of = o.of /\ q.how = o.how /\ q.label = IF l = "" THEN o.label ELSE l
  BY DEF WithLabel, Object

\* The row that the server makes of the body is the job the preview has shown.
LEMMA BodyIsShown ==
    ASSUME WizardTypeOK, Valid(payloadText) PROVE ShownIn(Shown, StoredJob(BuildBody))
<1>1. payloadText \in Object \union {Scalar} /\ form.label \in Labels
  BY DEF WizardTypeOK, Form, Text, Valid
<1>. DEFINE sent == WithLabel(Spread(payloadText), form.label)
            job == StoredJob(BuildBody)
<1>2. Shown.form = form /\ Shown.text = payloadText
  BY DEF Shown
<1>3. /\ job.type = form.type /\ job.priority = form.priority /\ job.scheduled_at = form.scheduled
      /\ job.max_retries = DefaultLimit(form.retries) /\ job.payload = sent
  <2>1. BuildBody = [type |-> form.type, priority |-> form.priority, max_retries |-> form.retries,
                     payload |-> sent, scheduled_at |-> form.scheduled]
    BY DEF BuildBody
  <2>. HIDE DEF sent
  <2> QED
    BY <2>1 DEF StoredJob
<1>4. payloadText \in Object =>
          /\ sent.of = payloadText.of /\ sent.how = payloadText.how
          /\ sent.label = IF form.label = "" THEN payloadText.label ELSE form.label
  BY <1>1, ObjectSent, LabelSent
<1>5. form.label # "" => sent.label = form.label
  <2>1. Spread(payloadText) \in Object
    BY <1>1, ObjectSent, DefaultType DEF Spread
  <2> QED
    BY <1>1, <2>1, LabelSent
<1>6. form.retries # 0 => DefaultLimit(form.retries) = form.retries
  BY DEF DefaultLimit
<1>. HIDE DEF sent, job
<1>7. ShownIn(Shown, job)
  BY <1>2, <1>3, <1>4, <1>5, <1>6 DEF ShownIn
<1> QED
  BY <1>7 DEF job

-----------------------------------------------------------------------------
(* The requests *)

\* A request about a job names it; that of the wizard does when it has succeeded.
JobsNamed == \A r \in requests : r.kind # "create" \/ r.answer = "ok" => r.id \in Jobs

\* Only the page on show has requests of its own.
OwnOnPage ==
    \A r \in requests : r.own => IF r.kind = "create" THEN location = "/submit" ELSE location \in Jobs

NumbersDiffer == \A r, s \in requests : r.n = s.n => r = s

RequestsInv ==
    /\ requests \subseteq Request
    /\ location \in NavItems \union Jobs
    /\ JobsNamed
    /\ OwnOnPage
    /\ NumbersDiffer
    /\ SentAsPreviewed
    /\ NoSecondSubmission

LEMMA PlacesDiffer == "/submit" \notin Jobs /\ "/" \notin Jobs /\ "/" \in NavItems /\ "/submit" \in NavItems
  BY RouteAssumption DEF NavItems

\* A request whose page has been left.
LEMMA Disowned ==
    ASSUME NEW r \in Request
    PROVE  LET q == [r EXCEPT !.own = FALSE]
           IN q \in Request /\ q.n = r.n /\ q.kind = r.kind /\ q.id = r.id /\ q.answer = r.answer
              /\ q.fits = r.fits /\ q.own = FALSE
  BY DEF Request

LEMMA InitRequests == WebInit => RequestsInv
  BY PlacesDiffer DEF WebInit, WizardInit, RequestsInv, JobsNamed, OwnOnPage, NumbersDiffer,
                      SentAsPreviewed, NoSecondSubmission

\* Requests taken away while the address and the wizard stay, and none of them the wizard's own.
LEMMA RemovedKeeps ==
    ASSUME RequestsInv, NEW rest \in SUBSET requests, requests' = rest, UNCHANGED submitting,
           \A r \in requests \ rest : ~(r.kind = "create" /\ r.own),
           location' \in NavItems \union Jobs,
           location' = location \/ (location \in Jobs /\ location' \in Jobs)
    PROVE  RequestsInv'
<1>1. \A r \in rest : r \in requests
  OBVIOUS
<1>2. OwnOnPage'
  BY <1>1, PlacesDiffer DEF RequestsInv, OwnOnPage
<1>3. {r \in requests' : r.kind = "create" /\ r.own} = {r \in requests : r.kind = "create" /\ r.own}
  BY <1>1
<1>4. NoSecondSubmission'
  BY <1>3 DEF RequestsInv, NoSecondSubmission
<1> QED
  BY <1>1, <1>2, <1>4 DEF RequestsInv, JobsNamed, NumbersDiffer, SentAsPreviewed

\* A navigation with the requests in rest; those that have ended are not the wizard's own,
\* or lead to a job.
LEMMA NavigateKeeps ==
    ASSUME RequestsInv, NEW l \in NavItems \union Jobs, NEW rest \in SUBSET requests, Navigate(l, rest),
           \A r \in requests \ rest : r.kind = "create" /\ r.own => l \in Jobs
    PROVE  RequestsInv'
<1>1. location' = l
  BY DEF Navigate
<1>2. CASE l = location \/ (l \in Jobs /\ OnJobPage)
  <2>1. requests' = rest /\ UNCHANGED submitting
    BY <1>2 DEF Navigate, wizardVars
  <2>2. ASSUME NEW r \in requests \ rest, r.kind = "create" /\ r.own PROVE FALSE
    BY <1>2, <2>2, PlacesDiffer DEF OnJobPage, RequestsInv, OwnOnPage
  <2> QED
    BY <1>1, <1>2, <2>1, <2>2, RemovedKeeps DEF OnJobPage
<1>3. CASE ~(l = location \/ (l \in Jobs /\ OnJobPage))
  <2>1. requests' = {[r EXCEPT !.own = FALSE] : r \in rest} /\ submitting' = FALSE
    BY <1>3 DEF Navigate, WizardReset
  <2>2. ASSUME NEW q \in requests'
        PROVE  \E r \in requests : /\ q \in Request /\ q.n = r.n /\ q.kind = r.kind /\ q.id = r.id
                                   /\ q.answer = r.answer /\ q.fits = r.fits /\ ~q.own
                                   /\ q = [r EXCEPT !.own = FALSE]
    <3>1. PICK r \in requests : q = [r EXCEPT !.own = FALSE] /\ r \in Request
      BY <2>1 DEF RequestsInv
    <3> QED
      BY <3>1, Disowned
  <2>3. ASSUME NEW q \in requests'
        PROVE  /\ q \in Request /\ ~q.own
               /\ q.kind # "create" \/ q.answer = "ok" => q.id \in Jobs
               /\ q.kind = "create" => q.fits
    BY <2>2 DEF RequestsInv, JobsNamed, SentAsPreviewed
  <2>4. NumbersDiffer'
    <3>1. ASSUME NEW p \in requests', NEW q \in requests', p.n = q.n PROVE p = q
      <4>1. PICK r \in requests : p.n = r.n /\ p = [r EXCEPT !.own = FALSE]
        BY <2>2
      <4>2. PICK t \in requests : q.n = t.n /\ q = [t EXCEPT !.own = FALSE]
        BY <2>2
      <4>3. r = t
        BY <3>1, <4>1, <4>2 DEF RequestsInv, NumbersDiffer
      <4> QED
        BY <4>1, <4>2, <4>3
    <3> QED
      BY <3>1 DEF NumbersDiffer
  <2>5. NoSecondSubmission'
    BY <2>1, <2>3 DEF NoSecondSubmission
  <2>6. OwnOnPage' /\ JobsNamed' /\ SentAsPreviewed' /\ requests' \subseteq Request
    BY <2>3 DEF OwnOnPage, JobsNamed, SentAsPreviewed
  <2> QED
    BY <1>1, <2>4, <2>5, <2>6 DEF RequestsInv
<1> QED
  BY <1>2, <1>3

\* A request of the page on show.
LEMMA SendKeeps ==
    ASSUME RequestsInv, NEW kind \in {"create", "retry", "delete", "diagnose"}, NEW id \in Jobs \union {NoJob},
           NEW fits \in BOOLEAN, Send(kind, id, fits), UNCHANGED location,
           IF kind = "create" THEN location = "/submit" /\ fits /\ ~submitting /\ submitting'
                              ELSE location \in Jobs /\ id \in Jobs /\ UNCHANGED submitting
    PROVE  RequestsInv'
<1>1. PICK n \in 1..MaxDeeds :
          /\ Unused(n)
          /\ requests' = requests \union
                {[n |-> n, kind |-> kind, id |-> id, answer |-> "none", own |-> TRUE, fits |-> fits]}
  BY DEF Send
<1>. DEFINE new == [n |-> n, kind |-> kind, id |-> id, answer |-> "none", own |-> TRUE, fits |-> fits]
<1>2. /\ new \in Request /\ new.n = n /\ new.kind = kind /\ new.id = id /\ new.answer = "none"
      /\ new.own = TRUE /\ new.fits = fits
  BY DEF Request
<1>3. requests' = requests \union {new}
  BY <1>1
<1>. HIDE DEF new
<1>4. requests' \subseteq Request /\ JobsNamed' /\ SentAsPreviewed' /\ OwnOnPage'
  BY <1>2, <1>3 DEF RequestsInv, JobsNamed, SentAsPreviewed, OwnOnPage
<1>5. NumbersDiffer'
  BY <1>1, <1>2, <1>3 DEF RequestsInv, NumbersDiffer, Unused
<1>6. NoSecondSubmission'
  <2>1. CASE kind = "create"
    <3>1. \A r \in requests : ~(r.kind = "create" /\ r.own)
      BY <2>1 DEF RequestsInv, NoSecondSubmission
    <3> QED
      BY <1>2, <1>3, <2>1, <3>1 DEF NoSecondSubmission
  <2>2. CASE kind # "create"
    <3>1. {r \in requests' : r.kind = "create" /\ r.own} = {r \in requests : r.kind = "create" /\ r.own}
      BY <1>2, <1>3, <2>2
    <3> QED
      BY <2>2, <3>1 DEF RequestsInv, NoSecondSubmission
  <2> QED
    BY <2>1, <2>2
<1> QED
  BY <1>4, <1>5, <1>6 DEF RequestsInv

\* An answer to a request.
LEMMA ReplyKeeps ==
    ASSUME RequestsInv, NEW r \in requests, NEW id \in Jobs \union {NoJob}, NEW a \in {"ok", "error"},
           Reply(r, id, a), UNCHANGED <<location, submitting>>,
           r.kind # "create" \/ a = "ok" => id \in Jobs
    PROVE  RequestsInv'
<1>. DEFINE q == [r EXCEPT !.id = id, !.answer = a]
<1>1. /\ q \in Request /\ q.n = r.n /\ q.kind = r.kind /\ q.id = id /\ q.answer = a
      /\ q.own = r.own /\ q.fits = r.fits
  BY DEF RequestsInv, Request
<1>2. requests' = (requests \ {r}) \union {q}
  BY DEF Reply
<1>. HIDE DEF q
<1>3. requests' \subseteq Request /\ JobsNamed' /\ SentAsPreviewed' /\ OwnOnPage'
  BY <1>1, <1>2 DEF RequestsInv, JobsNamed, SentAsPreviewed, OwnOnPage
<1>4. NumbersDiffer'
  BY <1>1, <1>2 DEF RequestsInv, NumbersDiffer
<1>5. NoSecondSubmission'
  <2>1. CASE r.kind = "create" /\ r.own
    BY <1>1, <1>2, <2>1 DEF RequestsInv, NoSecondSubmission
  <2>2. CASE ~(r.kind = "create" /\ r.own)
    <3>1. {x \in requests' : x.kind = "create" /\ x.own} = {x \in requests : x.kind = "create" /\ x.own}
      BY <1>1, <1>2, <2>2
    <3> QED
      BY <3>1 DEF RequestsInv, NoSecondSubmission
  <2> QED
    BY <2>1, <2>2
<1> QED
  BY <1>3, <1>4, <1>5 DEF RequestsInv

LEMMA StepRequests == WizardInv /\ RequestsInv /\ [WebNext]_webVars => RequestsInv'
<1> SUFFICES ASSUME WizardInv, RequestsInv, [WebNext]_webVars PROVE RequestsInv'
  OBVIOUS
<1>1. location \in NavItems \union Jobs /\ Visited \subseteq NavItems
  BY RouteAssumption DEF RequestsInv
<1>2. ASSUME UNCHANGED <<requests, location, submitting>> PROVE RequestsInv'
  BY <1>2 DEF RequestsInv, JobsNamed, OwnOnPage, NumbersDiffer, SentAsPreviewed, NoSecondSubmission
<1>3. ASSUME NEW l \in NavItems \union Jobs, Navigate(l, requests) PROVE RequestsInv'
  BY <1>3, NavigateKeeps
<1>4. CASE Go \/ Cancel
  BY <1>1, <1>3, <1>4, PlacesDiffer DEF Go, Cancel
<1>5. CASE EditForm \/ StepThrough
  BY <1>2, <1>5 DEF EditForm, FillIn, MetadataStep, WorkflowStep, PriorityStep, SchedulingStep, RetryStep,
                    StepThrough, Continue, Back
<1>6. CASE Enqueue
  <2>1. location = "/submit" /\ UNCHANGED location /\ Submit
    BY <1>6 DEF Enqueue
  <2>2. CASE Valid(payloadText)
    <3>1. ShownIn(previewed, StoredJob(BuildBody))
      BY <2>1, <2>2, BodyIsShown DEF WizardInv, PreviewInv, Submit
    <3>2. Send("create", NoJob, TRUE)
      BY <1>6, <2>2, <3>1 DEF Enqueue
    <3>3. ~submitting /\ submitting'
      BY <2>1, <2>2 DEF Submit, NextOffered
    <3> QED
      BY <2>1, <3>2, <3>3, SendKeeps
  <2>3. CASE ~Valid(payloadText)
    <3>1. FALSE
      BY <2>1, <2>3 DEF Submit, WizardInv, PreviewInv
    <3> QED
      BY <3>1
  <2> QED
    BY <2>2, <2>3
<1>7. CASE ClickButton
  <2>1. location \in Jobs /\ UNCHANGED <<location, submitting>>
    BY <1>7 DEF ClickButton, DiagnoseClicked, RetryClicked, DeleteConfirmed, PageReady, OnJobPage, wizardVars
  <2>2. PICK kind \in {"retry", "delete", "diagnose"} : Send(kind, location, TRUE)
    BY <1>7 DEF ClickButton
  <2> QED
    BY <2>1, <2>2, SendKeeps
<1>8. ASSUME NEW id \in Jobs, Change(id) PROVE RequestsInv'
  BY <1>2, <1>8 DEF Change, wizardVars
<1>9. ASSUME NEW r \in requests, Serve(r) PROVE RequestsInv'
  <2>1. PICK id \in Jobs, a \in {"ok", "error"} : Reply(r, id, a)
    BY <1>9 DEF Serve
  <2>2. UNCHANGED <<location, submitting>>
    BY <1>9 DEF Serve, wizardVars
  <2> QED
    BY <2>1, <2>2, ReplyKeeps
<1>10. ASSUME NEW r \in requests, Refuse(r) PROVE RequestsInv'
  <2>1. Reply(r, r.id, "error") /\ UNCHANGED <<location, submitting>>
    BY <1>10 DEF Refuse, wizardVars
  <2>2. r.id \in Jobs \union {NoJob} /\ (r.kind # "create" => r.id \in Jobs)
    BY DEF RequestsInv, Request, JobsNamed
  <2> QED
    BY <2>1, <2>2, ReplyKeeps
<1>11. ASSUME NEW r \in requests, requests' = requests \ {r}, UNCHANGED <<location, submitting>>,
              ~(r.kind = "create" /\ r.own)
       PROVE  RequestsInv'
  <2>1. \A x \in requests \ (requests \ {r}) : ~(x.kind = "create" /\ x.own)
    BY <1>11
  <2> QED
    BY <1>1, <1>11, <2>1, RemovedKeeps
<1>12. ASSUME NEW r \in requests, CreateAnswered(r) PROVE RequestsInv'
  <2>1. CASE r.answer = "ok"
    <3>1. r.id \in Jobs /\ Navigate(r.id, requests \ {r})
      BY <1>12, <2>1 DEF CreateAnswered, RequestsInv, JobsNamed
    <3> QED
      BY <3>1, NavigateKeeps
  <2>2. CASE r.answer # "ok" /\ ~r.own
    <3>1. requests' = requests \ {r} /\ UNCHANGED <<location, submitting>>
      BY <1>12, <2>2 DEF CreateAnswered, wizardVars
    <3> QED
      BY <1>11, <2>2, <3>1
  <2>3. CASE r.answer # "ok" /\ r.own
    <3>1. requests' = requests \ {r} /\ UNCHANGED location /\ submitting' = FALSE /\ r.kind = "create"
      BY <1>12, <2>3 DEF CreateAnswered, SubmitFailed
    <3>2. \A x \in requests' : ~(x.kind = "create" /\ x.own)
      BY <2>3, <3>1 DEF RequestsInv, NoSecondSubmission
    <3>3. NoSecondSubmission'
      BY <3>1, <3>2 DEF NoSecondSubmission
    <3> QED
      BY <3>1, <3>3 DEF RequestsInv, JobsNamed, OwnOnPage, NumbersDiffer, SentAsPreviewed
  <2> QED
    BY <2>1, <2>2, <2>3
<1>13. ASSUME NEW r \in requests, DeleteAnswered(r) PROVE RequestsInv'
  <2>1. CASE r.answer = "ok"
    <3>1. r.kind = "delete" /\ Navigate("/", requests \ {r})
      BY <1>13, <2>1 DEF DeleteAnswered
    <3> QED
      BY <3>1, NavigateKeeps, PlacesDiffer
  <2>2. CASE r.answer # "ok"
    <3>1. requests' = requests \ {r} /\ UNCHANGED <<location, submitting>> /\ r.kind = "delete"
      BY <1>13, <2>2 DEF DeleteAnswered, ActionFailed, wizardVars
    <3> QED
      BY <1>11, <3>1
  <2> QED
    BY <2>1, <2>2
<1>14. ASSUME NEW r \in requests, ActionAnswered(r) PROVE RequestsInv'
  <2>1. requests' = requests \ {r} /\ UNCHANGED <<location, submitting>> /\ r.kind # "create"
    BY <1>14 DEF ActionAnswered, ActionDone, ActionFailed, wizardVars
  <2> QED
    BY <1>11, <2>1
<1>15. ASSUME NEW i \in 1..Len(gets), ServeGet(i) \/ FetchAnswered(i) PROVE RequestsInv'
  BY <1>2, <1>15 DEF ServeGet, FetchAnswered, GetAnswered, wizardVars
<1>16. CASE Deliver
  BY <1>2, <1>3, <1>16, PlacesDiffer DEF Deliver, ActionDone, wizardVars
<1>17. CASE UNCHANGED webVars
  BY <1>2, <1>17 DEF webVars, wizardVars
<1> QED
  BY <1>4, <1>5, <1>6, <1>7, <1>8, <1>9, <1>10, <1>12, <1>13, <1>14, <1>15, <1>16, <1>17
     DEF WebNext, UserStep, AnswerStep

LEMMA WebRequests == WebSpec => [](WizardInv /\ RequestsInv)
<1>1. WebInit => WizardInv /\ RequestsInv
  BY InitWizard, InitRequests DEF WebInit
<1> QED
  BY <1>1, StepWizard, StepRequests, PTL DEF WebSpec

\* What is enqueued is, line by line, what the preview has shown, but for a limit of 0 and a
\* text that is no object (see ShownIn), whatever was typed, chosen and gone back
\* to (web/src/pages/SubmitJob.jsx, buildBody and the preview step).
THEOREM EnqueuedAsShown == WebSpec => []SentAsPreviewed
  BY WebRequests, PTL DEF RequestsInv

\* Whatever the user clicks, a wizard enqueues no second job while it waits for the first
\* (web/src/pages/SubmitJob.jsx, submitting).
THEOREM OneSubmission == WebSpec => []NoSecondSubmission
  BY WebRequests, PTL DEF RequestsInv

-----------------------------------------------------------------------------
(* The server, seen from the tab *)

\* A deletion is told of a job that was deleted.
ServerInv ==
    /\ jobs \in [Jobs -> Row \union {NoJob}]
    /\ gone \subseteq Jobs
    /\ events \in Seq([type : EventType, id : Jobs])
    /\ \A k \in 1..Len(events) : events[k].type = "job_deleted" => events[k].id \in gone

ServerChange(id) ==
    \/ Created(id) \/ Retried(id) \/ Deleted(id) \/ Diagnosed(id)
    \/ SavedByWorker(id) \/ Resurrected(id) \/ Dispatched(id)

\* A change of a job is of its row alone, and is told or missed.
LEMMA ChangeEffects ==
    ASSUME ServerInv, NEW id \in Jobs, ServerChange(id)
    PROVE  /\ \E row \in Row \union {NoJob} : SetRow(id, row)
           /\ gone \subseteq gone' /\ gone' \subseteq Jobs
           /\ \/ missed' = (missed \/ id = location) /\ UNCHANGED events
              \/ \E type \in EventType : /\ Emit(type, id)
                                         /\ type = "job_deleted" => id \in gone'
                                         /\ type = "job_created" => jobs[id] = NoJob
<1>1. jobs[id] \in Row \union {NoJob} /\ gone \subseteq Jobs
  BY DEF ServerInv
<1>2. ASSUME NEW s \in Status PROVE [status |-> s, diagnosed |-> FALSE] \in Row
  BY DEF Row
<1>3. ASSUME jobs[id] # NoJob, NEW s \in Status PROVE [jobs[id] EXCEPT !.status = s] \in Row
  BY <1>1, <1>3 DEF Row
<1>4. CASE Created(id)
  <2>1. \E row \in Row : SetRow(id, row)
    BY <1>2, <1>4 DEF Created, NewRows, Status
  <2> QED
    BY <1>1, <1>4, <2>1 DEF Created, EventType
<1>5. CASE Retried(id)
  <2>1. \E row \in Row : SetRow(id, row)
    BY <1>2, <1>5 DEF Retried, Status
  <2> QED
    BY <1>1, <1>5, <2>1 DEF Retried, EventType
<1>6. CASE Deleted(id)
  BY <1>1, <1>6 DEF Deleted, EventType
<1>7. CASE Diagnosed(id)
  <2>1. [jobs[id] EXCEPT !.diagnosed = TRUE] \in Row
    BY <1>1, <1>7 DEF Diagnosed, Row
  <2> QED
    BY <1>1, <1>7, <2>1 DEF Diagnosed, EventType
<1>8. CASE SavedByWorker(id)
  <2>1. \E row \in Row : SetRow(id, row)
    BY <1>3, <1>8 DEF SavedByWorker, Status
  <2> QED
    BY <1>1, <1>8, <2>1 DEF SavedByWorker, EventType
<1>9. CASE Resurrected(id)
  <2>1. \E row \in Row : SetRow(id, row)
    BY <1>2, <1>9 DEF Resurrected, Status
  <2> QED
    BY <1>1, <1>9, <2>1 DEF Resurrected, EventType
<1>10. CASE Dispatched(id)
  <2>1. \E row \in Row : SetRow(id, row)
    BY <1>3, <1>10 DEF Dispatched, Status
  <2> QED
    BY <1>1, <1>10, <2>1 DEF Dispatched
<1> QED
  BY <1>4, <1>5, <1>6, <1>7, <1>8, <1>9, <1>10 DEF ServerChange

\* What a step of the application is to the server and its events.
LEMMA ServerMoves ==
    [WebNext]_webVars =>
        \/ UNCHANGED <<serverVars, events>>
        \/ Deliver
        \/ \E id \in Jobs : ServerChange(id) /\ UNCHANGED <<location, pageVarsButMissed>>
<1> SUFFICES ASSUME [WebNext]_webVars, ~Deliver,
                    ~\E id \in Jobs : ServerChange(id) /\ UNCHANGED <<location, pageVarsButMissed>>
             PROVE  UNCHANGED <<serverVars, events>>
  OBVIOUS
<1>1. CASE UserStep
  BY <1>1 DEF UserStep, Go, EditForm, StepThrough, Cancel, Enqueue, ClickButton
<1>2. ASSUME NEW id \in Jobs, Change(id) PROVE FALSE
  BY <1>2 DEF Change, ServerChange
<1>3. ASSUME NEW r \in requests, Serve(r) PROVE FALSE
  <2>1. PICK id \in Jobs : Created(id) \/ Retried(id) \/ Deleted(id) \/ Diagnosed(id)
    BY <1>3 DEF Serve
  <2> QED
    BY <1>3, <2>1 DEF Serve, ServerChange
<1>4. ASSUME NEW r \in requests, Refuse(r) \/ AnswerStep(r) PROVE UNCHANGED <<serverVars, events>>
  BY <1>4 DEF Refuse, AnswerStep, CreateAnswered, DeleteAnswered, ActionAnswered
<1>5. ASSUME NEW i \in 1..Len(gets), ServeGet(i) \/ FetchAnswered(i) PROVE UNCHANGED <<serverVars, events>>
  BY <1>5 DEF ServeGet, FetchAnswered
<1>6. CASE UNCHANGED webVars
  BY <1>6 DEF webVars
<1> QED
  BY <1>1, <1>2, <1>3, <1>4, <1>5, <1>6 DEF WebNext

LEMMA InitServer == WebInit => ServerInv
<1> SUFFICES ASSUME WebInit PROVE ServerInv
  OBVIOUS
<1>1. jobs \in [Jobs -> Row \union {NoJob}]
  BY WebAppAssumption DEF WebInit
<1> QED
  BY <1>1 DEF WebInit, ServerInv

LEMMA StepServer == ServerInv /\ [WebNext]_webVars => ServerInv'
<1> SUFFICES ASSUME ServerInv, [WebNext]_webVars PROVE ServerInv'
  OBVIOUS
<1>. DEFINE Event == [type : EventType, id : Jobs]
<1>1. CASE UNCHANGED <<serverVars, events>>
  BY <1>1 DEF serverVars, ServerInv
<1>2. CASE Deliver
  <2>1. events \in Seq(Event) /\ events # <<>> /\ events' = Tail(events) /\ UNCHANGED <<jobs, gone>>
    BY <1>2 DEF Deliver, serverVars, ServerInv
  <2>2. /\ events' \in Seq(Event)
        /\ \A k \in 1..Len(events') : k + 1 \in 1..Len(events) /\ events'[k] = events[k + 1]
    BY <2>1
  <2> QED
    BY <2>1, <2>2 DEF ServerInv
<1>3. ASSUME NEW id \in Jobs, ServerChange(id) PROVE ServerInv'
  <2>1. PICK row \in Row \union {NoJob} : jobs' = [jobs EXCEPT ![id] = row]
    BY <1>3, ChangeEffects DEF SetRow
  <2>2. gone \subseteq gone' /\ gone' \subseteq Jobs
    BY <1>3, ChangeEffects
  <2>3. \/ UNCHANGED events
        \/ \E type \in EventType : /\ events' = Append(events, [type |-> type, id |-> id])
                                   /\ type = "job_deleted" => id \in gone'
    BY <1>3, ChangeEffects DEF Emit
  <2>4. CASE UNCHANGED events
    BY <2>1, <2>2, <2>4 DEF ServerInv
  <2>5. ASSUME NEW type \in EventType, events' = Append(events, [type |-> type, id |-> id]),
               type = "job_deleted" => id \in gone'
        PROVE  ServerInv'
    <3>. DEFINE e == [type |-> type, id |-> id]
    <3>1. e \in Event /\ e.type = type /\ e.id = id
      OBVIOUS
    <3>. HIDE DEF e
    <3>2. /\ events' \in Seq(Event) /\ Len(events') = Len(events) + 1 /\ Len(events) \in Nat
          /\ \A k \in 1..Len(events) : events'[k] = events[k]
          /\ events'[Len(events) + 1] = e
      BY <2>5, <3>1 DEF ServerInv, e
    <3>3. ASSUME NEW k \in 1..Len(events'), events'[k].type = "job_deleted" PROVE events'[k].id \in gone'
      <4>1. CASE k = Len(events) + 1
        BY <2>5, <3>1, <3>2, <3>3, <4>1
      <4>2. CASE k # Len(events) + 1
        <5>1. k \in 1..Len(events)
          BY <3>2, <4>2
        <5> QED
          BY <2>2, <3>2, <3>3, <5>1 DEF ServerInv
      <4> QED
        BY <4>1, <4>2
    <3> QED
      BY <2>1, <2>2, <3>2, <3>3 DEF ServerInv
  <2> QED
    BY <2>3, <2>4, <2>5
<1> QED
  BY <1>1, <1>2, <1>3, ServerMoves

-----------------------------------------------------------------------------
(* The job page *)

Mounting ==
    /\ location' # location /\ ~(location' \in Jobs /\ OnJobPage)
    /\ Remount(IF location' \in Jobs THEN <<GetFor(location', "page")>> ELSE <<>>)

Rerouting == location' # location /\ location' \in Jobs /\ OnJobPage /\ Reroute

Refreshing == OnJobPage /\ \E kind \in {"page", "retry", "diagnose"} : ActionDone(kind)

\* What a step of the application is to the job page.
PageMove ==
    \/ UNCHANGED <<location, pageVars>>
    \/ Mounting \/ Rerouting
    \/ DiagnoseClicked \/ RetryClicked \/ DeleteConfirmed
    \/ Refreshing
    \/ \E kind \in {"retry", "delete", "diagnose"} : ActionFailed(kind)
    \/ \E i \in 1..Len(gets) : GetAnswered(i) \/ ServeGet(i)

LEMMA PageMoves ==
    ASSUME RequestsInv, ServerInv, [WebNext]_webVars
    PROVE  \/ PageMove
           \/ \E id \in Jobs : ServerChange(id) /\ UNCHANGED <<location, pageVarsButMissed>>
<1> SUFFICES ASSUME ~\E id \in Jobs : ServerChange(id) /\ UNCHANGED <<location, pageVarsButMissed>>
             PROVE  PageMove
  OBVIOUS
<1>1. ASSUME NEW l, NEW rest, Navigate(l, rest) PROVE PageMove
  BY <1>1 DEF Navigate, PageMove, Mounting, Rerouting
<1>2. CASE UserStep
  BY <1>1, <1>2 DEF UserStep, Go, EditForm, StepThrough, Cancel, Enqueue, ClickButton, PageMove
<1>3. ASSUME NEW id \in Jobs, Change(id) PROVE FALSE
  BY <1>3 DEF Change, ServerChange
<1>4. ASSUME NEW r \in requests, Serve(r) PROVE FALSE
  <2>1. PICK id \in Jobs : Created(id) \/ Retried(id) \/ Deleted(id) \/ Diagnosed(id)
    BY <1>4 DEF Serve
  <2> QED
    BY <1>4, <2>1 DEF Serve, ServerChange
<1>5. ASSUME NEW r \in requests, Refuse(r) \/ CreateAnswered(r) \/ DeleteAnswered(r) PROVE PageMove
  BY <1>1, <1>5 DEF Refuse, CreateAnswered, DeleteAnswered, PageMove
<1>6. ASSUME NEW r \in requests, ActionAnswered(r) PROVE PageMove
  <2>1. r.kind \in {"retry", "diagnose"} /\ (r.own => OnJobPage)
    BY <1>6 DEF ActionAnswered, RequestsInv, OwnOnPage, OnJobPage
  <2> QED
    BY <1>6, <2>1 DEF ActionAnswered, PageMove, Refreshing
<1>7. ASSUME NEW i \in 1..Len(gets), ServeGet(i) \/ FetchAnswered(i) PROVE PageMove
  BY <1>7 DEF FetchAnswered, PageMove
<1>8. CASE Deliver
  <2>1. Head(events).id \in Jobs
    <3>. DEFINE Event == [type : EventType, id : Jobs]
    <3>1. events \in Seq(Event) /\ events # <<>>
      BY <1>8 DEF Deliver, ServerInv
    <3>2. Head(events) \in Event
      <4>. HIDE DEF Event
      <4> QED
        BY <3>1
    <3> QED
      BY <3>2
  <2>2. CASE Head(events).id # location \/ Head(events).type = "job_created"
    BY <1>8, <2>2 DEF Deliver, PageMove
  <2>3. CASE ~(Head(events).id # location \/ Head(events).type = "job_created")
    BY <1>1, <1>8, <2>1, <2>3 DEF Deliver, PageMove, Refreshing, OnJobPage
  <2> QED
    BY <2>2, <2>3
<1>9. CASE UNCHANGED webVars
  BY <1>9 DEF webVars, PageMove
<1> QED
  BY <1>2, <1>3, <1>4, <1>5, <1>6, <1>7, <1>8, <1>9 DEF WebNext, AnswerStep

\* Only a mounted job page has fetches.
OnlyOnPage == ~OnJobPage => gets = <<>>

\* The fetches that were overtaken are the first.
LateFirst == \A k \in 1..Len(gets) : gets[k].late => \A m \in 1..k : gets[m].late

\* The others are for the job of the address.
ForThePage == OnJobPage => \A k \in 1..Len(gets) : ~gets[k].late => gets[k].id = location

RepliesHaveRows == \A k \in 1..Len(gets) : gets[k].reply = "ok" => gets[k].row \in Row

GetsInv == gets \in Seq(Get) /\ OnlyOnPage /\ LateFirst /\ ForThePage /\ RepliesHaveRows

PageInv == JobPageTypeOK /\ GetsInv /\ PageShowsItsJob

\* A fetch as it is sent.
LEMMA GetForType ==
    ASSUME NEW id \in Jobs, NEW then \in {"page", "retry", "diagnose"}
    PROVE  LET g == GetFor(id, then)
           IN g \in Get /\ g.id = id /\ g.then = then /\ g.reply = "none" /\ g.late = FALSE
  BY DEF GetFor, Get

LEMMA GetsUnchanged == GetsInv /\ UNCHANGED <<location, gets>> => GetsInv'
  BY DEF GetsInv, OnlyOnPage, OnJobPage, LateFirst, ForThePage, RepliesHaveRows

\* The fetches of a page that is mounted, or of none.
LEMMA MountedGets ==
    ASSUME gets' = IF location' \in Jobs THEN <<GetFor(location', "page")>> ELSE <<>>
    PROVE  GetsInv'
<1>1. CASE location' \in Jobs
  <2>. DEFINE g == GetFor(location', "page")
  <2>1. g \in Get /\ g.id = location' /\ g.reply = "none" /\ g.late = FALSE
    BY <1>1, GetForType
  <2>. HIDE DEF g
  <2>2. gets' = <<g>>
    BY <1>1 DEF g
  <2>3. gets' \in Seq(Get) /\ Len(gets') = 1 /\ gets'[1] = g
    BY <2>1, <2>2
  <2> QED
    BY <1>1, <2>1, <2>3 DEF GetsInv, OnlyOnPage, OnJobPage, LateFirst, ForThePage, RepliesHaveRows
<1>2. CASE location' \notin Jobs
  <2>1. gets' \in Seq(Get) /\ Len(gets') = 0 /\ gets' = <<>>
    BY <1>2
  <2> QED
    BY <2>1 DEF GetsInv, OnlyOnPage, LateFirst, ForThePage, RepliesHaveRows
<1> QED
  BY <1>1, <1>2

LEMMA ReroutedGets ==
    ASSUME GetsInv, Rerouting PROVE GetsInv' /\ \A k \in 1..Len(gets') : gets'[k].late
<1>. DEFINE n == Len(gets)
<1>1. n \in Nat /\ \A k \in 1..n : gets[k] \in Get
  BY DEF GetsInv
<1>2. gets' = [k \in 1..n |-> [gets[k] EXCEPT !.late = TRUE]]
  BY DEF Rerouting, Reroute
<1>. HIDE DEF n
<1>3. ASSUME NEW k \in 1..n
      PROVE  gets'[k] \in Get /\ gets'[k].late /\ gets'[k].reply = gets[k].reply /\ gets'[k].row = gets[k].row
  <2>1. gets'[k] = [gets[k] EXCEPT !.late = TRUE] /\ gets[k] \in Get
    BY <1>1, <1>2
  <2> QED
    BY <2>1 DEF Get
<1>4. gets' \in Seq(Get) /\ Len(gets') = n
  <2>1. \A k \in 1..n : [gets[k] EXCEPT !.late = TRUE] \in Get
    BY <1>2, <1>3
  <2> QED
    BY <1>1, <1>2, <2>1
<1>5. OnJobPage'
  BY DEF Rerouting, OnJobPage
<1> QED
  BY <1>3, <1>4, <1>5 DEF GetsInv, OnlyOnPage, LateFirst, ForThePage, RepliesHaveRows, n

LEMMA RefreshedGets ==
    ASSUME GetsInv, Refreshing
    PROVE  /\ GetsInv' /\ gets' # <<>>
           /\ gets'[Len(gets')].reply = "none" /\ ~gets'[Len(gets')].late
<1>. DEFINE n == Len(gets)
<1>1. PICK then \in {"page", "retry", "diagnose"} : gets' = Append(gets, GetFor(location, then))
  BY DEF Refreshing, ActionDone, Refresh
<1>2. OnJobPage /\ UNCHANGED location
  BY DEF Refreshing, ActionDone
<1>. DEFINE g == GetFor(location, then)
<1>3. g \in Get /\ g.id = location /\ g.reply = "none" /\ g.late = FALSE
  BY <1>2, GetForType DEF OnJobPage
<1>. HIDE DEF g
<1>4. /\ gets' \in Seq(Get) /\ n \in Nat /\ Len(gets') = n + 1
      /\ gets'[n + 1] = g /\ \A k \in 1..n : gets'[k] = gets[k]
  BY <1>1, <1>3 DEF GetsInv, g
<1>. HIDE DEF n
<1>5. \A k \in 1..(n + 1) : k = n + 1 \/ k \in 1..n
  BY <1>4
<1>6. LateFirst'
  BY <1>3, <1>4, <1>5 DEF GetsInv, LateFirst, n
<1>7. ForThePage' /\ RepliesHaveRows' /\ OnlyOnPage'
  BY <1>2, <1>3, <1>4, <1>5 DEF GetsInv, OnlyOnPage, ForThePage, RepliesHaveRows, OnJobPage, n
<1> QED
  BY <1>3, <1>4, <1>6, <1>7 DEF GetsInv

\* An answer carries the row there is.
LEMMA ServedGets ==
    ASSUME GetsInv, ServerInv, NEW i \in 1..Len(gets), ServeGet(i)
    PROVE  /\ GetsInv' /\ Len(gets') = Len(gets)
           /\ \A k \in 1..Len(gets) : gets'[k].late = gets[k].late /\ gets'[k].id = gets[k].id
           /\ \A k \in 1..Len(gets) : k # i => gets'[k] = gets[k]
           /\ gets'[i].reply = "ok" => gets'[i].row = jobs[gets[i].id]
<1>. DEFINE n == Len(gets)
<1>1. n \in Nat /\ i \in 1..n /\ \A k \in 1..n : gets[k] \in Get
  BY DEF GetsInv
<1>2. jobs[gets[i].id] \in Row \union {NoJob}
  BY <1>1 DEF ServerInv, Get
<1>3. PICK row \in {jobs[gets[i].id], NoJob} :
          gets' = [gets EXCEPT ![i].reply = IF row = NoJob THEN "error" ELSE "ok", ![i].row = row]
  BY DEF ServeGet
<1>. DEFINE g == [gets[i] EXCEPT !.reply = IF row = NoJob THEN "error" ELSE "ok", !.row = row]
<1>4. /\ g \in Get /\ g.late = gets[i].late /\ g.id = gets[i].id
      /\ g.reply = (IF row = NoJob THEN "error" ELSE "ok") /\ g.row = row
  <2>1. gets[i] \in Get /\ row \in Row \union {NoJob}
    BY <1>1, <1>2
  <2>2. (IF row = NoJob THEN "error" ELSE "ok") \in {"none", "ok", "error"}
    OBVIOUS
  <2> QED
    BY <2>1, <2>2 DEF Get
<1>5. gets' = [gets EXCEPT ![i] = g]
  BY <1>1, <1>3 DEF GetsInv
<1>. HIDE DEF g
<1>6. gets' \in Seq(Get) /\ Len(gets') = n /\ \A k \in 1..n : gets'[k] = IF k = i THEN g ELSE gets[k]
  <2>1. gets \in Seq(Get)
    BY DEF GetsInv
  <2> QED
    BY <1>1, <1>4, <1>5, <2>1
<1>7. g.reply = "ok" => g.row \in Row /\ g.row = jobs[gets[i].id]
  BY <1>2, <1>4
<1>8. \A k \in 1..n : gets'[k].late = gets[k].late /\ gets'[k].id = gets[k].id
  BY <1>4, <1>6
<1>9. UNCHANGED location
  BY DEF ServeGet
<1>10. LateFirst' /\ ForThePage'
  BY <1>6, <1>8, <1>9 DEF GetsInv, LateFirst, ForThePage, OnJobPage
<1>11. RepliesHaveRows' /\ OnlyOnPage'
  <2>1. gets # <<>>
    BY <1>1
  <2>2. RepliesHaveRows'
    BY <1>6, <1>7 DEF GetsInv, RepliesHaveRows
  <2> QED
    BY <1>9, <2>1, <2>2 DEF GetsInv, OnlyOnPage, OnJobPage
<1> QED
  BY <1>1, <1>6, <1>7, <1>8, <1>10, <1>11 DEF GetsInv

\* The fetches that are left when the i-th has ended.
LEMMA AnsweredGets ==
    ASSUME GetsInv, NEW i \in 1..Len(gets), GetAnswered(i)
    PROVE  /\ GetsInv'
           /\ i = Len(gets) => gets' = <<>> \/ gets'[Len(gets')].late
           /\ i # Len(gets) => gets' # <<>> /\ gets'[Len(gets')] = gets[Len(gets)]
<1>. DEFINE n == Len(gets)
<1>1. n \in Nat \ {0} /\ i \in 1..n /\ \A k \in 1..n : gets[k] \in Get
  BY DEF GetsInv
<1>2. /\ Len(gets') = n - 1
      /\ \A k \in 1..(n - 1) : gets'[k] = IF k < i THEN [gets[k] EXCEPT !.late = TRUE] ELSE gets[k + 1]
  BY <1>1 DEF GetAnswered, Without
<1>3. gets' = Without(i) /\ UNCHANGED location
  BY DEF GetAnswered
<1>. HIDE DEF n
<1>4. ASSUME NEW k \in 1..(n - 1), k < i
      PROVE  /\ k \in 1..n /\ gets'[k] \in Get /\ gets'[k].late
             /\ gets'[k].reply = gets[k].reply /\ gets'[k].row = gets[k].row
  <2>1. k \in 1..n /\ gets'[k] = [gets[k] EXCEPT !.late = TRUE] /\ gets[k] \in Get
    BY <1>1, <1>2, <1>4
  <2> QED
    BY <2>1 DEF Get
<1>5. ASSUME NEW k \in 1..(n - 1), ~(k < i) PROVE k + 1 \in 1..n /\ gets'[k] = gets[k + 1]
  BY <1>1, <1>2, <1>5
<1>6. gets' \in Seq(Get)
  <2>1. \A k \in 1..(n - 1) : Without(i)[k] \in Get
    BY <1>1, <1>3, <1>4, <1>5
  <2> QED
    BY <1>1, <1>3, <2>1 DEF Without, n
<1>7. LateFirst'
  <2>1. ASSUME NEW k \in 1..(n - 1), gets'[k].late, NEW m \in 1..k PROVE gets'[m].late
    <3>1. m \in 1..(n - 1)
      BY <1>1
    <3>2. CASE m < i
      BY <1>4, <3>1, <3>2
    <3>3. CASE ~(m < i)
      <4>1. ~(k < i) /\ m + 1 \in 1..(k + 1)
        BY <1>1, <3>3
      <4>2. gets[k + 1].late /\ k + 1 \in 1..n
        BY <1>5, <2>1, <4>1
      <4>3. gets[m + 1].late
        BY <4>1, <4>2 DEF GetsInv, LateFirst, n
      <4> QED
        BY <1>5, <3>1, <3>3, <4>3
    <3> QED
      BY <3>2, <3>3
  <2> QED
    BY <1>2, <2>1 DEF LateFirst
<1>8. RepliesHaveRows'
  <2>1. ASSUME NEW k \in 1..(n - 1), gets'[k].reply = "ok" PROVE gets'[k].row \in Row
    <3>1. CASE k < i
      BY <1>4, <2>1, <3>1 DEF GetsInv, RepliesHaveRows, n
    <3>2. CASE ~(k < i)
      BY <1>5, <2>1, <3>2 DEF GetsInv, RepliesHaveRows, n
    <3> QED
      BY <3>1, <3>2
  <2> QED
    BY <1>2, <2>1 DEF RepliesHaveRows
<1>9. OnJobPage /\ OnJobPage'
  <2>1. gets # <<>>
    BY <1>1 DEF n
  <2> QED
    BY <1>3, <2>1 DEF GetsInv, OnlyOnPage, OnJobPage
<1>10. ForThePage'
  <2>1. ASSUME NEW k \in 1..(n - 1), ~gets'[k].late PROVE gets'[k].id = location
    <3>1. ~(k < i)
      BY <1>4, <2>1
    <3> QED
      BY <1>5, <1>9, <2>1, <3>1 DEF GetsInv, ForThePage, n
  <2> QED
    BY <1>2, <1>3, <2>1 DEF ForThePage
<1>11. GetsInv'
  BY <1>6, <1>7, <1>8, <1>9, <1>10 DEF GetsInv, OnlyOnPage
<1>12. CASE i = n
  <2>1. CASE n = 1
    <3>1. Len(gets') = 0
      BY <1>2, <2>1
    <3>2. gets' = <<>>
      BY <1>6, <3>1
    <3> QED
      BY <1>11, <1>12, <3>2 DEF n
  <2>2. CASE n # 1
    <3>1. n - 1 \in 1..(n - 1) /\ n - 1 < i
      BY <1>1, <1>12, <2>2
    <3>2. gets'[n - 1].late
      BY <1>4, <3>1
    <3> QED
      BY <1>2, <1>11, <1>12, <3>2 DEF n
  <2> QED
    BY <2>1, <2>2
<1>13. CASE i # n
  <2>1. n - 1 \in 1..(n - 1) /\ ~(n - 1 < i) /\ n - 1 + 1 = n
    BY <1>1, <1>13
  <2>2. gets'[n - 1] = gets[n] /\ Len(gets') = n - 1 /\ gets' # <<>>
    BY <1>2, <1>5, <1>6, <2>1
  <2> QED
    BY <1>11, <1>13, <2>2 DEF n
<1> QED
  BY <1>12, <1>13

LEMMA InitPage == WebInit => PageInv
<1> SUFFICES ASSUME WebInit PROVE PageInv
  OBVIOUS
<1>1. location \notin Jobs /\ NotMounted
  BY PlacesDiffer DEF WebInit
<1>2. GetsInv
  BY <1>1 DEF NotMounted, GetsInv, OnlyOnPage, LateFirst, ForThePage, OnJobPage, RepliesHaveRows
<1>3. JobPageTypeOK
  <2>1. gets \in Seq(Get)
    BY <1>2 DEF GetsInv
  <2> QED
    BY <1>1, <2>1, Zenon DEF NotMounted, JobPageTypeOK
<1> QED
  BY <1>1, <1>2, <1>3 DEF PageInv, PageShowsItsJob, OnJobPage

\* Every step keeps the types of the job page, and what it shows.
LEMMA StepPage ==
    RequestsInv /\ ServerInv /\ PageInv /\ [WebNext]_webVars => PageInv'
<1> SUFFICES ASSUME RequestsInv, ServerInv, PageInv, [WebNext]_webVars PROVE PageInv'
  OBVIOUS
<1>1. JobPageTypeOK /\ GetsInv /\ PageShowsItsJob
  BY DEF PageInv
<1>2. ASSUME UNCHANGED <<location, pageVars>> PROVE PageInv'
  BY <1>1, <1>2, GetsUnchanged DEF PageInv, JobPageTypeOK, PageShowsItsJob, OnJobPage, pageVars
<1>3. ASSUME NEW id \in Jobs, ServerChange(id), UNCHANGED <<location, pageVarsButMissed>> PROVE PageInv'
  <2>1. missed' \in BOOLEAN
    <3>1. missed' = missed \/ missed' = (missed \/ id = location)
      BY <1>3, ChangeEffects DEF Emit
    <3> QED
      BY <1>1, <3>1 DEF JobPageTypeOK
  <2> QED
    BY <1>1, <1>3, <2>1, GetsUnchanged DEF PageInv, JobPageTypeOK, PageShowsItsJob, OnJobPage, pageVarsButMissed
<1>4. CASE Mounting
  <2>1. GetsInv'
    BY <1>4, MountedGets DEF Mounting, Remount
  <2> QED
    BY <1>4, <2>1 DEF Mounting, Remount, PageInv, JobPageTypeOK, PageShowsItsJob, GetsInv
<1>5. CASE Rerouting
  <2>1. GetsInv'
    BY <1>1, <1>5, ReroutedGets
  <2> QED
    BY <1>1, <1>5, <2>1 DEF Rerouting, Reroute, PageInv, JobPageTypeOK, PageShowsItsJob, GetsInv, OnJobPage
<1>6. CASE DiagnoseClicked \/ RetryClicked \/ DeleteConfirmed
  <2>1. UNCHANGED <<location, shown, loading, pageError, gets, stale, rerouted, missed>>
    BY <1>6 DEF DiagnoseClicked, RetryClicked, DeleteConfirmed
  <2>2. diagLoading' \in BOOLEAN /\ retrying' \in BOOLEAN /\ deleting' \in BOOLEAN
    BY <1>1, <1>6 DEF DiagnoseClicked, RetryClicked, DeleteConfirmed, JobPageTypeOK
  <2> QED
    BY <1>1, <2>1, <2>2, GetsUnchanged DEF PageInv, JobPageTypeOK, PageShowsItsJob, OnJobPage
<1>7. CASE Refreshing
  <2>1. GetsInv'
    BY <1>1, <1>7, RefreshedGets
  <2>2. missed' = FALSE /\ UNCHANGED <<location, shown, loading, pageError, diagLoading, retrying, deleting,
                                       stale, rerouted>>
    BY <1>7 DEF Refreshing, ActionDone, Refresh
  <2> QED
    BY <1>1, <2>1, <2>2 DEF PageInv, JobPageTypeOK, PageShowsItsJob, OnJobPage, GetsInv
<1>8. ASSUME NEW kind \in {"retry", "delete", "diagnose"}, ActionFailed(kind) PROVE PageInv'
  <2>1. UNCHANGED <<location, shown, loading, gets, stale, rerouted, missed>> /\ pageError' = TRUE
    BY <1>8 DEF ActionFailed
  <2>2. diagLoading' \in BOOLEAN /\ retrying' \in BOOLEAN /\ deleting' \in BOOLEAN
    BY <1>1, <1>8 DEF ActionFailed, JobPageTypeOK
  <2> QED
    BY <1>1, <2>1, <2>2, GetsUnchanged DEF PageInv, JobPageTypeOK, PageShowsItsJob, OnJobPage
<1>9. ASSUME NEW i \in 1..Len(gets), GetAnswered(i) PROVE PageInv'
  <2>1. GetsInv' /\ UNCHANGED <<location, deleting, missed>> /\ loading' = FALSE
    BY <1>1, <1>9, AnsweredGets DEF GetAnswered
  <2>2. gets[i] \in Get /\ OnJobPage
    <3>1. gets # <<>>
      BY <1>1 DEF GetsInv
    <3> QED
      BY <1>1, <3>1 DEF GetsInv, OnlyOnPage
  <2>3. diagLoading' \in BOOLEAN /\ retrying' \in BOOLEAN
    BY <1>1, <1>9 DEF GetAnswered, JobPageTypeOK
  <2>4. CASE gets[i].reply = "ok"
    <3>. DEFINE new == [id |-> gets[i].id, row |-> gets[i].row]
    <3>1. new \in [id : Jobs, row : Row] /\ new.id = gets[i].id
      BY <1>1, <2>2, <2>4 DEF Get, GetsInv, RepliesHaveRows
    <3>2. shown' = new /\ pageError' = FALSE /\ stale' = gets[i].late /\ rerouted' = (rerouted /\ gets[i].late)
      BY <1>9, <2>4 DEF GetAnswered
    <3>. HIDE DEF new
    <3>3. new # NoJob
      BY <3>1, NoRowAssumption
    <3>4. stale' \in BOOLEAN /\ rerouted' \in BOOLEAN
      BY <1>1, <2>2, <3>2 DEF Get, JobPageTypeOK
    <3>5. ~gets[i].late => gets[i].id = location
      BY <1>1, <2>2 DEF GetsInv, ForThePage
    <3>6. PageShowsItsJob'
      BY <2>1, <3>1, <3>2, <3>3, <3>5 DEF PageShowsItsJob
    <3> QED
      BY <1>1, <2>1, <2>3, <3>1, <3>2, <3>4, <3>6 DEF PageInv, JobPageTypeOK, GetsInv
  <2>5. CASE gets[i].reply # "ok"
    <3>1. pageError' = TRUE /\ UNCHANGED <<shown, stale, rerouted>>
      BY <1>9, <2>5 DEF GetAnswered
    <3> QED
      BY <1>1, <2>1, <2>3, <3>1 DEF PageInv, JobPageTypeOK, GetsInv, PageShowsItsJob, OnJobPage
  <2> QED
    BY <2>4, <2>5
<1>10. ASSUME NEW i \in 1..Len(gets), ServeGet(i) PROVE PageInv'
  <2>1. GetsInv'
    BY <1>1, <1>10, ServedGets
  <2>2. UNCHANGED <<location, shown, loading, pageError, diagLoading, retrying, deleting, stale, rerouted, missed>>
    BY <1>10 DEF ServeGet
  <2> QED
    BY <1>1, <2>1, <2>2 DEF PageInv, JobPageTypeOK, GetsInv, PageShowsItsJob, OnJobPage
<1> QED
  BY <1>2, <1>3, <1>4, <1>5, <1>6, <1>7, <1>8, <1>9, <1>10, PageMoves DEF PageMove

LEMMA WebPages == WebSpec => [](WizardInv /\ RequestsInv /\ ServerInv /\ PageInv)
<1>1. WebInit => ServerInv /\ PageInv
  BY InitServer, InitPage
<1> QED
  BY <1>1, WebRequests, StepServer, StepPage, PTL DEF WebSpec

\* A job page that has loaded shows the job of its address or an error, unless an answer came
\* late or the address changed under it (web/src/pages/JobDetails.jsx, refresh).
THEOREM PageIsOfItsJob == WebSpec => []PageShowsItsJob
  BY WebPages, PTL DEF PageInv

-----------------------------------------------------------------------------
(* What is shown is current *)

\* No event that the page will act upon is on its way.
Quiet == \A k \in 1..Len(events) : events[k].id = location => events[k].type = "job_created"

\* The fetch sent last carries the row there is, and so does the page when it was answered.
LastIsCurrent ==
    gets # <<>> /\ ~gets[Len(gets)].late =>
        (gets[Len(gets)].reply = "ok" => gets[Len(gets)].row = jobs[location])

RestIsCurrent ==
    gets = <<>> \/ gets[Len(gets)].late =>
        \/ pageError \/ stale \/ rerouted
        \/ shown # NoJob /\ jobs[location] # NoJob /\ shown.row = jobs[location]

CurrentInv == OnJobPage /\ ~missed /\ Quiet => LastIsCurrent /\ RestIsCurrent

LEMMA CurrentInvGives == CurrentInv => PageIsCurrent
  BY DEF CurrentInv, RestIsCurrent, Quiet, PageIsCurrent

LEMMA InitCurrent == WebInit => CurrentInv
  BY PlacesDiffer DEF WebInit, CurrentInv, OnJobPage

\* A change of a job is told or missed; the creation of a job finds no row of it on the page.
LEMMA ChangeKeepsCurrent ==
    ASSUME ServerInv, PageInv, CurrentInv, NEW id \in Jobs, ServerChange(id),
           UNCHANGED <<location, pageVarsButMissed>>
    PROVE  CurrentInv'
<1> SUFFICES ASSUME OnJobPage', ~missed', Quiet' PROVE LastIsCurrent' /\ RestIsCurrent'
  BY DEF CurrentInv
<1>1. UNCHANGED <<location, gets, shown, pageError, stale, rerouted>> /\ OnJobPage
  BY DEF pageVarsButMissed, OnJobPage
<1>2. PICK row \in Row \union {NoJob} : jobs' = [jobs EXCEPT ![id] = row]
  BY ChangeEffects DEF SetRow
<1>3. CASE missed' = (missed \/ id = location) /\ UNCHANGED events
  <2>1. ~missed /\ id # location /\ Quiet
    BY <1>1, <1>3 DEF Quiet
  <2>2. jobs'[location] = jobs[location]
    BY <1>1, <1>2, <2>1 DEF ServerInv, OnJobPage
  <2> QED
    BY <1>1, <2>1, <2>2 DEF CurrentInv, LastIsCurrent, RestIsCurrent
<1>4. ASSUME NEW type \in EventType, Emit(type, id), type = "job_created" => jobs[id] = NoJob
      PROVE  LastIsCurrent' /\ RestIsCurrent'
  <2>1. CASE missed' = (missed \/ id = location) /\ UNCHANGED events
    BY <1>3, <2>1
  <2>2. CASE events' = Append(events, [type |-> type, id |-> id]) /\ UNCHANGED missed
    <3>. DEFINE e == [type |-> type, id |-> id]
    <3>1. e.type = type /\ e.id = id /\ e \in [type : EventType, id : Jobs]
      OBVIOUS
    <3>. HIDE DEF e
    <3>2. /\ Len(events') = Len(events) + 1 /\ Len(events) \in Nat
          /\ \A k \in 1..Len(events) : events'[k] = events[k]
          /\ events'[Len(events) + 1] = e
      BY <2>2, <3>1 DEF ServerInv, e
    <3>3. Quiet /\ (id = location => type = "job_created")
      <4>1. Len(events) + 1 \in 1..Len(events')
        BY <3>2
      <4>2. \A k \in 1..Len(events) : k \in 1..Len(events')
        BY <3>2
      <4>3. id = location => type = "job_created"
        BY <1>1, <3>1, <3>2, <4>1 DEF Quiet
      <4>4. Quiet
        BY <1>1, <3>2, <4>2 DEF Quiet
      <4> QED
        BY <4>3, <4>4
    <3>4. LastIsCurrent /\ RestIsCurrent
      BY <1>1, <2>2, <3>3 DEF CurrentInv
    <3>5. CASE id # location
      <4>1. jobs'[location] = jobs[location]
        BY <1>1, <1>2, <3>5 DEF ServerInv, OnJobPage
      <4> QED
        BY <1>1, <3>4, <4>1 DEF LastIsCurrent, RestIsCurrent
    <3>6. CASE id = location
      <4>1. jobs[location] = NoJob
        BY <1>4, <3>3, <3>6
      <4>2. ASSUME gets # <<>>, gets[Len(gets)].reply = "ok", ~gets[Len(gets)].late PROVE FALSE
        <5>1. gets[Len(gets)].row = NoJob
          BY <3>4, <4>1, <4>2 DEF LastIsCurrent
        <5>2. Len(gets) \in 1..Len(gets)
          BY <4>2 DEF PageInv, GetsInv
        <5>3. gets[Len(gets)].row \in Row
          BY <4>2, <5>2 DEF PageInv, GetsInv, RepliesHaveRows
        <5> QED
          BY <5>1, <5>3, NoRowAssumption
      <4> QED
        BY <1>1, <3>4, <4>1, <4>2 DEF LastIsCurrent, RestIsCurrent
    <3> QED
      BY <3>5, <3>6
  <2> QED
    BY <1>4, <2>1, <2>2 DEF Emit
<1> QED
  BY <1>3, <1>4, ChangeEffects

\* A step of the page, with the server and its events as they are.
LEMMA MoveKeepsCurrent ==
    ASSUME ServerInv, PageInv, CurrentInv, PageMove, UNCHANGED <<serverVars, events>>
    PROVE  CurrentInv'
<1> SUFFICES ASSUME OnJobPage', ~missed', Quiet' PROVE LastIsCurrent' /\ RestIsCurrent'
  BY DEF CurrentInv
<1>1. GetsInv /\ UNCHANGED <<jobs, events>>
  BY DEF PageInv, serverVars
<1>2. ASSUME UNCHANGED <<location, missed>> PROVE OnJobPage /\ LastIsCurrent /\ RestIsCurrent
  BY <1>1, <1>2 DEF CurrentInv, OnJobPage, Quiet
<1>3. CASE UNCHANGED <<location, pageVars>>
  BY <1>1, <1>2, <1>3 DEF pageVars, LastIsCurrent, RestIsCurrent
<1>4. CASE Mounting
  <2>. DEFINE g == GetFor(location', "page")
  <2>1. g.reply = "none" /\ g.late = FALSE
    BY DEF GetFor
  <2>2. gets' = <<g>>
    BY <1>4 DEF Mounting, Remount, OnJobPage
  <2>. HIDE DEF g
  <2>3. gets' # <<>> /\ gets'[Len(gets')] = g
    BY <2>2
  <2> QED
    BY <2>1, <2>3 DEF LastIsCurrent, RestIsCurrent
<1>5. CASE Rerouting
  <2>1. GetsInv' /\ \A k \in 1..Len(gets') : gets'[k].late
    BY <1>1, <1>5, ReroutedGets
  <2>2. gets' # <<>> => Len(gets') \in 1..Len(gets')
    BY <2>1 DEF GetsInv
  <2>3. rerouted' = TRUE
    BY <1>5 DEF Rerouting, Reroute
  <2> QED
    BY <2>1, <2>2, <2>3 DEF LastIsCurrent, RestIsCurrent
<1>6. CASE DiagnoseClicked \/ RetryClicked \/ DeleteConfirmed
  <2>1. UNCHANGED <<location, missed, gets, shown, pageError, stale, rerouted>>
    BY <1>6 DEF DiagnoseClicked, RetryClicked, DeleteConfirmed
  <2> QED
    BY <1>1, <1>2, <2>1 DEF LastIsCurrent, RestIsCurrent
<1>7. CASE Refreshing
  BY <1>1, <1>7, RefreshedGets DEF LastIsCurrent, RestIsCurrent
<1>8. ASSUME NEW kind \in {"retry", "delete", "diagnose"}, ActionFailed(kind)
      PROVE  LastIsCurrent' /\ RestIsCurrent'
  <2>1. UNCHANGED <<location, missed, gets>> /\ pageError' = TRUE
    BY <1>8 DEF ActionFailed
  <2> QED
    BY <1>1, <1>2, <2>1 DEF LastIsCurrent, RestIsCurrent
<1>9. ASSUME NEW i \in 1..Len(gets), GetAnswered(i) PROVE LastIsCurrent' /\ RestIsCurrent'
  <2>1. UNCHANGED <<location, missed>> /\ gets # <<>> /\ Len(gets) \in 1..Len(gets) /\ gets[i].reply # "none"
    BY <1>1, <1>9 DEF GetAnswered, GetsInv
  <2>2. OnJobPage /\ LastIsCurrent
    BY <1>2, <2>1
  <2>3. CASE i = Len(gets)
    <3>1. gets' = <<>> \/ gets'[Len(gets')].late
      BY <1>1, <1>9, <2>3, AnsweredGets
    <3>2. CASE gets[i].reply # "ok" \/ gets[i].late
      <4>1. pageError' = TRUE \/ stale'
        BY <1>9, <3>2 DEF GetAnswered
      <4> QED
        BY <3>1, <4>1 DEF LastIsCurrent, RestIsCurrent
    <3>3. CASE gets[i].reply = "ok" /\ ~gets[i].late
      <4>. DEFINE new == [id |-> gets[i].id, row |-> gets[i].row]
      <4>1. gets[i].row = jobs[location] /\ gets[i].row \in Row /\ gets[i] \in Get
        BY <1>1, <2>1, <2>2, <2>3, <3>3 DEF LastIsCurrent, GetsInv, RepliesHaveRows
      <4>2. shown' = new /\ new \in [id : Jobs, row : Row] /\ new.row = jobs[location]
        BY <1>9, <3>3, <4>1 DEF GetAnswered, Get
      <4>. HIDE DEF new
      <4>3. shown' # NoJob /\ jobs'[location'] # NoJob /\ shown'.row = jobs'[location']
        BY <1>1, <2>1, <4>1, <4>2, NoRowAssumption
      <4> QED
        BY <3>1, <4>3 DEF LastIsCurrent, RestIsCurrent
    <3> QED
      BY <3>2, <3>3
  <2>4. CASE i # Len(gets)
    <3>1. gets' # <<>> /\ gets'[Len(gets')] = gets[Len(gets)]
      BY <1>1, <1>9, <2>4, AnsweredGets
    <3>2. LastIsCurrent'
      BY <1>1, <2>1, <2>2, <3>1 DEF LastIsCurrent
    <3>3. ASSUME gets[Len(gets)].late PROVE RestIsCurrent'
      <4>1. gets[i].late
        BY <1>1, <2>1, <3>3 DEF GetsInv, LateFirst
      <4>2. stale' \/ pageError' = TRUE
        BY <1>9, <4>1 DEF GetAnswered
      <4> QED
        BY <4>2 DEF RestIsCurrent
    <3> QED
      BY <3>1, <3>2, <3>3 DEF RestIsCurrent
  <2> QED
    BY <2>3, <2>4
<1>10. ASSUME NEW i \in 1..Len(gets), ServeGet(i) PROVE LastIsCurrent' /\ RestIsCurrent'
  <2>1. /\ GetsInv' /\ Len(gets') = Len(gets)
        /\ \A k \in 1..Len(gets) : gets'[k].late = gets[k].late /\ gets'[k].id = gets[k].id
        /\ \A k \in 1..Len(gets) : k # i => gets'[k] = gets[k]
        /\ gets'[i].reply = "ok" => gets'[i].row = jobs[gets[i].id]
    BY <1>1, <1>10, ServedGets
  <2>2. UNCHANGED <<location, missed, shown, pageError, stale, rerouted>>
    BY <1>10 DEF ServeGet
  <2>3. OnJobPage /\ LastIsCurrent /\ RestIsCurrent
    BY <1>2, <2>2
  <2>4. gets # <<>> /\ gets' # <<>> /\ Len(gets) \in 1..Len(gets)
    BY <1>1, <2>1 DEF GetsInv
  <2>5. RestIsCurrent'
    BY <1>1, <2>1, <2>2, <2>3, <2>4 DEF RestIsCurrent
  <2>6. LastIsCurrent'
    <3>1. CASE i = Len(gets)
      BY <1>1, <2>1, <2>2, <2>3, <2>4, <3>1 DEF LastIsCurrent, GetsInv, ForThePage
    <3>2. CASE i # Len(gets)
      BY <1>1, <2>1, <2>2, <2>3, <2>4, <3>2 DEF LastIsCurrent
    <3> QED
      BY <3>1, <3>2
  <2> QED
    BY <2>5, <2>6
<1> QED
  BY <1>3, <1>4, <1>5, <1>6, <1>7, <1>8, <1>9, <1>10 DEF PageMove

\* An event that is acted upon is answered by a fetch, or takes the user away.
LEMMA DeliverKeepsCurrent ==
    ASSUME RequestsInv, ServerInv, PageInv, CurrentInv, Deliver PROVE CurrentInv'
<1>. DEFINE Event == [type : EventType, id : Jobs]
<1>1. events \in Seq(Event) /\ events # <<>> /\ events' = Tail(events) /\ UNCHANGED jobs
  BY DEF Deliver, ServerInv, serverVars
<1>. HIDE DEF Event
<1>2. /\ Head(events) = events[1] /\ Head(events) \in Event /\ Len(events) \in Nat \ {0}
      /\ Len(events') = Len(events) - 1
      /\ \A k \in 1..Len(events') : events'[k] = events[k + 1]
  BY <1>1
<1>3. CASE Head(events).id # location \/ Head(events).type = "job_created"
  <2>1. UNCHANGED <<location, pageVars>>
    BY <1>3 DEF Deliver
  <2>2. ASSUME Quiet' PROVE Quiet
    <3>1. ASSUME NEW k \in 1..Len(events), events[k].id = location PROVE events[k].type = "job_created"
      <4>1. CASE k = 1
        BY <1>2, <1>3, <3>1, <4>1
      <4>2. CASE k # 1
        <5>1. k - 1 \in 1..Len(events') /\ k - 1 + 1 = k
          BY <1>2, <4>2
        <5>2. events'[k - 1] = events[k]
          BY <1>2, <5>1
        <5> QED
          BY <2>1, <2>2, <3>1, <5>1, <5>2 DEF Quiet
      <4> QED
        BY <4>1, <4>2
    <3> QED
      BY <3>1 DEF Quiet
  <2> QED
    BY <1>1, <2>1, <2>2 DEF CurrentInv, OnJobPage, pageVars, LastIsCurrent, RestIsCurrent
<1>4. CASE ~(Head(events).id # location \/ Head(events).type = "job_created")
  <2>1. location \in Jobs
    BY <1>2, <1>4 DEF Event
  <2>2. CASE Head(events).type = "job_deleted"
    <3>1. location' = "/"
      BY <1>4, <2>2 DEF Deliver, Navigate
    <3> QED
      BY <3>1, PlacesDiffer DEF CurrentInv, OnJobPage
  <2>3. CASE Head(events).type # "job_deleted"
    <3>1. Refreshing
      BY <1>4, <2>1, <2>3 DEF Deliver, Refreshing, OnJobPage
    <3> QED
      BY <3>1, RefreshedGets DEF PageInv, CurrentInv, LastIsCurrent, RestIsCurrent
  <2> QED
    BY <2>2, <2>3
<1> QED
  BY <1>3, <1>4

LEMMA StepCurrent ==
    RequestsInv /\ ServerInv /\ PageInv /\ CurrentInv /\ [WebNext]_webVars => CurrentInv'
  BY PageMoves, ServerMoves, ChangeKeepsCurrent, MoveKeepsCurrent, DeliverKeepsCurrent

\* A job page at rest shows the job as the server holds it, unless it says or knows otherwise
\* (web/src/pages/JobDetails.jsx, refresh and handleWsMessage).
THEOREM PageAtRest == WebSpec => []PageIsCurrent
  BY WebPages, InitCurrent, StepCurrent, CurrentInvGives, PTL DEF WebSpec

-----------------------------------------------------------------------------
(* What moves the user *)

LEMMA NavigateSerials ==
    ASSUME RequestsInv, NEW l, NEW rest \in SUBSET requests, Navigate(l, rest)
    PROVE  Serials(requests') = Serials(rest)
<1>1. CASE requests' = rest
  BY <1>1
<1>2. CASE requests' = {[r EXCEPT !.own = FALSE] : r \in rest}
  <2>1. \A r \in rest : r \in Request /\ [r EXCEPT !.own = FALSE].n = r.n
    BY Disowned DEF RequestsInv
  <2> QED
    BY <1>2, <2>1 DEF Serials
<1> QED
  BY <1>1, <1>2 DEF Navigate

\* The cause for which the user may be moved.
Cause ==
    location' # location /\ (events' # events \/ Serials(requests') # Serials(requests)) =>
        \/ location \in gone
        \/ \E r \in requests : /\ r.n \notin Serials(requests')
                               /\ r.kind \in {"create", "delete"} /\ r.answer = "ok"

LEMMA StepCause == RequestsInv /\ ServerInv /\ [WebNext]_webVars => Cause
<1> SUFFICES ASSUME RequestsInv, ServerInv, [WebNext]_webVars,
                    location' # location, events' # events \/ Serials(requests') # Serials(requests)
             PROVE  \/ location \in gone
                    \/ \E r \in requests : /\ r.n \notin Serials(requests')
                                           /\ r.kind \in {"create", "delete"} /\ r.answer = "ok"
  BY DEF Cause
<1>1. ASSUME NEW l, Navigate(l, requests), UNCHANGED events PROVE FALSE
  BY <1>1, NavigateSerials
<1>2. CASE UserStep
  BY <1>1, <1>2 DEF UserStep, Go, EditForm, StepThrough, Cancel, Enqueue, ClickButton,
                    DiagnoseClicked, RetryClicked, DeleteConfirmed
<1>3. ASSUME NEW id \in Jobs, Change(id) PROVE FALSE
  BY <1>3 DEF Change
<1>4. ASSUME NEW r \in requests, Serve(r) \/ Refuse(r) \/ ActionAnswered(r) PROVE FALSE
  BY <1>4 DEF Serve, Refuse, ActionAnswered, ActionDone, ActionFailed
<1>5. ASSUME NEW r \in requests, CreateAnswered(r) \/ DeleteAnswered(r)
      PROVE  r.n \notin Serials(requests') /\ r.kind \in {"create", "delete"} /\ r.answer = "ok"
  <2>1. r.kind \in {"create", "delete"} /\ r.answer = "ok" /\ \E l : Navigate(l, requests \ {r})
    BY <1>5 DEF CreateAnswered, DeleteAnswered, ActionFailed
  <2>2. Serials(requests') = Serials(requests \ {r})
    BY <2>1, NavigateSerials
  <2>3. r.n \notin Serials(requests \ {r})
    BY DEF Serials, RequestsInv, NumbersDiffer
  <2> QED
    BY <2>1, <2>2, <2>3
<1>6. ASSUME NEW i \in 1..Len(gets), ServeGet(i) \/ FetchAnswered(i) PROVE FALSE
  BY <1>6 DEF ServeGet, FetchAnswered, GetAnswered
<1>7. CASE Deliver
  <2>1. Head(events).id = location /\ Head(events).type = "job_deleted"
    BY <1>7 DEF Deliver, ActionDone
  <2>2. Head(events) = events[1] /\ 1 \in 1..Len(events)
    BY <1>7 DEF Deliver, ServerInv
  <2> QED
    BY <2>1, <2>2 DEF ServerInv
<1>8. CASE UNCHANGED webVars
  BY <1>8 DEF webVars
<1> QED
  BY <1>2, <1>3, <1>4, <1>5, <1>6, <1>7, <1>8 DEF WebNext, AnswerStep

\* Nobody but the user moves the user, save for the two answers that say so and the deletion
\* of the job on show (web/src/pages/JobDetails.jsx and SubmitJob.jsx, navigate).
THEOREM MovedForCause == WebSpec => LeavesForCause
<1>1. RequestsInv /\ ServerInv /\ [WebNext]_webVars => [Cause]_webVars
  BY StepCause
<1> QED
  BY <1>1, WebPages, PTL DEF WebSpec, LeavesForCause, Cause

-----------------------------------------------------------------------------
(* Types *)

CountersOK == edits \in 0..MaxEdits /\ deeds \in 0..MaxDeeds

LEMMA StepCounters == CountersOK /\ [WebNext]_webVars => CountersOK'
<1> SUFFICES ASSUME CountersOK, [WebNext]_webVars PROVE CountersOK'
  OBVIOUS
<1>0. MaxEdits \in Nat /\ MaxDeeds \in Nat
  BY WebAppAssumption
<1>1. edits' = edits \/ edits' = 0 \/ (edits + deeds < MaxEdits /\ edits' = edits + 1)
  <2>1. ASSUME NEW l, NEW rest, Navigate(l, rest) PROVE edits' = edits \/ edits' = 0
    BY <2>1 DEF Navigate
  <2>2. CASE UserStep
    BY <2>1, <2>2 DEF UserStep, Go, EditForm, StepThrough, Cancel, Enqueue, ClickButton
  <2>3. ASSUME NEW r \in requests, AnswerStep(r) PROVE edits' = edits \/ edits' = 0
    BY <2>1, <2>3 DEF AnswerStep, CreateAnswered, DeleteAnswered, ActionAnswered
  <2>4. CASE Deliver
    BY <2>1, <2>4 DEF Deliver
  <2>5. ASSUME \/ \E id \in Jobs : Change(id)
               \/ \E r \in requests : Serve(r) \/ Refuse(r)
               \/ \E i \in 1..Len(gets) : ServeGet(i) \/ FetchAnswered(i)
               \/ UNCHANGED webVars
        PROVE  edits' = edits
    BY <2>5 DEF Change, Serve, Refuse, ServeGet, FetchAnswered, webVars
  <2> QED
    BY <2>2, <2>3, <2>4, <2>5 DEF WebNext
<1>2. deeds' = deeds \/ (deeds < MaxDeeds /\ deeds' = deeds + 1)
  <2>1. CASE UserStep
    BY <2>1 DEF UserStep, Go, EditForm, StepThrough, Cancel, Enqueue, ClickButton, Send
  <2>2. ASSUME NEW r \in requests, AnswerStep(r) PROVE deeds' = deeds
    BY <2>2 DEF AnswerStep, CreateAnswered, DeleteAnswered, ActionAnswered
  <2>3. ASSUME NEW id \in Jobs, Change(id) PROVE deeds < MaxDeeds /\ deeds' = deeds + 1
    BY <2>3 DEF Change
  <2>4. ASSUME \/ Deliver
               \/ \E r \in requests : Serve(r) \/ Refuse(r)
               \/ \E i \in 1..Len(gets) : ServeGet(i) \/ FetchAnswered(i)
               \/ UNCHANGED webVars
        PROVE  deeds' = deeds
    BY <2>4 DEF Deliver, Serve, Refuse, ServeGet, FetchAnswered, webVars
  <2> QED
    BY <2>1, <2>2, <2>3, <2>4 DEF WebNext
<1>3. edits \in 0..MaxEdits /\ deeds \in 0..MaxDeeds
  BY DEF CountersOK
<1> QED
  BY <1>0, <1>1, <1>2, <1>3 DEF CountersOK

\* Every variable of wizard, page, requests and server has its type.
THEOREM WebTypes == WebSpec => []WebTypeOK
<1>1. WebInit => CountersOK
  BY WebAppAssumption DEF WebInit, CountersOK
<1>2. WizardInv /\ RequestsInv /\ ServerInv /\ PageInv /\ CountersOK => WebTypeOK
  BY DEF WizardInv, RequestsInv, ServerInv, PageInv, CountersOK, WebTypeOK
<1> QED
  BY <1>1, <1>2, WebPages, StepCounters, PTL DEF WebSpec

-----------------------------------------------------------------------------
(* What the user is waiting for *)

\* A request of the page on show, and a fetch that a button's handler awaits.
Asked(kind) == \E r \in requests : r.kind = kind /\ r.own
Awaited(kind) == \E k \in 1..Len(gets) : gets[k].then = kind

PageBusyForSomething ==
    /\ deleting => Asked("delete")
    /\ retrying => Asked("retry") \/ Awaited("retry")
    /\ diagLoading => Asked("diagnose") \/ Awaited("diagnose")
    /\ OnJobPage /\ loading => gets # <<>>

BusyForSomething == (submitting => Asked("create")) /\ PageBusyForSomething

\* The page stays, with all it waits for.
LEMMA WaitingGoesOn ==
    ASSUME PageBusyForSomething, GetsInv,
           \A r \in requests : r.own /\ r.kind # "create" => \E q \in requests' : q.own /\ q.kind = r.kind,
           Len(gets) <= Len(gets'), Len(gets') \in Nat, gets # <<>> => gets' # <<>>,
           \A k \in 1..Len(gets) : gets'[k].then = gets[k].then,
           OnJobPage' => OnJobPage, UNCHANGED <<loading, deleting, retrying, diagLoading>>
    PROVE  PageBusyForSomething'
<1>1. \A k \in 1..Len(gets) : k \in 1..Len(gets')
  <2>1. Len(gets) \in Nat
    BY DEF GetsInv
  <2> QED
    BY <2>1
<1>2. \A kind \in {"retry", "delete", "diagnose"} : Asked(kind) => Asked(kind)'
  BY DEF Asked
<1>3. \A kind \in {"retry", "diagnose"} : Awaited(kind) => Awaited(kind)'
  BY <1>1 DEF Awaited
<1> QED
  BY <1>2, <1>3 DEF PageBusyForSomething

\* The fetches stay.
LEMMA WaitingWithFetches ==
    ASSUME PageBusyForSomething, GetsInv,
           \A r \in requests : r.own /\ r.kind # "create" => \E q \in requests' : q.own /\ q.kind = r.kind,
           UNCHANGED <<location, loading, deleting, retrying, diagLoading, gets>>
    PROVE  PageBusyForSomething'
<1>1. Len(gets) \in Nat /\ Len(gets') = Len(gets) /\ Len(gets) <= Len(gets')
  BY DEF GetsInv
<1> QED
  BY <1>1, WaitingGoesOn DEF OnJobPage

\* A page is left with nothing of it under way that anybody waits for.
LEMMA WaitingAndNavigate ==
    ASSUME PageBusyForSomething, GetsInv, RequestsInv, NEW l \in NavItems \union Jobs,
           NEW rest \in SUBSET requests, Navigate(l, rest),
           \A r \in requests \ rest : r.own /\ r.kind # "create" => l \notin Jobs
    PROVE  PageBusyForSomething'
<1>1. CASE l = location
  <2>1. requests' = rest /\ UNCHANGED <<location, loading, deleting, retrying, diagLoading, gets>>
    BY <1>1 DEF Navigate, pageVars
  <2>2. \A r \in requests : r.own /\ r.kind # "create" => r \in rest
    BY <1>1 DEF RequestsInv, OwnOnPage
  <2> QED
    BY <2>1, <2>2, WaitingWithFetches
<1>2. CASE l # location /\ l \in Jobs /\ OnJobPage
  <2>1. requests' = rest /\ Reroute /\ location' = l
    BY <1>2 DEF Navigate
  <2>2. Rerouting
    BY <1>2, <2>1 DEF Rerouting
  <2>3. /\ Len(gets) \in Nat /\ Len(gets') = Len(gets) /\ Len(gets) <= Len(gets')
        /\ \A k \in 1..Len(gets) : gets'[k].then = gets[k].then
    <3>1. gets' = [k \in 1..Len(gets) |-> [gets[k] EXCEPT !.late = TRUE]] /\ Len(gets) \in Nat
      BY <2>1 DEF Reroute, GetsInv
    <3>2. Len(gets') = Len(gets)
      BY <3>1
    <3>3. ASSUME NEW k \in 1..Len(gets) PROVE gets'[k].then = gets[k].then
      <4>1. gets[k] \in Get /\ gets'[k] = [gets[k] EXCEPT !.late = TRUE]
        BY <3>1 DEF GetsInv
      <4> QED
        BY <4>1 DEF Get
    <3> QED
      BY <3>1, <3>2, <3>3
  <2>4. \A r \in requests : r.own /\ r.kind # "create" => r \in rest
    BY <1>2
  <2>5. gets # <<>> => gets' # <<>>
    <3>1. gets # <<>> => Len(gets) # 0
      BY DEF GetsInv
    <3> QED
      BY <2>3, <3>1
  <2>6. OnJobPage /\ UNCHANGED <<loading, deleting, retrying, diagLoading>>
    BY <1>2, <2>1 DEF Reroute
  <2> QED
    BY <2>1, <2>3, <2>4, <2>5, <2>6, WaitingGoesOn
<1>3. CASE l # location /\ ~(l \in Jobs /\ OnJobPage)
  <2>1. Remount(IF l \in Jobs THEN <<GetFor(l, "page")>> ELSE <<>>) /\ location' = l
    BY <1>3 DEF Navigate
  <2>2. l \in Jobs => gets' # <<>>
    BY <2>1 DEF Remount
  <2> QED
    BY <2>1, <2>2 DEF Remount, PageBusyForSomething, OnJobPage
<1> QED
  BY <1>1, <1>2, <1>3

\* A fetch is sent.
LEMMA WaitingAndRefresh ==
    ASSUME PageBusyForSomething, GetsInv, OnJobPage, NEW then \in {"page", "retry", "diagnose"}, ActionDone(then),
           \A r \in requests : r.own /\ r.kind \notin {"create", then} => r \in requests'
    PROVE  PageBusyForSomething'
<1>1. gets' = Append(gets, GetFor(location, then))
  BY DEF ActionDone, Refresh
<1>2. GetFor(location, then) \in Get /\ GetFor(location, then).then = then
  BY GetForType DEF OnJobPage
<1>3. /\ Len(gets) \in Nat /\ Len(gets') = Len(gets) + 1 /\ gets'[Len(gets) + 1].then = then
      /\ \A k \in 1..Len(gets) : gets'[k] = gets[k] /\ k \in 1..Len(gets')
      /\ Len(gets) + 1 \in 1..Len(gets')
  BY <1>1, <1>2 DEF GetsInv
<1>4. \A kind \in {"retry", "diagnose"} : Awaited(kind) => Awaited(kind)'
  BY <1>3 DEF Awaited
<1>5. Awaited(then)'
  BY <1>3 DEF Awaited
<1>6. \A kind \in {"retry", "delete", "diagnose"} : kind # then /\ Asked(kind) => Asked(kind)'
  BY DEF Asked
<1>7. gets' # <<>>
  BY <1>3
<1>8. UNCHANGED <<loading, deleting, retrying, diagLoading>>
  BY DEF ActionDone
<1> QED
  BY <1>4, <1>5, <1>6, <1>7, <1>8 DEF PageBusyForSomething

\* A fetch is answered: the handler that awaited it is done.
LEMMA WaitingAndAnswer ==
    ASSUME PageBusyForSomething, GetsInv, NEW i \in 1..Len(gets), GetAnswered(i), UNCHANGED requests
    PROVE  PageBusyForSomething'
<1>1. /\ gets' = Without(i) /\ UNCHANGED deleting /\ loading' = FALSE
      /\ retrying' = (retrying /\ gets[i].then # "retry")
      /\ diagLoading' = (diagLoading /\ gets[i].then # "diagnose")
  BY DEF GetAnswered
<1>2. Len(gets) \in Nat /\ i \in 1..Len(gets) /\ Len(gets') = Len(gets) - 1
  BY <1>1 DEF GetsInv, Without
<1>3. ASSUME NEW kind \in {"retry", "diagnose"}, Awaited(kind), gets[i].then # kind PROVE Awaited(kind)'
  <2>1. PICK k \in 1..Len(gets) : gets[k].then = kind
    BY <1>3 DEF Awaited
  <2>2. k # i
    BY <1>3, <2>1
  <2>3. CASE k < i
    <3>1. k \in 1..(Len(gets) - 1) /\ gets[k] \in Get
      BY <1>2, <2>3 DEF GetsInv
    <3>2. gets'[k] = [gets[k] EXCEPT !.late = TRUE]
      BY <1>1, <2>3, <3>1 DEF Without
    <3>3. gets'[k].then = kind
      BY <2>1, <3>1, <3>2 DEF Get
    <3> QED
      BY <1>2, <3>1, <3>3 DEF Awaited
  <2>4. CASE ~(k < i)
    <3>1. k - 1 \in 1..(Len(gets) - 1) /\ ~(k - 1 < i) /\ k - 1 + 1 = k
      BY <1>2, <2>2, <2>4
    <3>2. gets'[k - 1] = gets[k]
      BY <1>1, <3>1 DEF Without
    <3> QED
      BY <1>2, <2>1, <3>1, <3>2 DEF Awaited
  <2> QED
    BY <2>3, <2>4
<1>4. \A kind : Asked(kind) => Asked(kind)'
  BY DEF Asked
<1> QED
  BY <1>1, <1>3, <1>4 DEF PageBusyForSomething

\* A button is pressed, and its request sent.
LEMMA WaitingAndSend ==
    ASSUME PageBusyForSomething, GetsInv, NEW kind \in {"retry", "delete", "diagnose"}, Send(kind, location, TRUE),
           UNCHANGED <<location, loading, gets>>,
           deleting' => deleting \/ kind = "delete",
           retrying' => retrying \/ kind = "retry",
           diagLoading' => diagLoading \/ kind = "diagnose"
    PROVE  PageBusyForSomething'
<1>1. PICK n \in 1..MaxDeeds :
          requests' = requests \union
              {[n |-> n, kind |-> kind, id |-> location, answer |-> "none", own |-> TRUE, fits |-> TRUE]}
  BY DEF Send
<1>2. Asked(kind)'
  <2>. DEFINE new == [n |-> n, kind |-> kind, id |-> location, answer |-> "none", own |-> TRUE, fits |-> TRUE]
  <2>1. new.kind = kind /\ new.own
    OBVIOUS
  <2>2. new \in requests'
    BY <1>1
  <2>. HIDE DEF new
  <2> QED
    BY <2>1, <2>2 DEF Asked
<1>3. \A k : Asked(k) => Asked(k)'
  BY <1>1 DEF Asked
<1>4. \A k : Awaited(k) => Awaited(k)'
  BY DEF Awaited
<1> QED
  BY <1>2, <1>3, <1>4 DEF PageBusyForSomething, OnJobPage

\* A request of a button has failed.
LEMMA WaitingAndFailure ==
    ASSUME PageBusyForSomething, GetsInv, NEW kind \in {"retry", "delete", "diagnose"}, ActionFailed(kind),
           \A r \in requests : r.own /\ r.kind # kind => r \in requests'
    PROVE  PageBusyForSomething'
<1>1. \A k \in {"retry", "delete", "diagnose"} : k # kind /\ Asked(k) => Asked(k)'
  BY DEF Asked
<1>2. \A k : Awaited(k) => Awaited(k)'
  BY DEF ActionFailed, Awaited
<1>3. /\ UNCHANGED <<location, loading, gets>>
      /\ deleting' => deleting /\ kind # "delete"
      /\ retrying' => retrying /\ kind # "retry"
      /\ diagLoading' => diagLoading /\ kind # "diagnose"
  BY DEF ActionFailed
<1> QED
  BY <1>1, <1>2, <1>3 DEF PageBusyForSomething, OnJobPage

LEMMA StepBusy ==
    RequestsInv /\ PageInv /\ ServerInv /\ PageBusyForSomething /\ [WebNext]_webVars => PageBusyForSomething'
<1> SUFFICES ASSUME RequestsInv, PageInv, ServerInv, PageBusyForSomething, [WebNext]_webVars
             PROVE  PageBusyForSomething'
  OBVIOUS
<1>1. GetsInv
  BY DEF PageInv
<1>2. location \in NavItems \union Jobs /\ Visited \subseteq NavItems
  BY RouteAssumption DEF RequestsInv
<1>3. ASSUME UNCHANGED <<requests, location, loading, deleting, retrying, diagLoading, gets>>
      PROVE  PageBusyForSomething'
  BY <1>1, <1>3, WaitingWithFetches
<1>4. ASSUME NEW l \in NavItems \union Jobs, Navigate(l, requests) PROVE PageBusyForSomething'
  BY <1>1, <1>4, WaitingAndNavigate
<1>5. CASE Go \/ Cancel
  BY <1>2, <1>4, <1>5, PlacesDiffer DEF Go, Cancel
<1>6. CASE EditForm \/ StepThrough
  BY <1>3, <1>6 DEF EditForm, StepThrough, pageVars
<1>7. CASE Enqueue
  <2>1. UNCHANGED <<location, loading, deleting, retrying, diagLoading, gets>>
    BY <1>7 DEF Enqueue, pageVars
  <2>2. \A r \in requests : r \in requests'
    BY <1>7 DEF Enqueue, Send
  <2> QED
    BY <1>1, <2>1, <2>2, WaitingWithFetches
<1>8. CASE ClickButton
  <2>1. CASE DiagnoseClicked /\ Send("diagnose", location, TRUE)
    BY <1>1, <2>1, WaitingAndSend DEF DiagnoseClicked
  <2>2. CASE RetryClicked /\ Send("retry", location, TRUE)
    BY <1>1, <2>2, WaitingAndSend DEF RetryClicked
  <2>3. CASE DeleteConfirmed /\ Send("delete", location, TRUE)
    BY <1>1, <2>3, WaitingAndSend DEF DeleteConfirmed
  <2> QED
    BY <1>8, <2>1, <2>2, <2>3 DEF ClickButton
<1>9. ASSUME NEW id \in Jobs, Change(id) PROVE PageBusyForSomething'
  BY <1>3, <1>9 DEF Change, pageVarsButMissed
<1>10. ASSUME NEW r \in requests, NEW id, NEW a, Reply(r, id, a),
              UNCHANGED <<location, loading, deleting, retrying, diagLoading, gets>>
       PROVE  PageBusyForSomething'
  <2>. DEFINE q == [r EXCEPT !.id = id, !.answer = a]
  <2>1. q.own = r.own /\ q.kind = r.kind
    BY DEF RequestsInv, Request
  <2>2. requests' = (requests \ {r}) \union {q}
    BY <1>10 DEF Reply
  <2>. HIDE DEF q
  <2>3. \A x \in requests : \E y \in requests' : y.own = x.own /\ y.kind = x.kind
    BY <2>1, <2>2
  <2> QED
    BY <1>1, <1>10, <2>3, WaitingWithFetches
<1>11. ASSUME NEW r \in requests, Serve(r) \/ Refuse(r) PROVE PageBusyForSomething'
  <2>1. PICK id, a : Reply(r, id, a)
    BY <1>11 DEF Serve, Refuse
  <2>2. UNCHANGED <<location, loading, deleting, retrying, diagLoading, gets>>
    BY <1>11 DEF Serve, Refuse, pageVars, pageVarsButMissed
  <2> QED
    BY <1>10, <2>1, <2>2
<1>12. ASSUME NEW r \in requests, CreateAnswered(r) PROVE PageBusyForSomething'
  <2>1. CASE r.answer = "ok"
    <3>1. r.kind = "create" /\ r.id \in Jobs /\ Navigate(r.id, requests \ {r})
      BY <1>12, <2>1 DEF CreateAnswered, RequestsInv, JobsNamed
    <3>2. \A x \in requests \ (requests \ {r}) : x = r
      OBVIOUS
    <3>3. \A x \in requests \ (requests \ {r}) : x.own /\ x.kind # "create" => r.id \notin Jobs
      BY <3>1, <3>2
    <3> QED
      BY <1>1, <3>1, <3>3, WaitingAndNavigate
  <2>2. CASE r.answer # "ok"
    <3>1. r.kind = "create" /\ requests' = requests \ {r}
      BY <1>12, <2>2 DEF CreateAnswered
    <3>2. UNCHANGED <<location, loading, deleting, retrying, diagLoading, gets>>
      BY <1>12, <2>2 DEF CreateAnswered, pageVars
    <3>3. \A x \in requests : x.kind # "create" => x \in requests'
      BY <3>1
    <3> QED
      BY <1>1, <3>2, <3>3, WaitingWithFetches
  <2> QED
    BY <2>1, <2>2
<1>13. ASSUME NEW r \in requests, DeleteAnswered(r) PROVE PageBusyForSomething'
  <2>1. CASE r.answer = "ok"
    <3>1. Navigate("/", requests \ {r})
      BY <1>13, <2>1 DEF DeleteAnswered
    <3> QED
      BY <1>1, <3>1, WaitingAndNavigate, PlacesDiffer
  <2>2. CASE r.answer # "ok" /\ r.own
    <3>1. r.kind = "delete" /\ requests' = requests \ {r} /\ ActionFailed("delete")
      BY <1>13, <2>2 DEF DeleteAnswered
    <3> QED
      BY <1>1, <3>1, WaitingAndFailure
  <2>3. CASE r.answer # "ok" /\ ~r.own
    <3>1. requests' = requests \ {r} /\ UNCHANGED <<location, loading, deleting, retrying, diagLoading, gets>>
      BY <1>13, <2>3 DEF DeleteAnswered, pageVars
    <3>2. \A x \in requests : x.own => x \in requests'
      BY <2>3, <3>1
    <3> QED
      BY <1>1, <3>1, <3>2, WaitingWithFetches
  <2> QED
    BY <2>1, <2>2, <2>3
<1>14. ASSUME NEW r \in requests, ActionAnswered(r) PROVE PageBusyForSomething'
  <2>1. requests' = requests \ {r} /\ r.kind \in {"retry", "diagnose"}
    BY <1>14 DEF ActionAnswered
  <2>2. CASE ~r.own
    <3>1. UNCHANGED <<location, loading, deleting, retrying, diagLoading, gets>>
      BY <1>14, <2>2 DEF ActionAnswered, pageVars
    <3>2. \A x \in requests : x.own => x \in requests'
      BY <2>1, <2>2
    <3> QED
      BY <1>1, <3>1, <3>2, WaitingWithFetches
  <2>3. \A x \in requests : x.kind # r.kind => x \in requests'
    BY <2>1
  <2>4. CASE r.own /\ r.answer = "ok"
    <3>1. ActionDone(r.kind) /\ OnJobPage
      BY <1>14, <2>1, <2>4 DEF ActionAnswered, RequestsInv, OwnOnPage, OnJobPage
    <3> QED
      BY <1>1, <2>1, <2>3, <3>1, WaitingAndRefresh
  <2>5. CASE r.own /\ r.answer # "ok"
    <3>1. ActionFailed(r.kind)
      BY <1>14, <2>5 DEF ActionAnswered
    <3> QED
      BY <1>1, <2>1, <2>3, <3>1, WaitingAndFailure
  <2> QED
    BY <2>2, <2>4, <2>5
<1>15. ASSUME NEW i \in 1..Len(gets), ServeGet(i) PROVE PageBusyForSomething'
  <2>1. PICK x, y : gets' = [gets EXCEPT ![i].reply = x, ![i].row = y]
    BY <1>15 DEF ServeGet
  <2>2. UNCHANGED <<location, loading, deleting, retrying, diagLoading, requests>>
    BY <1>15 DEF ServeGet
  <2>3. Len(gets) \in Nat /\ Len(gets') = Len(gets) /\ Len(gets) <= Len(gets')
    BY <1>1, <2>1 DEF GetsInv
  <2>4. ASSUME NEW k \in 1..Len(gets) PROVE gets'[k].then = gets[k].then
    <3>. DEFINE g == [gets[i] EXCEPT !.reply = x, !.row = y]
    <3>1. gets \in Seq(Get) /\ gets[i] \in Get
      BY <1>1 DEF GetsInv
    <3>2. g.then = gets[i].then
      BY <3>1 DEF Get
    <3>3. gets' = [gets EXCEPT ![i] = g]
      BY <2>1, <3>1
    <3>. HIDE DEF g
    <3>4. gets'[k] = IF k = i THEN g ELSE gets[k]
      BY <3>1, <3>3
    <3> QED
      BY <3>2, <3>4
  <2>5. gets' # <<>>
    BY <2>3
  <2> QED
    BY <1>1, <2>2, <2>3, <2>4, <2>5, WaitingGoesOn DEF OnJobPage
<1>16. ASSUME NEW i \in 1..Len(gets), FetchAnswered(i) PROVE PageBusyForSomething'
  BY <1>1, <1>16, WaitingAndAnswer DEF FetchAnswered
<1>17. CASE Deliver
  <2>1. CASE Head(events).id # location \/ Head(events).type = "job_created"
    BY <1>3, <1>17, <2>1 DEF Deliver, pageVars
  <2>2. CASE ~(Head(events).id # location \/ Head(events).type = "job_created")
    <3>1. CASE Head(events).type = "job_deleted"
      BY <1>4, <1>17, <2>2, <3>1, PlacesDiffer DEF Deliver
    <3>2. CASE Head(events).type # "job_deleted"
      <4>1. ActionDone("page") /\ UNCHANGED requests
        BY <1>17, <2>2, <3>2 DEF Deliver
      <4>2. Head(events).id \in Jobs
        <5>. DEFINE Event == [type : EventType, id : Jobs]
        <5>1. events \in Seq(Event) /\ events # <<>>
          BY <1>17 DEF Deliver, ServerInv
        <5>2. Head(events) \in Event
          <6>. HIDE DEF Event
          <6> QED
            BY <5>1
        <5> QED
          BY <5>2
      <4> QED
        BY <1>1, <2>2, <4>1, <4>2, WaitingAndRefresh DEF OnJobPage
    <3> QED
      BY <3>1, <3>2
  <2> QED
    BY <2>1, <2>2
<1>18. CASE UNCHANGED webVars
  BY <1>3, <1>18 DEF webVars, pageVars
<1> QED
  BY <1>5, <1>6, <1>7, <1>8, <1>9, <1>11, <1>12, <1>13, <1>14, <1>15, <1>16, <1>17, <1>18
     DEF WebNext, UserStep, AnswerStep

\* The part of BusyEnds that is no matter of fairness: whatever answers are lost, come late or
\* find their page left, nothing is shown as busy unless the request or the fetch that will end
\* it is under way (the finally blocks of web/src/pages/JobDetails.jsx and SubmitJob.jsx).
THEOREM NeverBusyForNothing == WebSpec => []BusyForSomething
<1>1. WebInit => PageBusyForSomething
  BY PlacesDiffer DEF WebInit, NotMounted, PageBusyForSomething, OnJobPage
<1>2. WebSpec => []PageBusyForSomething
  BY <1>1, WebPages, StepBusy, PTL DEF WebSpec
<1>3. RequestsInv /\ PageBusyForSomething => BusyForSomething
  BY DEF RequestsInv, NoSecondSubmission, BusyForSomething, Asked
<1> QED
  BY <1>2, <1>3, WebRequests, PTL
=============================================================================
