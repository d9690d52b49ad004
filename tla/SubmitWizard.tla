---------------------------- MODULE SubmitWizard ----------------------------
(***************************************************************************)
(* The page /submit of the web application (web/src/pages/SubmitJob.jsx):  *)
(* seven steps that fill in a job, preview it and enqueue it.              *)
(*                                                                         *)
(* The payload is kept twice, as an object the fields of the form change   *)
(* and as a text the user may type into; the text is what is sent.  The    *)
(* request itself, and what the answer does, are in WebApp.                *)
(***************************************************************************)
EXTENDS Integers

CONSTANTS
    JobTypes,    \* the entries of JOB_TYPES the user may choose
    Priorities,  \* those of PRIORITY_OPTS
    Limits,      \* the numbers typed as "Max retries"; an emptied field is 0
    Times,       \* the times typed as "Schedule", "" for none
    Labels,      \* the labels typed, "" for none
    Typed,       \* the texts typed as "Payload (JSON)"
    Broken,      \* a text that is no JSON
    Scalar,      \* a text that is JSON and no object, like 5
    None

\* A payload: whose default it started from, what has changed it, and its _label.
Object == [of : JobTypes \union {"nothing"}, how : {"default", "field", "hand"}, label : Labels]

Text == Object \union {Broken, Scalar}

ASSUME WizardAssumption ==
    /\ "csv_processing" \in JobTypes
    /\ "normal" \in Priorities
    /\ 3 \in Limits /\ Limits \subseteq Int
    /\ "" \in Times
    /\ "" \in Labels
    /\ Typed \subseteq Text
    /\ Broken # Scalar
    /\ {Broken, Scalar} \intersect Object = {}

VARIABLES
    step,         \* the step on show
    form,         \* label, type, priority, maxRetries and scheduled
    payload,      \* the payload as an object
    payloadText,  \* the payload as a text
    payloadErr,   \* the text is marked as no JSON
    submitting,   \* the request is under way
    error,        \* the last request has failed
    previewed     \* history: what the preview showed when the user went on from it

wizardVars == <<step, form, payload, payloadText, payloadErr, submitting, error, previewed>>

Form == [label : Labels, type : JobTypes, priority : Priorities, retries : Limits, scheduled : Times]

Preview == [form : Form, text : Text]

WizardTypeOK ==
    /\ step \in 0..6
    /\ form \in Form
    /\ payload \in Object
    /\ payloadText \in Text
    /\ payloadErr \in BOOLEAN
    /\ submitting \in BOOLEAN
    /\ error \in BOOLEAN
    /\ previewed \in Preview \union {None}

\* defaultPayload of a type.
Default(t) == [of |-> t, how |-> "default", label |-> ""]

\* Payloads with a field of their own on the retry step: rows, endpoint.
FieldTypes == {"csv_processing", "monitoring"}

BlankForm ==
    [label |-> "", type |-> "csv_processing", priority |-> "normal", retries |-> 3, scheduled |-> ""]

\* The page as it is mounted.
WizardInit ==
    /\ step = 0
    /\ form = BlankForm
    /\ payload = Default("csv_processing")
    /\ payloadText = Default("csv_processing")
    /\ payloadErr = FALSE
    /\ submitting = FALSE
    /\ error = FALSE
    /\ previewed = None

\* The page as it will be when it is mounted again: leaving it forgets what it held.
WizardReset ==
    /\ step' = 0
    /\ form' = BlankForm
    /\ payload' = Default("csv_processing")
    /\ payloadText' = Default("csv_processing")
    /\ payloadErr' = FALSE
    /\ submitting' = FALSE
    /\ error' = FALSE
    /\ previewed' = None

-----------------------------------------------------------------------------
(* Filling in the form: what the user can do on each step *)

MetadataStep ==
    /\ step = 0
    /\ \E l \in Labels : form' = [form EXCEPT !.label = l]
    /\ UNCHANGED <<step, payload, payloadText, payloadErr, submitting, error, previewed>>

\* A chosen type brings its default payload, and with it the end of all edits.
SelectType(t) ==
    /\ form' = [form EXCEPT !.type = t]
    /\ payload' = Default(t)
    /\ payloadText' = Default(t)
    /\ payloadErr' = FALSE

WorkflowStep ==
    /\ step = 1
    /\ \E t \in JobTypes : SelectType(t)
    /\ UNCHANGED <<step, submitting, error, previewed>>

PriorityStep ==
    /\ step = 2
    /\ \E p \in Priorities : form' = [form EXCEPT !.priority = p]
    /\ UNCHANGED <<step, payload, payloadText, payloadErr, submitting, error, previewed>>

SchedulingStep ==
    /\ step = 3
    /\ \E d \in Times : form' = [form EXCEPT !.scheduled = d]
    /\ UNCHANGED <<step, payload, payloadText, payloadErr, submitting, error, previewed>>

\* JSON.parse accepts the text.
Valid(text) == text # Broken

WithLabel(object, l) == IF l = "" THEN object ELSE [object EXCEPT !.label = l]

\* A field of the form changes the object and writes the text anew from it: what was typed
\* into the text is lost, and a _label written once stays when the label is emptied.
SyncPayload ==
    LET changed == WithLabel([payload EXCEPT !.how = "field"], form.label)
    IN /\ payload' = changed
       /\ payloadText' = changed
       /\ payloadErr' = FALSE

EditText(text) ==
    /\ payloadText' = text
    /\ payloadErr' = ~Valid(text)

RetryStep ==
    /\ step = 4
    /\ \/ /\ \E n \in Limits : form' = [form EXCEPT !.retries = n]
          /\ UNCHANGED <<payload, payloadText, payloadErr>>
       \/ form.type \in FieldTypes /\ SyncPayload /\ UNCHANGED form
       \/ (\E text \in Typed : EditText(text)) /\ UNCHANGED <<form, payload>>
    /\ UNCHANGED <<step, submitting, error, previewed>>

-----------------------------------------------------------------------------
(* Going on, going back and enqueueing *)

\* What the preview step shows.
Shown == [form |-> form, text |-> payloadText]

\* Fault: the button is not disabled while the request is under way.
NextOfferedAlways == ~(step = 4 /\ payloadErr)

\* The button that reads "Continue", and "Enqueue Job" on the last step.
NextOffered == ~submitting /\ ~(step = 4 /\ payloadErr)

Continue ==
    /\ NextOffered /\ step < 6
    /\ IF step = 5
       THEN /\ payloadErr' = ~Valid(payloadText)
            /\ step' = IF Valid(payloadText) THEN 6 ELSE 5
            /\ previewed' = IF Valid(payloadText) THEN Shown ELSE None
       ELSE step' = step + 1 /\ UNCHANGED <<payloadErr, previewed>>
    /\ UNCHANGED <<form, payload, payloadText, submitting, error>>

\* "Back" is offered always, also while the request is under way.
Back ==
    /\ step > 0
    /\ step' = step - 1
    /\ previewed' = None
    /\ UNCHANGED <<form, payload, payloadText, payloadErr, submitting, error>>

\* { ...JSON.parse(text) }: JSON that is no object gives the empty one.
Spread(text) == IF text = Scalar THEN Default("nothing") ELSE text

\* Fault: the body carries the object behind the form instead of the text.
BodyOfObject ==
    [type |-> form.type, priority |-> form.priority, max_retries |-> form.retries,
     payload |-> WithLabel(payload, form.label), scheduled_at |-> form.scheduled]

\* The body of POST /api/jobs.
BuildBody ==
    [type |-> form.type, priority |-> form.priority, max_retries |-> form.retries,
     payload |-> WithLabel(Spread(payloadText), form.label), scheduled_at |-> form.scheduled]

\* CreateJob takes a limit of 0 for one that was not given.
DefaultLimit(n) == IF n = 0 THEN 3 ELSE n

\* The row CreateJob makes of the body.
StoredJob(body) == [body EXCEPT !.max_retries = DefaultLimit(@)]

\* The job is the one a preview has shown, line by line.  Two things a preview shows are not
\* meant by it: "Max retries: 0", which the step before offers and CreateJob turns into 3,
\* and a text that is JSON and no object, of which the body keeps nothing.
ShownIn(p, job) ==
    /\ job.type = p.form.type
    /\ job.priority = p.form.priority
    /\ job.scheduled_at = p.form.scheduled
    /\ p.form.retries # 0 => job.max_retries = p.form.retries
    /\ p.text \in Object => job.payload.of = p.text.of /\ job.payload.how = p.text.how
    /\ p.form.label # "" => job.payload.label = p.form.label
    /\ p.form.label = "" /\ p.text \in Object => job.payload.label = p.text.label

\* handleSubmit up to the request, which is sent if the text is valid.
Submit ==
    /\ NextOffered /\ step = 6
    /\ payloadErr' = ~Valid(payloadText)
    /\ submitting' = Valid(payloadText)
    /\ error' = (error /\ ~Valid(payloadText))
    /\ UNCHANGED <<step, form, payload, payloadText, previewed>>

\* The request has failed, and the page is still there.
SubmitFailed ==
    /\ error' = TRUE
    /\ submitting' = FALSE
    /\ UNCHANGED <<step, form, payload, payloadText, payloadErr, previewed>>

FillIn == MetadataStep \/ WorkflowStep \/ PriorityStep \/ SchedulingStep \/ RetryStep
=============================================================================
