-------------------------- MODULE DashboardProofs --------------------------
(***************************************************************************)
(* Proofs about Dashboard: whatever order the answers of its fetches come  *)
(* in, the list on show is one for the filters on show and, at rest, what  *)
(* the server holds, or the page says or knows otherwise; and its numbers  *)
(* come to rest where they should.                                         *)
(***************************************************************************)
EXTENDS Dashboard, FiniteSetTheorems, TLAPS

\* The part of the type invariant the argument needs.
FetchesOK ==
    /\ fetches \in Seq(Fetch)
    /\ filter \in Filter
    /\ rows \in [Jobs -> Status \union {"absent"}]

\* Those that were overtaken are the first.
LateFirst ==
    \A k \in 1..Len(fetches) : fetches[k].late => \A m \in 1..k : fetches[m].late

\* The list in an answer is one for the filters of its fetch.
AnswersMatch ==
    \A k \in 1..Len(fetches) :
        fetches[k].list # NoData => \A e \in fetches[k].list : Matches(e, fetches[k].filter)

\* Unless it was overtaken, the fetch sent last is for the filters on show.
LastIsForFilter ==
    fetches # <<>> /\ ~fetches[Len(fetches)].late => fetches[Len(fetches)].filter = filter

\* With no fetch under way that was not overtaken, the list on show is the one to show.
RestMatches ==
    fetches = <<>> \/ fetches[Len(fetches)].late =>
        error \/ stale \/ \A e \in list : Matches(e, filter)

ListInv == FetchesOK /\ LateFirst /\ AnswersMatch /\ LastIsForFilter /\ RestMatches

\* The invariant gives the property: the last fetch is the witness where there is one.
LEMMA ListInvGives == ListInv => ListIsForItsFilters
<1> SUFFICES ASSUME ListInv PROVE ListIsForItsFilters
  OBVIOUS
<1>1. CASE fetches = <<>> \/ fetches[Len(fetches)].late
  BY <1>1 DEF ListInv, RestMatches, ListIsForItsFilters
<1>2. CASE fetches # <<>> /\ ~fetches[Len(fetches)].late
  <2>1. Len(fetches) \in 1..Len(fetches)
    BY <1>2 DEF ListInv, FetchesOK
  <2> QED
    BY <1>2, <2>1 DEF ListInv, LastIsForFilter, ListIsForItsFilters
<1> QED
  BY <1>1, <1>2

\* What the server lists for a filter matches it.
LEMMA ListedMatch == \A f : \A e \in Listed(f) : Matches(e, f)
  BY DEF Listed

\* What the server answers has its type.
LEMMA ListedType ==
    ASSUME FetchesOK, NEW f PROVE Listed(f) \in SUBSET Entry
<1> SUFFICES ASSUME NEW e \in Listed(f) PROVE e \in Entry
  OBVIOUS
<1>1. PICK id \in Jobs : rows[id] # "absent" /\ e = [id |-> id, status |-> rows[id], type |-> TypeOf[id]]
  BY DEF Listed
<1>2. rows[id] \in Status
  BY <1>1 DEF FetchesOK
<1>3. TypeOf[id] \in Types
  BY DashboardAssumption
<1> QED
  BY <1>1, <1>2, <1>3 DEF Entry

LEMMA CountsType == Counts \in [Status -> Nat]
<1>1. ASSUME NEW s \in Status PROVE Cardinality({id \in Jobs : rows[id] = s}) \in Nat
  BY DashboardAssumption, FS_Subset, FS_CardinalityType
<1> QED
  BY <1>1 DEF Counts

-----------------------------------------------------------------------------
(* One lemma for each way a step changes the fetches *)

\* A step that leaves fetches, filters and list alone, and no error on show unsaid.
LEMMA OthersKeep ==
    ASSUME ListInv, UNCHANGED <<fetches, filter, list, stale>>,
           rows' \in [Jobs -> Status \union {"absent"}], error => error'
    PROVE  ListInv'
  BY DEF ListInv, FetchesOK, LateFirst, AnswersMatch, LastIsForFilter, RestMatches, Matches

\* An answer of one of the two requests of a fetch.
LEMMA ServedKeeps ==
    ASSUME ListInv, NEW i \in 1..Len(fetches), ServeStats(i) \/ ServeList(i)
    PROVE  ListInv'
<1>1. PICK f \in Fetch : /\ fetches' = [fetches EXCEPT ![i] = f]
                         /\ f.filter = fetches[i].filter /\ f.late = fetches[i].late
                         /\ f.list # NoData => \A e \in f.list : Matches(e, f.filter)
  <2>0. fetches[i] \in Fetch
    BY DEF ListInv, FetchesOK
  <2>1. CASE ServeStats(i)
    <3>1. [fetches[i] EXCEPT !.stats = Counts] \in Fetch
      BY <2>0, CountsType DEF Fetch
    <3>. DEFINE g == [fetches[i] EXCEPT !.stats = Counts]
    <3>2. g.filter = fetches[i].filter /\ g.late = fetches[i].late /\ g.list = fetches[i].list
      BY <2>0 DEF Fetch
    <3>3. g.list # NoData => \A e \in g.list : Matches(e, g.filter)
      BY <3>2 DEF ListInv, AnswersMatch
    <3>4. fetches' = [fetches EXCEPT ![i] = g]
      BY <2>0, <2>1 DEF ServeStats, ListInv, FetchesOK
    <3> QED
      BY <3>1, <3>2, <3>3, <3>4
  <2>2. CASE ServeList(i)
    <3>1. Listed(fetches[i].filter) \in SUBSET Entry
      BY ListedType DEF ListInv
    <3>2. [fetches[i] EXCEPT !.list = Listed(fetches[i].filter)] \in Fetch
      BY <2>0, <3>1 DEF Fetch
    <3>. DEFINE g == [fetches[i] EXCEPT !.list = Listed(fetches[i].filter)]
    <3>3. g.filter = fetches[i].filter /\ g.late = fetches[i].late /\ g.list = Listed(fetches[i].filter)
      BY <2>0 DEF Fetch
    <3>4. fetches' = [fetches EXCEPT ![i] = g]
      BY <2>0, <2>2 DEF ServeList, ListInv, FetchesOK
    <3>5. \A e \in g.list : Matches(e, g.filter)
      BY <3>3, ListedMatch
    <3> QED
      BY <3>2, <3>3, <3>4, <3>5
  <2> QED
    BY <2>1, <2>2
<1>2. UNCHANGED <<filter, list, stale, error, rows>>
  BY DEF ServeStats, ServeList, dataVars, serverVars
<1>3. /\ Len(fetches') = Len(fetches) /\ fetches' \in Seq(Fetch)
      /\ \A k \in 1..Len(fetches) : fetches'[k] = IF k = i THEN f ELSE fetches[k]
  <2>1. fetches' = [fetches EXCEPT ![i] = f] /\ fetches \in Seq(Fetch)
    BY <1>1 DEF ListInv, FetchesOK
  <2> QED
    BY <2>1
<1>4. \A k \in 1..Len(fetches) : /\ fetches'[k].late = fetches[k].late
                                 /\ fetches'[k].filter = fetches[k].filter
  <2>1. f.filter = fetches[i].filter /\ f.late = fetches[i].late
    BY <1>1
  <2> QED
    BY <1>3, <2>1
<1>5. AnswersMatch'
  <2>1. ASSUME NEW k \in 1..Len(fetches), fetches'[k].list # NoData, NEW e \in fetches'[k].list
        PROVE  Matches(e, fetches'[k].filter)
    <3>1. CASE k = i
      BY <1>1, <1>3, <2>1, <3>1
    <3>2. CASE k # i
      BY <1>3, <2>1, <3>2 DEF ListInv, AnswersMatch
    <3> QED
      BY <3>1, <3>2
  <2> QED
    BY <1>3, <2>1 DEF AnswersMatch, Matches
<1>6. fetches' = <<>> <=> fetches = <<>>
  BY <1>3 DEF ListInv, FetchesOK
<1>7. LateFirst' /\ LastIsForFilter' /\ RestMatches'
  <2>1. LateFirst'
    BY <1>3, <1>4 DEF ListInv, LateFirst
  <2>2. fetches # <<>> => Len(fetches) \in 1..Len(fetches)
    BY DEF ListInv, FetchesOK
  <2> QED
    BY <1>2, <1>3, <1>4, <1>6, <2>1, <2>2 DEF ListInv, LastIsForFilter, RestMatches, Matches
<1>8. FetchesOK'
  BY <1>2, <1>3 DEF ListInv, FetchesOK
<1> QED
  BY <1>5, <1>7, <1>8 DEF ListInv

\* A new fetch for the filters on show.
LEMMA SentKeeps ==
    ASSUME ListInv, NEW f \in Filter, filter' = f, FetchAll(f), UNCHANGED <<list, stale, error, rows>>
    PROVE  ListInv'
<1>1. NewFetch(f) \in Fetch /\ NewFetch(f).filter = f /\ NewFetch(f).list = NoData /\ NewFetch(f).late = FALSE
  BY DEF NewFetch, Fetch
<1>2. /\ Len(fetches') = Len(fetches) + 1 /\ fetches' \in Seq(Fetch) /\ fetches' # <<>>
      /\ \A k \in 1..Len(fetches) : fetches'[k] = fetches[k]
      /\ fetches'[Len(fetches) + 1] = NewFetch(f)
      /\ Len(fetches) \in Nat
  BY <1>1 DEF FetchAll, ListInv, FetchesOK
<1>3. LateFirst'
  BY <1>1, <1>2 DEF ListInv, LateFirst
<1>4. AnswersMatch'
  <2>1. ASSUME NEW k \in 1..Len(fetches'), fetches'[k].list # NoData, NEW e \in fetches'[k].list
        PROVE  Matches(e, fetches'[k].filter)
    <3>1. k \in 1..Len(fetches)
      BY <1>1, <1>2, <2>1
    <3> QED
      BY <1>2, <2>1, <3>1 DEF ListInv, AnswersMatch
  <2> QED
    BY <2>1 DEF AnswersMatch, Matches
<1>5. LastIsForFilter' /\ RestMatches'
  BY <1>1, <1>2 DEF LastIsForFilter, RestMatches
<1>6. FetchesOK'
  BY <1>2 DEF ListInv, FetchesOK
<1> QED
  BY <1>3, <1>4, <1>5, <1>6 DEF ListInv

\* Both answers of the i-th fetch, or its failure.
LEMMA AnsweredKeeps ==
    ASSUME ListInv, NEW i \in 1..Len(fetches), fetches' = Without(i), UNCHANGED <<filter, rows>>,
           error' \/ (fetches[i].list # NoData /\ list' = fetches[i].list /\ stale' = fetches[i].late)
    PROVE  ListInv'
<1>. DEFINE n == Len(fetches)
<1>1. n \in Nat \ {0} /\ i \in 1..n /\ \A k \in 1..n : fetches[k] \in Fetch
  BY DEF ListInv, FetchesOK
<1>2. /\ Len(fetches') = n - 1
      /\ \A k \in 1..(n - 1) :
            fetches'[k] = IF k < i THEN [fetches[k] EXCEPT !.late = TRUE] ELSE fetches[k + 1]
  BY <1>1 DEF Without
<1>. HIDE DEF n
<1>3. \A k \in 1..(n - 1) : k < i =>
         fetches'[k] \in Fetch /\ fetches'[k].late /\ fetches'[k].filter = fetches[k].filter
         /\ fetches'[k].list = fetches[k].list
  <2>1. ASSUME NEW k \in 1..(n - 1), k < i
        PROVE  fetches'[k] = [fetches[k] EXCEPT !.late = TRUE] /\ fetches[k] \in Fetch
    BY <1>1, <1>2, <2>1
  <2> QED
    BY <2>1 DEF Fetch
<1>4. \A k \in 1..(n - 1) : ~(k < i) => k + 1 \in 1..n /\ fetches'[k] = fetches[k + 1]
  <2>1. ASSUME NEW k \in 1..(n - 1), ~(k < i) PROVE k + 1 \in 1..n /\ fetches'[k] = fetches[k + 1]
    BY <1>1, <1>2, <2>1
  <2> QED
    BY <2>1
<1>5. fetches' \in Seq(Fetch)
  <2>1. \A k \in 1..(n - 1) : Without(i)[k] \in Fetch
    BY <1>1, <1>3, <1>4
  <2> QED
    BY <1>1, <2>1 DEF Without, n
<1>6. LateFirst'
  <2>1. ASSUME NEW k \in 1..(n - 1), fetches'[k].late, NEW m \in 1..k PROVE fetches'[m].late
    <3>1. m \in 1..(n - 1)
      BY <1>1
    <3>2. CASE m < i
      BY <1>3, <3>1, <3>2
    <3>3. CASE ~(m < i)
      <4>1. ~(k < i) /\ m + 1 \in 1..(k + 1)
        BY <1>1, <3>3
      <4>2. fetches[k + 1].late /\ k + 1 \in 1..n
        BY <1>4, <2>1, <4>1
      <4>3. fetches[m + 1].late
        BY <4>1, <4>2 DEF ListInv, LateFirst, n
      <4> QED
        BY <1>4, <3>1, <3>3, <4>3
    <3> QED
      BY <3>2, <3>3
  <2> QED
    BY <1>2, <2>1 DEF LateFirst
<1>7. AnswersMatch'
  <2>1. ASSUME NEW k \in 1..(n - 1), fetches'[k].list # NoData, NEW e \in fetches'[k].list
        PROVE  Matches(e, fetches'[k].filter)
    <3>1. CASE k < i
      BY <1>1, <1>3, <2>1, <3>1 DEF ListInv, AnswersMatch, n
    <3>2. CASE ~(k < i)
      BY <1>4, <2>1, <3>2 DEF ListInv, AnswersMatch, n
    <3> QED
      BY <3>1, <3>2
  <2> QED
    BY <1>2, <2>1 DEF AnswersMatch, Matches
<1>8. CASE n = 1
  <2>1. fetches' = <<>> /\ i = n
    BY <1>1, <1>2, <1>5, <1>8
  <2>2. error' \/ stale' \/ \A e \in list' : Matches(e, filter)
    <3>1. CASE ~error' /\ ~fetches[n].late
      <4>1. fetches[n].filter = filter
        BY <1>1, <1>8, <3>1 DEF ListInv, LastIsForFilter, n
      <4> QED
        BY <1>1, <2>1, <3>1, <4>1 DEF ListInv, AnswersMatch, n
    <3> QED
      BY <2>1, <3>1
  <2>3. LastIsForFilter' /\ RestMatches'
    BY <2>1, <2>2 DEF LastIsForFilter, RestMatches, Matches
  <2> QED
    BY <1>5, <1>6, <1>7, <2>3 DEF ListInv, FetchesOK
<1>9. CASE n # 1
  <2>1. n - 1 \in 1..(n - 1) /\ fetches' # <<>> /\ Len(fetches') = n - 1
    BY <1>1, <1>2, <1>9
  <2>2. CASE i = n
    <3>1. fetches'[n - 1].late
      BY <1>3, <2>1, <2>2
    <3>2. error' \/ stale' \/ \A e \in list' : Matches(e, filter)
      <4>1. CASE ~error' /\ ~fetches[n].late
        <5>1. fetches[n].filter = filter
          BY <1>1, <2>1, <4>1 DEF ListInv, LastIsForFilter, n
        <5> QED
          BY <1>1, <2>2, <4>1, <5>1 DEF ListInv, AnswersMatch, n
      <4> QED
        BY <2>2, <4>1
    <3>3. LastIsForFilter' /\ RestMatches'
      BY <2>1, <3>1, <3>2 DEF LastIsForFilter, RestMatches, Matches
    <3> QED
      BY <1>5, <1>6, <1>7, <3>3 DEF ListInv, FetchesOK
  <2>3. CASE i # n
    <3>1. fetches'[n - 1] = fetches[n] /\ i < n
      BY <1>1, <1>4, <2>1, <2>3
    <3>2. fetches # <<>>
      BY <1>1 DEF n
    <3>3. LastIsForFilter'
      BY <2>1, <3>1, <3>2 DEF ListInv, LastIsForFilter, n
    <3>4. fetches[n].late => fetches[i].late
      BY <1>1 DEF ListInv, LateFirst, n
    <3>5. RestMatches'
      BY <2>1, <3>1, <3>4 DEF RestMatches
    <3> QED
      BY <1>5, <1>6, <1>7, <3>3, <3>5 DEF ListInv, FetchesOK
  <2> QED
    BY <2>2, <2>3
<1> QED
  BY <1>8, <1>9

-----------------------------------------------------------------------------
(* The steps *)

\* The first fetch is for the filters on show.
LEMMA InitList == DashboardInit => ListInv
<1> SUFFICES ASSUME DashboardInit PROVE ListInv
  OBVIOUS
<1>1. BlankFilter \in Filter
  BY DEF BlankFilter, Filter
<1>2. /\ NewFetch(BlankFilter) \in Fetch /\ NewFetch(BlankFilter).filter = BlankFilter
      /\ NewFetch(BlankFilter).list = NoData /\ NewFetch(BlankFilter).late = FALSE
  BY <1>1 DEF NewFetch, Fetch
<1>3. fetches \in Seq(Fetch) /\ Len(fetches) = 1 /\ fetches[1] = NewFetch(BlankFilter) /\ fetches # <<>>
  BY <1>2 DEF DashboardInit
<1>4. rows \in [Jobs -> Status \union {"absent"}] /\ filter = BlankFilter
  BY DashboardAssumption DEF DashboardInit
<1> QED
  BY <1>1, <1>2, <1>3, <1>4 DEF ListInv, FetchesOK, LateFirst, AnswersMatch, LastIsForFilter, RestMatches

\* Every step keeps the invariant.
LEMMA StepList == ListInv /\ [DashboardNext]_dashboardVars => ListInv'
<1> SUFFICES ASSUME ListInv, [DashboardNext]_dashboardVars PROVE ListInv'
  OBVIOUS
<1>. DEFINE Rows == [Jobs -> Status \union {"absent"}]
<1>1. rows \in Rows /\ filter \in Filter
  BY DEF ListInv, FetchesOK
<1>2. ASSUME NEW i \in 1..Len(fetches), ServeStats(i) \/ ServeList(i) PROVE ListInv'
  BY <1>2, ServedKeeps
<1>3. ASSUME NEW i \in 1..Len(fetches), FetchSucceeds(i) PROVE ListInv'
  <2>1. /\ fetches' = Without(i) /\ UNCHANGED <<filter, rows>>
        /\ fetches[i].list # NoData /\ list' = fetches[i].list /\ stale' = fetches[i].late
    BY <1>3 DEF FetchSucceeds, Answered, serverVars
  <2> QED
    BY <2>1, AnsweredKeeps
<1>4. ASSUME NEW i \in 1..Len(fetches), FetchFails(i) PROVE ListInv'
  <2>1. fetches' = Without(i) /\ UNCHANGED <<filter, rows>> /\ error'
    BY <1>4 DEF FetchFails, serverVars
  <2> QED
    BY <2>1, AnsweredKeeps
<1>5. CASE TweenEnds
  BY <1>1, <1>5, OthersKeep DEF TweenEnds, serverVars
<1>6. CASE ChooseFilter
  <2>1. PICK f \in Filter : SetFilter(f)
    <3>1. \A f \in Chosen : /\ [filter EXCEPT !.status = f.status] \in Filter
                            /\ [filter EXCEPT !.type = f.type] \in Filter
      BY <1>1, DashboardAssumption DEF Filter
    <3> QED
      BY <1>6, <3>1 DEF ChooseFilter, StatusChosen, TypeChosen
  <2>2. filter' = f /\ FetchAll(f) /\ UNCHANGED <<list, stale, error, rows>>
    BY <2>1 DEF SetFilter, dataVars, serverVars
  <2> QED
    BY <2>2, SentKeeps
<1>7. CASE RunLoadDemo
  BY <1>1, <1>7, OthersKeep DEF RunLoadDemo, serverVars, dataVars
<1>8. CASE LoadDemoAnswered
  BY <1>1, <1>8, OthersKeep DEF LoadDemoAnswered, serverVars, dataVars
<1>9. ASSUME NEW id \in Jobs, ChangeRow(id) PROVE ListInv'
  <2>1. PICK s \in Status \union {"absent"} : rows' = [rows EXCEPT ![id] = s]
    BY <1>9 DEF ChangeRow
  <2>2. rows' \in Rows
    BY <1>1, <2>1
  <2>3. UNCHANGED <<fetches, filter, list, stale, error>>
    BY <1>9 DEF ChangeRow, dataVars
  <2> QED
    BY <2>2, <2>3, OthersKeep
<1>10. CASE ServeSeed
  <2>1. rows' \in Rows
    BY <1>1, <1>10 DEF ServeSeed, Status
  <2>2. UNCHANGED <<fetches, filter, list, stale, error>>
    BY <1>10 DEF ServeSeed, dataVars
  <2> QED
    BY <2>1, <2>2, OthersKeep
<1>11. CASE Deliver
  <2>1. FetchAll(filter) /\ UNCHANGED <<filter, list, stale, error, rows>>
    BY <1>11 DEF Deliver, dataVars, serverVars
  <2> QED
    BY <1>1, <2>1, SentKeeps
<1>12. CASE UNCHANGED dashboardVars
  BY <1>1, <1>12, OthersKeep DEF dashboardVars, serverVars, dataVars
<1> QED
  BY <1>2, <1>3, <1>4, <1>5, <1>6, <1>7, <1>8, <1>9, <1>10, <1>11, <1>12 DEF DashboardNext

\* The list on show is one for the filters on show, for any number of jobs, filters, fetches
\* and changes, in whatever order answers arrive (web/src/pages/Dashboard.jsx, fetchAll).
THEOREM ListForFilters == DashboardSpec => []ListIsForItsFilters
  BY InitList, StepList, ListInvGives, PTL DEF DashboardSpec

-----------------------------------------------------------------------------
(* What is shown is current *)

\* Unless an event is under way or will never come, the fetch sent last carries what the
\* server holds now, and so does the page when that fetch has been answered.
LastIsCurrent ==
    fetches # <<>> /\ ~fetches[Len(fetches)].late =>
        /\ fetches[Len(fetches)].stats \in {NoData, Counts}
        /\ fetches[Len(fetches)].list \in {NoData, Listed(filter)}

RestIsCurrent ==
    fetches = <<>> \/ fetches[Len(fetches)].late =>
        error \/ stale \/ (stats = Counts /\ list = Listed(filter))

CurrentInv ==
    /\ events \in Nat
    /\ ~missed /\ events = 0 => LastIsCurrent /\ RestIsCurrent

LEMMA CurrentInvGives == CurrentInv => ShownIsCurrent
<1>1. Counts # NoData
  BY CountsType, DashboardAssumption
<1> QED
  BY <1>1 DEF CurrentInv, RestIsCurrent, ShownIsCurrent

LEMMA InitCurrent == DashboardInit => CurrentInv
<1> SUFFICES ASSUME DashboardInit PROVE CurrentInv
  OBVIOUS
<1>1. fetches = <<NewFetch(BlankFilter)>> /\ events = 0
  BY DEF DashboardInit
<1>2. fetches # <<>> /\ fetches[Len(fetches)] = NewFetch(BlankFilter)
  BY <1>1
<1>3. NewFetch(BlankFilter).stats = NoData /\ NewFetch(BlankFilter).list = NoData
      /\ NewFetch(BlankFilter).late = FALSE
  BY DEF NewFetch
<1> QED
  BY <1>1, <1>2, <1>3 DEF CurrentInv, LastIsCurrent, RestIsCurrent

\* A step that leaves server, fetches, filters and what is shown alone.
LEMMA OthersKeepCurrent ==
    ASSUME CurrentInv, UNCHANGED <<rows, events, missed, fetches, filter, stats, list, stale>>, error => error'
    PROVE  CurrentInv'
<1>1. Counts' = Counts /\ Listed(filter)' = Listed(filter)
  BY DEF Counts, Listed, Matches
<1> QED
  BY <1>1 DEF CurrentInv, LastIsCurrent, RestIsCurrent

\* A change of the rows: its event is on its way, or will never come.
LEMMA ChangedKeepsCurrent ==
    ASSUME CurrentInv, Emit \/ (missed' = TRUE /\ UNCHANGED events)
    PROVE  CurrentInv'
  BY DEF CurrentInv, Emit

\* A new fetch for the filters set.
LEMMA SentKeepsCurrent ==
    ASSUME ListInv, NEW f \in Filter, FetchAll(f), events' \in Nat
    PROVE  CurrentInv'
<1>1. NewFetch(f).stats = NoData /\ NewFetch(f).list = NoData /\ NewFetch(f).late = FALSE
  BY DEF NewFetch
<1>2. fetches \in Seq(Fetch) /\ NewFetch(f) \in Fetch /\ fetches' = Append(fetches, NewFetch(f))
  BY DEF FetchAll, ListInv, FetchesOK, NewFetch, Fetch
<1>3. fetches' # <<>> /\ fetches'[Len(fetches')] = NewFetch(f)
  BY <1>2
<1> QED
  BY <1>1, <1>3 DEF CurrentInv, LastIsCurrent, RestIsCurrent

\* An answer of the server is what it holds now.
LEMMA ServedKeepsCurrent ==
    ASSUME ListInv, CurrentInv, NEW i \in 1..Len(fetches), ServeStats(i) \/ ServeList(i)
    PROVE  CurrentInv'
<1>. DEFINE n == Len(fetches)
<1>1. n \in Nat \ {0} /\ n \in 1..n /\ fetches # <<>> /\ fetches \in Seq(Fetch)
      /\ \A k \in 1..n : fetches[k] \in Fetch
  BY DEF ListInv, FetchesOK
<1>2. UNCHANGED <<rows, events, missed, filter, stats, list, stale, error>>
  BY DEF ServeStats, ServeList, dataVars, serverVars
<1>3. Len(fetches') = n /\ fetches' # <<>>
  BY <1>1 DEF ServeStats, ServeList
<1>4. Counts' = Counts /\ Listed(filter)' = Listed(filter)
  BY <1>2 DEF Counts, Listed, Matches
<1>5. /\ fetches'[n].late = fetches[n].late
      /\ fetches'[n].stats = fetches[n].stats \/ fetches'[n].stats = Counts
      /\ fetches'[n].list = fetches[n].list \/ fetches'[n].list = Listed(fetches[n].filter)
  <2>1. CASE i # n
    BY <1>1, <2>1 DEF ServeStats, ServeList
  <2>2. CASE i = n /\ ServeStats(i)
    <3>1. fetches'[n] = [fetches[n] EXCEPT !.stats = Counts]
      BY <1>1, <2>2 DEF ServeStats
    <3> QED
      BY <1>1, <3>1 DEF Fetch
  <2>3. CASE i = n /\ ServeList(i)
    <3>1. fetches'[n] = [fetches[n] EXCEPT !.list = Listed(fetches[n].filter)]
      BY <1>1, <2>3 DEF ServeList
    <3> QED
      BY <1>1, <3>1 DEF Fetch
  <2> QED
    BY <2>1, <2>2, <2>3
<1>6. ~fetches[n].late => fetches[n].filter = filter
  BY <1>1 DEF ListInv, LastIsForFilter
<1>. HIDE DEF n
<1>7. ASSUME LastIsCurrent PROVE LastIsCurrent'
  <2>1. ASSUME ~fetches'[n].late
        PROVE  fetches'[n].stats \in {NoData, Counts} /\ fetches'[n].list \in {NoData, Listed(filter)}
    <3>1. fetches[n].stats \in {NoData, Counts} /\ fetches[n].list \in {NoData, Listed(filter)}
      BY <1>1, <1>5, <1>7, <2>1 DEF LastIsCurrent, n
    <3> QED
      BY <1>5, <1>6, <2>1, <3>1
  <2> QED
    BY <1>2, <1>3, <1>4, <2>1 DEF LastIsCurrent
<1>8. ASSUME RestIsCurrent PROVE RestIsCurrent'
  BY <1>1, <1>2, <1>3, <1>4, <1>5, <1>8 DEF RestIsCurrent, n
<1> QED
  BY <1>2, <1>7, <1>8 DEF CurrentInv

\* Both answers of the i-th fetch, or its failure.
LEMMA AnsweredKeepsCurrent ==
    ASSUME ListInv, CurrentInv, NEW i \in 1..Len(fetches), fetches' = Without(i),
           UNCHANGED <<filter, rows, events, missed>>,
           error' \/ (Answered(i) /\ stats' = fetches[i].stats /\ list' = fetches[i].list
                        /\ stale' = fetches[i].late)
    PROVE  CurrentInv'
<1>. DEFINE n == Len(fetches)
<1>1. n \in Nat \ {0} /\ i \in 1..n /\ n \in 1..n /\ fetches # <<>> /\ \A k \in 1..n : fetches[k] \in Fetch
  BY DEF ListInv, FetchesOK
<1>2. /\ Len(fetches') = n - 1
      /\ \A k \in 1..(n - 1) :
            fetches'[k] = IF k < i THEN [fetches[k] EXCEPT !.late = TRUE] ELSE fetches[k + 1]
  BY <1>1 DEF Without
<1>3. Counts' = Counts /\ Listed(filter)' = Listed(filter)
  BY DEF Counts, Listed, Matches
<1>4. fetches[n].late => fetches[i].late
  BY <1>1 DEF ListInv, LateFirst
<1>. HIDE DEF n
<1>5. CASE i = n
  <2>1. fetches' = <<>> \/ fetches'[n - 1].late
    <3>1. CASE n = 1
      BY <1>2, <3>1 DEF Without, n
    <3>2. CASE n # 1
      <4>1. n - 1 \in 1..(n - 1) /\ n - 1 < i /\ fetches[n - 1] \in Fetch
        BY <1>1, <1>5, <3>2
      <4>2. fetches'[n - 1] = [fetches[n - 1] EXCEPT !.late = TRUE]
        BY <1>2, <4>1
      <4> QED
        BY <4>1, <4>2 DEF Fetch
    <3> QED
      BY <3>1, <3>2
  <2>2. LastIsCurrent'
    BY <1>2, <2>1 DEF LastIsCurrent
  <2>3. ASSUME LastIsCurrent PROVE RestIsCurrent'
    <3>1. CASE ~error' /\ ~fetches[n].late
      <4>1. stats' = Counts /\ list' = Listed(filter)
        BY <1>1, <1>5, <2>3, <3>1 DEF LastIsCurrent, Answered, n
      <4> QED
        BY <1>3, <4>1 DEF RestIsCurrent
    <3>2. CASE error' \/ fetches[n].late
      BY <1>5, <3>2 DEF RestIsCurrent
    <3> QED
      BY <3>1, <3>2
  <2> QED
    BY <2>2, <2>3 DEF CurrentInv
<1>6. CASE i # n
  <2>1. n - 1 \in 1..(n - 1) /\ ~(n - 1 < i) /\ n - 1 + 1 = n
    BY <1>1, <1>6
  <2>2. fetches'[n - 1] = fetches[n] /\ fetches' # <<>>
    BY <1>1, <1>2, <2>1
  <2>3. ASSUME LastIsCurrent PROVE LastIsCurrent'
    BY <1>1, <1>2, <1>3, <2>2, <2>3 DEF LastIsCurrent, n
  <2>4. RestIsCurrent'
    BY <1>2, <1>4, <2>2 DEF RestIsCurrent
  <2> QED
    BY <2>3, <2>4 DEF CurrentInv
<1> QED
  BY <1>5, <1>6

\* Every step keeps the invariant.
LEMMA StepCurrent == ListInv /\ CurrentInv /\ [DashboardNext]_dashboardVars => CurrentInv'
<1> SUFFICES ASSUME ListInv, CurrentInv, [DashboardNext]_dashboardVars PROVE CurrentInv'
  OBVIOUS
<1>1. filter \in Filter /\ events \in Nat
  BY DEF ListInv, FetchesOK, CurrentInv
<1>2. ASSUME NEW i \in 1..Len(fetches), ServeStats(i) \/ ServeList(i) PROVE CurrentInv'
  BY <1>2, ServedKeepsCurrent
<1>3. ASSUME NEW i \in 1..Len(fetches), FetchSucceeds(i) PROVE CurrentInv'
  <2>1. /\ fetches' = Without(i) /\ UNCHANGED <<filter, rows, events, missed>> /\ Answered(i)
        /\ stats' = fetches[i].stats /\ list' = fetches[i].list /\ stale' = fetches[i].late
    BY <1>3 DEF FetchSucceeds, serverVars
  <2> QED
    BY <2>1, AnsweredKeepsCurrent
<1>4. ASSUME NEW i \in 1..Len(fetches), FetchFails(i) PROVE CurrentInv'
  <2>1. fetches' = Without(i) /\ UNCHANGED <<filter, rows, events, missed>> /\ error'
    BY <1>4 DEF FetchFails, serverVars
  <2> QED
    BY <2>1, AnsweredKeepsCurrent
<1>5. CASE TweenEnds
  BY <1>5, OthersKeepCurrent DEF TweenEnds, serverVars
<1>6. CASE ChooseFilter
  <2>1. PICK f \in Filter : SetFilter(f)
    <3>1. \A f \in Chosen : /\ [filter EXCEPT !.status = f.status] \in Filter
                            /\ [filter EXCEPT !.type = f.type] \in Filter
      BY <1>1, DashboardAssumption DEF Filter
    <3> QED
      BY <1>6, <3>1 DEF ChooseFilter, StatusChosen, TypeChosen
  <2> QED
    BY <1>1, <2>1, SentKeepsCurrent DEF SetFilter
<1>7. CASE RunLoadDemo
  BY <1>7, OthersKeepCurrent DEF RunLoadDemo, serverVars, dataVars
<1>8. CASE LoadDemoAnswered
  BY <1>8, OthersKeepCurrent DEF LoadDemoAnswered, serverVars, dataVars
<1>9. ASSUME NEW id \in Jobs, ChangeRow(id) PROVE CurrentInv'
  BY <1>9, ChangedKeepsCurrent DEF ChangeRow
<1>10. CASE ServeSeed
  BY <1>10, ChangedKeepsCurrent DEF ServeSeed
<1>11. CASE Deliver
  <2>1. FetchAll(filter) /\ events' \in Nat
    BY <1>1, <1>11 DEF Deliver
  <2> QED
    BY <1>1, <2>1, SentKeepsCurrent
<1>12. CASE UNCHANGED dashboardVars
  BY <1>12, OthersKeepCurrent DEF dashboardVars, serverVars, dataVars
<1> QED
  BY <1>2, <1>3, <1>4, <1>5, <1>6, <1>7, <1>8, <1>9, <1>10, <1>11, <1>12 DEF DashboardNext

\* A page at rest shows what the server holds, unless it says or knows otherwise
\* (web/src/pages/Dashboard.jsx, fetchAll and handleWsMessage).
THEOREM ShownAtRest == DashboardSpec => []ShownIsCurrent
  BY InitList, StepList, InitCurrent, StepCurrent, CurrentInvGives, PTL DEF DashboardSpec

-----------------------------------------------------------------------------
(* The number on the screen *)

\* The number the last animation leads to, or the one on the screen, is the one fetched
\* last; and the next animation starts from what is on the screen.
NumberInv ==
    /\ tweens \in Seq(Nat)
    /\ display = prevRef
    /\ stats = NoData => tweens = <<>>
    /\ stats # NoData /\ ~returned =>
          stats[Followed] = IF tweens = <<>> THEN display ELSE tweens[Len(tweens)]

LEMMA InitNumber == DashboardInit => NumberInv
  BY DEF DashboardInit, NumberInv

\* Every step keeps the invariant.
LEMMA StepNumber == ListInv /\ NumberInv /\ [DashboardNext]_dashboardVars => NumberInv'
<1> SUFFICES ASSUME ListInv, NumberInv, [DashboardNext]_dashboardVars PROVE NumberInv'
  OBVIOUS
<1>1. ASSUME NEW i \in 1..Len(fetches), FetchSucceeds(i) PROVE NumberInv'
  <2>. DEFINE m == fetches[i].stats[Followed]
  <2>1. fetches[i] \in Fetch /\ fetches[i].stats # NoData /\ stats' = fetches[i].stats
    BY <1>1 DEF ListInv, FetchesOK, FetchSucceeds, Answered
  <2>2. m \in Nat
    BY <2>1, DashboardAssumption DEF Fetch
  <2>3. ShowNumber(m) /\ stats' # NoData /\ stats'[Followed] = m
    BY <1>1, <2>1 DEF FetchSucceeds
  <2>. HIDE DEF m
  <2>4. CASE stats = NoData
    BY <2>2, <2>3, <2>4 DEF ShowNumber, NumberInv
  <2>5. CASE stats # NoData /\ m = stats[Followed]
    BY <2>3, <2>5 DEF ShowNumber, NumberInv, numberVars
  <2>6. CASE stats # NoData /\ m # stats[Followed] /\ m = prevRef
    BY <2>3, <2>6 DEF ShowNumber, NumberInv
  <2>7. CASE stats # NoData /\ m # stats[Followed] /\ m # prevRef
    <3>1. tweens' = Append(tweens, m) /\ UNCHANGED <<display, prevRef>>
      BY <2>3, <2>7 DEF ShowNumber
    <3>2. tweens' \in Seq(Nat) /\ tweens' # <<>> /\ tweens'[Len(tweens')] = m
      BY <2>2, <3>1 DEF NumberInv
    <3> QED
      BY <2>3, <3>1, <3>2 DEF NumberInv
  <2> QED
    BY <2>4, <2>5, <2>6, <2>7
<1>2. CASE TweenEnds
  <2>1. /\ tweens # <<>> /\ display' = Head(tweens) /\ prevRef' = Head(tweens)
        /\ tweens' = Tail(tweens) /\ UNCHANGED <<stats, returned>> /\ tweens \in Seq(Nat)
    BY <1>2 DEF TweenEnds, NumberInv
  <2>2. tweens' \in Seq(Nat) /\ Len(tweens) \in Nat \ {0} /\ Len(tweens') = Len(tweens) - 1
    BY <2>1
  <2>3. CASE Len(tweens) = 1
    BY <2>1, <2>2, <2>3 DEF NumberInv
  <2>4. CASE Len(tweens) # 1
    <3>. DEFINE len == Len(tweens)
    <3>0. len - 1 \in 1..(len - 1) /\ Len(tweens') = len - 1
      <4>1. len \in Nat \ {0, 1} /\ Len(tweens') = len - 1
        BY <2>2, <2>4
      <4>. HIDE DEF len
      <4> QED
        BY <4>1
    <3>1. tweens' # <<>> /\ tweens'[Len(tweens')] = tweens[Len(tweens)]
      <4>1. tweens' # <<>>
        BY <2>2, <3>0
      <4>2. tweens'[len - 1] = tweens[len]
        BY <2>1, <2>2, <3>0
      <4> QED
        BY <3>0, <4>1, <4>2
    <3> QED
      BY <2>1, <2>2, <3>1 DEF NumberInv
  <2> QED
    BY <2>3, <2>4
<1>3. ASSUME UNCHANGED <<stats, numberVars>> PROVE NumberInv'
  BY <1>3 DEF NumberInv, numberVars
<1>4. ASSUME NEW i \in 1..Len(fetches), ServeStats(i) \/ ServeList(i) \/ FetchFails(i) PROVE NumberInv'
  BY <1>3, <1>4 DEF ServeStats, ServeList, FetchFails, dataVars
<1>5. ASSUME ChooseFilter \/ RunLoadDemo \/ LoadDemoAnswered \/ ServeSeed \/ Deliver PROVE NumberInv'
  BY <1>3, <1>5 DEF ChooseFilter, StatusChosen, TypeChosen, SetFilter, RunLoadDemo, LoadDemoAnswered, ServeSeed, Deliver, dataVars
<1>6. ASSUME NEW id \in Jobs, ChangeRow(id) PROVE NumberInv'
  BY <1>3, <1>6 DEF ChangeRow, dataVars
<1>7. CASE UNCHANGED dashboardVars
  BY <1>3, <1>7 DEF dashboardVars, dataVars
<1> QED
  BY <1>1, <1>2, <1>4, <1>5, <1>6, <1>7 DEF DashboardNext

\* A number at rest is the one fetched last, but for the way back that takes no animation
\* (web/src/components/design-system/AnimatedNumber.jsx).
THEOREM NumberAtRest == DashboardSpec => []NumberSettles
<1>1. NumberInv => NumberSettles
  BY DEF NumberInv, NumberSettles
<1> QED
  BY <1>1, InitList, StepList, InitNumber, StepNumber, PTL DEF DashboardSpec

-----------------------------------------------------------------------------
(* Types *)

\* What the type invariant says beyond the invariants above.
RestOK ==
    /\ changes \in 0..MaxChanges
    /\ events \in 0..MaxEvents
    /\ stats \in [Status -> Nat] \union {NoData}
    /\ list \subseteq Entry
    /\ loading \in BOOLEAN
    /\ error \in BOOLEAN
    /\ seeding \in {"no", "asked", "served"}
    /\ missed \in BOOLEAN
    /\ stale \in BOOLEAN
    /\ prevRef \in Nat
    /\ returned \in BOOLEAN

LEMMA StepRest == ListInv /\ NumberInv /\ RestOK /\ [DashboardNext]_dashboardVars => RestOK'
<1> SUFFICES ASSUME ListInv, NumberInv, RestOK, [DashboardNext]_dashboardVars PROVE RestOK'
  OBVIOUS
<1>0. MaxChanges \in Nat /\ MaxEvents \in Nat
  BY DashboardAssumption
<1>. USE <1>0 DEF RestOK
<1>1. ASSUME NEW i \in 1..Len(fetches), ServeStats(i) \/ ServeList(i) PROVE RestOK'
  BY <1>1 DEF ServeStats, ServeList, serverVars, dataVars, numberVars
<1>2. ASSUME NEW i \in 1..Len(fetches), FetchSucceeds(i) PROVE RestOK'
  <2>1. fetches[i] \in Fetch /\ Answered(i)
    BY <1>2 DEF ListInv, FetchesOK, FetchSucceeds
  <2>2. stats' \in [Status -> Nat] /\ list' \subseteq Entry /\ stale' \in BOOLEAN
        /\ fetches[i].stats[Followed] \in Nat
    BY <1>2, <2>1, DashboardAssumption DEF FetchSucceeds, Answered, Fetch
  <2>3. UNCHANGED <<changes, events, seeding, missed>> /\ error' = FALSE /\ loading' = FALSE
        /\ ShowNumber(fetches[i].stats[Followed])
    BY <1>2 DEF FetchSucceeds, serverVars
  <2>4. prevRef' \in Nat /\ returned' \in BOOLEAN
    BY <2>2, <2>3 DEF ShowNumber, numberVars
  <2> QED
    BY <2>2, <2>3, <2>4
<1>3. ASSUME NEW i \in 1..Len(fetches), FetchFails(i) PROVE RestOK'
  BY <1>3 DEF FetchFails, serverVars, numberVars
<1>4. CASE TweenEnds
  <2>1. Head(tweens) \in Nat
    BY <1>4 DEF TweenEnds, NumberInv
  <2> QED
    BY <1>4, <2>1 DEF TweenEnds, serverVars
<1>5. CASE ChooseFilter
  BY <1>5 DEF ChooseFilter, StatusChosen, TypeChosen, SetFilter, FetchAll, serverVars, dataVars, numberVars
<1>6. CASE RunLoadDemo \/ LoadDemoAnswered
  BY <1>6 DEF RunLoadDemo, LoadDemoAnswered, serverVars, dataVars, numberVars
<1>7. ASSUME NEW id \in Jobs, ChangeRow(id) PROVE RestOK'
  <2>1. changes' \in 0..MaxChanges
    BY <1>7 DEF ChangeRow
  <2>2. events' = events \/ (events < MaxEvents /\ events' = events + 1)
    BY <1>7 DEF ChangeRow, Emit
  <2>3. missed' = missed \/ missed' = TRUE
    BY <1>7 DEF ChangeRow, Emit
  <2>4. events' \in 0..MaxEvents
    BY <2>2
  <2> QED
    BY <1>7, <2>1, <2>3, <2>4 DEF ChangeRow, dataVars, numberVars
<1>8. CASE ServeSeed
  <2>1. changes' \in 0..MaxChanges /\ seeding' = "served"
    BY <1>8 DEF ServeSeed
  <2>2. events' = events \/ (events < MaxEvents /\ events' = events + 1)
    BY <1>8 DEF ServeSeed, Emit
  <2>3. missed' = missed \/ missed' = TRUE
    BY <1>8 DEF ServeSeed, Emit
  <2>4. events' \in 0..MaxEvents
    BY <2>2
  <2> QED
    BY <1>8, <2>1, <2>3, <2>4 DEF ServeSeed, dataVars, numberVars
<1>9. CASE Deliver
  <2>1. events' \in 0..MaxEvents /\ missed' = FALSE
    BY <1>9 DEF Deliver, FetchAll
  <2> QED
    BY <1>9, <2>1 DEF Deliver, serverVars, dataVars, numberVars
<1>10. CASE UNCHANGED dashboardVars
  BY <1>10 DEF dashboardVars, serverVars, dataVars, numberVars
<1> QED
  BY <1>1, <1>2, <1>3, <1>4, <1>5, <1>6, <1>7, <1>8, <1>9, <1>10 DEF DashboardNext

\* Every variable has its type (the state hooks of web/src/pages/Dashboard.jsx).
THEOREM DashboardTypes == DashboardSpec => []DashboardTypeOK
<1>1. DashboardInit => RestOK
  <2>1. MaxChanges \in Nat /\ MaxEvents \in Nat
    BY DashboardAssumption
  <2>2. 0 \in 0..MaxChanges /\ 0 \in 0..MaxEvents /\ 0 \in Nat
    BY <2>1
  <2> QED
    BY <2>2, Zenon DEF DashboardInit, RestOK
<1>2. ListInv /\ NumberInv /\ RestOK => DashboardTypeOK
  BY DEF ListInv, FetchesOK, NumberInv, RestOK, DashboardTypeOK
<1> QED
  BY <1>1, <1>2, InitList, StepList, InitNumber, StepNumber, StepRest, PTL DEF DashboardSpec
=============================================================================
