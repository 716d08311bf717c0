------------------------------ MODULE Dashboard ------------------------------
(***************************************************************************)
(* DashboardService (src/dashboard/dashboard.service.ts) over the tables   *)
(* of InspectionQueries.                                                   *)
(*                                                                         *)
(* getBranchDistribution asks the database one count after the other,      *)
(* outside a transaction, while requests create, delete, move and rename   *)
(* what it counts.  A count is the set of the inspections counted.  The    *)
(* trend's part is its date arithmetic: the periods a request uses.        *)
(***************************************************************************)
EXTENDS InspectionQueries, DashboardPeriods

CONSTANTS
    OldPeriod,      \* Old -> {"current", "previous"}: when it was created
    Calendar,       \* days that a trend may ask for
    Timezones,      \* timezones that a trend may ask for
    ServerOffsets   \* timezones in which the server may stand

VARIABLE moved  \* history: inspections whose city ever changed

dashboardVars == <<queriesVars, moved>>

\* calculateDateRanges: the range asked for, and one as long that ends where
\* it begins.
Period == {"current", "previous"}

ASSUME PeriodAssumption == OldPeriod \in [Old -> Period]

\* The calendar has the months around the days asked for; the server's clock
\* is less than a day behind a viewer's.
ASSUME TrendAssumption ==
    /\ Calendar \cup Timezones \cup ServerOffsets \subseteq Int
    /\ \A day \in Calendar : \E d, e \in FirstDays : d < day /\ day + 1 < e
    /\ \A tz \in Timezones, srv \in ServerOffsets : tz - srv < 24

PeriodOf(i) == IF i \in Old THEN OldPeriod[i] ELSE "current"
Created(p) == {i \in Inspections : PeriodOf(i) = p}

\* The city of its branch, if it has one.
CityOf(i) == {branches[b].city : b \in {rows[i].branch} \cap Branches}

\* first: the inspections there were when the request came (history);
\* todo: <<city, period>> to be counted.
DistributionMemo == [first: SUBSET InspectionId, todo: SUBSET (City \X Period),
                     total: [Period -> SUBSET InspectionId],
                     counts: [City \X Period -> SUBSET InspectionId]]

CountersMemo == [first: SUBSET InspectionId, todo: SUBSET (Period \X {"total", "statuses"}),
                 total: [Period -> SUBSET InspectionId],
                 by: SUBSET (Period \X Status \X InspectionId)]

DashboardInit ==
    /\ QueriesInit
    /\ moved = {}

-----------------------------------------------------------------------------
(* Faulty variants for mutation runs; not part of the model.               *)

\* Only active branches are listed.
ReadActiveCities(r) ==
    /\ Asks(r, "distribution")
    /\ Keeps(r, [first |-> Inspections,
                 todo |-> {branches[b].city : b \in {d \in Branches : branches[d].isActive}}
                              \X Period,
                 total |-> [p \in Period |-> {}],
                 counts |-> [x \in City \X Period |-> {}]])
    /\ Goto(r, "counting")
    /\ UNCHANGED <<tables, photoVars, queryVars, moved>>

\* The current period begins where the previous one does.
CountPeriodFromTheStart(r) ==
    /\ pc[r] = "countingPeriods"
    /\ \E x \in memo[r].todo :
           LET S == IF x[1] = "current" THEN Inspections ELSE Created("previous") IN
           /\ Keeps(r, IF x[2] = "total"
                       THEN [memo[r] EXCEPT !.todo = @ \ {x}, !.total[x[1]] = S]
                       ELSE [memo[r] EXCEPT !.todo = @ \ {x}, !.by = @ \cup
                                 {<<x[1], status[i], i>> : i \in S}])
           /\ Goto(r, IF memo[r].todo = {x} THEN "answered" ELSE "countingPeriods")
    /\ UNCHANGED <<tables, photoVars, queryVars, moved>>

-----------------------------------------------------------------------------
(* getMainCounter                                                          *)

AskCounters(r) ==
    /\ Asks(r, "counters")
    /\ Keeps(r, [first |-> Inspections, todo |-> Period \X {"total", "statuses"},
                 total |-> [p \in Period |-> {}], by |-> {}])
    /\ Goto(r, "countingPeriods")
    /\ UNCHANGED <<tables, photoVars, queryVars, moved>>

\* getInspectionCountsInPeriod: a count and a GROUP BY for each period, the
\* four of them under way at once; by: <<period, status, inspection>>.
CountPeriod(r) ==
    /\ pc[r] = "countingPeriods"
    /\ \E x \in memo[r].todo :
           /\ Keeps(r, IF x[2] = "total"
                       THEN [memo[r] EXCEPT !.todo = @ \ {x}, !.total[x[1]] = Created(x[1])]
                       ELSE [memo[r] EXCEPT !.todo = @ \ {x}, !.by = @ \cup
                                 {<<x[1], status[i], i>> : i \in Created(x[1])}])
           /\ Goto(r, IF memo[r].todo = {x} THEN "answered" ELSE "countingPeriods")
    /\ UNCHANGED <<tables, photoVars, queryVars, moved>>

-----------------------------------------------------------------------------
(* getBranchDistribution                                                   *)

ReadCities(r) ==
    /\ Asks(r, "distribution")
    /\ Keeps(r, [first |-> Inspections,
                 todo |-> {branches[b].city : b \in Branches} \X Period,
                 total |-> [p \in Period |-> {}],
                 counts |-> [x \in City \X Period |-> {}]])
    /\ Goto(r, "counting")
    /\ UNCHANGED <<tables, photoVars, queryVars, moved>>

CreatedIn(c, p) == {i \in Created(p) : c \in CityOf(i)}

\* The total of the current period comes before the branches,
CountTotal(r) ==
    /\ pc[r] = "counting"
    /\ Keeps(r, [memo[r] EXCEPT !.total["current"] = Created("current")])
    /\ Goto(r, "countingBranches")
    /\ UNCHANGED <<tables, photoVars, queryVars, moved>>

\* for each of them the current period before the previous one,
CountBranch(r) ==
    /\ pc[r] = "countingBranches"
    /\ \E x \in memo[r].todo :
           /\ x[2] = "previous" => <<x[1], "current">> \notin memo[r].todo
           /\ Keeps(r, [memo[r] EXCEPT !.todo = @ \ {x}, !.counts[x] = CreatedIn(x[1], x[2])])
    /\ UNCHANGED <<op, pc, tables, photoVars, queryVars, moved>>

\* and the total of the previous period after them.
CountPreviousTotal(r) ==
    /\ pc[r] = "countingBranches"
    /\ memo[r].todo = {}
    /\ Keeps(r, [memo[r] EXCEPT !.total["previous"] = Created("previous")])
    /\ Goto(r, "answered")
    /\ UNCHANGED <<tables, photoVars, queryVars, moved>>

-----------------------------------------------------------------------------
(* getOrderTrend                                                           *)

TrendMemo == [tz: Timezones, srv: ServerOffsets, first: Calendar, last: Calendar]

\* start_date after end_date is refused.
AskTrend(r) ==
    /\ Asks(r, "trend")
    /\ \E tz \in Timezones, srv \in ServerOffsets, S, E \in Calendar :
           /\ S <= E
           /\ Keeps(r, [tz |-> tz, srv |-> srv, first |-> S, last |-> E])
    /\ Goto(r, "answered")
    /\ UNCHANGED <<tables, photoVars, queryVars, moved>>

-----------------------------------------------------------------------------

DashboardStep(r) ==
    \/ ReadCities(r) \/ CountTotal(r) \/ CountBranch(r) \/ CountPreviousTotal(r)
    \/ AskCounters(r) \/ CountPeriod(r) \/ AskTrend(r)

\* The steps of all other requests; moved takes note of changed cities: by an
\* approval, by another name of the branch, or by its removal.
OtherStep ==
    /\ QueriesNext
    /\ moved' = moved \cup
           {i \in Inspections : rows'[i] # None /\ CityOf(i)' # CityOf(i)}

DashboardNext == OtherStep \/ \E r \in Request : DashboardStep(r)

DashboardSpec == DashboardInit /\ [][DashboardNext]_dashboardVars

-----------------------------------------------------------------------------
(* Properties                                                              *)

Answers(r, o) == op[r] = o /\ pc[r] = "answered"

\* The rows have the types and the uniqueness and foreign keys of the
\* schema, and every handler keeps what its next step needs.
RecordsTypeOK ==
    /\ branches \in [BranchId -> BranchRow \cup {None}]
    /\ sequence \in [Key -> Nat]
    /\ rows \in [InspectionId -> InspectionRow \cup {None}]
    /\ photos \in [PhotoId -> Photo \cup {None}]
    /\ files \in SUBSET File
    /\ status \in [InspectionId -> Status]
    \* unique columns and foreign keys
    /\ \A b, c \in Branches :
          branches[b].city = branches[c].city \/ branches[b].code = branches[c].code => b = c
    /\ \A i, j \in Inspections : rows[i].pretty_id = rows[j].pretty_id => i = j
    /\ \A i \in Inspections : rows[i].branch \in Branches \cup {None}
    /\ \A p \in Photos : photos[p].inspection \in Inspections
    \* what the handlers keep
    /\ \A r \in Request :
          /\ AtPhotoStep(r) => memo[r] \in PhotoMemo
          /\ pc[r] \in {"readingBranch", "readyToInsert", "inserting"} => memo[r] \in CreateMemo
          /\ pc[r] \in {"counting", "countingBranches"} => memo[r] \in DistributionMemo
          /\ pc[r] = "countingPeriods" => memo[r] \in CountersMemo
          /\ Answers(r, "trend") => memo[r] \in TrendMemo

\* getBranchDistribution: whatever is created, deleted, moved or renamed while
\* it counts, an inspection that was there before and stays is counted once in
\* the total of its period; if it also stays in the city of its branch, it is
\* counted once there, in its period, and under no other city.  The README
\* says what becomes of one that an approval moves between two counts.
DistributionAddsUp ==
    \A r \in Request : Answers(r, "distribution") =>
        \A i \in memo[r].first \cap Inspections :
            /\ {p \in Period : i \in memo[r].total[p]} = {PeriodOf(i)}
            /\ i \notin moved =>
                   {x \in City \X Period : i \in memo[r].counts[x]} = CityOf(i) \X {PeriodOf(i)}

\* getMainCounter: an inspection that was there before and stays is counted
\* once in the total of its period and once under a status of that period,
\* and nowhere else, whatever happens to its status between the queries.
CountersAddUp ==
    \A r \in Request : Answers(r, "counters") =>
        \A i \in memo[r].first \cap Inspections :
            /\ {p \in Period : i \in memo[r].total[p]} = {PeriodOf(i)}
            /\ \E x \in memo[r].by : {y \in memo[r].by : y[3] = i} = {x} /\ x[1] = PeriodOf(i)

\* getOrderTrend: each inspection of the range that the answer names is
\* counted in exactly one period, and for a viewer in the server's timezone
\* that range is the one asked for.  Hourly periods are only right seven
\* hours ahead of UTC, monthly ones for a viewer not behind the server; the
\* README says what happens elsewhere.
TrendCountsOnce ==
    \A r \in Request : Answers(r, "trend") =>
        LET tz == memo[r].tz
            srv == memo[r].srv
            used == UsedRange(memo[r].first, memo[r].last, tz, srv)
        IN /\ tz = srv => used = MeantRange(memo[r].first, memo[r].last, tz)
           /\ \/ Granularity(used) = "hour" /\ tz # 7
              \/ Granularity(used) = "month" /\ tz < srv
              \/ \A t \in used.from..(used.to - 1) :
                     Cardinality(CountedIn(t, used, tz, srv)) = 1
=============================================================================
