-------------------------- MODULE DashboardPeriods --------------------------
(***************************************************************************)
(* The date arithmetic of DashboardService                                 *)
(* (src/dashboard/dashboard.service.ts:84): the range of a request and the *)
(* periods of the order trend.                                             *)
(*                                                                         *)
(* An instant is a whole number of hours in UTC.  A range or period is     *)
(* [from, to), which stands for the inclusive end one millisecond before   *)
(* to.  srv and tz are the hours by which the server's clock and the       *)
(* requested timezone are ahead of UTC; neither changes (no daylight       *)
(* saving).  date-fns computes with the server's wall clock:               *)
(* toZonedTime(t, tz) is the Date whose server wall clock shows what the   *)
(* clock of tz shows at t, and fromZonedTime is its inverse.  Days are     *)
(* counted from day 0; FirstDays are the days that begin a month.          *)
(***************************************************************************)
EXTENDS Integers, FiniteSets

CONSTANTS
    FirstDays,      \* the first day of each month of the calendar
    DailyLimit      \* longest range, in days, with daily periods; the code says 92

\* A Date has a finite range.
ASSUME PeriodsAssumption ==
    /\ FirstDays \subseteq Int
    /\ IsFiniteSet(FirstDays)
    /\ DailyLimit \in Nat

Span(from, to) == [from |-> from, to |-> to]
Within(t, s) == s.from <= t /\ t < s.to

\* startOfDay(toZonedTime(t, tz)) and its inverse: the instant at which the
\* day of t begins in tz.
StartOfDay(t, tz) == 24 * ((t + tz) \div 24) - tz

\* getValidatedDateRange reads the days S and E on the server's clock and
\* takes the whole days in tz of the first and the last second.
UsedRange(S, E, tz, srv) ==
    Span(StartOfDay(24 * S - srv, tz), StartOfDay(24 * (E + 1) - srv - 1, tz) + 24)

\* The range meant: the days S to E in tz.
MeantRange(S, E, tz) == Span(24 * S - tz, 24 * (E + 1) - tz)

DaysOf(s) == (s.to - s.from) \div 24

\* differenceInDays counts full days, one less than the days touched.
Granularity(s) ==
    IF DaysOf(s) = 1 THEN "hour" ELSE IF DaysOf(s) - 1 <= DailyLimit THEN "day" ELSE "month"

-----------------------------------------------------------------------------
(* Faulty variants for mutation runs; not part of the model.               *)

\* The loop goes on only while the period starts before the end's day.
DailyPeriodsUntilLastDay(s, tz, srv) ==
    {Span(StartOfDay(s.from + 24 * k, tz), StartOfDay(s.from + 24 * k, tz) + 24) :
        k \in {n \in 0..DaysOf(s) : (s.from + 24 * n + srv) \div 24 < (s.to - 1 + srv) \div 24}}

-----------------------------------------------------------------------------

HourlyPeriods(s, tz) ==
    {Span(StartOfDay(s.from, tz) + 2 * i, StartOfDay(s.from, tz) + 2 * i + 2) : i \in 0..11}

\* The loop goes on while the period starts before the end or on the same
\* day as the end by the server's clock.
DailyPeriods(s, tz, srv) ==
    {Span(StartOfDay(s.from + 24 * k, tz), StartOfDay(s.from + 24 * k, tz) + 24) :
        k \in {n \in 0..(DaysOf(s) + 1) :
                  LET current == s.from + 24 * n
                  IN \/ current < s.to
                     \/ (current + srv) \div 24 = (s.to - 1 + srv) \div 24}}

\* The first day of the month of t, and of the next month, in tz.
MonthOf(t, tz) ==
    CHOOSE d \in FirstDays :
        /\ d <= (t + tz) \div 24
        /\ \A e \in FirstDays : e <= (t + tz) \div 24 => e <= d
NextMonth(d) == CHOOSE e \in FirstDays : e > d /\ \A x \in FirstDays : x > d => e <= x

\* The loop runs through the months of the server's clock and takes the
\* month in tz at the first instant of each.
MonthlyPeriods(s, tz, srv) ==
    LET Month(d) == MonthOf(24 * d - srv, tz)
    IN {Span(24 * Month(d) - tz, 24 * NextMonth(Month(d)) - tz) :
            d \in {e \in FirstDays :
                      /\ e >= MonthOf(s.from, srv)
                      /\ \/ 24 * e - srv < s.to
                         \/ e = MonthOf(s.to - 1, srv)}}

Periods(s, tz, srv) ==
    CASE Granularity(s) = "hour"  -> HourlyPeriods(s, tz)
      [] Granularity(s) = "day"   -> DailyPeriods(s, tz, srv)
      [] Granularity(s) = "month" -> MonthlyPeriods(s, tz, srv)

\* The hourly query groups createdAt by the two hours it is in after the
\* shift by tz; the period looks itself up under its start less seven hours.
Bucket(t, tz) == 2 * ((t - tz) \div 2)
LookupKey(p) == p.from - 7

\* The periods under which an inspection created at t is counted.
CountedIn(t, s, tz, srv) ==
    IF Granularity(s) = "hour"
    THEN {p \in HourlyPeriods(s, tz) : Within(t, s) /\ Bucket(t, tz) = LookupKey(p)}
    ELSE {p \in Periods(s, tz, srv) : Within(t, p)}
=============================================================================
