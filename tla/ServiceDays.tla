----------------------------- MODULE ServiceDays -----------------------------
(***************************************************************************)
(* service-day.ts, and how trips.service.ts picks the service day that a   *)
(* trip is running on.  Dates are numbered, date 1 is a monday; times are  *)
(* in half hours, a time of day counts from noon minus twelve hours and    *)
(* may pass 24:00.  A day has 23 or 25 hours when the clocks change, which *)
(* they do before noon.                                                    *)
(***************************************************************************)
EXTENDS GtfsTables

CONSTANT LastDate  \* dates are 1 .. LastDate

ASSUME LastDateAssumption == LastDate \in Nat

Date == 1 .. LastDate

\* ARRIVALS_LATE_WINDOW_S
LateWindow == 3

WeekdayOf(date) == ((date - 1) % 7) + 1

\* When local midnight of a date is; length[d] is how long the day d lasts.
Midnight(length) ==
    LET midnight[d \in 0 .. LastDate] == IF d = 0 THEN 0 ELSE midnight[d - 1] + length[d]
    IN  [d \in 1 .. LastDate + 1 |-> midnight[d - 1]]

\* localDate
LocalDate(midnight, now) ==
    CHOOSE d \in Date : midnight[d] <= now /\ now < midnight[d + 1]

\* Faulty variant: 24 hours back.
DayAgo(midnight, now) == [today |-> LocalDate(midnight, now), yesterday |-> LocalDate(midnight, now - 48)]

\* addDays: one calendar day back, however long it is.
candidateServiceDates(midnight, now) ==
    [today |-> LocalDate(midnight, now), yesterday |-> LocalDate(midnight, now) - 1]

\* Faulty variant: times of day count from midnight.
FromMidnight(midnight, date, time) == midnight[date] + time

\* gtfsTimestampSql: noon is twelve hours before the next midnight.
GtfsTimestamp(midnight, date, time) == midnight[date + 1] - 48 + time

\* activeServicesCte: the weekdays of the calendar less the removals, and the additions.
ActiveServices(calendars, calendar_dates, date) ==
    {c.service : c \in {x \in calendars :
        /\ x.start <= date /\ date <= x.end
        /\ WeekdayOf(date) \in x.days
        /\ \A e \in calendar_dates : ~(e.service = x.service /\ e.date = date /\ e.type = 2)}}
    \cup
    {e.service : e \in {x \in calendar_dates : x.date = date /\ x.type = 1}}

\* Yesterday's run wins while it may still be on the road; runs[d] is when the
\* trip of the service day d ends.
pickServiceDate(runs, today, yesterday, now) ==
    CASE yesterday \in DOMAIN runs /\ runs[yesterday] >= now - LateWindow -> yesterday
      [] today \in DOMAIN runs /\ ~(yesterday \in DOMAIN runs /\ runs[yesterday] >= now - LateWindow) -> today
      [] OTHER -> IF yesterday \in DOMAIN runs THEN yesterday ELSE today

\* trip: its service and the times of its last stop.
currentServiceDate(midnight, calendars, calendar_dates, trip, now) ==
    LET dates == candidateServiceDates(midnight, now)
        days  == {d \in {dates.today, dates.yesterday} :
                    trip.service \in ActiveServices(calendars, calendar_dates, d)}
    IN  pickServiceDate([d \in days |-> GtfsTimestamp(midnight, d, trip.last)],
                        dates.today, dates.yesterday, now)
=============================================================================
