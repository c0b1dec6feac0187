-------------------------------- MODULE Rules --------------------------------
(***************************************************************************)
(* The rules over whole feeds.  A case is the files of a feed, or of its   *)
(* calendar, and whatever else the questions depend on; one step loads it, *)
(* with the scan order of the stops as the database chooses, and the       *)
(* properties are about what is asked of it then.                          *)
(***************************************************************************)
EXTENDS ServiceDays, Alerts

CONSTANTS
    StopCases, RouteCases, DayCases, AlertCases,  \* by the questions that are asked
    Names,           \* the names that match the text of a search
    PageSize,        \* stops on a page of its results
    Centre, Radius,  \* where stops are looked for
    Around,          \* how many of them at most
    Starts,          \* when trips start, from the beginning of their service day
    Durations,       \* how long they take
    Moments          \* when alerts are asked for

VARIABLES
    case,  \* the files and whatever else the questions depend on
    db     \* the tables; none before the load

vars == <<case, db>>

\* Of a row: nothing required is missing, and nothing malformed.
Readable(required, optional) == Blank \notin required /\ Malformed \notin required \cup optional

\* No two rows are of one stop.  A stop of a station is no station, and trains stop at
\* the stops of a station, not at the station.
StationsAreSound(files) ==
    /\ \A s, o \in files.stops :
          /\ s.stop_id = o.stop_id => s = o
          /\ s.parent_station = o.stop_id => o.parent_station = Blank
    /\ \A s \in files.stops :
          /\ Null \notin {s.stop_id, s.parent_station}
          /\ \A st \in files.stop_times : st.stop_id # s.parent_station

\* A trip is given once and is at one stop at a time; its id stands for its place in
\* the order of the texts, as a sequence does.
TripsAreSound(files) ==
    /\ IsFiniteSet(files.trips) /\ IsFiniteSet(files.stop_times)
    /\ \A t, o \in files.trips : t.trip_id \in Nat /\ (t.trip_id = o.trip_id => t = o)
    /\ \A st \in files.stop_times : st.stop_sequence \in Nat \cup {Blank, Malformed}

ASSUME StopCasesAssumption ==
    /\ \A c \in StopCases :
          /\ c.kind = "stops" /\ StationsAreSound(c.files) /\ IsFiniteSet(c.files.stops)
          /\ \A s \in c.files.stops : s.stop_lat_lon \in Int \cup {Blank, Malformed}
    /\ Null \notin Int
    /\ {Centre, Radius} \subseteq Int /\ Around \in Nat /\ PageSize \in Nat \ {0}

ASSUME RouteCasesAssumption ==
    \A c \in RouteCases : c.kind = "route" /\ StationsAreSound(c.files) /\ TripsAreSound(c.files)

\* A day has 23 to 25 hours.  A trip is over at 46:30 and takes no more than 21 hours.
ASSUME DayCasesAssumption ==
    /\ \A c \in DayCases : c.kind = "day" /\ c.length \in [Date -> 46 .. 50]
    /\ Starts \subseteq Nat /\ Durations \subseteq 0 .. 42
    /\ \A first \in Starts, long \in Durations : first + long <= 93
    /\ {Blank, Malformed} \cap Int = {}

ASSUME AlertCasesAssumption ==
    /\ \A c \in AlertCases :
          /\ c.kind = "alert" /\ StationsAreSound(c.files)
          /\ NoLookup # STOPS(c.files.stops)
          /\ DOMAIN c.feed \subseteq Nat
          /\ \A i, j \in DOMAIN c.feed : c.feed[i].id # Null /\ (c.feed[i].id = c.feed[j].id => i = j)
          /\ \A i \in DOMAIN c.feed :
                /\ DOMAIN c.feed[i].header \subseteq Nat
                /\ \A p \in c.feed[i].periods : {p.start, p.end} \subseteq Int \cup {Null}
    /\ Moments \subseteq Int /\ Null \notin Int \cup URGENT_EFFECT_DETAILS

----------------------------------------------------------------------------
NotLoaded == [stops |-> {}]

Init ==
    /\ case \in StopCases \cup RouteCases \cup DayCases \cup AlertCases
    /\ db = NotLoaded

\* The load of the files; the stops are scanned in an order of the database's, which
\* matters for the groups of stops only.
Load ==
    /\ db = NotLoaded
    /\ case.kind # "day"
    /\ \E stage \in {STAGED_TABLES(case.files)} :
         \E scan \in SetToSeqs({s \in stage.stops : s.parent = Null}) :
            /\ case.kind # "stops" => \A i, j \in DOMAIN scan : i < j => scan[i].id < scan[j].id
            /\ db' = buildDerivedTables(stage, scan)
    /\ UNCHANGED case

LoadCalendar ==
    /\ db = NotLoaded
    /\ case.kind = "day"
    /\ db' = [stops |-> {}, calendars |-> CALENDARS(case.calendar),
              calendar_dates |-> CALENDAR_DATES(case.calendar_dates)]
    /\ UNCHANGED case

Next == Load \/ LoadCalendar

Spec == Init /\ [][Next]_vars

Of(kind) == case.kind = kind /\ db # NotLoaded
----------------------------------------------------------------------------
(***************************************************************************)
(* Stops.                                                                  *)
(***************************************************************************)
\* Stops of one name, and stops as far away, are in any order.
ByName ==
    {order \in SetToSeqs(db.stops) : \A i, j \in DOMAIN order : i < j => order[i].name <= order[j].name}

Away(s) == IF s.at > Centre THEN s.at - Centre ELSE Centre - s.at

ByDistance ==
    {order \in SetToSeqs(db.stops) : \A i, j \in DOMAIN order : i < j => Away(order[i]) <= Away(order[j])}

\* What the rows of the files say of the routes that serve a stop.
Calls ==
    UNION {{[stop |-> st.stop_id, route |-> t.route_id] :
               t \in {x \in case.files.trips :
                   /\ Readable({x.trip_id, x.route_id, x.service_id}, {x.direction_id})
                   /\ x.trip_id = st.trip_id
                   /\ \E r \in case.files.routes :
                         r.route_id = x.route_id /\ Readable({r.route_id, r.route_type}, {})}} :
           st \in {x \in case.files.stop_times :
               Readable({x.trip_id, x.stop_id, x.stop_sequence}, {x.arrival_time, x.departure_time})}}

\* A station with platforms that was merged with another stop: its board shows the
\* platforms only, the other's shows no platform.
Mixed(stop) ==
    LET group == {s \in DOMAIN db.group : GroupOf(db, s) = GroupOf(db, stop)}
    IN  \E s \in group : Platforms(db, s) # {}

Pages == {page \in 0 .. Cardinality(db.stops) : PageSize * page < Cardinality(db.stops)}

\* Search results lead to the trains: whatever serves a stop of a route, an entry
\* that the search shows on one of its pages names the route and has the stop on its
\* board; and no entry names a route that its board does not show.  Not so where a
\* station with platforms is merged with another stop, and for the platforms of a
\* station whose row was dropped, which no search shows.
SearchLeadsToTrains ==
    Of("stops") =>
        \E board \in {[s \in {x.id : x \in db.stops} |-> effectiveStopIds(db, s)]} :
            \A order \in ByName :
                \E found \in {UNION {ToSet(search(db, order, Names, PageSize, PageSize * page).data) : page \in Pages}} :
                    /\ \A x \in Calls :
                         StopRow(db, x.stop) # {} =>
                            LET parent == ParentOf(db, x.stop)
                                top    == IF parent = Null THEN x.stop ELSE parent
                            IN  \A s \in StopRow(db, top) : s.name \in Names /\ ~Mixed(top) =>
                                    \E e \in found : x.route \in e.routes /\ x.stop \in board[e.stop]
                    /\ \A e \in found : ~Mixed(e.stop) =>
                         e.routes \subseteq UNION {RoutesOf(db, s) : s \in board[e.stop]}

\* The exception is not one the documentation makes: "clicking a merged stop shows
\* arrivals from all co-located platforms".  (It does not hold: the board of a
\* station is its platforms', and a stop that was merged with it is on no board but
\* its own.)
MergedStopShowsAll ==
    Of("stops") =>
        \A order \in ByName : \A e \in ToSet(search(db, order, Names, Cardinality(db.stops), 0).data) :
            e.routes \subseteq UNION {RoutesOf(db, s) : s \in effectiveStopIds(db, e.stop)}

\* Every stop that a board merges has the same board: it does not matter which of
\* the platforms, or of the stops at one place, a rider opens.
BoardsAgree ==
    Of("stops") =>
        \E board \in {[s \in {x.id : x \in db.stops} |-> effectiveStopIds(db, s)]} :
            \A s \in DOMAIN board : \A o \in board[s] \cap DOMAIN board :
                ~Mixed(s) /\ ~Mixed(o) => board[o] = board[s]

\* Where trains of a known route stop.
TrainStops == {x.stop : x \in {y \in Served(db) : \E r \in db.routes : r.id = y.route}}

\* The stops around a place: all within the radius have their entry, if they are not
\* too many, and the next train of an entry is looked for at the stops of the board
\* that opens from it: at no other, and at all of them where the entry is of a station,
\* a stop or a whole group.  An entry of a platform shows the next train of that
\* platform alone, though its board is its station's; one of a group of which some
\* stops are too far away, that of the rest; and where a station with platforms was
\* merged with another stop it may be on no board.  Which of the trains of a stop is
\* the next one is not asked here.
NearbyIsOfTheBoard ==
    Of("stops") =>
        \A order \in ByDistance :
            \E entries \in {ToSet(getNearbyStops(db, order, Centre, Radius, Around))} :
                LET within == {s \in db.stops : s.at - Centre \in -Radius .. Radius}
                IN  /\ Cardinality(within) <= Around =>
                         \A s \in within : \E e \in entries : s.id \in e.entry.members
                    /\ \A e \in entries :
                         LET stop  == e.entry.stop
                             board == effectiveStopIds(db, stop) \cap TrainStops
                             whole == {s \in DOMAIN db.group : GroupOf(db, s) = GroupOf(db, stop)} \subseteq e.entry.members
                         IN  ~Mixed(stop) =>
                                /\ e.trainsOf \cap TrainStops \subseteq board
                                /\ ParentOf(db, stop) = Null /\ whole => board \subseteq e.trainsOf
----------------------------------------------------------------------------
(***************************************************************************)
(* Routes.                                                                 *)
(***************************************************************************)
TripsOf(route) == {t \in db.trips : t.route = route /\ StopCount(db, t) > 0}

\* A route that has trips is listed and its page opens: the longest trip of every
\* direction and headsign of at least half the route's longest is a branch, and
\* every stop of its outbound branches is on the page, by name, wherever the short
\* turns and forks are.  Its shape is that of one of its trips.
RouteOpens ==
    Of("route") =>
        \A r \in {x \in db.routes : TripsOf(x.id) # {}} : \A sorted \in BranchReps(db, r.id) :
            \E branches \in {findOne(db, r.id, sorted)} : \E page \in {RoutePage(db, branches)} :
                LET NamesOf(stops) == {x.name : x \in {y \in db.stops : y.id \in ToSet(stops)}}
                    onPage == NamesOf(page.shared) \cup UNION {NamesOf(page.sections[i]) : i \in DOMAIN page.sections}
                    Count(t) == StopCount(db, t)
                IN  /\ r \in Listed(db)
                    /\ \A t \in TripsOf(r.id) : (\A o \in TripsOf(r.id) : 2 * Count(t) >= Count(o)) =>
                         \E b \in ToSet(branches) : <<b.label, b.directionId>> = <<t.headsign, t.direction>>
                    /\ \A b \in ToSet(branches) : b.directionId = 0 => NamesOf(b.stops) \subseteq onPage
                    /\ \A points \in getShape(db, r.id) :
                         \E t \in TripsOf(r.id) : t.shape # Null /\ points = {p \in db.shapes : p.shape = t.shape}
----------------------------------------------------------------------------
(***************************************************************************)
(* Service days.                                                           *)
(***************************************************************************)
\* What the rows of calendar.txt and calendar_dates.txt say.
InService(service, date) ==
    \/ \E e \in case.calendar_dates : e.service_id = service /\ e.date = date /\ e.exception_type = 1
    \/ /\ \E x \in case.calendar :
             /\ x.service_id = service /\ Readable({x.start_date, x.end_date}, {})
             /\ x.start_date <= date /\ date <= x.end_date
             /\ x.days[((date + 6) % 7) + 1] = 1
       /\ ~\E e \in case.calendar_dates : e.service_id = service /\ e.date = date /\ e.exception_type = 2

Services ==
    ({x.service_id : x \in case.calendar} \cup {e.service_id : e \in case.calendar_dates}) \ {Blank, Malformed}

\* Noon of a date by the clock on the wall, which changes at two.
Noon(midnight, date) ==
    CHOOSE now \in midnight[date] .. midnight[date + 1] :
        LET passed == now - midnight[date]
        IN  (IF passed < 4 THEN passed ELSE passed + 48 - case.length[date]) = 24

\* Times of day count from twelve hours before noon, and the trip that is under way
\* is the one that the service finds, on whichever side of midnight it is and
\* whenever the clocks change.  Not so in the last hour before the day on which they
\* go forward, whose first hour of service it is; trips that run past 46:59 are not
\* looked for.
DayFound ==
    Of("day") =>
        \E midnight \in {Midnight(case.length)} :
            \A service \in Services : \A date \in {d \in 2 .. LastDate - 2 : InService(service, d)} :
                \E start \in {Noon(midnight, date) - 24} :
                    \A first \in Starts, long \in Durations :
                        /\ GtfsTimestamp(midnight, date, first) = start + first
                        /\ \A now \in start + first .. start + first + long :
                            now >= midnight[date] =>
                                currentServiceDate(midnight, db.calendars, db.calendar_dates,
                                                   [service |-> service, last |-> first + long], now) = date
----------------------------------------------------------------------------
(***************************************************************************)
(* Alerts.                                                                 *)
(***************************************************************************)
\* A stop and its station, or one platform and its station; known with a lookup only.
Akin(s, o) == s = o \/ (case.lookup /\ \E y \in db.stops : {y.id, y.parent} = {s, o})

\* The alert names the stop, its station or one of its platforms, or a whole line that
\* serves the stop.
About(e, s, failed) ==
    \E ie \in e.entities :
        \/ ie.stopId # Null /\ Akin(s, ie.stopId)
        \/ ~failed /\ ie.routeId \in RoutesOf(db, s) /\ ie.stopId = Null /\ ie.tripId = Null

InForce(e, now) ==
    e.periods # {} => \E p \in e.periods : ~(p.start # Null /\ now < p.start) /\ ~(p.end # Null /\ p.end < now)

\* The text is in English, or in no language that is named, if there is such a one.
IsEnglish(header, translations) ==
    LET English == {k \in DOMAIN translations : translations[k].language \in {"en", "en-US", Null}}
    IN  IF English = {} THEN header = Null
        ELSE \E k \in English :
                /\ header = translations[k].text
                /\ translations[k].language = "en" \/ \A j \in English : translations[j].language # "en"

\* An alert is on the page of every stop it is about: the stop it names, its station
\* and platforms, every stop of a line it names as a whole; and on no other.  Its
\* detail may be lost with a feed that cannot be walked, the alert may not.
AlertReaches ==
    Of("alert") =>
        LET lookup == IF case.lookup THEN db.stops ELSE NoLookup
            alerts == parseAlerts(case.feed, lookup, readAlertEffectDetails(case.feed))
            torn   == \E i \in DOMAIN case.feed : case.feed[i].torn
        IN  \A s \in {x.stop_id : x \in case.files.stops}, failed \in BOOLEAN, now \in Moments :
              \E shown \in {StopPageAlerts(db, alerts, s, failed, now)} :
                \A i \in DOMAIN case.feed :
                    LET e == case.feed[i]
                        urgent == \/ e.severity = "SEVERE"
                                  \/ e.effect \in URGENT_EFFECTS
                                  \/ ~torn /\ englishText(e.detail) \in URGENT_EFFECT_DETAILS
                    IN  /\ (\E x \in shown : x.alert.alertId = e.id)
                               <=> About(e, s, failed) /\ ~e.deleted /\ InForce(e, now)
                        /\ \A x \in shown : x.alert.alertId = e.id =>
                             IsEnglish(x.alert.header, e.header) /\ x.urgent = urgent
=============================================================================
