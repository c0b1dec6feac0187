# Formal model of transit-tracker

TLA+ modules that model transit-tracker from the GTFS files to the pages of the
frontend: its concurrent core, its caches and its rules. With them come the TLC
configurations that check them on small instances, and TLAPS proofs of the
results that matter most. `PROJECT.json` maps every definition that models code
to the lines it stands for and lists the runs, the faulty variants (*mutants*)
that each property is known to catch, the hazards, findings and theorems.

    tlc -workers 2 -config StaticLoad.cfg MCStaticLoad     # one run
    tlapm StaticLoad_proofs.tla                            # one proof module

## 1. The system

| Component | State it keeps | Operations | Talks to |
|---|---|---|---|
| Static load (`GtfsStaticService`) | none; the database holds the agency's rows, `agencies.data_version`, an advisory lock per agency | `ingestAgency`: download, lock, stage in temporary tables, check, swap, clean up, ANALYZE | publisher (HTTP), Postgres |
| Scheduler (`IngestionScheduler`) | `isStaticIngestionRunning`, `isRealtimePollRunning` | `runStaticIngestion` (cron, startup), `runRealtimePoll` (every 15 s) | all parts of the worker |
| Static lookup (`StaticLookupService`) | `lookups`: trip ids and the stop hierarchy, per agency | `get` (by the parsers), `refresh` (after a load) | Postgres |
| Liveness (`WorkerLivenessService`) | `lastAliveAt`, a file | `markAlive`, `check` (watchdog, every 30 s) | Docker (exit, healthcheck) |
| Realtime feeds (`GtfsRealtimeService`, `writeTripUpdates`) | `lastWrittenFeedTimestamp`; Redis: `trip_updates:v2`, `added_trips:v2`, `trip_updates:feed_ts`, `alerts`, `vehicles` | three polls per agency | CDN (HTTP), Redis, lookup |
| Arrivals of a stop (`StopsService.getArrivals`, `mergeRealtime`, `reconcileAddedTrips`, `selectUpcoming`) | none; a 5 s response cache in Redis | one request: SQL, three Redis reads, merge, reconcile, select | Postgres, Redis |
| GTFS files and derived tables (`gtfs-rows.ts`, `colocated.ts`, `buildDerivedTables`) | the rows of a load: `route_stops`, `route_branches`, `colocated_group_id` | which rows are kept, what is derived from them | the static load |
| Stop and route queries (`StopsService`, `RoutesService`, the route page) | none | `search`, `getNearbyStops`, the stops of a board, `findAll`, `findOne`, `getShape` | Postgres |
| Service days (`service-day.ts`, `TripsService`) | none | candidate days, active services, GTFS times as timestamps, the service day of a trip | SQL |
| Alerts (`parse-alerts.ts`, `effect-detail.ts`, `AlertsController`) | none | parse, widen to stations and platforms, filter for a page | lookup, Redis |
| API caches (`CacheService`) | Redis keys `cache:*` with TTLs from 5 s to a day | cache-aside `get`/`set`, never throwing | Redis, Postgres |
| Pages of the frontend (board, map, nearby, two searches) | React state, request counters, abort controllers, timers | poll, hide and show, type, move, retry | gateway |
| Vehicles, agencies, migrations, gateway, deployment | - | read a key, list the agencies, baseline schema, proxy, restart policy | Redis, Postgres |

One `worker` process runs the scheduler, the static load, the lookup, the
realtime polls and the watchdog. They share an event loop, so they interleave at
every `await`. Several worker processes may exist at a time (a deployment that
replaces one, a load started by hand), and only Postgres keeps them apart. The
API services keep no state of their own; they meet the worker in Postgres and
Redis. Redis has no persistence and evicts (`allkeys-lru`). Docker restarts a
process that exits, not one that is unhealthy.

What is hard here, and what makes each part correct:

- **Static load**: two loads, a lost connection whose session lives on in the
  server, or a COMMIT that is applied after the load has failed must never leave
  rows of two feeds, and a bad feed must not replace a good one.
- **Scheduler and lookup**: a lookup that was read before a swap must not survive
  the refresh after it; one failing agency must not stop the others.
- **Liveness**: the watchdog must tell a hung poll from a feed outage.
- **Realtime feeds**: old answers of a CDN, lost replies, wrong clocks and
  expiring keys must not mix two feeds nor serve dead predictions.
- **Arrivals**: every train that comes is on the board once, at the right time,
  and none that does not come, whatever way the agency publishes it.
- **Derived tables and queries**: what a stop is merged with is decided in the
  load, in the search and for a board, each in its own way; a train must be on a
  board that the search leads to, and a route's page must have its stops, whatever
  rows of the files were malformed.
- **Service days**: a trip under way belongs to yesterday or to today, also when the
  day has 23 or 25 hours.
- **Alerts**: an alert reaches every page it is about and no other.
- **API caches**: nothing is invalidated by a swap; the times to live alone must
  bound how old an answer is, and a 404 must be true.
- **Pages**: answers that come late, out of order or not at all must not replace
  later ones for longer than the next poll, nor leave a page loading.

## 2. The modules

| Module | Models | Checked by | Proved in |
|---|---|---|---|
| `AgencyData` | abstract: an agency's rows are replaced as a whole, counted, by a feed that passed the check against the rows it replaced | refined by `StaticLoad` | - |
| `StaticLoad` | `gtfs-static.service.ts`: `ingestAgency` and all it calls | `MCStaticLoad` | `StaticLoad_proofs` |
| `IngestionWorker` | `ingestion.scheduler.ts`, `static-lookup.service.ts` | `MCIngestionWorker` | `IngestionWorker_proofs` |
| `WorkerLiveness` | `worker-liveness.service.ts` and the ticks of the scheduler, timed | `MCWorkerLiveness` | `WorkerLiveness_proofs` |
| `RealtimeFeed` | `gtfs-realtime.service.ts`, `realtime/write-trip-updates.ts` | `MCRealtimeFeed` | `RealtimeFeed_proofs` |
| `TripUpdates` | `realtime/parse-trip-updates.ts`: operators from a feed to the two Redis hashes | `MCArrivals` | `Arrivals_proofs` |
| `StopBoard` | `merge-realtime.ts`, `reconcileAddedTrips.ts`: operators from rows and hashes to a board | `MCArrivals` | `Arrivals_proofs` |
| `Trains` | external: the trains, their timetable, and the feed an agency makes of them | `MCArrivals` | `Arrivals_proofs` |
| `Arrivals` | `getArrivals` and `batchGetNextArrivals` of `stops.service.ts`, beside the worker and the clock; extends the three above | `MCArrivals` | `Arrivals_proofs` |
| `GtfsTables` | `static/gtfs-rows.ts`, `static/colocated.ts`, `buildDerivedTables`: operators from files to tables | `MCRules` | `Rules_proofs` |
| `StopQueries` | the queries of `stops.service.ts` and `routes.service.ts` over those tables, and the route page; extends `GtfsTables` | `MCRules` | `Rules_proofs` |
| `ServiceDays` | `service-day.ts`, `currentServiceDate` of `trips.service.ts`; extends `GtfsTables` | `MCRules` | `Rules_proofs` |
| `Alerts` | `parse-alerts.ts`, `effect-detail.ts`, `alerts.controller.ts`, the page of a stop; extends `StopQueries` | `MCRules` | `Rules_proofs` |
| `Rules` | loads the files of a case, asks the four modules above, and states what must be true of the answers; extends `ServiceDays` and `Alerts` | `MCRules` | `Rules_proofs` |
| `ApiCache` | the cache-aside reads of all endpoints, with `nest/cache.ts` | `MCApiCache` | `ApiCache_proofs` |
| `Pages` | the pages of the frontend that fetch, `usePolling`, `useDebounce` | `MCPages` | `Pages_proofs` |

Definitions named "Faulty variant" are plausible bugs. Nothing refers to them;
each is put in the place of the definition that follows it to see that the
property is violated then.

### StaticLoad

State: per worker process, `pc` (where `ingestAgency` stands), the session of its
query runner, the downloaded feed, and how the last load ended as its caller sees
it. Per database session, who knows it (`pooled`, `used`, `leaked`, `orphan`), how
often it holds the advisory lock, its staging tables, and its transaction: the
table it works on, the rows it has deleted and inserted so far. The committed
rows are `live`.

One action per statement that other sessions can tell apart: the DELETE takes its
snapshot (`DeleteRows`) and ends (`RowsDeleted`) in two steps since it waits for
other transactions in between; the INSERT keeps rows whose unique key is free.
Staging touches only session-private tables, so `copyIntoStage` and
`buildDerivedTables` are one step. `CopyIntoStage` brings in the feed's rows as a
whole: parsing is abstracted to `Rows[f][t]` and the count `Staged[f][t]`, which may
be larger (`ON CONFLICT DO NOTHING`).

Failures: `FailBeforeLock`, `LockQueryFails` (outside the `try`, so the query runner
leaks), `StatementFails`, a failing DROP or unlock (logged only), `ConnectionLost`
and `Crash` (the session lives on as an orphan with its lock and transaction until
`SessionEnds`; a COMMIT under way may be applied by `LateCommit`).

### IngestionWorker

`staticAt`/`stage` is the static run over the agencies, `pollAt`/`pollPc` the realtime
poll with the feeds of one agency side by side, `load[l]` the two queries of a `load()` under
way: one per feed's `get`, one for the `refresh`. The lookup of an agency is known by the feed its
trips and its stops were read from. `refreshed` and `raced` are history: which feed
a refresh found, and whether a poll's load was under way when it returned.

### WorkerLiveness

Time in steps of five seconds: ticks every 15 s, an agency takes at most
`AgencyTime` (the fetch timeout of ten seconds) unless it hangs on something without a
time limit, the watchdog looks every 30 s and exits after more than three minutes.

### RealtimeFeed

One feed (`label`) of one agency. The environment answers with any timestamp in
`Stamp` or none, Redis loses keys at any time and expires them with the clock, and a
write may be applied without its reply (`WriteFails`, `Crash`). `last` is
`lastWrittenFeedTimestamp`, which `markFeedWritten` (`Note`) sets for trip updates and alerts;
`acked` is history: the last feed, of whatever label, whose write this process knows of
(`Known`). `NoStaleOverwrite` is about both hashes, `data` and `added`, of trip updates and
alerts, the feeds that `isFeedFresh` looks at.

### TripUpdates, StopBoard, Trains, Arrivals

The properties of a board are about trains, so the model has them: `plan` says how
late each train runs and in which style its agency publishes it (all times,
arrivals, departures or a delay only, child platforms without a sequence, no data,
skipped, canceled, ADDED, under an unknown trip_id, as a copy, not at all). `Feed` is
what the agency publishes at a moment: the stops that trains have ahead of them.
`Publish` puts a parsed feed into Redis, with or without a static lookup; how it gets
there is `RealtimeFeed`'s subject.

A request is one action per read and per step: `Request` or `NearbyRequest` (the SQL), `ReadTrips`
(HMGET), `ReadAdded` (HGETALL, then the merge), `Reconcile` (one turn of the loop of
`reconcileAddedTrips`), `Respond` (`selectUpcoming`). Either read may fail, and a new
feed may be written between them. Rows, arrivals and boards are sets of records.
Where the code depends on the order of rows that SQL leaves open (ties of two slots,
equal times and trip_ids), the model makes any choice. A line is a route and a
direction (the parser fills in both from the lookup's row of a trip, or takes both as
published); the SQL's active services are the constant `InService`.

A board and the next train of a stop nearby go by the same merge, but not by the same rows,
so `nearby` says which of the two a request is for. A board takes every late row of the window and
the first `3 * Limit` others (`ScheduledRows`); a next train the latest `NearbyLate` and the
first `NearbyUpcoming` rows of each platform (10 and 6 in the code), in no order, reconciles a
stop by itself and selects one (`NearbyRows`, `cappedLimit`). Of rows at the same time any may be
cut off. All properties are asked of both; what they promise of a row is only of the rows that the
request has fetched (`Fetched`). What a request for many stops does beyond that is left out: all its
stops share one pair of reads; an entry of a group shows the earliest of its members, which are
boards of their own here; a platform that is an entry of its own takes ADDED trains that name
the platform and none that name a sibling; and a station without children asks for itself.

What the constants are assumed to be, and why. `TrainsAssumption`: a trip_id and a day
make one train, as the primary key of `trips` does; the trip_ids of added trains are new and
each is one train's own; a train's stops are in the order of its times, and it leaves
each no later than it comes to the next; a platform is of the station it stands
for. `BoardAssumption`: the board of a stop that has a station is the station's, of all the
stops of it that trains use (`getArrivals` resolves a platform to its parent first), and no
train stops at a station itself. `PlansAssumption` is about the publisher: a copy is of a trip
in static GTFS; a train that static GTFS does not have is
published as one that was added (or renamed, or as a copy, or not at all); only a trip
that runs on one day lacks its start date, and only one that visits the board once, and
no other platform that would be taken for that visit, lacks its sequences, because the
code cannot tell two days or two visits apart then. `NoneAssumption` and
`SnapshotAssumption` say that the value for "nothing" is none of the data.

### GtfsTables, StopQueries, ServiceDays, Alerts, Rules

Pure rules, so they are operators, and `Rules` has the state machine: a `case` holds
the files of a feed, one step loads it (`STAGED_TABLES`, `buildDerivedTables`), and
the properties ask the queries of what is then in the tables. A file is a set of rows
whose cells are `Blank`, `Malformed` or a value; a `TableSpec` becomes the set of the rows
it keeps. Sorting, limits, offsets and ties are those of the code; where SQL leaves
the order open (the scan of the stops that the grouping is greedy over, branches of one
length, stops of one name or as far away) the model takes every order. A stop is on a
line and the merge radius is its unit; texts that match a query are a set of names; times
are half hours and `length` says how many a day has. Of an entry of `getNearbyStops` the model keeps
the stops whose trains it shows the first of (`trainsOf`, the `expanded_stops` of its members);
which train that is is the subject of `Arrivals`. Loops over a sequence
(`Filter`, the groups, the midnights) are recursive functions, so that they can be proved about.

The cases are constants, which `MCRules` gives in thousands of small feeds and
`Rules_proofs` leaves open. What they are assumed to be, and why. Of every feed
(`StationsAreSound`): a `stop_id` is that of one row, as the primary key of `stops` makes it;
a station has no station, and no train stops at one, as GTFS has it (`location_type` 1;
boarding areas within platforms, which GTFS allows, would be a second level that
`getArrivals` does not follow). `StopCasesAssumption`: places, times and limits are
numbers, and a page has at least one stop (pages of none have no result on them). `RouteCasesAssumption`:
a `trip_id` is that of one row and stands for its place in the order of the texts; sequences are
numbers, a feed finite. `DayCasesAssumption`: a day has 23 to 25 hours and the clocks change
before noon; a trip is over at 46:30 and takes no more than 21 hours, so that yesterday's run is out
of the late window when today's begins. `AlertCasesAssumption`: entity ids are unique, as
GTFS-realtime has it; the value for "absent" is no time, id or detail.

### ApiCache

`endpoint` is the one that is asked (they share no key), `present[f]` the subjects that
feed f has. An answer is known by the feeds that its queries read, in order. `Miss` and
then one `Query` per SQL statement, as many as the endpoint makes at most, so that a swap comes in
between (those that look up the stops of a board, one after the other, count as one, and so do
those for the names of ADDED trains); `NotFound` where a
query without a row throws a 404 (for the agency of a board, the route, the trip), `Fails` for a 500, `Finish` with `Keep` for the `set`
that does nothing while Redis is away. `past[f]` is history: how long ago feed f was
replaced. A tick ages keys and requests alike; the times to live of 5 s to a day are
ordered as in the code, not to scale, and `ComputeTime` bounds a request.

### Pages

`net` is the requests under way, oldest first, each with what it was for, its age,
whether it is the newest and whether the outcome of a later one has been there before
(`overtaken`). `Fetch`, `FetchStops` and `Search` are the ways to ask, `Takes` who may
update the page: on the board of a stop only the newest (`isCurrent`), elsewhere any;
only the search for stops aborts, and the `finally` of what it aborts hides the skeleton
of what it begins. `error` is the message, and `failures` is history: of a search, whether its
newest request failed since it was sent, or one before it. `poll` is the interval's timer, `wait` the debounce. A tick happens
when nothing is due. Request and answer of a page are one request; that of its alerts is
asked beside it with `Promise.all`.

## 3. What is checked

| Run | Bounds | Shows |
|---|---|---|
| `static_load` | 2 workers with one session each, 2 tables (a core table and a calendar), 4 feeds, 1 swap | `WholeFeed`, `CheckStillHolds`, the inductive invariant `LoadInv`, and that every behaviour is one of `AgencyData` |
| `static_load_liveness` | 2 workers, 1 feed | loads end, locks are given up |
| `static_load_analyze` | as `static_load` | finding 1 |
| `ingestion_worker` | 2 agencies, one with one realtime feed, 2 and 1 swaps, 1 restart | `LookupNotBehind`, `LookupComesBack`, `EveryAgencyHasItsTurn` |
| `worker_liveness` | 5 agencies, the code's timers | `OutageDoesNotRestart`, `StuckWorkerEnds`, `LoopEndsOrRestarts` |
| `realtime_feed` | 2 polls, 5 timestamps, 8 time steps, limits of 1 to 4 steps | `OneFeedInRedis`, `ServedAge`, `NotBlocked`, `NoStaleOverwrite` |
| `arrivals` | 2 subway trains, a loop with 3 visits on 2 overlapping service days, a copy, a later bus; boards of 3, next trains of 1 late and 2 other rows; 6 minutes; 48 plans; 81 289 states | `TrackedTrains`, `TrueDelay`, `NoGhosts`, `NotTwice`, `ScheduledShown` |
| `arrivals_claims` | as `arrivals` | finding 2 |
| `rules` | 20 736 states: stops (5 stops, a station or none, 2 routes, every set of stops served), routes (3 trips of 7 lines), days (8 dates, one of 23 or 25 hours, exceptions), alerts (2 entities, 3 languages) | `SearchLeadsToTrains`, `BoardsAgree`, `NearbyIsOfTheBoard`, `RouteOpens`, `DayFound`, `AlertReaches` |
| `merged_stops` | as `rules` | finding 3 |
| `api_cache` | 8 endpoints, 2 clients (symmetric), 1 subject, 2 limits, 2 feeds, answers within 1 tick | `BoundedStaleness`, `NotFoundIsTrue`, `AnswersItsRequest` |
| `pages` | 5 pages, answers within 0 to 4 ticks (up to 20 s), 1 request under way when the user asks again | `NeverBack`, `CatchesUp`, `Settles` |

Why the bounds are enough. *StaticLoad*: interference is between two loads; a third
would only meet one of the two. Two tables are the least for a half-done swap, and
one of each kind makes every clause of the row-count check matter; the four feeds
are one with a repeated key, one of exactly half its size, one too small for the
first but not for the second, and one without a calendar. `MaxVersion` bounds the
loads that start, not those under way, so both workers still get to swap.
*IngestionWorker*: a feed of the agency beside its refresh is what races, two swaps are
one before and one after it, and a second agency is there for the turns; two feeds at a
time, whose loads race with each other too, are in the proof. *WorkerLiveness*: five agencies, as many as leave
room below the limit and make skipped ticks happen. *RealtimeFeed*: the timestamps
lie on both sides of both limits at some time, and two polls are one that runs and
one that a tick might start beside it. *Arrivals*: an ADDED train interferes with its
own slot and the next one, so two trains of a line are the least, with delays on both
sides of the point where the next slot is closer (window 2, slots 3 apart); the loop
has a first visit without arrival, a second and a drop-off, and its next run begins
before it ends; `Limit` is 3 so that a fourth row makes the board full, and there are ten
rows, so that the `3 * Limit` of the query cut one off, of two at the same time; a next train has more late
and more other rows than `NearbyLate` and `NearbyUpcoming`; the clock runs
until the late train has been at the stop. All times of the code (grace, window,
TTL) are there, in units of about a minute. *Rules*: a station with two platforms beside
two stops of the same name, of which one is too far, is the least in which the groups of
the load, of the search and of a board can differ; three trips make a trunk, a fork and
a short turn; a week and a day with a change of the clocks before, on or after the date
that is asked about. *ApiCache*: two clients, since an answer kept by one is given to the
other while it asks itself; two feeds, the one replaced and the one live; the rest is in
the proof. *Pages*: an answer may take longer than the poll interval of the board
(3 ticks) and so be overtaken, but not than two, which would repeat the same race.

Fairness. Safety runs have none. *StaticLoad*: a statement is answered or its
connection is lost, a download is cut off by its timeout (weak fairness of
`Proceed`); strong fairness of `SessionEnds`, since an idle connection is closed by
the pool after ten seconds while loads are a day apart, and of `UpsertAgency`, since
Postgres queues waiting transactions. No failure has to happen. *IngestionWorker*:
timers tick for ever, a load and a query end somehow, fetches are aborted after ten
seconds; that an agency's feeds answer again and again is an assumption on the
publisher, used by `LookupComesBack` only. *WorkerLiveness*: the clock advances.

`ApiCache` and `Pages` state no fairness: their liveness is in time, as bounds on ages
(`BoundedStaleness`, `CatchesUp`) that a tick may not pass.

Findings (the runs that end in a violation):

1. `static_load_analyze`: ANALYZE runs after the commit, but its failure is reported
   as "live data unchanged", and the lookup is not refreshed.
2. `arrivals_claims`: ascending order does not make an ADDED train claim its earlier
   slot, as `docs/architecture.md` says. A train that is late by more than half the
   headway takes the slot of the next one; that one is shown as extra service, and the
   first slot is left on the board although no train comes.
3. `merged_stops`: a stop is merged with a station of its name that is near and shares a
   route. `docs/architecture.md` says that "clicking a merged stop shows arrivals from all
   co-located platforms"; the board of a station shows its platforms only.

Known limits, which the properties name as exceptions rather than runs of their own:

- A lookup load that a poll began before a swap can end after the refresh and bring the
  previous feed's trip ids back until the next static run (`raced` in `LookupNotBehind`).
- A write that Redis applied but whose reply was lost is not remembered as written, so an
  older feed is accepted next; so is one after a restart. `NoStaleOverwrite` is about the
  writes the process knows of; `ServedAge` bounds how old such a feed can be.
- On some lines one train hides another, and `TrackedTrains` counts the other ones
  (`Distinct`). Of several DUPLICATED copies of a trip the board shows one, since
  `selectUpcoming` takes them for visits of one trip. An ADDED subway train becomes the
  visit whose slot it takes: where the trip stops at the board twice, only the earlier one of
  the two visits is shown, and where the trip only ends there the train is not shown at all.
  Every line of the `arrivals` run is `Distinct` in every plan, so that the run leaves nothing
  out.
- The board of a stop takes no answer but to its newest request: while every answer takes
  longer than the poll interval it never updates (`CatchesUp` excepts `overlaps`). The map
  and the stops nearby take any answer and may go back to an older one then; the home page
  aborts no search, so an older answer may come last and stay (`overtaken` in `Settles`).
- The home page says "Failed to load routes" although the search for what is in the field
  succeeded, if an older search fails after the newer one was sent: the error is set by any
  request and only cleared when one is sent (`src/frontend/src/app/page.tsx:46-60`, `87-107`;
  `failures` in `Settles`).
- Positions of vehicles are written whatever their timestamp
  (`src/services/ingestion/src/gtfs-realtime.service.ts:137-168`), so an older feed may
  overwrite a newer one; `NoStaleOverwrite` is about trip updates and alerts, `OneFeedInRedis`
  and the expiry of the key are asked of all three.
- The next train of an entry nearby is that of the entry's own stops: a platform's alone although its
  board is its station's, that of the members within the radius where a group is partly too
  far away, and of a station that was merged with another stop maybe a train that is on no
  board (`NearbyIsOfTheBoard` names the three). Where more than ten trains of a platform are
  late, a next train is looked for among the last ten.
- `docs/architecture.md:158` gives responses 5 to 300 s in the cache; the code keeps those of routes
  for an hour and the routes of a stop for a day. `BoundedStaleness` bounds the age by whatever
  the endpoint has (`Ttl`), and does not say that it is short.
- More than eighteen agencies that time out together outlast the watchdog's three minutes
  (`TimingAssumption` leaves them out), and ten leaked query runners stop all loads of a worker (`LoadEnds`
  excepts an exhausted pool).
- The key of nearby stops leaves out the limit, so an answer to another limit is given
  (`AnswersItsRequest` excepts it).
- In the last hour before a day on which the clocks go forward, the first hour of that
  day's service is looked for on the day before (`DayFound` asks from midnight on).
- The platforms of a station whose own row was dropped are shown by no search.
- The search sorts by `stop_name` only. Stops of one name may come in another order with
  each query, so that a stop is on two pages and another on none; `SearchLeadsToTrains` is
  about the pages of one order.

Limits of the schedule merge that follow from the feed and are preconditions of the
properties: a train published by platforms without sequences can not be known to have
passed a stop (`NoGhosts` is not about it); one that is at the board twice, say at two
co-located stops, and has left the first of them early would still be shown there with the
time of the second, so `PlansAssumption` leaves it out (`TrueDelay` would not hold of it);
and a feed without start dates puts the prediction on every service day the trip_id runs.

## 4. What is proved

TLAPS proves for every value of the constants that meet the assumptions named in
the modules:

- `StaticLoad_proofs`: `LoadInv` is an invariant (`LoadInvariant`), with it
  `WholeFeed`, `CheckStillHolds`, type correctness, and that `StaticLoad` implements
  `AgencyData`. `WholeFeed` alone is not inductive. The argument: a query runner is the only user of a
  session of its pool (`SessionInv`); the session-level lock is held by one session
  at most, and by every load past the lock query (`LockInv`); so while a load is
  between its check and its commit no other transaction is open, live rows stay what
  the check compared with (`CheckStillHolds`), the DELETE's snapshot is all of the
  live rows, and every table the transaction has been through holds exactly the
  staged feed (`SwapProgress`). An orphan that may still commit has done all of
  this and keeps the lock (`TxnInv`, `ReadyToCommit`).
- `WorkerLiveness_proofs`: types, that no outage makes the watchdog exit provided
  all agencies together take less than the limit, and that no worker outlives a
  stuck loop by more than a watchdog period.

- `IngestionWorker_proofs`: types (no lookup of a feed without trips) and
  `LookupNotBehind`, for any number of agencies, feeds, swaps and restarts. The
  strengthening follows what is in flight: a refresh reads after it has begun
  (`RefreshReadsNew`), so does a poll's load that has not raced with one (`LoadReadsNew`),
  and only a feed that waits in `get` has a load (`Waiting`).
- `RealtimeFeed_proofs`: types, `OneFeedInRedis`, `NotBlocked`, `ServedAge` and
  `NoStaleOverwrite`, for all feeds and limits. The running flag is a lock and the
  watchdog bounds how long a poll holds it (`OnePoll`), so what `isFeedFresh` let through is
  at most a poll older when it is written (`Taken`), and a key expires before its feed is
  older than the limits add up to (`KeysInTime`). `NoStaleOverwrite` is about trip updates
  and alerts, for which the mark that `isFeedFresh` compares with is the last write that is
  known (`Marked`).
- `ApiCache_proofs`: types, `BoundedStaleness`, `NotFoundIsTrue` and `AnswersItsRequest`,
  for all clients, subjects, limits and feeds. What a request has read was replaced no
  longer ago than the request is old (`AskedFresh`), and what is kept gets older only as
  its time to live runs out (`CachedFresh`); feeds are read in their order
  (`AskedInOrder`), and no key holds a 404 or an answer of another key (`CachedInOrder`).
- `Pages_proofs`: types, `NeverBack`, `CatchesUp` and `Settles`, for every bound on the time of an
  answer and on the requests on their way. The newest request is the last one on its way
  and nothing has overtaken it (`NewestLast`); the search for stops, which aborts, and the
  map, whose polls are further apart than its answers take, have at most one on its way
  (`OneAtMost`, with `SentByPoll` for the map); the newest request of a search is for what
  was typed, or its answer is shown, or on the routes page one that was overtaken
  (`StopsFollow`, `RoutesFollow`); and on that page an error is told exactly when a request
  has failed since the newest was sent (`ErrorTold`).

  `CatchesUp` needs to know what will end the time without an answer: on each page either
  the newest request is on its way and no older than that time, or the timer that sends the
  next one runs, and the two together stay within the bound (`MapKeepsUp`, `NearbyKeepsUp`,
  `StopKeepsUp`); what is on its way is for what the page shows (`ForSubject`).
- `Arrivals_proofs`: types, `NotTwice`, `NoGhosts`, `TrueDelay` and `ScheduledShown`, for all
  trains, timetables, plans, boards, windows and limits, those of the next trains nearby among them. First what one feed becomes: the
  parser keeps of a train the stops ahead of it, in order
  (`ParseUpdates`, `AheadIsTail`, `HashesOf`); the lookup of a row finds the entity of
  its own train or none (`RealtimeOfRow`) and in it the stop of its own visit
  (`FoundStop`), so that `MergedRow` can say what the merge makes of every row, style by style;
  the entries of added trains are the trains' first visits still ahead (`EntriesOf`).
  Then the loop: `NotTwice` alone is not inductive, as an extra is put on a board whose slots
  change with the next added train. `IInv` says of every arrival what it was made of
  (`Reconciled`: a merged row, a free slot that one of the added trains took, or an
  extra); that an extra of a subway line was far from every slot that is free now, since
  slots are only ever taken (`FarFromFree`); and that a merged row is gone only if an added
  train of its line, a subway's, took it (`TakenByAdded`). Last the selection: of each trip
  the first visit that is not over, and all of them that come before the last line of a
  full board (`LeastOf`, `Shown`, `BoardOf`).

  In the second half of the module `TrackedTrains`, for the same constants: as many predictions of a
  line and a time as trains that the feeds follow, not more, and not fewer either unless the
  board is full before. No bijection is built; sets of the same size are passed on from step
  to step. The entries of `ReadAdded` are those of the added trains that can still be boarded
  here (`EntriesAre`, `FirstBoardedStop`), each on a `Distinct` line with a trip_id of its own
  (`EntryOnce`). `Counted`, an invariant together with `IInv`, follows the loop: the arrivals
  that are no rows are as many, line by line and time by time, as the entries done; no row
  with a prediction is lost; and a subway's arrivals are alone under their trip_id
  (`CountsExtra` and `CountsTaken` for the two ways a turn may end). At the end the next
  visits with a prediction are those of the rows of followed trains (`TrackedNext`,
  `TrackedOnly`) and the counted arrivals (`AddedNext`), and the selection keeps them
  (`AsManyShown`). TLC checked `Counted` on the instance of `arrivals` before it was proved.
- `Rules_proofs`: `BoardsAgree`, `SearchLeadsToTrains`, `NearbyIsOfTheBoard`, `RouteOpens`,
  `DayFound` and `AlertReaches`, for every feed, calendar, alerts feed and question that meets
  the assumptions of section 2, of any size. The inductive invariant `Inv` says that
  the tables are those that a load makes of the case's files under some scan order. That is all the
  state there is, and the rest is what the operators compute from such tables.

  They compute much of it element by element. The library's induction takes an operator as a
  parameter and cannot be used; instead a least counterexample is taken away (`LeastIndex`), which gives
  induction over a set (`Climb`) and that a function defined step by step exists (`Iteration`).
  On these rest `FilterKeeps` (the filter keeps what is in the set, as often as it is there),
  `GroupsAreGroups` (whatever the scan order, a stop in a group shares it with the stop it
  is named after, which has no station) and `MidnightsKnown`.
  The groups are what `BoardsAgree` needs. For `SearchLeadsToTrains` a call of the files is
  followed to a row of the tables (`CallsServed`), a page (`PagesHave`), the entry of its group
  (`MergedRows`, `SortKeeps`) and the board that opens from it (`CallFound`, `RoutesOnBoard`).
  For `NearbyIsOfTheBoard` a stop whose trains an entry shows is a member of it or the child of
  one (`WhoIsExpanded`, `TrainAtPlatform`), and so on the board of the entry (`TrainsOfEntry`). For `RouteOpens` a longest trip of the lowest id exists (`HighestOf`), so a direction
  and headsign has its branch (`BranchOfTrip`); its stops are rows of the table (`Ranks`,
  `StopsOfTripKnown`), and each is in the trunk that the longest branch shows or in the
  section of its own branch (`PageHas`). For `DayFound` the two candidate dates are compared
  case by case, on either side of midnight (`DayIsFound`). For `AlertReaches` the parsed alert of
  an entity is widened to what is akin to it (`WidenedIsAkin`), and its text and detail are
  those of the first translation of the best language (`EnglishIsEnglish`, `DetailOf`).

Only model-checked:

- All liveness properties (`LookupComesBack`, `EveryAgencyHasItsTurn`,
  `LoopEndsOrRestarts`, and those of `static_load_liveness`), since fairness and ENABLED are out of its
  reach too.

## 5. Plan

Done: every module of the table in section 2. Left, in this order:

1. The vehicles endpoint and the second requests of the pages (their alerts), composed
   with `Pages`.
2. The composition of `ApiCache` with `Arrivals`: how old a prediction is that the board
   shows, from the feed to the page.

## 6. What is not modelled

The zip, the csv reader and the COPY encoding; SQL text and PostGIS distances; response
layout, logging, the generated protobuf bindings and the walk over the bytes of a feed
(a feed that cannot be walked is modelled); rendering, geolocation and the way from page
to page; the vehicles endpoint, which returns one Redis key; the agencies service, the
gateway's configuration, CI scripts and the migration job. Components without a module
are listed with the reason in `PROJECT.json`.
