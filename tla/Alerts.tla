-------------------------------- MODULE Alerts --------------------------------
(***************************************************************************)
(* Service alerts from the feed to the page: parseAlerts and               *)
(* readAlertEffectDetails of the worker, getAlerts of the API, with the    *)
(* routes of the stop that the page asks for first.  The poll that writes  *)
(* the parsed alerts to Redis is RealtimeFeed's.                           *)
(*                                                                         *)
(* A text is a sequence of translations [text, language]; an entity of the *)
(* feed is a record [id, deleted, entities, header, detail, effect,        *)
(* severity, periods, torn], torn if its bytes cannot be walked.  Absent   *)
(* and empty fields are Null.                                              *)
(***************************************************************************)
EXTENDS StopQueries

CONSTANT NoLookup  \* the worker has no static lookup

URGENT_EFFECTS == {"NO_SERVICE", "DETOUR"}
URGENT_EFFECT_DETAILS == {"DELAY", "SHUTTLE"}

\* Faulty variant: the first translation.
firstText(translations) == IF translations = <<>> THEN Null ELSE translations[1].text

\* "en", then "en-*", then an untagged translation, never just the first.
englishText(translations) ==
    LET In(language) == {k \in DOMAIN translations : translations[k].language = language}
        best == CASE In("en") # {} -> In("en")
                  [] In("en") = {} /\ In("en-US") # {} -> In("en-US")
                  [] OTHER -> In(Null)
    IN  IF best = {} THEN Null
        ELSE translations[CHOOSE k \in best : \A j \in best : k <= j].text

\* The effect details by entity id; none at all if the feed cannot be walked.
readAlertEffectDetails(feed) ==
    LET named == {i \in DOMAIN feed : feed[i].id # Null /\ englishText(feed[i].detail) # Null}
        last(id) == CHOOSE i \in named : feed[i].id = id /\ \A j \in named : feed[j].id = id => j <= i
    IN  IF \E i \in DOMAIN feed : feed[i].torn THEN [id \in {} |-> Null]
        ELSE [id \in {feed[i].id : i \in named} |-> englishText(feed[last(id)].detail)]

\* Every informed stop with its station and its platforms.
Widened(stop, lookup) ==
    LET stops == IF lookup = NoLookup THEN {} ELSE lookup
    IN  ({stop} \cup {s.parent : s \in {x \in stops : x.id = stop}}
                \cup {s.id : s \in {x \in stops : x.parent = stop}}) \ {Null}

parseAlerts(feed, lookup, effectDetails) ==
    LET Parse(e) ==
            [alertId      |-> e.id,
             header       |-> englishText(e.header),
             effect       |-> e.effect,
             effectDetail |-> IF e.id \in DOMAIN effectDetails THEN effectDetails[e.id] ELSE Null,
             severity     |-> e.severity,
             periods      |-> e.periods,
             informed     |-> e.entities,
             routeIds     |-> {ie.routeId : ie \in e.entities} \ {Null},
             stopIds      |-> UNION {Widened(ie.stopId, lookup) :
                                        ie \in {x \in e.entities : x.stopId # Null}}]
    IN  {Parse(feed[i]) : i \in {j \in DOMAIN feed : ~feed[j].deleted}}
----------------------------------------------------------------------------
isAlertActive(alert, now) ==
    alert.periods = {} \/ \E p \in alert.periods : (p.start = Null \/ p.start <= now) /\ (p.end = Null \/ p.end >= now)

\* Faulty variant: an alert for a stop or a trip of the route is one for the route.
isRouteAlert(alert, routes) == \E ie \in alert.informed : ie.routeId \in routes

isRouteWideAlert(alert, routes) ==
    \E ie \in alert.informed : ie.routeId \in routes /\ ie.stopId = Null /\ ie.tripId = Null

isUrgentAlert(alert) ==
    \/ alert.severity = "SEVERE"
    \/ alert.effect \in URGENT_EFFECTS
    \/ alert.effectDetail \in URGENT_EFFECT_DETAILS

\* Of the route, of the stop, or of both, where they are given; routes: the routes
\* that the caller says serve the stop.
getAlerts(alerts, routeId, stopId, routes, now) ==
    LET shown == {a \in alerts : /\ isAlertActive(a, now)
                                 /\ routeId = Null \/ routeId \in a.routeIds
                                 /\ stopId = Null \/ stopId \in a.stopIds \/ isRouteWideAlert(a, routes)}
    IN  {[alert |-> a, urgent |-> isUrgentAlert(a)] : a \in shown}

\* getRoutesForStop; none if the request for them fails.
RoutesForPage(db, stop, failed) == IF failed THEN {} ELSE RoutesOf(db, stop)

\* The alerts that the page of a stop shows.
StopPageAlerts(db, alerts, stop, failed, now) ==
    getAlerts(alerts, Null, stop, RoutesForPage(db, stop, failed), now)
=============================================================================
