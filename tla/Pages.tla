-------------------------------- MODULE Pages --------------------------------
(***************************************************************************)
(* What a page of the frontend shows of the answers to its requests: the   *)
(* board of a stop and the map of vehicles, which poll, the stops nearby,  *)
(* which poll and follow the place and the radius, and the searches for    *)
(* stops and for routes, which follow what is typed.  Answers come in any  *)
(* order or not at all; only the board numbers its requests and only the   *)
(* search for stops aborts them.                                           *)
(*                                                                         *)
(* A tick is five seconds on a page that polls and the 300 ms for which a  *)
(* search waits after the last key on the others.                          *)
(***************************************************************************)
EXTENDS Integers, SequencesExt

CONSTANTS
    MaxDelay,  \* bound: the longest that a request may take, in ticks
    MaxNet,    \* bound: requests on their way when the user asks for another
    None

ASSUME PageAssumption == MaxDelay \in Nat /\ MaxNet \in Nat

Page == {"stop", "vehicles", "nearby", "search", "routes"}

Searches == {"search", "routes"}

\* Too short for a search for stops, and a request for all routes.
NoText == ""

\* The places with a radius of the page, or the texts typed.
Subjects(p) ==
    CASE p \in {"stop", "vehicles"} -> {"a"}
      [] p = "nearby" -> {"a", "b"}
      [] p \in Searches -> {NoText, "a", "b"}

\* Faulty variant: the field of a search has no text at first.
Undefined(p) == None

\* What a page is about when it opens.
Opening(p) == IF p \in Searches THEN NoText ELSE "a"

\* Ticks from poll to poll; a search does not poll.
Interval(p) == CASE p \in {"stop", "vehicles"} -> 3 [] p = "nearby" -> 6 [] p \in Searches -> 0

VARIABLES
    page,
    delay,    \* no request takes longer than this
    visible,  \* the tab is
    typed,    \* the text in the field of a search
    wait,     \* ticks until it is debounced
    subject,  \* what the page is about: its stop, its place, the debounced text
    poll,     \* ticks until the interval fires
    net,      \* the requests that were not answered yet, oldest first
    shown,    \* the answer that the page shows
    error,    \* it says that a request failed
    loading,  \* it shows the skeleton
    since,    \* ticks since the page became visible or got its subject
    \* history
    failures  \* of a search: whether its newest request failed, or one before it since

vars == <<page, delay, visible, typed, wait, subject, poll, net, shown, error, loading, since, failures>>

\* Ages count up to the first one that is too old.
MaxAge == Interval(page) + 2 * delay + 1

Older(age) == IF age < MaxAge THEN age + 1 ELSE age

Request == [subject : {"a", "b", NoText}, age : Nat, newest : BOOLEAN, overtaken : BOOLEAN]

ASSUME NoneAssumption == None \notin Request

TypeOK ==
    /\ page \in Page
    /\ delay \in 0 .. MaxDelay
    /\ visible \in BOOLEAN
    /\ {typed, subject} \subseteq Subjects(page)
    /\ wait \in 0 .. 1
    /\ poll \in 0 .. Interval(page)
    /\ net \in Seq(Request)
    /\ \A i \in DOMAIN net : net[i].age <= delay
    /\ shown \in Request \cup {None}
    /\ error \in BOOLEAN
    /\ loading \in BOOLEAN
    /\ since \in 0 .. MaxAge
    /\ failures \subseteq {"newest", "older"}
----------------------------------------------------------------------------
\* A request for s; those before it are no longer the newest.
With(s, requests) ==
    Append([i \in DOMAIN requests |-> [requests[i] EXCEPT !.newest = FALSE]],
           [subject |-> s, age |-> 0, newest |-> TRUE, overtaken |-> FALSE])

\* Faulty variant: the message of the last failure stays.
FetchWithError(s, requests) ==
    /\ net' = With(s, requests)
    /\ failures' = {}
    /\ loading' = IF page \in {"stop", "vehicles"} THEN loading ELSE TRUE
    /\ UNCHANGED error

\* The skeleton of the map and of the board is only that of their first answer.
Fetch(s, requests) ==
    /\ net' = With(s, requests)
    /\ failures' = {}
    /\ loading' = IF page \in {"stop", "vehicles"} THEN loading ELSE TRUE
    /\ error' = IF page \in {"nearby", "routes"} THEN FALSE ELSE error

Init ==
    /\ page \in Page
    /\ delay \in 0 .. MaxDelay
    /\ visible = TRUE
    /\ subject = Opening(page)
    /\ typed = subject
    /\ wait = 0
    /\ poll = Interval(page)
    /\ net = (IF page = "search" THEN <<>> ELSE With(subject, <<>>))
    /\ shown = None
    /\ error = FALSE
    /\ loading = (page \notin {"stop", "search"})
    /\ since = 0
    /\ failures = {}

\* The interval fires; the board does not poll while it is hidden.
Poll ==
    /\ Interval(page) > 0
    /\ poll = 0
    /\ poll' = Interval(page)
    /\ IF page = "stop" /\ ~visible THEN UNCHANGED <<net, loading, error, failures>> ELSE Fetch(subject, net)
    /\ UNCHANGED <<page, delay, visible, typed, wait, subject, shown, since>>

\* onVisibilityChange
Hide ==
    /\ page = "stop"
    /\ visible
    /\ visible' = FALSE
    /\ UNCHANGED <<page, delay, typed, wait, subject, poll, net, shown, error, loading, since, failures>>

\* Faulty variant: the next poll will do.
ShowAndWait ==
    /\ page = "stop"
    /\ ~visible
    /\ visible' = TRUE
    /\ since' = 0
    /\ UNCHANGED <<page, delay, typed, wait, subject, poll, net, shown, error, loading, failures>>

Show ==
    /\ page = "stop"
    /\ ~visible
    /\ Len(net) <= MaxNet
    /\ visible' = TRUE
    /\ Fetch(subject, net)
    /\ since' = 0
    /\ UNCHANGED <<page, delay, typed, wait, subject, poll, shown>>

\* widenSearch, handleManualSearch: the effect of the page starts anew.
Move(s) ==
    /\ page = "nearby"
    /\ Len(net) <= MaxNet
    /\ s # subject
    /\ subject' = s
    /\ typed' = s
    /\ poll' = Interval(page)
    /\ Fetch(s, net)
    /\ since' = 0
    /\ UNCHANGED <<page, delay, visible, wait, shown>>

Type(text) ==
    /\ page \in Searches
    /\ text # typed
    /\ typed' = text
    /\ wait' = 1
    /\ UNCHANGED <<page, delay, visible, subject, poll, net, shown, error, loading, since, failures>>

\* Faulty variant: nothing is aborted.
FetchWithoutAbort(s) == Fetch(s, net)

\* The search for stops aborts its last request, whose finally block then runs after
\* the new one has started and hides the skeleton of it.
FetchStops(s) ==
    /\ net' = With(s, <<>>)
    /\ failures' = {}
    /\ loading' = (net = <<>>)
    /\ UNCHANGED error

\* search, of the two pages
Search(s) ==
    IF page = "routes"
    THEN Fetch(s, net) /\ UNCHANGED shown
    ELSE IF s = NoText
         THEN shown' = None /\ UNCHANGED <<net, loading, error, failures>>
         ELSE FetchStops(s) /\ UNCHANGED shown

Debounced ==
    /\ wait = 0
    /\ typed # subject
    /\ Len(net) <= MaxNet
    /\ subject' = typed
    /\ Search(typed)
    /\ UNCHANGED <<page, delay, visible, typed, wait, poll, since>>

Retry ==
    /\ page = "routes"
    /\ error
    /\ ~loading
    /\ Len(net) <= MaxNet
    /\ Search(subject)
    /\ UNCHANGED <<page, delay, visible, typed, wait, subject, poll, since>>
----------------------------------------------------------------------------
\* Faulty variant: every answer is taken.
TakesAll(i) == TRUE

\* isCurrent
Takes(i) == page = "stop" => net[i].newest

\* The requests before the i-th have been overtaken by its outcome.
Without(i) ==
    RemoveAt([j \in DOMAIN net |-> [net[j] EXCEPT !.overtaken = @ \/ j < i]], i)

Answered(i) ==
    /\ Takes(i)
    /\ net' = Without(i)
    /\ shown' = net[i]
    /\ error' = IF page \in {"stop", "vehicles"} THEN FALSE ELSE error
    /\ loading' = FALSE
    /\ UNCHANGED <<page, delay, visible, typed, wait, subject, poll, since, failures>>

\* The search for stops shows that there are none, that for routes none and the error.
Failed(i) ==
    /\ Takes(i)
    /\ net' = Without(i)
    /\ shown' = IF page \in Searches THEN net[i] ELSE shown
    /\ error' = (page # "search")
    /\ failures' = IF page \in Searches THEN failures \cup {IF net[i].newest THEN "newest" ELSE "older"}
                   ELSE failures
    /\ loading' = FALSE
    /\ UNCHANGED <<page, delay, visible, typed, wait, subject, poll, since>>

Ignored(i) ==
    /\ ~Takes(i)
    /\ net' = RemoveAt(net, i)
    /\ UNCHANGED <<page, delay, visible, typed, wait, subject, poll, shown, error, loading, since, failures>>

\* Whatever is due has happened before time goes on.
Tick ==
    /\ Interval(page) > 0 => poll > 0
    /\ wait = 0 => typed = subject
    /\ \A i \in DOMAIN net : net[i].age < delay
    /\ poll' = IF Interval(page) > 0 THEN poll - 1 ELSE poll
    /\ wait' = 0
    /\ net' = [i \in DOMAIN net |-> [net[i] EXCEPT !.age = @ + 1]]
    /\ shown' = IF shown = None THEN None ELSE [shown EXCEPT !.age = Older(@)]
    /\ since' = Older(since)
    /\ UNCHANGED <<page, delay, visible, typed, subject, error, loading, failures>>

Next ==
    \/ Poll \/ Hide \/ Show \/ Debounced \/ Retry \/ Tick
    \/ \E s \in Subjects(page) : Move(s) \/ Type(s)
    \/ \E i \in DOMAIN net : Answered(i) \/ Failed(i) \/ Ignored(i)

Spec == Init /\ [][Next]_vars
----------------------------------------------------------------------------
\* The board of a stop and the results of a search for stops never go back to an
\* answer to an older request, however long answers take and however often the tab is
\* hidden; the map does not unless an answer takes as long as its interval.
NeverBack ==
    shown # None /\ (page \in {"stop", "search"} \/ (page = "vehicles" /\ delay < Interval(page))) =>
        ~shown.overtaken

\* A page that polls shows what it is about as it was at most one interval and the time
\* of an answer ago (where answers take longer than the interval, and so overtake each
\* other, the time of two), or an error: whatever was asked, answered late or lost
\* before.  The board of a stop promises it only while answers take less than the
\* interval, and only when it has been visible for the time of two answers: it takes
\* none but to its newest request, and the first poll may come right after its return.
CatchesUp ==
    LET overlaps == delay >= Interval(page)
        old == IF overlaps \/ page = "nearby" THEN Interval(page) + 2 * delay ELSE Interval(page) + delay
    IN  /\ Interval(page) > 0
        /\ page = "stop" => visible /\ ~overlaps
        /\ since > IF page = "nearby" THEN old ELSE 2 * delay
        => error \/ loading \/ (shown # None /\ shown.subject = subject /\ shown.age <= old)

\* When nothing is on its way a search shows no skeleton, and the outcome of what is in
\* the field: its results, or that it failed (no results, on the page that searches for
\* stops).  Not so on the home page, which aborts no search, where others were on their
\* way with it: the results may be those of an older one that was answered later, and
\* it may say that the search failed when an older one did after the newer was sent.
Settles ==
    page \in Searches /\ net = <<>> /\ wait = 0 /\ typed = subject =>
        /\ ~loading
        /\ \/ page = "search" /\ subject = NoText
           \/ shown # None /\ (shown.subject = subject \/ (page = "routes" /\ shown.overtaken))
        /\ page = "routes" /\ "newest" \in failures => error
        /\ error => page = "routes" /\ failures # {}
=============================================================================
