----------------------------- MODULE Pages_proofs -----------------------------
(***************************************************************************)
(* For every bound on how long answers take and on how many requests are   *)
(* on their way: the pages keep their types, the board of a stop and the   *)
(* search for stops never go back, searches settle, and pages that poll    *)
(* catch up.                                                               *)
(***************************************************************************)
EXTENDS Pages, SequenceTheorems, TLAPS

Subject == {"a", "b", NoText}

\* The requests get older by a tick.
Aged == [i \in DOMAIN net |-> [net[i] EXCEPT !.age = @ + 1]]

\* The newest request is the last one, and no outcome has overtaken it.
NewestLast == \A i \in DOMAIN net : net[i].newest => i = Len(net) /\ ~net[i].overtaken

\* The pages that have at most one request on its way: one aborts, one has its answer
\* before the next poll.
AtMostOne == page = "search" \/ (page = "vehicles" /\ delay < Interval(page))

OneAtMost == AtMostOne => Len(net) <= 1 /\ \A i \in DOMAIN net : ~net[i].overtaken

\* The request of the map was sent by its last poll.
SentByPoll ==
    page = "vehicles" /\ delay < Interval(page) =>
        \A i \in DOMAIN net : net[i].age = Interval(page) - poll

\* Only a search has a field to type in.
NoField == page \notin Searches => typed = subject

LoadingWaits == page \in Searches /\ loading => net # <<>>

\* What is on its way or is shown is for what was typed.
StopsFollow ==
    page = "search" /\ subject # NoText =>
        IF net = <<>> THEN shown # None /\ shown.subject = subject ELSE net[1].subject = subject

\* The newest request is for what was typed, or nothing that comes is for it.
RoutesFollow ==
    page = "routes" =>
        \/ \E i \in DOMAIN net : net[i].newest /\ net[i].subject = subject
        \/ /\ \A i \in DOMAIN net : net[i].overtaken
           /\ shown # None
           /\ shown.subject = subject \/ shown.overtaken

\* A new request comes last, as the newest.
LEMMA WithType ==
    ASSUME NEW s \in Subject, NEW requests \in Seq(Request)
    PROVE  /\ With(s, requests) \in Seq(Request)
           /\ Len(With(s, requests)) = Len(requests) + 1
           /\ LET new == With(s, requests)[Len(requests) + 1]
              IN  new.subject = s /\ new.age = 0 /\ new.newest /\ ~new.overtaken
           /\ \A i \in DOMAIN requests :
                 /\ ~With(s, requests)[i].newest
                 /\ With(s, requests)[i].age = requests[i].age
                 /\ With(s, requests)[i].subject = requests[i].subject
<1> DEFINE old == [i \in DOMAIN requests |-> [requests[i] EXCEPT !.newest = FALSE]]
           new == [subject |-> s, age |-> 0, newest |-> TRUE, overtaken |-> FALSE]
<1>1. new \in Request
  BY DEF Request, Subject
<1>2. \A i \in DOMAIN requests : old[i] \in Request
  <2>1. \A i \in DOMAIN requests : requests[i] \in Request
    OBVIOUS
  <2>2. \A r \in Request : [r EXCEPT !.newest = FALSE] \in Request
    BY DEF Request
  <2> QED BY <2>1, <2>2
<1>3. DOMAIN requests = 1 .. Len(requests) /\ Len(requests) \in Nat
  OBVIOUS
<1>4. old \in Seq(Request) /\ Len(old) = Len(requests)
  BY <1>2, <1>3
<1>5. With(s, requests) = Append(old, new)
  BY DEF With
<1>6. ASSUME NEW i \in DOMAIN requests
      PROVE  /\ ~old[i].newest /\ old[i].age = requests[i].age
             /\ old[i].subject = requests[i].subject
  <2>1. requests[i] \in Request
    OBVIOUS
  <2>2. old[i] = [requests[i] EXCEPT !.newest = FALSE]
    OBVIOUS
  <2> HIDE DEF old
  <2> QED BY <2>1, <2>2 DEF Request
<1>7. new.subject = s /\ new.age = 0 /\ new.newest /\ ~new.overtaken
  OBVIOUS
<1> HIDE DEF old, new
<1>8. /\ Append(old, new) \in Seq(Request) /\ Len(Append(old, new)) = Len(requests) + 1
      /\ Append(old, new)[Len(requests) + 1] = new
      /\ \A i \in DOMAIN requests : Append(old, new)[i] = old[i]
  BY <1>1, <1>3, <1>4
<1> QED BY <1>5, <1>6, <1>7, <1>8

\* The first request of all.
LEMMA FirstType ==
    ASSUME NEW s \in Subject
    PROVE  /\ With(s, <<>>) \in Seq(Request) /\ Len(With(s, <<>>)) = 1
           /\ DOMAIN With(s, <<>>) = {1} /\ With(s, <<>>) # <<>>
           /\ With(s, <<>>)[1].subject = s /\ With(s, <<>>)[1].age = 0
           /\ With(s, <<>>)[1].newest /\ ~With(s, <<>>)[1].overtaken
<1>1. <<>> \in Seq(Request)
  OBVIOUS
<1> DEFINE none == <<>>
<1>2. none \in Seq(Request) /\ Len(none) = 0
  BY <1>1
<1> HIDE DEF none
<1>3. /\ With(s, none) \in Seq(Request) /\ Len(With(s, none)) = Len(none) + 1
      /\ LET new == With(s, none)[Len(none) + 1]
         IN  new.subject = s /\ new.age = 0 /\ new.newest /\ ~new.overtaken
  BY <1>2, WithType
<1>4. Len(none) + 1 = 1
  BY <1>2
<1>5. DOMAIN With(s, none) = {1} /\ With(s, none) # <<>>
  BY <1>3, <1>4
<1> QED BY <1>3, <1>4, <1>5 DEF none

\* What is left of a sequence when one of it is removed.
LEMMA RemoveAtType ==
    ASSUME NEW S, NEW s \in Seq(S), NEW i \in DOMAIN s
    PROVE  /\ RemoveAt(s, i) \in Seq(S)
           /\ Len(RemoveAt(s, i)) = Len(s) - 1
           /\ \A j \in DOMAIN RemoveAt(s, i) :
                 /\ j < i => j \in DOMAIN s /\ RemoveAt(s, i)[j] = s[j]
                 /\ j >= i => j + 1 \in DOMAIN s /\ RemoveAt(s, i)[j] = s[j + 1]
<1>1. i \in 1 .. Len(s) /\ Len(s) \in Nat /\ DOMAIN s = 1 .. Len(s)
  OBVIOUS
<1> DEFINE front == SubSeq(s, 1, i - 1)
           back == SubSeq(s, i + 1, Len(s))
<1>2. front \in Seq(S) /\ Len(front) = i - 1 /\ \A j \in 1 .. i - 1 : front[j] = s[j]
  BY <1>1
<1>3. /\ back \in Seq(S) /\ Len(back) = Len(s) - i
      /\ \A j \in 1 .. Len(s) - i : back[j] = s[j + i]
  BY <1>1
<1>4. RemoveAt(s, i) = front \o back
  BY DEF RemoveAt
<1> HIDE DEF front, back
<1>5. front \o back \in Seq(S) /\ Len(front \o back) = Len(s) - 1
  <2>1. front \o back \in Seq(S) /\ Len(front \o back) = Len(front) + Len(back)
    BY <1>2, <1>3, ConcatProperties
  <2> QED BY <1>1, <1>2, <1>3, <2>1
<1>6. ASSUME NEW j \in 1 .. Len(s) - 1
      PROVE  /\ j < i => (front \o back)[j] = s[j]
             /\ j >= i => (front \o back)[j] = s[j + 1]
  <2>1. (front \o back)[j] = IF j <= i - 1 THEN front[j] ELSE back[j - (i - 1)]
    BY <1>1, <1>2, <1>3, ConcatProperties
  <2>2. CASE j < i
    BY <1>1, <1>2, <2>1, <2>2
  <2>3. CASE j >= i
    <3>1. j - (i - 1) \in 1 .. Len(s) - i /\ j - (i - 1) + i = j + 1
      BY <1>1, <2>3
    <3> QED BY <1>1, <1>3, <2>1, <2>3, <3>1
  <2> QED BY <1>1, <2>2, <2>3
<1> QED BY <1>1, <1>4, <1>5, <1>6

\* An outcome overtakes the requests before the one it is to.
LEMMA WithoutType ==
    ASSUME TypeOK, NEW i \in DOMAIN net
    PROVE  /\ Without(i) \in Seq(Request)
           /\ Len(Without(i)) = Len(net) - 1
           /\ \A j \in DOMAIN Without(i) :
                 /\ j < i => /\ j \in DOMAIN net
                             /\ Without(i)[j].overtaken
                             /\ Without(i)[j].age = net[j].age
                             /\ Without(i)[j].newest = net[j].newest
                             /\ Without(i)[j].subject = net[j].subject
                 /\ j >= i => j + 1 \in DOMAIN net /\ Without(i)[j] = net[j + 1]
<1> DEFINE marked == [j \in DOMAIN net |-> [net[j] EXCEPT !.overtaken = @ \/ j < i]]
<1>1. DOMAIN net = 1 .. Len(net) /\ Len(net) \in Nat /\ i \in 1 .. Len(net)
  BY DEF TypeOK
<1>2. ASSUME NEW j \in DOMAIN net
      PROVE  /\ marked[j] \in Request
             /\ j < i => /\ marked[j].overtaken /\ marked[j].age = net[j].age
                         /\ marked[j].newest = net[j].newest
                         /\ marked[j].subject = net[j].subject
             /\ j >= i => marked[j] = net[j]
  <2>1. net[j] \in Request
    BY DEF TypeOK
  <2>2. marked[j] = [net[j] EXCEPT !.overtaken = net[j].overtaken \/ j < i]
    OBVIOUS
  <2>3. net[j].overtaken \in BOOLEAN
    BY <2>1 DEF Request
  <2>4. CASE j < i
    <3>1. (net[j].overtaken \/ j < i) = TRUE
      BY <2>4
    <3>2. marked[j] = [net[j] EXCEPT !.overtaken = TRUE]
      BY <2>2, <3>1
    <3>3. /\ [net[j] EXCEPT !.overtaken = TRUE] \in Request
          /\ [net[j] EXCEPT !.overtaken = TRUE].overtaken
          /\ [net[j] EXCEPT !.overtaken = TRUE].age = net[j].age
          /\ [net[j] EXCEPT !.overtaken = TRUE].newest = net[j].newest
          /\ [net[j] EXCEPT !.overtaken = TRUE].subject = net[j].subject
      BY <2>1 DEF Request
    <3> HIDE DEF marked
    <3>4. ~(j >= i)
      BY <1>1, <2>4
    <3> QED BY <3>2, <3>3, <3>4
  <2>5. CASE ~(j < i)
    <3>1. (net[j].overtaken \/ j < i) = net[j].overtaken
      BY <2>3, <2>5
    <3>2. marked[j] = [net[j] EXCEPT !.overtaken = net[j].overtaken]
      BY <2>2, <3>1
    <3> HIDE DEF marked
    <3> QED BY <1>1, <2>1, <2>5, <3>2 DEF Request
  <2> QED BY <2>4, <2>5, <1>1
<1>3. marked \in Seq(Request) /\ DOMAIN marked = DOMAIN net /\ Len(marked) = Len(net)
  <2>1. \A j \in DOMAIN net : marked[j] \in Request
    BY <1>2
  <2> QED BY <1>1, <2>1
<1>4. Without(i) = RemoveAt(marked, i)
  BY DEF Without
<1> HIDE DEF marked
<1>5. /\ RemoveAt(marked, i) \in Seq(Request)
      /\ Len(RemoveAt(marked, i)) = Len(marked) - 1
      /\ \A j \in DOMAIN RemoveAt(marked, i) :
            /\ j < i => j \in DOMAIN marked /\ RemoveAt(marked, i)[j] = marked[j]
            /\ j >= i => j + 1 \in DOMAIN marked /\ RemoveAt(marked, i)[j] = marked[j + 1]
  <2>1. i \in DOMAIN marked
    BY <1>3
  <2> QED BY <1>3, <2>1, RemoveAtType
<1>6. \A j \in DOMAIN RemoveAt(marked, i) : j \in Nat
  BY <1>5
<1> QED BY <1>1, <1>2, <1>3, <1>4, <1>5, <1>6

\* Time changes only the ages.
LEMMA AgedType ==
    ASSUME TypeOK
    PROVE  /\ Aged \in Seq(Request)
           /\ Len(Aged) = Len(net)
           /\ DOMAIN Aged = DOMAIN net
           /\ \A i \in DOMAIN net :
                 /\ Aged[i].age = net[i].age + 1
                 /\ Aged[i].newest = net[i].newest /\ Aged[i].overtaken = net[i].overtaken
                 /\ Aged[i].subject = net[i].subject
<1>1. \A i \in DOMAIN net : net[i] \in Request
  BY DEF TypeOK
<1>2. \A i \in DOMAIN net : Aged[i] = [net[i] EXCEPT !.age = @ + 1]
  BY DEF Aged
<1>3. \A i \in DOMAIN net : Aged[i] \in Request
  <2>1. ASSUME NEW i \in DOMAIN net PROVE Aged[i] \in Request
    <3>1. net[i] \in Request
      BY <1>1
    <3>2. net[i].age + 1 \in Nat
      <4>1. net[i].age \in Nat
        BY <3>1 DEF Request
      <4> QED BY <4>1
    <3> QED BY <1>2, <3>1, <3>2 DEF Request
  <2> QED BY <2>1
<1>4. DOMAIN net = 1 .. Len(net) /\ Len(net) \in Nat
  BY DEF TypeOK
<1>5. Aged \in Seq(Request) /\ Len(Aged) = Len(net) /\ DOMAIN Aged = DOMAIN net
  BY <1>3, <1>4 DEF Aged
<1> QED BY <1>1, <1>2, <1>5 DEF Request

\* What a step does to the requests.
NetMoves ==
    /\ UNCHANGED <<page, delay>>
    /\ \/ UNCHANGED net /\ (page = "vehicles" => UNCHANGED poll)
       \/ /\ page # "search"
          /\ page = "vehicles" => poll = 0 /\ poll' = Interval(page)
          /\ \E s \in Subject : net' = With(s, net)
       \/ page = "search" /\ \E s \in Subject : net' = With(s, <<>>)
       \/ \E i \in DOMAIN net : net' = Without(i) /\ UNCHANGED poll
       \/ \E i \in DOMAIN net : page = "stop" /\ ~net[i].newest /\ net' = RemoveAt(net, i)
       \/ /\ \A i \in DOMAIN net : net[i].age < delay
          /\ page = "vehicles" => poll' = poll - 1
          /\ net' = Aged

\* Every action does one of these to the requests.
LEMMA NetStep ==
    ASSUME TypeOK, NoField, [Next]_vars
    PROVE  NetMoves
<1> USE DEF NetMoves
<1>1. subject \in Subject /\ typed \in Subject
  BY DEF TypeOK, Subjects, Subject, Page, Searches
<1>2. \A s \in Subjects(page) : s \in Subject
  BY DEF TypeOK, Subjects, Subject, Page, Searches
<1>3. CASE Poll
  <2>1. page # "search"
    BY <1>3 DEF Poll, Interval, Searches
  <2> QED BY <1>1, <1>3, <2>1 DEF Poll, Fetch
<1>4. CASE Hide
  BY <1>4 DEF Hide
<1>5. CASE Show
  BY <1>1, <1>5 DEF Show, Fetch
<1>6. ASSUME NEW s \in Subjects(page), Move(s) \/ Type(s) PROVE NetMoves
  BY <1>2, <1>6 DEF Move, Type, Fetch
<1>7. CASE Debounced \/ Retry
  <2>1. page \in Searches
    BY <1>7 DEF Debounced, Retry, NoField, Searches
  <2> QED BY <1>1, <1>7, <2>1 DEF Debounced, Retry, Search, Fetch, FetchStops, Searches
<1>8. ASSUME NEW i \in DOMAIN net, Answered(i) \/ Failed(i) \/ Ignored(i) PROVE NetMoves
  BY <1>8 DEF Answered, Failed, Ignored, Takes
<1>9. CASE Tick
  <2>1. page = "vehicles" => Interval(page) > 0
    BY DEF Interval, Searches
  <2> QED BY <1>9, <2>1 DEF Tick, Aged
<1>10. CASE UNCHANGED vars
  BY <1>10 DEF vars
<1> HIDE DEF NetMoves
<1> QED BY <1>3, <1>4, <1>5, <1>6, <1>7, <1>8, <1>9, <1>10 DEF Next

\* The requests on their way keep their types and their time.
LEMMA NetTypeNext ==
    ASSUME TypeOK, NetMoves
    PROVE  net' \in Seq(Request) /\ \A i \in DOMAIN net' : net'[i].age <= delay
<1>1. /\ net \in Seq(Request) /\ DOMAIN net = 1 .. Len(net) /\ Len(net) \in Nat
      /\ \A i \in DOMAIN net : net[i].age <= delay
      /\ delay \in Nat
  BY PageAssumption DEF TypeOK
<1>2. CASE UNCHANGED net
  BY <1>1, <1>2
<1>3. ASSUME NEW s \in Subject, NEW requests \in Seq(Request), net' = With(s, requests),
             \A i \in DOMAIN requests : requests[i].age <= delay
      PROVE  net' \in Seq(Request) /\ \A i \in DOMAIN net' : net'[i].age <= delay
  <2>1. /\ net' \in Seq(Request) /\ Len(net') = Len(requests) + 1
        /\ net'[Len(requests) + 1].age = 0
        /\ \A i \in DOMAIN requests : net'[i].age = requests[i].age
    BY <1>3, WithType
  <2>2. \A i \in DOMAIN net' : i \in DOMAIN requests \/ i = Len(requests) + 1
    BY <2>1
  <2> QED BY <1>1, <1>3, <2>1, <2>2
<1>4. CASE \E s \in Subject : net' = With(s, net)
  BY <1>1, <1>3, <1>4
<1>5. CASE \E s \in Subject : net' = With(s, <<>>)
  <2>1. <<>> \in Seq(Request) /\ DOMAIN <<>> = {}
    OBVIOUS
  <2> QED BY <1>3, <1>5, <2>1
<1>6. ASSUME NEW i \in DOMAIN net, net' = Without(i)
      PROVE  net' \in Seq(Request) /\ \A j \in DOMAIN net' : net'[j].age <= delay
  <2>1. /\ net' \in Seq(Request)
        /\ \A j \in DOMAIN net' :
              /\ j < i => j \in DOMAIN net /\ net'[j].age = net[j].age
              /\ j >= i => j + 1 \in DOMAIN net /\ net'[j] = net[j + 1]
    BY <1>6, WithoutType
  <2>2. \A j \in DOMAIN net' : j < i \/ j >= i
    BY <1>1, <2>1
  <2> QED BY <1>1, <2>1, <2>2
<1>7. ASSUME NEW i \in DOMAIN net, net' = RemoveAt(net, i)
      PROVE  net' \in Seq(Request) /\ \A j \in DOMAIN net' : net'[j].age <= delay
  <2>1. /\ net' \in Seq(Request)
        /\ \A j \in DOMAIN net' :
              /\ j < i => j \in DOMAIN net /\ net'[j] = net[j]
              /\ j >= i => j + 1 \in DOMAIN net /\ net'[j] = net[j + 1]
    BY <1>1, <1>7, RemoveAtType
  <2>2. \A j \in DOMAIN net' : j < i \/ j >= i
    BY <1>1, <2>1
  <2> QED BY <1>1, <2>1, <2>2
<1>8. CASE (\A i \in DOMAIN net : net[i].age < delay) /\ net' = Aged
  <2>1. ASSUME NEW i \in DOMAIN net PROVE net[i].age \in Nat
    <3>1. net[i] \in Request
      BY <1>1
    <3> QED BY <3>1 DEF Request
  <2> QED BY <1>1, <1>8, <2>1, AgedType
<1> QED BY <1>2, <1>4, <1>5, <1>6, <1>7, <1>8 DEF NetMoves

\* A text is in the field of a search only.
LEMMA FieldInductive == TypeOK /\ NoField /\ [Next]_vars => NoField'
<1> SUFFICES ASSUME TypeOK, NoField, [Next]_vars PROVE NoField'
  OBVIOUS
<1>1. ASSUME NEW s \in Subjects(page), Move(s) \/ Type(s) PROVE NoField'
  BY <1>1 DEF Move, Type, NoField
<1>2. ASSUME NEW i \in DOMAIN net, Answered(i) \/ Failed(i) \/ Ignored(i) PROVE NoField'
  BY <1>2 DEF Answered, Failed, Ignored, NoField
<1>3. CASE Poll \/ Hide \/ Show \/ Tick \/ UNCHANGED vars
  BY <1>3 DEF Poll, Hide, Show, Tick, vars, NoField
<1>4. CASE Debounced \/ Retry
  BY <1>4 DEF Debounced, Retry, NoField
<1> QED BY <1>1, <1>2, <1>3, <1>4 DEF Next

\* The parts of the state keep their types.
LEMMA TypeInductive == TypeOK /\ NoField /\ [Next]_vars => TypeOK'
<1> SUFFICES ASSUME TypeOK, NoField, [Next]_vars PROVE TypeOK'
  OBVIOUS
<1>1. UNCHANGED <<page, delay>>
  BY NetStep DEF NetMoves
<1>2. net' \in Seq(Request) /\ \A i \in DOMAIN net' : net'[i].age <= delay
  BY NetStep, NetTypeNext
<1>3. Interval(page) \in Nat /\ delay \in Nat /\ MaxAge \in Nat
  BY PageAssumption DEF TypeOK, Interval, MaxAge, Page, Searches
<1>4. Interval(page)' = Interval(page) /\ MaxAge' = MaxAge /\ Subjects(page)' = Subjects(page)
  BY <1>1 DEF MaxAge
<1> DEFINE Others ==
        /\ visible' \in BOOLEAN
        /\ {typed', subject'} \subseteq Subjects(page)
        /\ wait' \in 0 .. 1
        /\ poll' \in 0 .. Interval(page)
        /\ shown' \in Request \cup {None}
        /\ error' \in BOOLEAN
        /\ loading' \in BOOLEAN
        /\ failures' \subseteq {"newest", "older"}
        /\ since' \in 0 .. MaxAge
<1>5. ASSUME Poll PROVE Others
  <2>1. UNCHANGED <<visible, typed, subject, wait, shown, since>> /\ poll' = Interval(page)
    BY <1>5 DEF Poll
  <2>2. error' \in BOOLEAN /\ loading' \in BOOLEAN /\ failures' \subseteq {"newest", "older"}
    BY <1>5 DEF Poll, Fetch, TypeOK
  <2> QED BY <1>3, <2>1, <2>2 DEF TypeOK
<1>6. ASSUME Hide PROVE Others
  BY <1>6 DEF Hide, TypeOK
<1>7. ASSUME Show PROVE Others
  BY <1>3, <1>7 DEF Show, Fetch, TypeOK
<1>8. ASSUME NEW s \in Subjects(page), Move(s) PROVE Others
  BY <1>3, <1>8 DEF Move, Fetch, TypeOK
<1>9. ASSUME NEW s \in Subjects(page), Type(s) PROVE Others
  BY <1>9 DEF Type, TypeOK
<1>10. ASSUME Debounced \/ Retry PROVE Others
  BY <1>10 DEF Debounced, Retry, Search, Fetch, FetchStops, TypeOK
<1>11. ASSUME NEW i \in DOMAIN net, Answered(i) \/ Failed(i) \/ Ignored(i) PROVE Others
  <2>1. net[i] \in Request
    BY DEF TypeOK
  <2> QED BY <1>11, <2>1 DEF Answered, Failed, Ignored, TypeOK
<1>12. ASSUME Tick PROVE Others
  <2>1. since' \in 0 .. MaxAge
    BY <1>3, <1>12 DEF Tick, Older, TypeOK
  <2>2. poll' \in 0 .. Interval(page)
    BY <1>3, <1>12 DEF Tick, TypeOK
  <2>3. shown' \in Request \cup {None}
    <3>1. CASE shown = None
      BY <1>12, <3>1 DEF Tick
    <3>2. CASE shown # None
      <4>1. shown \in Request /\ shown' = [shown EXCEPT !.age = Older(@)]
        BY <1>12, <3>2 DEF Tick, TypeOK
      <4>2. shown.age \in Nat
        BY <4>1 DEF Request
      <4>3. Older(shown.age) \in Nat
        BY <1>3, <4>2 DEF Older
      <4> QED BY <4>1, <4>3 DEF Request
    <3> QED BY <3>1, <3>2
  <2> QED BY <1>12, <2>1, <2>2, <2>3 DEF Tick, TypeOK
<1>13. ASSUME UNCHANGED vars PROVE Others
  BY <1>13 DEF vars, TypeOK
<1>14. Others
  <2> HIDE DEF Others
  <2> QED BY <1>5, <1>6, <1>7, <1>8, <1>9, <1>10, <1>11, <1>12, <1>13 DEF Next
<1> QED BY <1>1, <1>2, <1>4, <1>14 DEF TypeOK

\* The newest request is the last one as long as it is not answered.
LEMMA NewestInductive == TypeOK /\ NoField /\ NewestLast /\ [Next]_vars => NewestLast'
<1> SUFFICES ASSUME TypeOK, NewestLast, NetMoves PROVE NewestLast'
  BY NetStep
<1>1. net \in Seq(Request) /\ DOMAIN net = 1 .. Len(net) /\ Len(net) \in Nat
  BY DEF TypeOK
<1>2. CASE UNCHANGED net
  BY <1>2 DEF NewestLast
<1>3. ASSUME NEW s \in Subject, NEW requests \in Seq(Request), net' = With(s, requests)
      PROVE  NewestLast'
  <2>1. /\ net' \in Seq(Request) /\ Len(net') = Len(requests) + 1
        /\ ~net'[Len(requests) + 1].overtaken
        /\ \A i \in DOMAIN requests : ~net'[i].newest
    BY <1>3, WithType
  <2>2. \A i \in DOMAIN net' : i \in DOMAIN requests \/ i = Len(requests) + 1
    BY <2>1
  <2> QED BY <2>1, <2>2 DEF NewestLast
<1>4. <<>> \in Seq(Request)
  OBVIOUS
<1>5. ASSUME NEW i \in DOMAIN net, net' = Without(i) PROVE NewestLast'
  <2>1. /\ net' \in Seq(Request) /\ Len(net') = Len(net) - 1
        /\ \A j \in DOMAIN net' :
              /\ j < i => j \in DOMAIN net /\ net'[j].newest = net[j].newest
              /\ j >= i => j + 1 \in DOMAIN net /\ net'[j] = net[j + 1]
    BY <1>5, WithoutType
  <2> SUFFICES ASSUME NEW j \in DOMAIN net', net'[j].newest
               PROVE  j = Len(net') /\ ~net'[j].overtaken
    BY DEF NewestLast
  <2>2. j \in 1 .. Len(net) - 1 /\ i \in 1 .. Len(net)
    BY <1>1, <2>1
  <2>3. CASE j < i
    <3>1. j = Len(net)
      BY <2>1, <2>3 DEF NewestLast
    <3> QED BY <1>1, <2>2, <3>1
  <2>4. CASE j >= i
    <3>1. j + 1 = Len(net) /\ ~net[j + 1].overtaken
      BY <2>1, <2>4 DEF NewestLast
    <3> QED BY <1>1, <2>1, <2>2, <2>4, <3>1
  <2> QED BY <1>1, <2>2, <2>3, <2>4
<1>6. ASSUME NEW i \in DOMAIN net, ~net[i].newest, net' = RemoveAt(net, i) PROVE NewestLast'
  <2>1. /\ net' \in Seq(Request) /\ Len(net') = Len(net) - 1
        /\ \A j \in DOMAIN net' :
              /\ j < i => j \in DOMAIN net /\ net'[j] = net[j]
              /\ j >= i => j + 1 \in DOMAIN net /\ net'[j] = net[j + 1]
    BY <1>1, <1>6, RemoveAtType
  <2> SUFFICES ASSUME NEW j \in DOMAIN net', net'[j].newest
               PROVE  j = Len(net') /\ ~net'[j].overtaken
    BY DEF NewestLast
  <2>2. j \in 1 .. Len(net) - 1 /\ i \in 1 .. Len(net)
    BY <1>1, <2>1
  <2>3. CASE j < i
    <3>1. j = Len(net)
      BY <2>1, <2>3 DEF NewestLast
    <3> QED BY <1>1, <2>2, <3>1
  <2>4. CASE j >= i
    <3>1. j + 1 = Len(net) /\ ~net[j + 1].overtaken
      BY <2>1, <2>4 DEF NewestLast
    <3> QED BY <1>1, <2>1, <2>2, <2>4, <3>1
  <2> QED BY <1>1, <2>2, <2>3, <2>4
<1>7. CASE net' = Aged
  BY <1>7, AgedType DEF NewestLast
<1> QED BY <1>1, <1>2, <1>3, <1>4, <1>5, <1>6, <1>7 DEF NetMoves

OneInv == OneAtMost /\ SentByPoll

\* A page that aborts, or that has its answer before it polls again, never has two
\* requests on their way.
LEMMA OneInductive == TypeOK /\ NoField /\ OneInv /\ [Next]_vars => OneInv'
<1> SUFFICES ASSUME TypeOK, OneInv, NetMoves PROVE OneInv'
  BY NetStep
<1> USE DEF OneInv
<1>1. /\ net \in Seq(Request) /\ DOMAIN net = 1 .. Len(net) /\ Len(net) \in Nat
      /\ \A i \in DOMAIN net : net[i].age <= delay
  BY DEF TypeOK
<1>2. UNCHANGED <<page, delay>> /\ AtMostOne' = AtMostOne /\ Interval(page)' = Interval(page)
  BY DEF NetMoves, AtMostOne
<1>3. CASE UNCHANGED net /\ (page = "vehicles" => UNCHANGED poll)
  BY <1>2, <1>3 DEF OneAtMost, SentByPoll
<1>4. ASSUME NEW s \in Subject, net' = With(s, <<>>),
             page = "search" \/ (page = "vehicles" /\ delay < Interval(page) => poll' = Interval(page))
      PROVE  OneInv'
  <2>2. /\ net' \in Seq(Request) /\ Len(net') = 1
        /\ net'[1].age = 0 /\ ~net'[1].overtaken
    BY <1>4, FirstType
  <2>3. \A i \in DOMAIN net' : i = 1
    BY <2>2
  <2>4. Interval(page) - Interval(page) = 0
    BY DEF Interval, Searches, TypeOK, Page
  <2> QED BY <1>2, <1>4, <2>2, <2>3, <2>4 DEF OneAtMost, SentByPoll
<1>5. ASSUME NEW s \in Subject, net' = With(s, net), page # "search",
             page = "vehicles" => poll = 0 /\ poll' = Interval(page)
      PROVE  OneInv'
  <2>1. CASE ~(page = "vehicles" /\ delay < Interval(page))
    BY <1>2, <1>5, <2>1 DEF OneAtMost, SentByPoll, AtMostOne
  <2>2. CASE page = "vehicles" /\ delay < Interval(page)
    <3>1. \A i \in DOMAIN net : net[i].age = Interval(page)
      <4>1. Interval(page) - 0 = Interval(page)
        BY DEF Interval, Searches, TypeOK, Page
      <4> QED BY <1>5, <2>2, <4>1 DEF SentByPoll
    <3>2. DOMAIN net = {}
      <4>1. delay \in Int /\ Interval(page) \in Int
        BY PageAssumption DEF Interval, Searches, TypeOK, Page
      <4> QED BY <1>1, <2>2, <3>1, <4>1
    <3>3. net = <<>>
      BY <1>1, <3>2
    <3> QED BY <1>4, <1>5, <2>2, <3>3
  <2> QED BY <2>1, <2>2
<1>6. ASSUME NEW i \in DOMAIN net, AtMostOne,
             net' = Without(i) \/ (page = "stop" /\ net' = RemoveAt(net, i))
      PROVE  OneInv'
  <2>1. page # "stop"
    BY <1>6 DEF AtMostOne
  <2>2. net' \in Seq(Request) /\ Len(net') = Len(net) - 1
    BY <1>6, <2>1, WithoutType
  <2>3. Len(net) = 1
    BY <1>1, <1>6 DEF OneAtMost
  <2>4. DOMAIN net' = {} /\ Len(net') <= 1
    BY <2>2, <2>3
  <2> QED BY <2>4 DEF OneAtMost, SentByPoll
<1>7. ASSUME net' = Aged, page = "vehicles" => poll' = poll - 1
      PROVE  OneInv'
  <2>1. OneAtMost'
    BY <1>2, <1>7, AgedType DEF OneAtMost
  <2>2. ASSUME page = "vehicles", delay < Interval(page), NEW i \in DOMAIN net
        PROVE  net'[i].age = Interval(page) - poll'
    <3>1. net[i].age = Interval(page) - poll /\ net'[i].age = net[i].age + 1
      BY <1>7, <2>2, AgedType DEF SentByPoll
    <3>2. poll \in Int /\ Interval(page) \in Int
      BY DEF TypeOK, Interval, Searches, Page
    <3> QED BY <1>7, <2>2, <3>1, <3>2
  <2>3. SentByPoll'
    BY <1>2, <1>7, <2>2, AgedType DEF SentByPoll
  <2> QED BY <2>1, <2>3
<1>8. CASE ~AtMostOne
  BY <1>2, <1>8 DEF OneAtMost, SentByPoll, AtMostOne
<1> QED BY <1>3, <1>4, <1>5, <1>6, <1>7, <1>8 DEF NetMoves

\* The routes page says that a search failed when one did since it last began one; the
\* search for stops never says so.
ErrorTold == page \in Searches => (error <=> page = "routes" /\ failures # {})

\* A request begins without a message and without a failure; each failure sets both,
\* and an answer leaves both alone.
LEMMA ErrorInductive == TypeOK /\ ErrorTold /\ [Next]_vars => ErrorTold'
<1> SUFFICES ASSUME TypeOK, ErrorTold, page \in Searches, [Next]_vars, UNCHANGED page
             PROVE  ErrorTold'
  <2>1. [Next]_vars => UNCHANGED page
    BY DEF Next, vars, Poll, Hide, Show, Debounced, Retry, Tick, Move, Type, Answered, Failed, Ignored
  <2> QED BY <2>1 DEF ErrorTold
<1>1. ASSUME NEW s, Search(s) PROVE ErrorTold'
  <2>1. CASE page = "routes"
    BY <1>1, <2>1 DEF Search, Fetch, ErrorTold
  <2>2. CASE page = "search"
    BY <1>1, <2>2 DEF Search, FetchStops, ErrorTold
  <2> QED BY <2>1, <2>2 DEF Searches
<1>2. CASE Debounced \/ Retry
  BY <1>1, <1>2 DEF Debounced, Retry
<1>3. ASSUME NEW i \in DOMAIN net, Failed(i) PROVE ErrorTold'
  <2>1. failures' # {} /\ error' = (page # "search")
    BY <1>3 DEF Failed
  <2> QED BY <2>1 DEF ErrorTold, Searches
<1>4. ASSUME NEW i \in DOMAIN net, Answered(i) \/ Ignored(i) PROVE ErrorTold'
  BY <1>4 DEF Answered, Ignored, ErrorTold, Searches
<1>5. ASSUME NEW s \in Subjects(page), Move(s) \/ Type(s) PROVE ErrorTold'
  BY <1>5 DEF Move, Type, ErrorTold, Searches
<1>6. CASE Tick \/ UNCHANGED vars
  BY <1>6 DEF Tick, vars, ErrorTold
<1>7. ~Poll /\ ~Hide /\ ~Show
  BY DEF Poll, Hide, Show, Interval, Searches
<1> QED BY <1>2, <1>3, <1>4, <1>5, <1>6, <1>7 DEF Next

\* Who is shown gets older and stays who it is.
LEMMA ShownAged ==
    ASSUME TypeOK, Tick, shown # None
    PROVE  /\ shown' # None
           /\ shown'.subject = shown.subject
           /\ shown'.overtaken = shown.overtaken
           /\ shown'.age = Older(shown.age)
<1>1. shown \in Request /\ shown' = [shown EXCEPT !.age = Older(@)]
  BY DEF TypeOK, Tick
<1>2. shown.age \in Nat
  BY <1>1 DEF Request
<1>3. Older(shown.age) \in Nat
  <2>1. MaxAge \in Int
    BY PageAssumption DEF TypeOK, MaxAge, Interval, Page, Searches
  <2> QED BY <1>2, <2>1 DEF Older
<1>4. shown' \in Request
  BY <1>1, <1>3 DEF Request
<1> QED BY <1>1, <1>4, NoneAssumption DEF Request

\* What is taken was not overtaken on the pages that never go back.
LEMMA BackInductive ==
    TypeOK /\ NoField /\ NewestLast /\ OneInv /\ NeverBack /\ [Next]_vars => NeverBack'
<1> SUFFICES ASSUME TypeOK, NoField, NewestLast, OneInv, NeverBack, [Next]_vars PROVE NeverBack'
  OBVIOUS
<1>1. UNCHANGED <<page, delay>> /\ Interval(page)' = Interval(page)
  BY NetStep DEF NetMoves
<1>2. CASE UNCHANGED shown \/ shown' = None
  BY <1>1, <1>2 DEF NeverBack
<1>3. ASSUME NEW i \in DOMAIN net, Answered(i) \/ Failed(i) PROVE NeverBack'
  <2>1. CASE UNCHANGED shown
    BY <1>2, <2>1
  <2>2. CASE shown' = net[i] /\ page = "stop"
    <3>1. ~net[i].overtaken
      BY <1>3, <2>2 DEF Answered, Failed, Takes, NewestLast
    <3> QED BY <2>2, <3>1 DEF NeverBack
  <2>3. CASE shown' = net[i] /\ AtMostOne
    <3>1. ~net[i].overtaken
      BY <2>3 DEF OneInv, OneAtMost
    <3> QED BY <2>3, <3>1 DEF NeverBack
  <2>4. CASE page # "stop" /\ ~AtMostOne
    BY <1>1, <2>4 DEF NeverBack, AtMostOne
  <2> QED BY <1>3, <2>1, <2>2, <2>3, <2>4 DEF Answered, Failed
<1>4. CASE Tick
  <2>1. CASE shown = None
    BY <1>2, <1>4, <2>1 DEF Tick
  <2>2. CASE shown # None
    BY <1>1, <1>4, <2>2, ShownAged DEF NeverBack
  <2> QED BY <2>1, <2>2
<1>5. ASSUME Poll \/ Hide \/ Show \/ Debounced \/ Retry \/ UNCHANGED vars
      PROVE  UNCHANGED shown \/ shown' = None
  BY <1>5 DEF Poll, Hide, Show, Debounced, Retry, Search, vars
<1>6. ASSUME NEW s \in Subjects(page), Move(s) \/ Type(s) PROVE UNCHANGED shown
  BY <1>6 DEF Move, Type
<1>7. ASSUME NEW i \in DOMAIN net, Ignored(i) PROVE UNCHANGED shown
  BY <1>7 DEF Ignored
<1> QED BY <1>2, <1>3, <1>4, <1>5, <1>6, <1>7 DEF Next

SettleInv == LoadingWaits /\ StopsFollow /\ RoutesFollow

\* The outcome of the newest request is for what was typed; another one leaves the
\* newest on its way, or was overtaken itself.
LEMMA RoutesOutcome ==
    ASSUME TypeOK, NewestLast, RoutesFollow, NEW i \in DOMAIN net,
           net' = Without(i), shown' = net[i], UNCHANGED <<page, subject>>
    PROVE  RoutesFollow'
<1> SUFFICES ASSUME page = "routes" PROVE RoutesFollow'
  BY DEF RoutesFollow
<1>1. /\ net \in Seq(Request) /\ DOMAIN net = 1 .. Len(net) /\ Len(net) \in Nat
      /\ i \in 1 .. Len(net) /\ net[i] \in Request
  BY DEF TypeOK
<1>2. /\ net' \in Seq(Request) /\ Len(net') = Len(net) - 1
      /\ \A j \in DOMAIN net' :
            /\ j < i => net'[j].overtaken
            /\ j >= i => j + 1 \in DOMAIN net /\ net'[j] = net[j + 1]
  BY WithoutType
<1>3. DOMAIN net' = 1 .. Len(net) - 1
  BY <1>1, <1>2
<1>4. shown' # None
  BY <1>1, NoneAssumption
<1>5. CASE \E k \in DOMAIN net : net[k].newest /\ net[k].subject = subject
  <2>1. net[Len(net)].newest /\ net[Len(net)].subject = subject
    BY <1>5 DEF NewestLast
  <2>2. CASE i = Len(net)
    <3>1. \A j \in DOMAIN net' : j < i
      BY <1>1, <1>3, <2>2
    <3> QED BY <1>2, <1>4, <2>1, <2>2, <3>1 DEF RoutesFollow
  <2>3. CASE i # Len(net)
    <3>1. /\ Len(net) - 1 \in DOMAIN net' /\ Len(net) - 1 >= i
          /\ Len(net) - 1 + 1 = Len(net)
      BY <1>1, <1>3, <2>3
    <3>2. net'[Len(net) - 1] = net[Len(net)]
      BY <1>2, <3>1
    <3> QED BY <2>1, <3>1, <3>2 DEF RoutesFollow
  <2> QED BY <2>2, <2>3
<1>6. CASE \A k \in DOMAIN net : net[k].overtaken
  <2>1. \A j \in DOMAIN net' : j < i \/ j >= i
    BY <1>1, <1>3
  <2> QED BY <1>2, <1>4, <1>6, <2>1 DEF RoutesFollow
<1> QED BY <1>5, <1>6 DEF RoutesFollow

\* A search waits or shows what was typed.
LEMMA SettleInductive ==
    TypeOK /\ NoField /\ NewestLast /\ OneInv /\ SettleInv /\ [Next]_vars => SettleInv'
<1> SUFFICES ASSUME TypeOK, NoField, NewestLast, OneInv, SettleInv, [Next]_vars PROVE SettleInv'
  OBVIOUS
<1> USE DEF SettleInv
<1>1. UNCHANGED <<page, delay>>
  BY NetStep DEF NetMoves
<1>2. net \in Seq(Request) /\ DOMAIN net = 1 .. Len(net) /\ Len(net) \in Nat
  BY DEF TypeOK
<1>3. CASE page \notin Searches
  BY <1>1, <1>3 DEF LoadingWaits, StopsFollow, RoutesFollow, Searches
<1> SUFFICES ASSUME page \in Searches PROVE SettleInv'
  BY <1>3
<1>4. CASE Poll \/ Hide \/ Show
  BY <1>4 DEF Poll, Hide, Show, Interval, Searches
<1>5. ASSUME NEW s \in Subjects(page), Move(s) \/ Type(s) PROVE SettleInv'
  <2>1. UNCHANGED <<page, subject, net, shown, loading>>
    BY <1>5 DEF Move, Type, Searches
  <2> QED BY <2>1 DEF LoadingWaits, StopsFollow, RoutesFollow
<1>6. ASSUME NEW s \in Subject, Search(s), subject' = s PROVE SettleInv'
  <2>1. CASE page = "routes"
    <3>1. net' = With(s, net)
      BY <1>6, <2>1 DEF Search, Fetch
    <3>2. /\ net' \in Seq(Request) /\ Len(net') = Len(net) + 1
          /\ net'[Len(net) + 1].newest /\ net'[Len(net) + 1].subject = s
      BY <1>2, <3>1, WithType
    <3>3. Len(net) + 1 \in DOMAIN net' /\ net' # <<>>
      BY <1>2, <3>2
    <3> QED BY <1>1, <1>6, <2>1, <3>2, <3>3 DEF LoadingWaits, StopsFollow, RoutesFollow
  <2>2. CASE page = "search" /\ s = NoText
    BY <1>1, <1>6, <2>2 DEF Search, LoadingWaits, StopsFollow, RoutesFollow
  <2>3. CASE page = "search" /\ s # NoText
    <3>1. net' = With(s, <<>>)
      BY <1>6, <2>3 DEF Search, FetchStops
    <3>2. net' # <<>> /\ net'[1].subject = s
      BY <3>1, FirstType
    <3> QED BY <1>1, <1>6, <2>3, <3>2 DEF LoadingWaits, StopsFollow, RoutesFollow
  <2> QED BY <2>1, <2>2, <2>3 DEF Searches
<1>7. CASE Debounced \/ Retry
  <2>1. subject \in Subject /\ typed \in Subject
    BY DEF TypeOK, Subjects, Subject, Searches
  <2> QED BY <1>6, <1>7, <2>1 DEF Debounced, Retry
<1>8. ASSUME NEW i \in DOMAIN net, Answered(i) \/ Failed(i) PROVE SettleInv'
  <2>1. /\ net' = Without(i) /\ shown' = net[i] /\ loading' = FALSE
        /\ UNCHANGED <<page, subject>>
    BY <1>8 DEF Answered, Failed
  <2>2. LoadingWaits'
    BY <2>1 DEF LoadingWaits
  <2>3. RoutesFollow'
    BY <2>1, RoutesOutcome
  <2>4. StopsFollow'
    <3> SUFFICES ASSUME page = "search", subject # NoText PROVE StopsFollow'
      BY <2>1 DEF StopsFollow
    <3>1. i = 1 /\ Len(net) = 1 /\ net[i] \in Request /\ net # <<>>
      <4>1. Len(net) <= 1
        BY DEF OneInv, OneAtMost, AtMostOne
      <4>2. i \in 1 .. Len(net) /\ net[i] \in Request
        BY <1>2
      <4> QED BY <1>2, <4>1, <4>2
    <3>2. net' \in Seq(Request) /\ Len(net') = Len(net) - 1
      BY <2>1, WithoutType
    <3>3. net' = <<>>
      <4>1. DOMAIN net' = {}
        BY <3>1, <3>2
      <4> QED BY <3>2, <4>1
    <3>4. net[1].subject = subject
      BY <3>1 DEF StopsFollow
    <3> QED BY <2>1, <3>1, <3>3, <3>4, NoneAssumption DEF StopsFollow
  <2> QED BY <2>2, <2>3, <2>4
<1>9. ASSUME NEW i \in DOMAIN net, Ignored(i) PROVE SettleInv'
  BY <1>9 DEF Ignored, Takes, Searches
<1>10. CASE Tick
  <2>1. net' = Aged /\ UNCHANGED <<page, subject, loading>>
    BY <1>10 DEF Tick, Aged
  <2>2. /\ net' \in Seq(Request) /\ Len(net') = Len(net) /\ DOMAIN net' = DOMAIN net
        /\ \A i \in DOMAIN net :
              /\ net'[i].newest = net[i].newest /\ net'[i].overtaken = net[i].overtaken
              /\ net'[i].subject = net[i].subject
    BY <2>1, AgedType
  <2>3. net = <<>> <=> net' = <<>>
    BY <1>2, <2>2
  <2>4. shown # None =>
           /\ shown' # None
           /\ shown'.subject = shown.subject
           /\ shown'.overtaken = shown.overtaken
    BY <1>10, ShownAged
  <2>5. LoadingWaits'
    BY <2>1, <2>3 DEF LoadingWaits
  <2>6. StopsFollow'
    <3>1. net # <<>> => 1 \in DOMAIN net
      BY <1>2
    <3> QED BY <2>1, <2>2, <2>3, <2>4, <3>1 DEF StopsFollow
  <2>7. RoutesFollow'
    BY <2>1, <2>2, <2>4 DEF RoutesFollow
  <2> QED BY <2>5, <2>6, <2>7
<1>11. CASE UNCHANGED vars
  BY <1>11 DEF vars, LoadingWaits, StopsFollow, RoutesFollow
<1> QED BY <1>4, <1>5, <1>7, <1>8, <1>9, <1>10, <1>11 DEF Next

\* The ranges of what is counted.
LEMMA Ranges ==
    ASSUME TypeOK
    PROVE  /\ delay \in Nat /\ poll \in Nat /\ since \in Nat /\ Interval(page) \in Nat
           /\ poll <= Interval(page) /\ since <= MaxAge
           /\ MaxAge = Interval(page) + 2 * delay + 1
           /\ net \in Seq(Request) /\ DOMAIN net = 1 .. Len(net) /\ Len(net) \in Nat
           /\ \A i \in DOMAIN net : net[i] \in Request /\ net[i].age \in Nat /\ net[i].age <= delay
           /\ shown # None => shown \in Request /\ shown.age \in Nat
<1>1. delay \in Nat /\ Interval(page) \in Nat
  BY PageAssumption DEF TypeOK, Interval, Page, Searches
<1>2. /\ poll \in Nat /\ since \in Nat /\ poll <= Interval(page) /\ since <= MaxAge
      /\ MaxAge = Interval(page) + 2 * delay + 1
  BY <1>1 DEF TypeOK, MaxAge
<1>3. ASSUME NEW i \in DOMAIN net
      PROVE  net[i] \in Request /\ net[i].age \in Nat /\ net[i].age <= delay
  <2>1. net[i] \in Request /\ net[i].age <= delay
    BY DEF TypeOK
  <2> QED BY <2>1 DEF Request
<1>4. ASSUME shown # None PROVE shown \in Request /\ shown.age \in Nat
  <2>1. shown \in Request
    BY <1>4 DEF TypeOK
  <2> QED BY <2>1 DEF Request
<1>5. net \in Seq(Request) /\ DOMAIN net = 1 .. Len(net) /\ Len(net) \in Nat
  BY DEF TypeOK
<1> QED BY <1>1, <1>2, <1>3, <1>4, <1>5

\* What is shown is at most so old, or an error is.
Within(bound) == error \/ (shown # None /\ shown.age <= bound)

\* A tick makes it one older at most.
LEMMA WithinTick ==
    ASSUME TypeOK, Tick, NEW bound \in Int, Within(bound)
    PROVE  error' \/ (shown' # None /\ shown'.age <= bound + 1)
<1>1. CASE error
  BY <1>1 DEF Tick
<1>2. CASE shown # None /\ shown.age <= bound
  <2>1. shown.age \in Nat /\ MaxAge \in Int
    BY <1>2, Ranges
  <2>2. shown' # None /\ shown'.age = Older(shown.age)
    BY <1>2, ShownAged
  <2>3. Older(shown.age) <= shown.age + 1
    BY <2>1 DEF Older
  <2>4. Older(shown.age) \in Int
    BY <2>1 DEF Older
  <2> QED BY <1>2, <2>1, <2>2, <2>3, <2>4
<1> QED BY <1>1, <1>2 DEF Within

\* How old an answer the map may show: the oldest request has waited since the last
\* outcome, or there is none and the next poll sends one.
MapKeepsUp ==
    LET late == IF delay >= Interval(page) THEN delay ELSE 0
    IN  page = "vehicles" =>
            \/ loading
            \/ net = <<>> /\ Within(late + Interval(page) - poll)
            \/ \E i \in DOMAIN net : Within(late + Interval(page) + net[i].age)

\* Nearby, every request hides what was shown until it has an outcome.
NearbyKeepsUp == page = "nearby" => loading \/ Within(delay + Interval(page) - poll)

\* Ticks since the board sent its last request.
SinceFetch == IF since < Interval(page) - poll THEN since ELSE Interval(page) - poll

\* The last request had its outcome, or it is on its way, and what it will replace is
\* an interval older.
StopKeepsUp ==
    page = "stop" /\ delay < Interval(page) /\ visible =>
        \/ (\A i \in DOMAIN net : ~net[i].newest) /\ Within(SinceFetch)
        \/ \E i \in DOMAIN net :
              /\ net[i].newest
              /\ net[i].age = SinceFetch
              /\ since - SinceFetch > delay => Within(Interval(page) + SinceFetch)

\* What was asked since the subject is the one it is, is about it.
SameSubject(request) ==
    page \in {"stop", "vehicles"} \/ request.age < since => request.subject = subject

ForSubject ==
    Interval(page) > 0 =>
        /\ \A i \in DOMAIN net : SameSubject(net[i])
        /\ shown # None => SameSubject(shown)

KeepsUp == MapKeepsUp /\ NearbyKeepsUp /\ StopKeepsUp /\ ForSubject

\* The map: only its polls send requests.
LEMMA MapInductive ==
    TypeOK /\ NoField /\ OneInv /\ MapKeepsUp /\ [Next]_vars => MapKeepsUp'
<1> SUFFICES ASSUME TypeOK, NoField, OneInv, MapKeepsUp, [Next]_vars, page = "vehicles"
             PROVE  MapKeepsUp'
  BY NetStep DEF NetMoves, MapKeepsUp
<1> DEFINE late == IF delay >= Interval(page) THEN delay ELSE 0
<1>1. UNCHANGED <<page, delay>> /\ Interval(page)' = Interval(page) /\ late' = late
  BY NetStep DEF NetMoves
<1>2. /\ delay \in Nat /\ poll \in Nat /\ Interval(page) \in Nat /\ poll <= Interval(page)
      /\ net \in Seq(Request) /\ DOMAIN net = 1 .. Len(net) /\ Len(net) \in Nat
      /\ \A i \in DOMAIN net : net[i] \in Request /\ net[i].age \in Nat /\ net[i].age <= delay
      /\ late \in Nat
  BY Ranges
<1>3. \/ loading
      \/ net = <<>> /\ Within(late + Interval(page) - poll)
      \/ \E i \in DOMAIN net : Within(late + Interval(page) + net[i].age)
  BY DEF MapKeepsUp
<1>4. delay < Interval(page) => late = 0
  BY <1>2
<1>5. delay >= Interval(page) => late = delay
  OBVIOUS
<1> DEFINE Goal == \/ loading'
                   \/ net' = <<>> /\ Within(late + Interval(page) - poll)'
                   \/ \E i \in DOMAIN net' : Within(late + Interval(page) + net[i].age)'
<1>6. Goal => MapKeepsUp'
  BY DEF MapKeepsUp
<1> HIDE DEF late
<1>7. ASSUME Poll PROVE Goal
  <2>1. /\ net' = With(subject, net) /\ poll = 0
        /\ UNCHANGED <<loading, error, shown>>
    BY <1>7 DEF Poll, Fetch
  <2>2. subject \in Subject
    BY DEF TypeOK, Subjects, Subject
  <2> DEFINE sent == With(subject, net)
  <2>3. /\ sent \in Seq(Request) /\ Len(sent) = Len(net) + 1
        /\ sent[Len(net) + 1].age = 0
        /\ \A i \in DOMAIN net : sent[i].age = net[i].age
    BY <1>2, <2>2, WithType
  <2> HIDE DEF sent
  <2>4. PICK last \in DOMAIN net' : net'[last].age = 0
    BY <1>2, <2>1, <2>3 DEF sent
  <2>8. \A i \in DOMAIN net : i \in DOMAIN net' /\ net'[i].age = net[i].age
    BY <1>2, <2>1, <2>3 DEF sent
  <2>5. CASE loading
    BY <2>1, <2>5
  <2>6. CASE Within(late + Interval(page) - poll)
    <3>1. late + Interval(page) - poll = late + Interval(page) + 0
      BY <1>2, <2>1
    <3>2. Within(late + Interval(page) + net[last].age)'
      BY <1>1, <2>1, <2>4, <2>6, <3>1 DEF Within
    <3> QED BY <2>4, <3>2
  <2>7. ASSUME NEW i \in DOMAIN net, Within(late + Interval(page) + net[i].age) PROVE Goal
    <3>1. Within(late + Interval(page) + net[i].age)'
      BY <1>1, <2>1, <2>7, <2>8 DEF Within
    <3> QED BY <2>8, <3>1
  <2> QED BY <1>3, <2>5, <2>6, <2>7
<1>8. ASSUME NEW i \in DOMAIN net, Answered(i) PROVE Goal
  <2>1. net' = Without(i) /\ shown' = net[i] /\ UNCHANGED poll
    BY <1>8 DEF Answered
  <2>2. net' \in Seq(Request) /\ Len(net') = Len(net) - 1
    BY <2>1, WithoutType
  <2>3. shown' # None /\ shown'.age = net[i].age
    BY <1>2, <2>1, NoneAssumption
  <2>4. CASE net' = <<>>
    <3>1. net[i].age <= late + Interval(page) - poll
      <4>1. CASE delay < Interval(page)
        BY <1>2, <1>4, <4>1 DEF OneInv, SentByPoll
      <4>2. CASE delay >= Interval(page)
        BY <1>2, <1>5, <4>2
      <4> QED BY <1>2, <4>1, <4>2
    <3>2. Within(late + Interval(page) - poll)'
      BY <1>1, <2>1, <2>3, <3>1 DEF Within
    <3> QED BY <2>4, <3>2
  <2>5. CASE net' # <<>>
    <3>1. 1 \in DOMAIN net' /\ Len(net) >= 2
      BY <1>2, <2>2, <2>5
    <3>2. ~(delay < Interval(page))
      BY <1>2, <3>1 DEF OneInv, OneAtMost, AtMostOne
    <3>3. net'[1].age \in Nat
      <4>1. net'[1] \in Request
        BY <2>2, <3>1
      <4> QED BY <4>1 DEF Request
    <3>4. net[i].age <= late + Interval(page) + net'[1].age
      BY <1>2, <1>5, <3>2, <3>3
    <3>5. Within(late + Interval(page) + net[1].age)'
      BY <1>1, <2>3, <3>4 DEF Within
    <3> QED BY <3>1, <3>5
  <2> QED BY <2>4, <2>5
<1>9. ASSUME NEW i \in DOMAIN net, Failed(i) PROVE Goal
  <2>1. net' = Without(i) /\ error' = TRUE
    BY <1>9 DEF Failed
  <2>2. net' \in Seq(Request)
    BY <2>1, WithoutType
  <2>3. net' = <<>> \/ 1 \in DOMAIN net'
    BY <2>2
  <2> QED BY <2>1, <2>3 DEF Within
<1>10. ASSUME Tick PROVE Goal
  <2>1. /\ net' = Aged /\ poll' = poll - 1 /\ UNCHANGED loading
    BY <1>10 DEF Tick, Aged, Interval, Searches
  <2>2. /\ net' \in Seq(Request) /\ Len(net') = Len(net) /\ DOMAIN net' = DOMAIN net
        /\ \A i \in DOMAIN net : net'[i].age = net[i].age + 1
    BY <2>1, AgedType
  <2>3. CASE loading
    BY <2>1, <2>3
  <2>4. CASE net = <<>> /\ Within(late + Interval(page) - poll)
    <3>1. late + Interval(page) - poll \in Int
      BY <1>2
    <3>2. error' \/ (shown' # None /\ shown'.age <= late + Interval(page) - poll + 1)
      BY <1>10, <2>4, <3>1, WithinTick
    <3>3. late + Interval(page) - poll + 1 = late + Interval(page) - poll'
      BY <1>2, <2>1
    <3>4. Within(late + Interval(page) - poll)'
      BY <1>1, <3>2, <3>3 DEF Within
    <3>5. net' = <<>>
      BY <2>2, <2>4
    <3> QED BY <3>4, <3>5
  <2>5. ASSUME NEW i \in DOMAIN net, Within(late + Interval(page) + net[i].age) PROVE Goal
    <3>1. late + Interval(page) + net[i].age \in Int
      BY <1>2
    <3>2. error' \/ (shown' # None /\ shown'.age <= late + Interval(page) + net[i].age + 1)
      BY <1>10, <2>5, <3>1, WithinTick
    <3>3. late + Interval(page) + net[i].age + 1 = late + Interval(page) + net'[i].age
      BY <1>2, <2>2
    <3>4. Within(late + Interval(page) + net[i].age)'
      BY <1>1, <3>2, <3>3 DEF Within
    <3> QED BY <2>2, <3>4
  <2> QED BY <1>3, <2>3, <2>4, <2>5
<1>11. ASSUME UNCHANGED vars PROVE Goal
  BY <1>1, <1>3, <1>11 DEF vars, Within
<1>12. ~Hide /\ ~Show /\ ~Retry /\ ~Debounced /\ \A s \in Subjects(page) : ~Move(s) /\ ~Type(s)
  BY DEF Hide, Show, Retry, Debounced, Move, Type, Searches, NoField
<1>13. \A i \in DOMAIN net : ~Ignored(i)
  BY DEF Ignored, Takes
<1> HIDE DEF Goal
<1> QED BY <1>6, <1>7, <1>8, <1>9, <1>10, <1>11, <1>12, <1>13 DEF Next

\* The stops nearby: whatever sends a request hides the answer and the error before it.
LEMMA NearbyInductive ==
    TypeOK /\ NoField /\ NearbyKeepsUp /\ [Next]_vars => NearbyKeepsUp'
<1> SUFFICES ASSUME TypeOK, NoField, NearbyKeepsUp, [Next]_vars, page = "nearby"
             PROVE  NearbyKeepsUp'
  BY NetStep DEF NetMoves, NearbyKeepsUp
<1>1. UNCHANGED <<page, delay>> /\ Interval(page)' = Interval(page)
  BY NetStep DEF NetMoves
<1>2. /\ delay \in Nat /\ poll \in Nat /\ Interval(page) \in Nat /\ poll <= Interval(page)
      /\ \A i \in DOMAIN net : net[i] \in Request /\ net[i].age \in Nat /\ net[i].age <= delay
  BY Ranges
<1>3. loading \/ Within(delay + Interval(page) - poll)
  BY DEF NearbyKeepsUp
<1>4. ASSUME NEW s \in Subject, NEW requests, Fetch(s, requests) PROVE NearbyKeepsUp'
  BY <1>4 DEF Fetch, NearbyKeepsUp
<1>5. subject \in Subject /\ \A s \in Subjects(page) : s \in Subject
  BY DEF TypeOK, Subjects, Subject, Searches
<1>6. ASSUME Poll PROVE NearbyKeepsUp'
  BY <1>4, <1>5, <1>6 DEF Poll
<1>7. ASSUME NEW s \in Subjects(page), Move(s) PROVE NearbyKeepsUp'
  BY <1>4, <1>5, <1>7 DEF Move
<1>8. ASSUME NEW i \in DOMAIN net, Answered(i) PROVE NearbyKeepsUp'
  <2>1. shown' = net[i] /\ shown' # None /\ UNCHANGED poll
    BY <1>2, <1>8, NoneAssumption DEF Answered
  <2>2. net[i].age <= delay + Interval(page) - poll
    BY <1>2
  <2> QED BY <1>1, <2>1, <2>2 DEF NearbyKeepsUp, Within
<1>9. ASSUME NEW i \in DOMAIN net, Failed(i) PROVE NearbyKeepsUp'
  BY <1>9 DEF Failed, NearbyKeepsUp, Within
<1>10. ASSUME Tick PROVE NearbyKeepsUp'
  <2>1. UNCHANGED loading /\ poll' = poll - 1
    BY <1>10 DEF Tick, Interval, Searches
  <2>2. CASE Within(delay + Interval(page) - poll)
    <3>1. delay + Interval(page) - poll \in Int
      BY <1>2
    <3>2. error' \/ (shown' # None /\ shown'.age <= delay + Interval(page) - poll + 1)
      BY <1>10, <2>2, <3>1, WithinTick
    <3>3. delay + Interval(page) - poll + 1 = delay + Interval(page) - poll'
      BY <1>2, <2>1
    <3> QED BY <1>1, <3>2, <3>3 DEF NearbyKeepsUp, Within
  <2> QED BY <1>3, <2>1, <2>2 DEF NearbyKeepsUp
<1>11. ASSUME UNCHANGED vars PROVE NearbyKeepsUp'
  BY <1>1, <1>3, <1>11 DEF vars, Within, NearbyKeepsUp
<1>12. ~Hide /\ ~Show /\ ~Retry /\ ~Debounced /\ \A s \in Subjects(page) : ~Type(s)
  BY DEF Hide, Show, Retry, Debounced, Type, Searches, NoField
<1>13. \A i \in DOMAIN net : ~Ignored(i)
  BY DEF Ignored, Takes
<1> QED BY <1>6, <1>7, <1>8, <1>9, <1>10, <1>11, <1>12, <1>13 DEF Next

\* The board: when it polls, what it asked before had its outcome if it has been visible
\* for that long.
LEMMA StopInductive ==
    TypeOK /\ NoField /\ NewestLast /\ StopKeepsUp /\ [Next]_vars => StopKeepsUp'
<1> SUFFICES ASSUME TypeOK, NoField, NewestLast, StopKeepsUp, [Next]_vars,
                    page = "stop", delay < Interval(page), visible'
             PROVE  StopKeepsUp'
  BY NetStep DEF NetMoves, StopKeepsUp
<1>1. UNCHANGED <<page, delay>> /\ Interval(page)' = Interval(page) /\ MaxAge' = MaxAge
  BY NetStep DEF NetMoves, MaxAge
<1>2. /\ delay \in Nat /\ poll \in Nat /\ since \in Nat /\ Interval(page) \in Nat
      /\ poll <= Interval(page) /\ since <= MaxAge /\ MaxAge = Interval(page) + 2 * delay + 1
      /\ net \in Seq(Request) /\ DOMAIN net = 1 .. Len(net) /\ Len(net) \in Nat
      /\ \A i \in DOMAIN net : net[i] \in Request /\ net[i].age \in Nat /\ net[i].age <= delay
  BY Ranges
<1>3. SinceFetch \in Nat /\ SinceFetch <= Interval(page) /\ SinceFetch <= since
  BY <1>2 DEF SinceFetch
<1> DEFINE Resolved == (\A i \in DOMAIN net : ~net[i].newest) /\ Within(SinceFetch)
           Waits(i) == /\ net[i].newest
                       /\ net[i].age = SinceFetch
                       /\ since - SinceFetch > delay => Within(Interval(page) + SinceFetch)
<1>4. visible => Resolved \/ \E i \in DOMAIN net : Waits(i)
  BY DEF StopKeepsUp
<1> DEFINE Goal == Resolved' \/ \E i \in DOMAIN net' : Waits(i)'
<1>5. Goal => StopKeepsUp'
  BY DEF StopKeepsUp
<1>6. ASSUME Poll PROVE Goal
  <2>1. /\ net' = With(subject, net) /\ poll = 0 /\ poll' = Interval(page) /\ visible
        /\ UNCHANGED <<error, shown, since>>
    BY <1>6 DEF Poll, Fetch
  <2> DEFINE sent == With(subject, net)
  <2>2. subject \in Subject
    BY DEF TypeOK, Subjects, Subject
  <2>3. /\ sent \in Seq(Request) /\ Len(sent) = Len(net) + 1
        /\ sent[Len(net) + 1].age = 0 /\ sent[Len(net) + 1].newest
    BY <1>2, <2>2, WithType
  <2> HIDE DEF sent
  <2>4. PICK last \in DOMAIN net' : net'[last].age = 0 /\ net'[last].newest
    BY <1>2, <2>1, <2>3 DEF sent
  <2>5. SinceFetch' = 0
    BY <1>1, <1>2, <2>1 DEF SinceFetch
  <2>6. ASSUME since > delay PROVE Within(Interval(page))
    <3>1. SinceFetch > delay
      BY <1>2, <2>1, <2>6 DEF SinceFetch
    <3>2. \A i \in DOMAIN net : ~Waits(i)
      BY <1>2, <1>3, <3>1
    <3>3. shown # None => shown.age \in Nat
      BY Ranges
    <3>4. Within(SinceFetch)
      BY <1>4, <2>1, <3>2
    <3> QED BY <1>2, <1>3, <3>3, <3>4 DEF Within
  <2>7. since' - SinceFetch' > delay => Within(Interval(page) + SinceFetch)'
    BY <1>1, <1>2, <2>1, <2>5, <2>6 DEF Within
  <2>8. Waits(last)'
    BY <1>1, <2>4, <2>5, <2>7
  <2> QED BY <2>8
<1>7. ASSUME Show PROVE Goal
  <2>1. net' = With(subject, net) /\ UNCHANGED poll /\ since' = 0
    BY <1>7 DEF Show, Fetch
  <2> DEFINE sent == With(subject, net)
  <2>2. subject \in Subject
    BY DEF TypeOK, Subjects, Subject
  <2>3. /\ sent \in Seq(Request) /\ Len(sent) = Len(net) + 1
        /\ sent[Len(net) + 1].age = 0 /\ sent[Len(net) + 1].newest
    BY <1>2, <2>2, WithType
  <2> HIDE DEF sent
  <2>4. PICK last \in DOMAIN net' : net'[last].age = 0 /\ net'[last].newest
    BY <1>2, <2>1, <2>3 DEF sent
  <2>5. SinceFetch' = 0
    BY <1>1, <1>2, <2>1 DEF SinceFetch
  <2>6. ~(since' - SinceFetch' > delay)
    BY <1>2, <2>1, <2>5
  <2>7. Waits(last)'
    BY <1>1, <2>4, <2>5, <2>6
  <2> QED BY <2>7
<1>8. ASSUME NEW i \in DOMAIN net, Answered(i) \/ Failed(i) PROVE Goal
  <2>1. /\ net' = Without(i) /\ net[i].newest /\ UNCHANGED <<poll, since, visible>>
        /\ (shown' = net[i] \/ error' = TRUE)
    BY <1>8 DEF Answered, Failed, Takes
  <2>2. i = Len(net)
    BY <2>1 DEF NewestLast
  <2>3. /\ net' \in Seq(Request) /\ Len(net') = Len(net) - 1
        /\ \A j \in DOMAIN net' : j < i => j \in DOMAIN net /\ net'[j].newest = net[j].newest
    BY <2>1, WithoutType
  <2>4. ASSUME NEW j \in DOMAIN net' PROVE ~net'[j].newest
    <3>1. j \in 1 .. Len(net) - 1
      BY <1>2, <2>3
    <3>2. j < i /\ j \in DOMAIN net /\ net'[j].newest = net[j].newest
      BY <1>2, <2>2, <2>3, <3>1
    <3>3. ~net[j].newest
      BY <1>2, <2>2, <3>1, <3>2 DEF NewestLast
    <3> QED BY <3>2, <3>3
  <2>5. visible /\ SinceFetch' = SinceFetch
    BY <1>1, <2>1 DEF SinceFetch
  <2>6. net[i].age = SinceFetch
    <3>1. PICK k \in DOMAIN net : Waits(k)
      BY <1>4, <2>1, <2>5
    <3>2. k = Len(net)
      BY <3>1 DEF NewestLast
    <3> QED BY <2>2, <3>1, <3>2
  <2>7. Within(SinceFetch)'
    <3>1. CASE error' = TRUE
      BY <3>1 DEF Within
    <3>2. CASE shown' = net[i]
      BY <1>2, <1>3, <2>5, <2>6, <3>2, NoneAssumption DEF Within
    <3> QED BY <2>1, <3>1, <3>2
  <2> QED BY <2>4, <2>7
<1>9. ASSUME NEW i \in DOMAIN net, Ignored(i) PROVE Goal
  <2>1. /\ net' = RemoveAt(net, i) /\ ~net[i].newest
        /\ UNCHANGED <<poll, since, visible, shown, error>>
    BY <1>9 DEF Ignored, Takes
  <2>2. /\ net' \in Seq(Request) /\ Len(net') = Len(net) - 1
        /\ \A j \in DOMAIN net' :
              /\ j < i => j \in DOMAIN net /\ net'[j] = net[j]
              /\ j >= i => j + 1 \in DOMAIN net /\ net'[j] = net[j + 1]
    BY <1>2, <2>1, RemoveAtType
  <2>3. visible /\ SinceFetch' = SinceFetch
    BY <1>1, <2>1 DEF SinceFetch
  <2>4. CASE Resolved
    <3>1. ASSUME NEW j \in DOMAIN net' PROVE ~net'[j].newest
      <4>1. j < i \/ j >= i
        BY <1>2, <2>2
      <4> QED BY <2>2, <2>4, <4>1
    <3> QED BY <2>1, <2>3, <2>4, <3>1 DEF Within
  <2>5. ASSUME NEW k \in DOMAIN net, Waits(k) PROVE Goal
    <3>1. k = Len(net) /\ k # i
      BY <2>1, <2>5 DEF NewestLast
    <3>2. Len(net) - 1 \in DOMAIN net' /\ Len(net) - 1 >= i /\ Len(net) - 1 + 1 = k
      BY <1>2, <2>2, <3>1
    <3>3. PICK j \in DOMAIN net' : net'[j] = net[k]
      BY <2>2, <3>2
    <3>4. Waits(j)'
      BY <1>1, <2>1, <2>3, <2>5, <3>3 DEF Within
    <3> QED BY <3>4
  <2> QED BY <1>4, <2>3, <2>4, <2>5
<1>10. ASSUME Tick PROVE Goal
  <2>1. /\ net' = Aged /\ poll' = poll - 1 /\ UNCHANGED visible
        /\ since' = Older(since) /\ poll > 0
    <3>1. Interval(page) > 0
      BY <1>2
    <3> QED BY <1>10, <3>1 DEF Tick, Aged
  <2>2. /\ net' \in Seq(Request) /\ DOMAIN net' = DOMAIN net
        /\ \A i \in DOMAIN net : /\ net'[i].age = net[i].age + 1
                                 /\ net'[i].newest = net[i].newest
    BY <2>1, AgedType
  <2>3. since' \in Nat /\ since' <= since + 1 /\ SinceFetch' = SinceFetch + 1
    BY <1>1, <1>2, <2>1 DEF SinceFetch, Older
  <2>4. CASE Resolved
    <3>1. error' \/ (shown' # None /\ shown'.age <= SinceFetch + 1)
      BY <1>3, <1>10, <2>4, WithinTick
    <3>2. Within(SinceFetch)'
      BY <2>3, <3>1 DEF Within
    <3> QED BY <2>2, <2>4, <3>2
  <2>5. ASSUME NEW k \in DOMAIN net, Waits(k) PROVE Goal
    <3>1. ASSUME since' - SinceFetch' > delay PROVE Within(Interval(page) + SinceFetch)'
      <4>1. since - SinceFetch > delay
        <5>1. delay \in Int /\ since \in Int /\ SinceFetch \in Int
          BY <1>2, <1>3
        <5>2. since' \in Int /\ SinceFetch' \in Int
          BY <2>3, <5>1
        <5>3. since' <= since + 1 /\ SinceFetch' = SinceFetch + 1 /\ since' - SinceFetch' > delay
          BY <2>3, <3>1
        <5>4. \A s, f, t, g, d \in Int : t <= s + 1 /\ g = f + 1 /\ t - g > d => s - f > d
          OBVIOUS
        <5> QED BY <5>1, <5>2, <5>3, <5>4
      <4>2. Interval(page) + SinceFetch \in Int
        BY <1>2, <1>3
      <4>3. error' \/ (shown' # None /\ shown'.age <= Interval(page) + SinceFetch + 1)
        BY <1>10, <2>5, <4>1, <4>2, WithinTick
      <4>4. Interval(page) + SinceFetch + 1 = Interval(page) + SinceFetch'
        BY <1>2, <1>3, <2>3
      <4> QED BY <1>1, <4>3, <4>4 DEF Within
    <3>2. k \in DOMAIN net' /\ net'[k].newest /\ net'[k].age = SinceFetch'
      BY <2>2, <2>3, <2>5
    <3>3. Waits(k)'
      BY <1>1, <3>1, <3>2
    <3> QED BY <3>2, <3>3
  <2> QED BY <1>4, <2>1, <2>4, <2>5
<1>11. ASSUME UNCHANGED vars PROVE Goal
  <2>1. SinceFetch' = SinceFetch
    BY <1>1, <1>11 DEF vars, SinceFetch
  <2> QED BY <1>1, <1>4, <1>11, <2>1 DEF vars, Within
<1>12. ~Hide /\ ~Retry /\ ~Debounced /\ \A s \in Subjects(page) : ~Move(s) /\ ~Type(s)
  BY DEF Hide, Retry, Debounced, Move, Type, Searches, NoField
<1> HIDE DEF Goal
<1> QED BY <1>5, <1>6, <1>7, <1>8, <1>9, <1>10, <1>11, <1>12 DEF Next

\* What is on its way, or shown, stays about the subject, or older than it.
LEMMA SubjectInductive ==
    TypeOK /\ NoField /\ ForSubject /\ [Next]_vars => ForSubject'
<1> SUFFICES ASSUME TypeOK, NoField, ForSubject, [Next]_vars, Interval(page) > 0
             PROVE  ForSubject'
  BY NetStep DEF NetMoves, ForSubject
<1>1. UNCHANGED <<page, delay>> /\ MaxAge' = MaxAge
  BY NetStep DEF NetMoves, MaxAge
<1>2. /\ since \in Nat /\ since <= MaxAge /\ MaxAge \in Nat
      /\ net \in Seq(Request) /\ DOMAIN net = 1 .. Len(net) /\ Len(net) \in Nat
      /\ \A i \in DOMAIN net : net[i] \in Request /\ net[i].age \in Nat
      /\ shown # None => shown \in Request /\ shown.age \in Nat
  BY Ranges
<1>3. page \in {"stop", "vehicles", "nearby"} /\ page \notin Searches
  BY DEF TypeOK, Page, Searches, Interval
<1>4. /\ \A i \in DOMAIN net : SameSubject(net[i])
      /\ shown # None => SameSubject(shown)
  BY DEF ForSubject
<1>5. subject \in Subject /\ \A s \in Subjects(page) : s \in Subject
  BY <1>3 DEF TypeOK, Subjects, Subject
<1> DEFINE Goal == /\ \A i \in DOMAIN net' : SameSubject(net[i])'
                   /\ shown' # None => SameSubject(shown)'
<1>6. Goal => ForSubject'
  BY DEF ForSubject
<1>7. ASSUME NEW s \in Subject, net' = With(s, net), UNCHANGED shown, subject' = s,
             (UNCHANGED since /\ s = subject) \/ (since' = 0 /\ (page = "nearby" \/ s = subject))
      PROVE  Goal
  <2> DEFINE sent == With(s, net)
  <2>1. /\ sent \in Seq(Request) /\ Len(sent) = Len(net) + 1
        /\ sent[Len(net) + 1].subject = s
    BY <1>2, WithType
  <2>4. ASSUME NEW i \in DOMAIN net
        PROVE  sent[i].age = net[i].age /\ sent[i].subject = net[i].subject
    <3>1. net \in Seq(Request)
      BY <1>2
    <3> QED BY <3>1, WithType
  <2> HIDE DEF sent
  <2>2. ASSUME NEW i \in DOMAIN net' PROVE SameSubject(net[i])'
    <3>1. i \in DOMAIN net \/ i = Len(net) + 1
      BY <1>2, <1>7, <2>1 DEF sent
    <3>2. CASE i = Len(net) + 1
      <4>1. net'[i].subject = s
        BY <1>7, <2>1, <3>2 DEF sent
      <4> QED BY <1>7, <4>1 DEF SameSubject
    <3>3. CASE i \in DOMAIN net
      <4>1. net'[i].age = net[i].age /\ net'[i].subject = net[i].subject
        BY <1>7, <2>4, <3>3 DEF sent
      <4>2. net[i].age \in Nat
        BY <1>2, <3>3
      <4> QED BY <1>1, <1>4, <1>7, <3>3, <4>1, <4>2 DEF SameSubject
    <3> QED BY <3>1, <3>2, <3>3
  <2>3. shown' # None => SameSubject(shown)'
    BY <1>1, <1>2, <1>4, <1>7 DEF SameSubject
  <2> QED BY <2>2, <2>3
<1>8. ASSUME Poll PROVE Goal
  <2>1. CASE UNCHANGED net
    BY <1>1, <1>4, <1>8, <2>1 DEF Poll, SameSubject
  <2>2. CASE net' = With(subject, net)
    BY <1>5, <1>7, <1>8, <2>2 DEF Poll
  <2> QED BY <1>8, <2>1, <2>2 DEF Poll, Fetch
<1>9. ASSUME Show PROVE Goal
  BY <1>5, <1>7, <1>9 DEF Show, Fetch
<1>10. ASSUME NEW s \in Subjects(page), Move(s) PROVE Goal
  BY <1>5, <1>7, <1>10 DEF Move, Fetch
<1>11. ASSUME NEW i \in DOMAIN net, Answered(i) \/ Failed(i) \/ Ignored(i) PROVE Goal
  <2>1. UNCHANGED <<subject, since>> /\ (shown' = net[i] \/ UNCHANGED shown)
    BY <1>3, <1>11 DEF Answered, Failed, Ignored
  <2>2. ASSUME NEW j \in DOMAIN net'
        PROVE  \E k \in DOMAIN net : /\ net'[j].age = net[k].age
                                     /\ net'[j].subject = net[k].subject
    <3>1. CASE net' = Without(i)
      <4>1. /\ net' \in Seq(Request)
            /\ j < i => /\ j \in DOMAIN net /\ net'[j].age = net[j].age
                        /\ net'[j].subject = net[j].subject
            /\ j >= i => j + 1 \in DOMAIN net /\ net'[j] = net[j + 1]
        BY <3>1, WithoutType
      <4>2. j < i \/ j >= i
        BY <1>2, <4>1
      <4> QED BY <4>1, <4>2
    <3>2. CASE net' = RemoveAt(net, i)
      <4>1. /\ net' \in Seq(Request)
            /\ j < i => j \in DOMAIN net /\ net'[j] = net[j]
            /\ j >= i => j + 1 \in DOMAIN net /\ net'[j] = net[j + 1]
        BY <1>2, <3>2, RemoveAtType
      <4>2. j < i \/ j >= i
        BY <1>2, <4>1
      <4> QED BY <4>1, <4>2
    <3> QED BY <1>11, <3>1, <3>2 DEF Answered, Failed, Ignored
  <2>3. \A j \in DOMAIN net' : SameSubject(net[j])'
    BY <1>1, <1>4, <2>1, <2>2 DEF SameSubject
  <2>4. shown' # None => SameSubject(shown)'
    BY <1>1, <1>4, <2>1 DEF SameSubject
  <2> QED BY <2>3, <2>4
<1>12. ASSUME Tick PROVE Goal
  <2>1. net' = Aged /\ UNCHANGED subject /\ since' = Older(since)
    BY <1>12 DEF Tick, Aged
  <2>2. /\ DOMAIN net' = DOMAIN net
        /\ \A i \in DOMAIN net : /\ net'[i].age = net[i].age + 1
                                 /\ net'[i].subject = net[i].subject
    BY <2>1, AgedType
  <2>3. since' \in Nat /\ since' <= since + 1 /\ since' <= MaxAge
    BY <1>2, <2>1 DEF Older
  <2>4. ASSUME NEW i \in DOMAIN net' PROVE SameSubject(net[i])'
    <3>1. net[i].age \in Nat /\ (net'[i].age < since' => net[i].age < since)
      BY <1>2, <2>2, <2>3
    <3> QED BY <1>1, <1>4, <2>1, <2>2, <3>1 DEF SameSubject
  <2>5. ASSUME shown' # None PROVE SameSubject(shown)'
    <3>1. shown # None
      BY <1>12, <2>5 DEF Tick
    <3>2. shown'.subject = shown.subject /\ shown'.age = Older(shown.age)
      BY <1>12, <3>1, ShownAged
    <3>3. shown'.age < since' => shown.age < since
      BY <1>2, <2>3, <3>1, <3>2 DEF Older
    <3> QED BY <1>1, <1>4, <2>1, <3>1, <3>2, <3>3 DEF SameSubject
  <2> QED BY <2>4, <2>5
<1>13. ASSUME Hide \/ UNCHANGED vars PROVE Goal
  BY <1>1, <1>4, <1>13 DEF Hide, vars, SameSubject
<1>14. ~Retry /\ ~Debounced /\ \A s \in Subjects(page) : ~Type(s)
  BY <1>3 DEF Retry, Debounced, Type, NoField, Searches
<1> HIDE DEF Goal
<1> QED BY <1>6, <1>8, <1>9, <1>10, <1>11, <1>12, <1>13, <1>14 DEF Next

IInv == TypeOK /\ NoField /\ NewestLast /\ OneInv /\ NeverBack /\ SettleInv /\ ErrorTold /\ KeepsUp

\* A page opens with the request that it sends at once, if any.
LEMMA InitInv == Init => IInv
<1> SUFFICES ASSUME Init PROVE IInv
  OBVIOUS
<1>1. page \in Page /\ delay \in Nat /\ delay \in 0 .. MaxDelay
  BY PageAssumption DEF Init
<1>2. subject \in Subject /\ subject \in Subjects(page) /\ typed = subject
  BY <1>1 DEF Init, Opening, Subjects, Subject, Page, Searches
<1>3. Interval(page) \in Nat /\ MaxAge \in Nat
  BY <1>1 DEF Interval, MaxAge, Page, Searches
<1>4. /\ visible = TRUE /\ wait = 0 /\ poll = Interval(page) /\ shown = None /\ error = FALSE
      /\ since = 0 /\ loading \in BOOLEAN /\ failures = {}
  BY DEF Init
<1>5. ASSUME net \in Seq(Request), \A i \in DOMAIN net : net[i].age <= delay PROVE TypeOK
  <2>1. {typed, subject} \subseteq Subjects(page)
    BY <1>2
  <2>2. wait \in 0 .. 1 /\ poll \in 0 .. Interval(page) /\ since \in 0 .. MaxAge
    BY <1>4, <1>3
  <2>3. visible \in BOOLEAN /\ error \in BOOLEAN /\ shown \in Request \cup {None}
    BY <1>4
  <2> QED BY <1>4, <1>1, <1>5, <2>1, <2>2, <2>3 DEF TypeOK
<1>6. CASE page = "search"
  <2>1. net = <<>> /\ net \in Seq(Request) /\ DOMAIN net = {} /\ Len(net) = 0
    BY <1>6 DEF Init
  <2>4. KeepsUp
    <3>1. ~(Interval(page) > 0)
      BY <1>6 DEF Interval, Searches
    <3> QED BY <1>6, <3>1 DEF KeepsUp, MapKeepsUp, NearbyKeepsUp, StopKeepsUp, ForSubject
  <2>2. subject = NoText /\ ~loading
    BY <1>6 DEF Init, Opening, Searches
  <2>3. TypeOK
    BY <1>5, <2>1
  <2> QED BY <1>2, <1>6, <2>1, <2>2, <2>3, <2>4
       DEF Init, IInv, NoField, NewestLast, OneInv, OneAtMost, SentByPoll, NeverBack, SettleInv,
           LoadingWaits, StopsFollow, RoutesFollow, ErrorTold
<1>7. CASE page # "search"
  <2>1. net = With(subject, <<>>)
    BY <1>7 DEF Init
  <2>2. /\ net \in Seq(Request) /\ Len(net) = 1 /\ DOMAIN net = {1} /\ net # <<>>
        /\ net[1].subject = subject /\ net[1].age = 0 /\ net[1].newest /\ ~net[1].overtaken
    BY <1>2, <2>1, FirstType
  <2>3. TypeOK
    <3>1. \A i \in DOMAIN net : net[i].age <= delay
      BY <1>1, <2>2
    <3> QED BY <1>5, <2>2, <3>1
  <2>4. OneInv
    <3>1. Interval(page) - Interval(page) = 0
      BY <1>3
    <3> QED BY <1>4, <2>2, <3>1 DEF OneInv, OneAtMost, SentByPoll
  <2>5. KeepsUp
    <3>1. page \in {"vehicles", "nearby"} => loading
      BY DEF Init
    <3>2. SinceFetch = 0 /\ ~(since - SinceFetch > delay)
      BY <1>1, <1>3, <1>4 DEF SinceFetch
    <3>3. \A i \in DOMAIN net : SameSubject(net[i])
      BY <1>4, <2>2 DEF SameSubject
    <3> QED BY <1>4, <2>2, <3>1, <3>2, <3>3
         DEF KeepsUp, MapKeepsUp, NearbyKeepsUp, StopKeepsUp, ForSubject
  <2> QED BY <1>2, <1>7, <2>2, <2>3, <2>4, <2>5
       DEF Init, IInv, NoField, NewestLast, NeverBack, SettleInv, LoadingWaits, StopsFollow,
           RoutesFollow, ErrorTold
<1> QED BY <1>6, <1>7

\* The invariant holds in every reachable state.
LEMMA Invariant == Spec => []IInv
<1>1. IInv /\ [Next]_vars => IInv'
  BY FieldInductive, TypeInductive, NewestInductive, OneInductive, BackInductive, SettleInductive,
     ErrorInductive, MapInductive, NearbyInductive, StopInductive, SubjectInductive
     DEF IInv, KeepsUp
<1> QED BY InitInv, <1>1, PTL DEF Spec

\* The state of a page has its type: what is on its way is not older than answers take.
THEOREM PageTypes == Spec => []TypeOK
  BY Invariant, PTL DEF IInv

\* The board of a stop (isCurrent), the search for stops (AbortController) and the map
\* with timely answers never go back to an answer to an older request.
THEOREM PagesNeverGoBack == Spec => []NeverBack
  BY Invariant, PTL DEF IInv

\* A search with nothing on its way shows no skeleton (the finally blocks of search and
\* loadRoutes), and the outcome for what was typed: its results, or, on the home page,
\* that it failed when it did.  What the home page shows may be of an older search that
\* was answered or that failed after the newest was sent.
THEOREM SearchesSettle == Spec => []Settles
<1>1. IInv => Settles
  <2> SUFFICES ASSUME IInv, page \in Searches, net = <<>>, wait = 0, typed = subject
               PROVE  /\ ~loading
                      /\ \/ page = "search" /\ subject = NoText
                         \/ shown # None /\ (shown.subject = subject \/ (page = "routes" /\ shown.overtaken))
                      /\ page = "routes" /\ "newest" \in failures => error
                      /\ error => page = "routes" /\ failures # {}
    BY DEF Settles
  <2>1. ~loading
    BY DEF IInv, SettleInv, LoadingWaits
  <2>4. error <=> page = "routes" /\ failures # {}
    BY DEF IInv, ErrorTold
  <2>2. CASE page = "search"
    BY <2>1, <2>2, <2>4 DEF IInv, SettleInv, StopsFollow
  <2>3. CASE page = "routes"
    <3>1. DOMAIN net = {}
      OBVIOUS
    <3> QED BY <2>1, <2>3, <2>4, <3>1 DEF IInv, SettleInv, RoutesFollow
  <2> QED BY <2>1, <2>2, <2>3 DEF Searches
<1> QED BY Invariant, <1>1, PTL

\* What a page that polls shows is about its subject and at most an interval and the
\* time of an answer old (of two, where answers overlap), or it says that a request
\* failed, or that it loads (the effects of the three pages that call setInterval).
THEOREM PagesCatchUp == Spec => []CatchesUp
<1> DEFINE overlaps == delay >= Interval(page)
           old == IF overlaps \/ page = "nearby" THEN Interval(page) + 2 * delay
                  ELSE Interval(page) + delay
           Fresh == error \/ loading \/ (shown # None /\ shown.subject = subject /\ shown.age <= old)
<1>1. IInv => CatchesUp
  <2> SUFFICES ASSUME IInv, Interval(page) > 0, page = "stop" => visible /\ ~overlaps,
                      since > IF page = "nearby" THEN old ELSE 2 * delay
               PROVE  Fresh
    BY DEF CatchesUp
  <2>1. TypeOK /\ OneInv /\ MapKeepsUp /\ NearbyKeepsUp /\ StopKeepsUp /\ ForSubject
    BY DEF IInv, KeepsUp
  <2>2. /\ delay \in Nat /\ poll \in Nat /\ since \in Nat /\ Interval(page) \in Nat
        /\ poll <= Interval(page)
        /\ \A i \in DOMAIN net : net[i].age \in Nat /\ net[i].age <= delay
        /\ shown # None => shown.age \in Nat
    BY <2>1, Ranges
  <2>3. page \in {"stop", "vehicles", "nearby"}
    BY <2>1 DEF TypeOK, Page, Searches, Interval
  <2>4. shown # None => SameSubject(shown)
    BY <2>1 DEF ForSubject
  <2>5. CASE page = "vehicles"
    <3>1. ASSUME Within(old) PROVE Fresh
      BY <2>4, <2>5, <3>1 DEF Within, SameSubject
    <3>2. ASSUME NEW i \in DOMAIN net,
                 Within((IF overlaps THEN delay ELSE 0) + Interval(page) + net[i].age)
          PROVE  Within(old)
      BY <2>2, <2>5, <3>2 DEF Within
    <3>3. ASSUME Within((IF overlaps THEN delay ELSE 0) + Interval(page) - poll)
          PROVE  Within(old)
      BY <2>2, <2>5, <3>3 DEF Within
    <3> HIDE DEF Fresh, old
    <3>4. loading => Fresh
      BY DEF Fresh
    <3> QED BY <2>1, <2>5, <3>1, <3>2, <3>3, <3>4 DEF MapKeepsUp
  <2>6. CASE page = "nearby"
    <3>1. CASE Within(delay + Interval(page) - poll)
      <4>1. CASE shown # None /\ shown.age <= delay + Interval(page) - poll
        <5>1. shown.age <= old /\ shown.age < since
          BY <2>2, <2>6, <4>1
        <5> QED BY <2>4, <2>6, <4>1, <5>1 DEF SameSubject
      <4> QED BY <3>1, <4>1 DEF Within
    <3> QED BY <2>1, <2>6, <3>1 DEF NearbyKeepsUp
  <2>7. CASE page = "stop"
    <3>1. ASSUME Within(old) PROVE Fresh
      BY <2>4, <2>7, <3>1 DEF Within, SameSubject
    <3>2. SinceFetch \in Nat /\ SinceFetch <= Interval(page)
      BY <2>2 DEF SinceFetch
    <3>3. ASSUME Within(SinceFetch) PROVE Within(old)
      BY <2>2, <2>7, <3>2, <3>3 DEF Within
    <3>4. ASSUME NEW i \in DOMAIN net, net[i].age = SinceFetch,
                 since - SinceFetch > delay => Within(Interval(page) + SinceFetch)
          PROVE  Within(old)
      <4>1. SinceFetch <= delay
        BY <2>2, <3>4
      <4>2. since - SinceFetch > delay
        BY <2>2, <2>7, <3>2, <4>1
      <4> QED BY <2>2, <2>7, <3>2, <3>4, <4>1, <4>2 DEF Within
    <3> HIDE DEF Fresh, old
    <3> QED BY <2>1, <2>2, <2>7, <3>1, <3>3, <3>4 DEF StopKeepsUp
  <2> QED BY <2>3, <2>5, <2>6, <2>7
<1> QED BY Invariant, <1>1, PTL
=============================================================================
