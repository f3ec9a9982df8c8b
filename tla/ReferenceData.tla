----------------------------- MODULE ReferenceData -----------------------------
\* What the programs look up before they act, as functions of their inputs: whether
\* the market is open, which expiry to use, and which instrument a provider's security
\* id stands for at a time. Days and hours are numbers, day 0 is a Monday.
EXTENDS Integers, Sequences, FiniteSets, FiniteSetsExt, SequencesExt

NoValue == -1      \* a field that is null

\* The members of a finite set in an order, first to last.
InOrder(S, before(_, _)) ==
    [k \in 1..Cardinality(S) |-> CHOOSE x \in S : Cardinality({y \in S : before(y, x)}) = k - 1]

-------------------------------------------------------------------------------
\* market_calendar.py. A moment is what a clock shows, with the offset of its zone when
\* it is aware; the calendar has a zone, hours and holidays.
Normalized(p) == IF p.aware THEN p.wall - p.offset + p.zone ELSE p.wall

SessionStatus(p) ==
    LET day == Normalized(p) \div 24
        hour == Normalized(p) % 24
    IN  IF day % 7 >= 5 THEN "weekend"
        ELSE IF day \in p.holidays THEN "exchange holiday"
        ELSE IF hour < p.open THEN "before market open"
        ELSE IF hour > p.close THEN "after market close"
        ELSE "market session open"

\* Opening hours of one day, and zones at most a day from the one of reference.
ValidMoment(p) ==
    /\ p.wall \in Int /\ p.offset \in -24..24 /\ p.zone \in -24..24
    /\ p.open \in 0..23 /\ p.close \in 0..23

\* The session is open when the instant lies within the hours, both ends included, of
\* a day on which there is trading, whatever zone it was written in.
CalendarAgrees(p, a) ==
    LET instant == IF p.aware THEN p.wall - p.offset ELSE p.wall - p.zone
        around == (p.wall \div 24 - 3)..(p.wall \div 24 + 3)
        trading == {d \in around : d % 7 < 5} \ p.holidays
    IN  a = "market session open" <=>
            \E d \in trading : 24 * d + p.open - p.zone <= instant /\ instant <= 24 * d + p.close - p.zone

-------------------------------------------------------------------------------
\* expiry_service.py over the contracts of one underlying, [type, expiry, active].
ListAvailable(p, from) ==
    {c.expiry : c \in {d \in p.contracts : d.active /\ d.type = p.type /\ d.expiry >= from}}

First(expiries) == IF expiries = {} THEN NoValue ELSE Min(expiries)

WindowRefused(p) == p.minimum < 0 \/ (p.maximum # NoValue /\ p.maximum < p.minimum)

SelectNearest(p) ==
    IF WindowRefused(p) THEN NoValue
    ELSE First({e \in ListAvailable(p, p.asOf + p.minimum) : p.maximum = NoValue \/ e <= p.asOf + p.maximum})

SelectNext(p, after) == First(ListAvailable(p, after + 1))

\* Months have p.month days here; the last expiry of each is its monthly one.
MonthlyExpiries(p) ==
    LET expiries == ListAvailable(p, p.asOf)
    IN  {e \in expiries : \A f \in expiries : f \div p.month = e \div p.month => f <= e}

SelectNearestMonthly(p) == First(MonthlyExpiries(p))

IsAvailable(p, expiry) == \E c \in p.contracts : c.active /\ c.type = p.type /\ c.expiry = expiry

Validate(p, expiry) == expiry >= p.asOf /\ IsAvailable(p, expiry)

ListedExpiries(p) == {c.expiry : c \in p.contracts}

SelectExpiries(p) ==
    [nearest |-> SelectNearest(p), monthly |-> MonthlyExpiries(p), nearestMonthly |-> SelectNearestMonthly(p),
     following |-> [day \in ListedExpiries(p) |-> SelectNext(p, day)], valid |-> {e \in ListedExpiries(p) : Validate(p, e)}]

ValidListing(p) ==
    /\ IsFiniteSet(p.contracts) /\ \A c \in p.contracts : c.expiry \in Nat
    /\ p.asOf \in Int /\ p.minimum \in Int /\ p.maximum \in Int /\ p.month \in Nat \ {0}

\* The nearest expiry is a valid one in its window and none there is earlier; rolling
\* from the earliest one visits every valid expiry; a month with any has one monthly
\* expiry, its last; and the nearest monthly one does not come before the earliest.
ExpiriesAgree(p, a) ==
    LET window == {e \in a.valid : p.minimum >= 0 /\ e - p.asOf >= p.minimum /\ (p.maximum # NoValue => e - p.asOf <= p.maximum)}
    IN  /\ (a.nearest \in window /\ \A e \in window : a.nearest <= e) \/ (a.nearest = NoValue /\ window = {})
        /\ {a.following[e] : e \in a.valid} \ {NoValue} = a.valid \ (IF a.valid = {} THEN {} ELSE {Min(a.valid)})
        /\ \A e \in a.valid : Cardinality({m \in a.monthly : m \div p.month = e \div p.month /\ m >= e}) = 1
        /\ a.monthly \subseteq a.valid /\ (a.valid # {} => a.nearestMonthly = Min(a.monthly) /\ a.nearestMonthly >= Min(a.valid))

-------------------------------------------------------------------------------
\* Mappings of a provider's security ids in the historical foundation: each is
\* [id, from, to, target]; the checksum covers all of it, and `to` may be null.
Overlaps(m, n) ==
    m.id = n.id /\ (n.to = NoValue \/ m.from < n.to) /\ (m.to = NoValue \/ m.to > n.from)

\* Sorted by id and start, equal ones in the order they came in.
Earlier(payload, i, j) ==
    LET m == payload[i]
        n == payload[j]
    IN  \/ m.id < n.id
        \/ m.id = n.id /\ (m.from < n.from \/ (m.from = n.from /\ i < j))

Dated(m) == m.to = NoValue \/ m.to > m.from

\* A mapping is compared with the one before it only.
MappingsValid(payload) ==
    LET sorted == InOrder(DOMAIN payload, LAMBDA i, j : Earlier(payload, i, j))
        at(k) == payload[sorted[k]]
    IN  \A k \in DOMAIN sorted :
            /\ Dated(at(k))
            /\ k > 1 /\ at(k - 1).id = at(k).id => at(k - 1).to # NoValue /\ at(k).from >= at(k - 1).to

\* One that is on file as it is changes nothing, any other overlap raises.
StoreMapping(so, m) ==
    LET found == {n \in so.stored : Overlaps(n, m)}
    IN  [stored |-> so.stored \union {m}, refused |-> so.refused \/ found \notin {{}, {m}}]

StoreMappings(stored, payload) ==
    LET so[i \in 0..Len(payload)] ==
            IF i = 0 THEN [stored |-> stored, refused |-> ~ MappingsValid(payload)]
            ELSE StoreMapping(so[i - 1], payload[i])
    IN  so

\* A payload is stored as a whole or not at all.
ImportMapping(stored, payload) ==
    LET after == StoreMappings(stored, payload)[Len(payload)]
    IN  IF after.refused THEN stored ELSE after.stored

StoredAfter(payloads) ==
    LET stored[k \in 0..Len(payloads)] ==
            IF k = 0 THEN {} ELSE ImportMapping(stored[k - 1], payloads[k])
    IN  stored

ImportMappings(payloads) == StoredAfter(payloads)[Len(payloads)]

ValidMappings(payloads) ==
    payloads \in Seq(Seq([id : Int, from : Nat, to : Nat \union {NoValue}, target : Int]))

\* A security id stands for one instrument at a time, across the payloads of a source;
\* and a payload is refused only for a mapping that contradicts another one.
MappingsAgree(payloads, a) ==
    LET holds(m, t) == m.from <= t /\ (m.to = NoValue \/ t < m.to)
    IN  /\ \A m, n \in a : m.id = n.id /\ (\E t \in {m.from, n.from} : holds(m, t) /\ holds(n, t)) => m = n
        /\ \A k \in DOMAIN payloads :
              \/ Range(payloads[k]) \subseteq a
              \/ \E m \in Range(payloads[k]) : ~ Dated(m)
              \/ \E i, j \in DOMAIN payloads[k] : i # j /\ Overlaps(payloads[k][i], payloads[k][j])
              \/ \E m \in Range(payloads[k]), n \in a : m # n /\ Overlaps(m, n)
================================================================================
