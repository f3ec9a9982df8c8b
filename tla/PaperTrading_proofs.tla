--------------------------- MODULE PaperTrading_proofs ---------------------------
(***************************************************************************)
(* Proofs about PaperTrading, for every set of calls and signals, every    *)
(* price, slippage and fee, and every bound.                               *)
(***************************************************************************)
EXTENDS PaperTrading, FiniteSetTheorems, SequenceTheorems, TLAPS

\* What a mark or close read is still true of the row where it matters: the
\* entry never changes and the costs change only with the close. The mark it
\* found is newer than the row it read.
SnapshotHolds(j) ==
    j.call # "open" =>
        /\ j.seen \in Position
        /\ position[j.signal] # NoPosition
        /\ j.seen.entryPrice = position[j.signal].entryPrice
        /\ IsOpen(j.signal) => j.seen.costs = position[j.signal].costs
        /\ j.stage = "quoted" => j.quote # NoQuote
        /\ j.call = "mark" /\ j.stage = "quoted" => j.quote.at > j.seen.markAt

Snapshots == \A k \in Client : job[k] # Idle => SnapshotHolds(job[k])

\* The orders of a signal as its position tells them.
OrdersFit(s) ==
    /\ position[s] = NoPosition => Filled(s, "BUY") = {} /\ Filled(s, "SELL") = {}
    /\ position[s] # NoPosition =>
        /\ \E b : Filled(s, "BUY") = {b}
        /\ position[s].status = "OPEN" => Filled(s, "SELL") = {}
        /\ position[s].status = "CLOSED" => \E x : Filled(s, "SELL") = {x}

\* The part of LedgerBalances that is about one signal.
Balanced(s) ==
    \A b \in Filled(s, "BUY") :
        /\ position[s].entryPrice = orders[s][b].price
        /\ position[s].net = position[s].gross - position[s].costs
        /\ Filled(s, "SELL") = {} => position[s].costs = orders[s][b].cost
        /\ \A x \in Filled(s, "SELL") :
             /\ position[s].costs = orders[s][b].cost + orders[s][x].cost
             /\ position[s].gross =
                  Gross(s, orders[s][b].price, orders[s][x].price)

Books == \A s \in Signal : OrdersFit(s) /\ Balanced(s)

\* The inductive invariant.
PaperInv == TypeOK /\ Snapshots /\ Books

---------------------------------------------------------------------------
\* Rounding gives an integer.
LEMMA HalfUpType ==
    ASSUME NEW n \in Int, NEW d \in Nat \ {0}
    PROVE  HalfUp(n, d) \in Int
<1>1. 2 * d \in Nat \ {0} /\ 2 * n + d \in Int /\ d - 2 * n \in Int
  OBVIOUS
<1>2. /\ (2 * n + d) \div (2 * d) \in Int
      /\ (d - 2 * n) \div (2 * d) \in Int
  BY <1>1
<1> QED
  BY <1>2 DEF HalfUp

LEMMA ScalesType ==
    /\ BPS \in Nat \ {0} /\ PriceScale \in Nat \ {0}
    /\ BPS * PriceScale \in Nat \ {0}
    /\ \A s \in Signal : Quantity[s] \in Int
    /\ Slippage \subseteq Int /\ Fee \subseteq Int
    /\ 0 \in Moment
<1>1. BPS \in Nat \ {0} /\ PriceScale \in Nat \ {0} /\ Horizon \in Nat
  BY PaperAssumption
<1>2. BPS * PriceScale \in Nat \ {0}
  BY <1>1
<1> QED
  BY <1>1, <1>2, PaperAssumption DEF Moment

LEMMA PriceTypes ==
    ASSUME NEW s \in Signal, NEW last \in Int, NEW entry \in Int, NEW bps \in Int
    PROVE  /\ FillPrice(last, bps) \in Int
           /\ TransactionCost(s, last, bps) \in Int
           /\ Gross(s, entry, last) \in Int
<1>1. /\ last * (BPS + bps) \in Int
      /\ last * Quantity[s] * bps \in Int
      /\ (last - entry) * Quantity[s] \in Int
  BY ScalesType
<1>2. FillPrice(last, bps) \in Int
  BY <1>1, ScalesType, HalfUpType DEF FillPrice
<1>3. TransactionCost(s, last, bps) \in Int
  BY <1>1, ScalesType, HalfUpType DEF TransactionCost
<1>4. Gross(s, entry, last) \in Int
  BY <1>1, ScalesType, HalfUpType DEF Gross, Money
<1> QED
  BY <1>2, <1>3, <1>4

---------------------------------------------------------------------------
\* Appending a row to the orders of s adds its number to the rows of its side
\* when it is filled, and leaves every other row as it was.
LEMMA AppendOrder ==
    ASSUME NEW s \in Signal, NEW o \in Order,
           orders \in [Signal -> Seq(Order)],
           orders' = [orders EXCEPT ![s] = Append(@, o)]
    PROVE  /\ orders' \in [Signal -> Seq(Order)]
           /\ \A t \in Signal \ {s} : orders'[t] = orders[t]
           /\ orders'[s][Len(orders[s]) + 1] = o
           /\ \A i \in DOMAIN orders[s] : orders'[s][i] = orders[s][i]
           /\ Len(orders[s]) + 1 \notin DOMAIN orders[s]
           /\ \A side \in {"BUY", "SELL"} : Filled(s, side)' =
                IF o.side = side /\ o.status = "FILLED"
                THEN Filled(s, side) \union {Len(orders[s]) + 1}
                ELSE Filled(s, side)
<1> DEFINE n == Len(orders[s])
<1>1. orders[s] \in Seq(Order) /\ orders'[s] = Append(orders[s], o)
  OBVIOUS
<1>2. n \in Nat /\ DOMAIN orders[s] = 1..n
  BY <1>1
<1>3. DOMAIN orders'[s] = 1..(n + 1) /\ orders'[s] \in Seq(Order)
  BY <1>1
<1>4. orders'[s][n + 1] = o /\ \A i \in 1..n : orders'[s][i] = orders[s][i]
  BY <1>1
<1>5. n + 1 \notin 1..n /\ 1..(n + 1) = (1..n) \union {n + 1}
  BY <1>2
<1>6. \A t \in Signal \ {s} : orders'[t] = orders[t]
  OBVIOUS
<1>7. orders' \in [Signal -> Seq(Order)]
  BY <1>3, <1>6
<1>8. ASSUME NEW side \in {"BUY", "SELL"}
      PROVE  Filled(s, side)' =
                IF o.side = side /\ o.status = "FILLED"
                THEN Filled(s, side) \union {n + 1} ELSE Filled(s, side)
  BY <1>2, <1>3, <1>4, <1>5 DEF Filled
<1> QED
  BY <1>2, <1>4, <1>5, <1>6, <1>7, <1>8

LEMMA SameOrders ==
    ASSUME NEW s \in Signal, orders'[s] = orders[s]
    PROVE  \A side : Filled(s, side)' = Filled(s, side)
BY DEF Filled

\* A signal neither of whose rows changes stays in order.
LEMMA BooksOfOthers ==
    ASSUME NEW s \in Signal, OrdersFit(s), Balanced(s),
           position'[s] = position[s], orders'[s] = orders[s]
    PROVE  OrdersFit(s)' /\ Balanced(s)'
<1>1. \A side : Filled(s, side)' = Filled(s, side)
  BY SameOrders
<1>2. OrdersFit(s)'
  BY <1>1 DEF OrdersFit
<1>3. Balanced(s)'
  BY <1>1 DEF Balanced, Gross, Money, HalfUp
<1> QED
  BY <1>2, <1>3

---------------------------------------------------------------------------
\* What every step leaves of a row that other calls have read.
Evolves(s) ==
    position[s] # NoPosition =>
        /\ position'[s] # NoPosition
        /\ position'[s].entryPrice = position[s].entryPrice
        /\ IsOpen(s)' => IsOpen(s) /\ position'[s].costs = position[s].costs

\* A step that ends the call of k and lets the rows evolve keeps the snapshots.
LEMMA SnapshotsKept ==
    ASSUME PaperInv, NEW k \in Client, job' = [job EXCEPT ![k] = Idle],
           \A s \in Signal : Evolves(s)
    PROVE  Snapshots' /\ job' \in [Client -> Job \union {Idle}]
<1>1. job \in [Client -> Job \union {Idle}]
  BY DEF PaperInv, TypeOK
<1>2. job' \in [Client -> Job \union {Idle}]
  BY <1>1
<1>3. ASSUME NEW m \in Client, job'[m] # Idle
      PROVE  SnapshotHolds(job[m])'
  <2>1. m # k /\ job'[m] = job[m] /\ job[m] \in Job
    BY <1>1, <1>3
  <2>2. SnapshotHolds(job[m]) /\ job[m].signal \in Signal
    BY <1>3, <2>1 DEF PaperInv, Snapshots, Job
  <2>3. Evolves(job[m].signal)
    BY <2>2
  <2> QED
    BY <2>1, <2>2, <2>3 DEF SnapshotHolds, Evolves
<1> QED
  BY <1>2, <1>3 DEF Snapshots

\* What is known of a call that is about to persist.
LEMMA QuotedCall ==
    ASSUME PaperInv, NEW k \in Client, job[k] # Idle,
           job[k].stage = "quoted", job[k].quote # NoQuote
    PROVE  /\ job[k] \in Job
           /\ job[k].signal \in Signal /\ job[k].asOf \in Moment
           /\ job[k].quote \in Quote
           /\ job[k].quote.at \in Moment
           /\ job[k].quote.last \in Nat /\ job[k].quote.last \in Int
<1>1. job[k] \in Job
  BY DEF PaperInv, TypeOK
<1>2. job[k].quote \in Quote
  BY <1>1 DEF Job
<1> QED
  BY <1>1, <1>2 DEF Job, Quote

\* A step that starts or advances a call and touches no table.
LEMMA TablesKept ==
    ASSUME PaperInv, UNCHANGED <<position, orders>>
    PROVE  Books' /\ \A s \in Signal : Evolves(s)
<1>1. \A s \in Signal : position'[s] = position[s] /\ orders'[s] = orders[s]
  OBVIOUS
<1>2. Books'
  BY <1>1, BooksOfOthers DEF PaperInv, Books
<1>3. \A s \in Signal : Evolves(s)
  BY DEF Evolves, IsOpen
<1> QED
  BY <1>2, <1>3

LEMMA PublishInv ==
    ASSUME PaperInv, NEW s \in Signal, NEW t \in Moment, NEW p \in Price,
           Publish(s, t, p)
    PROVE  PaperInv'
<1>1. UNCHANGED <<position, orders, events, job>> /\ p \in Nat
  BY PaperAssumption DEF Publish, tables
<1>2. market' \in [Signal -> [Moment -> Nat]]
  BY <1>1 DEF Publish, PaperInv, TypeOK
<1>3. TypeOK'
  BY <1>1, <1>2 DEF PaperInv, TypeOK
<1>4. Snapshots'
  <2> SUFFICES ASSUME NEW m \in Client, job'[m] # Idle
               PROVE  SnapshotHolds(job[m])'
    BY DEF Snapshots
  <2>1. SnapshotHolds(job[m]) /\ job[m] = job'[m]
    BY <1>1 DEF PaperInv, Snapshots
  <2> QED
    BY <1>1, <2>1 DEF SnapshotHolds, IsOpen
<1> QED
  BY <1>1, <1>3, <1>4, TablesKept DEF PaperInv

\* The call of k gets on to job `new`, for which its snapshot holds.
LEMMA CallMoves ==
    ASSUME PaperInv, NEW k \in Client, NEW new \in Job \union {Idle},
           job' = [job EXCEPT ![k] = new], UNCHANGED <<market, tables>>,
           new # Idle => SnapshotHolds(new)
    PROVE  PaperInv'
<1>1. UNCHANGED <<position, orders, events, market>>
  BY DEF tables
<1>2. job \in [Client -> Job \union {Idle}]
  BY DEF PaperInv, TypeOK
<1>3. TypeOK'
  BY <1>1, <1>2 DEF PaperInv, TypeOK
<1>4. ASSUME NEW m \in Client, job'[m] # Idle
      PROVE  SnapshotHolds(job[m])'
  <2>1. PICK j : j = job'[m]
    OBVIOUS
  <2>2. SnapshotHolds(j)
    BY <1>2, <1>4, <2>1 DEF PaperInv, Snapshots
  <2> QED
    BY <1>1, <2>1, <2>2 DEF SnapshotHolds, IsOpen
<1> QED
  BY <1>1, <1>3, <1>4, TablesKept DEF PaperInv, Snapshots

LEMMA StartInv ==
    ASSUME PaperInv, NEW k \in Client, NEW call \in {"open", "mark", "close"},
           NEW s \in Signal, NEW asOf \in Moment,
           Start(k, call, s, asOf), call # "open" => IsOpen(s)
    PROVE  PaperInv'
<1> DEFINE new == [call |-> call, stage |-> "checked", signal |-> s,
                   asOf |-> asOf, seen |-> position[s], quote |-> NoQuote]
<1>1. position[s] \in Position \union {NoPosition}
  BY DEF PaperInv, TypeOK
<1>2. new \in Job
  BY <1>1 DEF Job
<1>3. SnapshotHolds(new)
  BY <1>1 DEF SnapshotHolds, IsOpen
<1>4. job' = [job EXCEPT ![k] = new] /\ UNCHANGED <<market, tables>>
  BY DEF Start
<1> HIDE DEF new
<1> QED
  BY <1>2, <1>3, <1>4, CallMoves

LEMMA LatestMarkInv ==
    ASSUME PaperInv, NEW k \in Client, LatestMark(k)
    PROVE  PaperInv'
<1> DEFINE j == job[k]
<1>1. j \in Job /\ SnapshotHolds(j) /\ UNCHANGED <<market, tables>>
  BY DEF LatestMark, PaperInv, TypeOK, Snapshots
<1>2. CASE \E t \in Quoted(j) :
            job' = [job EXCEPT ![k] =
                 [j EXCEPT !.stage = "quoted",
                           !.quote = [at |-> t, last |-> market[j.signal][t]]]]
  <2>1. PICK t \in Quoted(j) :
            job' = [job EXCEPT ![k] =
                 [j EXCEPT !.stage = "quoted",
                           !.quote = [at |-> t, last |-> market[j.signal][t]]]]
    BY <1>2
  <2> DEFINE quote == [at |-> t, last |-> market[j.signal][t]]
             new == [j EXCEPT !.stage = "quoted", !.quote = quote]
  <2>2. t \in Moment /\ j.signal \in Signal /\ market[j.signal][t] \in Nat
    BY <1>1 DEF Quoted, Job, PaperInv, TypeOK
  <2>3. quote \in Quote
    BY <2>2 DEF Quote
  <2>4. new \in Job
    BY <1>1, <2>3 DEF Job
  <2>5. j.call = "mark" => t > j.seen.markAt
    BY DEF Quoted
  <2>6. /\ new.call = j.call /\ new.signal = j.signal /\ new.seen = j.seen
        /\ new.stage = "quoted" /\ new.quote = quote
    BY <1>1 DEF Job
  <2>7. quote # NoQuote
    BY <2>3, NullAssumption
  <2>8. SnapshotHolds(new)
    BY <1>1, <2>5, <2>6, <2>7 DEF SnapshotHolds
  <2>9. job' = [job EXCEPT ![k] = new]
    BY <2>1
  <2> HIDE DEF new, quote
  <2> QED
    BY <1>1, <2>4, <2>8, <2>9, CallMoves
<1>3. CASE job' = [job EXCEPT ![k] =
               IF j.call = "open" THEN [j EXCEPT !.stage = "quoted"] ELSE Idle]
  <2> DEFINE new == IF j.call = "open" THEN [j EXCEPT !.stage = "quoted"] ELSE Idle
  <2>1. new \in Job \union {Idle}
    BY <1>1 DEF Job
  <2>2. new # Idle => SnapshotHolds(new)
    BY <1>1 DEF SnapshotHolds, Job
  <2>3. job' = [job EXCEPT ![k] = new]
    BY <1>3
  <2> HIDE DEF new
  <2> QED
    BY <1>1, <2>1, <2>2, <2>3, CallMoves
<1> QED
  BY <1>2, <1>3 DEF LatestMark

---------------------------------------------------------------------------
LEMMA RejectOpenInv ==
    ASSUME PaperInv, NEW k \in Client, RejectOpen(k)
    PROVE  PaperInv'
<1>1. job[k] # Idle /\ job[k] \in Job
  BY DEF RejectOpen, Persist, PaperInv, TypeOK
<1>2. PICK s \in Signal : s = job[k].signal
  BY <1>1 DEF Job
<1>3. PICK o \in Order :
        /\ o.status = "REJECTED"
        /\ job' = [job EXCEPT ![k] = Idle]
        /\ UNCHANGED <<market, position, events>>
        /\ orders' = [orders EXCEPT ![s] = Append(@, o)]
  <2> DEFINE o == [side |-> "BUY", status |-> "REJECTED",
                   requestedAt |-> job[k].asOf, filledAt |-> 0,
                   price |-> 0, cost |-> 0]
  <2>1. o \in Order /\ o.status = "REJECTED"
    BY <1>1, ScalesType DEF Order, Job
  <2> QED
    BY <1>2, <2>1 DEF RejectOpen, Persist
<1>4. orders \in [Signal -> Seq(Order)]
  BY DEF PaperInv, TypeOK
<1>5. /\ orders' \in [Signal -> Seq(Order)]
      /\ \A t \in Signal \ {s} : orders'[t] = orders[t]
      /\ \A i \in DOMAIN orders[s] : orders'[s][i] = orders[s][i]
      /\ \A side \in {"BUY", "SELL"} : Filled(s, side)' = Filled(s, side)
  BY <1>3, <1>4, AppendOrder
<1>6. OrdersFit(s)' /\ Balanced(s)'
  <2>1. OrdersFit(s) /\ Balanced(s)
    BY <1>2 DEF PaperInv, Books
  <2>2. \A side \in {"BUY", "SELL"} : \A i \in Filled(s, side) : orders'[s][i] = orders[s][i]
    BY <1>5 DEF Filled
  <2>3. /\ Filled(s, "BUY")' = Filled(s, "BUY")
        /\ Filled(s, "SELL")' = Filled(s, "SELL")
        /\ position'[s] = position[s]
    BY <1>3, <1>5
  <2>4. OrdersFit(s)'
    BY <2>1, <2>3 DEF OrdersFit
  <2>5. /\ \A b \in Filled(s, "BUY") : orders'[s][b] = orders[s][b]
        /\ \A x \in Filled(s, "SELL") : orders'[s][x] = orders[s][x]
    BY <2>2
  <2>6. Balanced(s)'
    BY <2>1, <2>3, <2>5 DEF Balanced, Gross, Money, HalfUp
  <2> QED
    BY <2>4, <2>6
<1>7. Books'
  <2>1. \A t \in Signal \ {s} : OrdersFit(t)' /\ Balanced(t)'
    BY <1>3, <1>5, BooksOfOthers DEF PaperInv, Books
  <2> QED
    BY <1>6, <2>1 DEF Books
<1>8. \A t \in Signal : Evolves(t)
  BY <1>3 DEF Evolves, IsOpen
<1>9. Snapshots' /\ job' \in [Client -> Job \union {Idle}]
  BY <1>3, <1>8, SnapshotsKept
<1> QED
  BY <1>3, <1>5, <1>7, <1>9 DEF PaperInv, TypeOK

---------------------------------------------------------------------------
\* An entry is inserted only where there was none: the books of the signal
\* hold its one BUY order.
LEMMA PersistOpenInv ==
    ASSUME PaperInv, NEW k \in Client, PersistOpen(k)
    PROVE  PaperInv'
<1>1. PICK j \in Job : j = job[k]
  BY DEF PersistOpen, Persist, PaperInv, TypeOK
<1>2. PICK s \in Signal : s = j.signal
  BY <1>1 DEF Job
<1>3. /\ j.asOf \in Moment /\ j.quote.at \in Moment
      /\ j.quote.last \in Nat /\ j.quote.last \in Int
      /\ job' = [job EXCEPT ![k] = Idle] /\ market' = market
  BY <1>1, QuotedCall DEF PersistOpen, Persist
<1>4. CASE UNCHANGED tables
  <2>1. UNCHANGED <<position, orders, events>>
    BY <1>4 DEF tables
  <2>2. Snapshots' /\ job' \in [Client -> Job \union {Idle}]
    BY <1>3, <2>1, TablesKept, SnapshotsKept
  <2> QED
    BY <1>3, <2>1, <2>2, TablesKept DEF PaperInv, TypeOK
<1>5. CASE EntryIsNew(s) /\ \E slip \in Slippage, fee \in Fee :
                LET price == FillPrice(j.quote.last, slip)
                IN  InsertEntry(j, price, TransactionCost(s, price, fee))
  <2>1. PICK price \in Int, cost \in Int : InsertEntry(j, price, cost)
    BY <1>3, <1>5, PriceTypes, ScalesType
  <2>2. PICK o \in Order :
          /\ o.side = "BUY" /\ o.status = "FILLED"
          /\ o.price = price /\ o.cost = cost
          /\ orders' = [orders EXCEPT ![s] = Append(@, o)]
    <3>1. FilledOrder("BUY", j, price, cost) \in Order
      BY <1>3 DEF Order, FilledOrder
    <3> QED
      BY <1>2, <2>1, <3>1 DEF InsertEntry, OpenedRow, FilledOrder
  <2>3. PICK row \in Position :
          /\ row.status = "OPEN"
          /\ row.entryPrice = price /\ row.costs = cost
          /\ row.net = row.gross - row.costs
          /\ position' = [position EXCEPT ![s] = row]
    <3> DEFINE row == [status |-> "OPEN", entryAt |-> j.quote.at,
                       entryPrice |-> price, markAt |-> j.quote.at,
                       markPrice |-> j.quote.last, exitPrice |-> 0,
                       gross |-> 0, costs |-> cost, net |-> -cost]
    <3>1. row \in Position
      BY <1>3 DEF Position
    <3>2. /\ row.status = "OPEN"
          /\ row.entryPrice = price /\ row.costs = cost
          /\ row.net = row.gross - row.costs
      OBVIOUS
    <3>3. position' = [position EXCEPT ![s] = row]
      BY <1>2, <2>1 DEF InsertEntry, OpenedRow
    <3> HIDE DEF row
    <3> QED
      BY <3>1, <3>2, <3>3
  <2>4. PICK e \in Event : events' = [events EXCEPT ![s] = Append(@, e)]
    <3> DEFINE e == [type |-> "OPENED", at |-> j.quote.at, net |-> -cost]
    <3>1. e \in Event
      BY <1>3 DEF Event
    <3> QED
      BY <1>2, <2>1, <3>1 DEF InsertEntry, OpenedRow
  <2>5. /\ orders \in [Signal -> Seq(Order)]
        /\ position \in [Signal -> Position \union {NoPosition}]
        /\ events \in [Signal -> Seq(Event)]
    BY DEF PaperInv, TypeOK
  <2>6. position[s] = NoPosition /\ row # NoPosition
    BY <1>5, NullAssumption DEF EntryIsNew
  <2>8. /\ position'[s] = row /\ \A t \in Signal \ {s} : position'[t] = position[t]
        /\ position' \in [Signal -> Position \union {NoPosition}]
    BY <2>3, <2>5
  <2>9. events' \in [Signal -> Seq(Event)]
    BY <2>4, <2>5
  <2>10. PICK n :
         /\ orders' \in [Signal -> Seq(Order)]
         /\ \A t \in Signal \ {s} : orders'[t] = orders[t]
         /\ orders'[s][n] = o
         /\ Filled(s, "BUY")' = Filled(s, "BUY") \union {n}
         /\ Filled(s, "SELL")' = Filled(s, "SELL")
    <3> DEFINE n == Len(orders[s]) + 1
    <3>1. /\ orders' \in [Signal -> Seq(Order)]
          /\ \A t \in Signal \ {s} : orders'[t] = orders[t]
          /\ orders'[s][n] = o
          /\ \A side \in {"BUY", "SELL"} : Filled(s, side)' =
                IF o.side = side /\ o.status = "FILLED"
                THEN Filled(s, side) \union {n} ELSE Filled(s, side)
      BY <2>2, <2>5, AppendOrder
    <3> HIDE DEF n
    <3> QED
      BY <2>2, <3>1
  <2>11. Filled(s, "BUY") = {} /\ Filled(s, "SELL") = {}
    BY <2>6 DEF PaperInv, Books, OrdersFit
  <2>12. Filled(s, "BUY")' = {n} /\ Filled(s, "SELL")' = {}
    BY <2>2, <2>10, <2>11
  <2>13. OrdersFit(s)'
    BY <2>3, <2>6, <2>8, <2>12 DEF OrdersFit
  <2>14. Balanced(s)'
    BY <2>2, <2>3, <2>8, <2>10, <2>12 DEF Balanced
  <2>15. Books'
    <3>1. \A t \in Signal \ {s} : OrdersFit(t)' /\ Balanced(t)'
      BY <2>8, <2>10, BooksOfOthers DEF PaperInv, Books
    <3> QED
      BY <2>13, <2>14, <3>1 DEF Books
  <2>16. \A t \in Signal : Evolves(t)
    BY <2>6, <2>8 DEF Evolves, IsOpen
  <2>17. Snapshots' /\ job' \in [Client -> Job \union {Idle}]
    BY <1>3, <2>16, SnapshotsKept
  <2> QED
    BY <1>3, <2>8, <2>9, <2>10, <2>15, <2>17 DEF PaperInv, TypeOK
<1> QED
  BY <1>1, <1>2, <1>4, <1>5 DEF PersistOpen

---------------------------------------------------------------------------
\* A position stays one when a mark or a close sets its columns.
LEMMA MarkedRecord ==
    ASSUME NEW r \in Position, NEW at \in Moment, NEW last \in Nat,
           NEW gross \in Int, NEW costs \in Int, NEW net \in Int
    PROVE  [r EXCEPT !.markAt = at, !.markPrice = last,
                     !.gross = gross, !.costs = costs, !.net = net] \in Position
BY DEF Position

LEMMA ClosedRecord ==
    ASSUME NEW r \in Position, NEW at \in Moment, NEW last \in Nat,
           NEW price \in Int,
           NEW gross \in Int, NEW costs \in Int, NEW net \in Int
    PROVE  [r EXCEPT !.status = "CLOSED", !.markAt = at, !.markPrice = last,
                     !.exitPrice = price,
                     !.gross = gross, !.costs = costs, !.net = net] \in Position
BY DEF Position

\* What a mark or a close writes, from the row it read and over the row that is there.
LEMMA RowsFit ==
    ASSUME PaperInv, NEW j \in Job, SnapshotHolds(j), IsOpen(j.signal),
           j.call # "open", j.stage = "quoted"
    PROVE  /\ MarkedRow(j) \in Position
           /\ \A price, cost \in Int : ClosedRow(j, price, cost) \in Position
<1>1. PICK s \in Signal : s = j.signal
  BY DEF Job
<1>2. PICK old \in Position : old = position[s]
  BY <1>1 DEF IsOpen, PaperInv, TypeOK
<1>3. j.quote \in Quote /\ j.seen \in Position
  BY DEF SnapshotHolds, Job
<1>4. PICK at \in Moment, last \in Nat, costs \in Int, entry \in Int :
        at = j.quote.at /\ last = j.quote.last /\ costs = j.seen.costs /\ entry = j.seen.entryPrice
  BY <1>3 DEF Quote, Position
<1>5. MarkedRow(j) \in Position
  <2>1. PICK gross \in Int : gross = Gross(s, entry, last)
    <3>1. last \in Int
      OBVIOUS
    <3> QED
      BY <3>1, PriceTypes
  <2>2. PICK net \in Int : net = gross - costs
    OBVIOUS
  <2>3. MarkedRow(j) = [old EXCEPT !.markAt = at, !.markPrice = last,
                                   !.gross = gross, !.costs = costs, !.net = net]
    BY <1>1, <1>2, <1>4, <2>1, <2>2 DEF MarkedRow
  <2>4. [old EXCEPT !.markAt = at, !.markPrice = last,
                    !.gross = gross, !.costs = costs, !.net = net] \in Position
    BY MarkedRecord
  <2> QED
    BY <2>3, <2>4
<1>6. ASSUME NEW price \in Int, NEW cost \in Int PROVE ClosedRow(j, price, cost) \in Position
  <2>1. PICK gross \in Int : gross = Gross(s, entry, price)
    BY PriceTypes
  <2>2. PICK total \in Int : total = costs + cost
    OBVIOUS
  <2>3. PICK net \in Int : net = gross - total
    OBVIOUS
  <2>4. ClosedRow(j, price, cost) =
          [old EXCEPT !.status = "CLOSED", !.markAt = at, !.markPrice = last,
                      !.exitPrice = price, !.gross = gross, !.costs = total, !.net = net]
    BY <1>1, <1>2, <1>4, <2>1, <2>2, <2>3 DEF ClosedRow
  <2>5. [old EXCEPT !.status = "CLOSED", !.markAt = at, !.markPrice = last,
                    !.exitPrice = price, !.gross = gross, !.costs = total,
                    !.net = net] \in Position
    BY ClosedRecord
  <2> QED
    BY <2>4, <2>5
<1> QED
  BY <1>5, <1>6

\* A mark changes an open row only, and from its snapshot it writes the costs
\* the row already has.
LEMMA PersistMarkInv ==
    ASSUME PaperInv, NEW k \in Client, PersistMark(k)
    PROVE  PaperInv'
<1>1. PICK j \in Job : j = job[k]
  BY DEF PersistMark, Persist, PaperInv, TypeOK
<1>2. PICK s \in Signal : s = j.signal
  BY <1>1 DEF Job
<1>3. /\ j # Idle /\ j.call = "mark" /\ j.stage = "quoted"
      /\ job' = [job EXCEPT ![k] = Idle]
      /\ market' = market /\ orders' = orders
  BY <1>1 DEF PersistMark, Persist
<1>4. /\ j.seen \in Position /\ j.quote # NoQuote
      /\ j.seen.entryPrice = position[s].entryPrice
      /\ IsOpen(s) => j.seen.costs = position[s].costs
  BY <1>1, <1>2, <1>3 DEF PaperInv, Snapshots, SnapshotHolds
<1>5. /\ j.quote.at \in Moment
      /\ j.quote.last \in Nat /\ j.quote.last \in Int
  BY <1>1, <1>3, <1>4, QuotedCall
<1>6. CASE UNCHANGED <<position, events>>
  <2>1. Snapshots' /\ job' \in [Client -> Job \union {Idle}]
    BY <1>3, <1>6, TablesKept, SnapshotsKept
  <2> QED
    BY <1>3, <1>6, <2>1, TablesKept DEF PaperInv, TypeOK
<1>7. CASE /\ IsOpen(s)
           /\ position' = [position EXCEPT ![s] = MarkedRow(j)]
           /\ events' = [events EXCEPT ![s] = Append(@,
                [type |-> "MARKED", at |-> j.quote.at, net |-> MarkedRow(j).net])]
  <2>1. position[s] \in Position /\ position[s].status = "OPEN"
    BY <1>7 DEF IsOpen, PaperInv, TypeOK
  <2>2. PICK gross \in Int : gross = Gross(s, j.seen.entryPrice, j.quote.last)
    BY <1>4, <1>5, PriceTypes DEF Position
  <2>3. j.seen.costs \in Int /\ j.seen.costs = position[s].costs
    BY <1>4, <1>7 DEF Position
  <2>4. MarkedRow(j) \in Position
    BY <1>1, <1>2, <1>3, <1>7, RowsFit DEF PaperInv, Snapshots
  <2>5. /\ MarkedRow(j).status = "OPEN"
        /\ MarkedRow(j).entryPrice = position[s].entryPrice
        /\ MarkedRow(j).costs = position[s].costs
        /\ MarkedRow(j).net = MarkedRow(j).gross - MarkedRow(j).costs
    BY <1>2, <2>1, <2>2, <2>3 DEF MarkedRow, Position
  <2>6. [type |-> "MARKED", at |-> j.quote.at, net |-> MarkedRow(j).net] \in Event
    BY <1>5, <2>4 DEF Event, Position
  <2>7. PICK row \in Position : row = MarkedRow(j)
    BY <2>4
  <2>8. PICK e \in Event :
          e = [type |-> "MARKED", at |-> j.quote.at, net |-> MarkedRow(j).net]
    BY <2>6
  <2>9. /\ position \in [Signal -> Position \union {NoPosition}]
        /\ events \in [Signal -> Seq(Event)]
    BY DEF PaperInv, TypeOK
  <2>10. /\ position'[s] = row /\ row # NoPosition
         /\ \A t \in Signal \ {s} : position'[t] = position[t]
         /\ position' \in [Signal -> Position \union {NoPosition}]
         /\ events' \in [Signal -> Seq(Event)]
    <3>1. /\ position' = [position EXCEPT ![s] = row]
          /\ events' = [events EXCEPT ![s] = Append(@, e)]
      BY <1>7, <2>7, <2>8
    <3> QED
      BY <2>9, <3>1, NullAssumption
  <2>11. \A side : Filled(s, side)' = Filled(s, side)
    BY <1>3, SameOrders
  <2>12. OrdersFit(s)'
    BY <1>7, <2>1, <2>5, <2>7, <2>10, <2>11 DEF PaperInv, Books, OrdersFit, IsOpen
  <2>13. Filled(s, "SELL") = {}
    BY <1>7, <2>1 DEF PaperInv, Books, OrdersFit, IsOpen
  <2>14. Balanced(s)'
    <3>1. Balanced(s)
      BY DEF PaperInv, Books
    <3> QED
      BY <1>3, <2>5, <2>7, <2>10, <2>11, <2>13, <3>1 DEF Balanced
  <2>15. Books'
    <3>1. \A t \in Signal \ {s} : OrdersFit(t)' /\ Balanced(t)'
      BY <1>3, <2>10, BooksOfOthers DEF PaperInv, Books
    <3> QED
      BY <2>12, <2>14, <3>1 DEF Books
  <2>16. \A t \in Signal : Evolves(t)
    BY <1>7, <2>5, <2>7, <2>10 DEF Evolves, IsOpen
  <2>17. Snapshots' /\ job' \in [Client -> Job \union {Idle}]
    BY <1>3, <2>16, SnapshotsKept
  <2> QED
    BY <1>3, <2>10, <2>15, <2>17 DEF PaperInv, TypeOK
<1> QED
  BY <1>1, <1>2, <1>6, <1>7 DEF PersistMark, RowIsOpen

\* A close appends the one SELL order and settles the row against it.
LEMMA PersistCloseInv ==
    ASSUME PaperInv, NEW k \in Client, PersistClose(k)
    PROVE  PaperInv'
<1>1. PICK j \in Job : j = job[k]
  BY DEF PersistClose, Persist, PaperInv, TypeOK
<1>2. PICK s \in Signal : s = j.signal
  BY <1>1 DEF Job
<1>3. /\ j # Idle /\ j.call = "close" /\ j.stage = "quoted"
      /\ job' = [job EXCEPT ![k] = Idle] /\ market' = market
  BY <1>1 DEF PersistClose, Persist
<1>4. /\ j.seen \in Position /\ j.quote # NoQuote
      /\ j.seen.entryPrice = position[s].entryPrice
      /\ IsOpen(s) => j.seen.costs = position[s].costs
  BY <1>1, <1>2, <1>3 DEF PaperInv, Snapshots, SnapshotHolds
<1>5. /\ j.quote.at \in Moment /\ j.asOf \in Moment
      /\ j.quote.last \in Nat /\ j.quote.last \in Int
  BY <1>1, <1>3, <1>4, QuotedCall
<1>6. CASE UNCHANGED tables
  <2>1. UNCHANGED <<position, orders, events>>
    BY <1>6 DEF tables
  <2>2. Snapshots' /\ job' \in [Client -> Job \union {Idle}]
    BY <1>3, <2>1, TablesKept, SnapshotsKept
  <2> QED
    BY <1>3, <2>1, <2>2, TablesKept DEF PaperInv, TypeOK
<1>7. ASSUME NEW price \in Int, NEW cost \in Int, ExitIsAllowed(s, price),
             orders' = [orders EXCEPT ![s] =
                          Append(@, FilledOrder("SELL", j, price, cost))],
             position' = [position EXCEPT ![s] = ClosedRow(j, price, cost)],
             events' = [events EXCEPT ![s] = Append(@,
               [type |-> "CLOSED", at |-> j.quote.at,
                net |-> ClosedRow(j, price, cost).net])]
      PROVE  PaperInv'
  <2>1. /\ position[s] \in Position /\ position[s].status = "OPEN"
        /\ IsOpen(s) /\ position[s] # NoPosition
    BY <1>7 DEF ExitIsAllowed, RowIsOpen, IsOpen, PaperInv, TypeOK
  <2>2. PICK gross \in Int : gross = Gross(s, j.seen.entryPrice, price)
    BY <1>4, <1>7, PriceTypes DEF Position
  <2>3. j.seen.costs \in Int /\ j.seen.costs = position[s].costs
    BY <1>4, <2>1 DEF Position
  <2>4. ClosedRow(j, price, cost) \in Position
    BY <1>1, <1>2, <1>3, <2>1, RowsFit DEF PaperInv, Snapshots
  <2>5. PICK row \in Position : row = ClosedRow(j, price, cost)
    BY <2>4
  <2>6. /\ row.status = "CLOSED"
        /\ row.entryPrice = position[s].entryPrice
        /\ row.costs = position[s].costs + cost
        /\ row.gross = Gross(s, position[s].entryPrice, price)
        /\ row.net = row.gross - row.costs
    BY <1>2, <1>4, <2>1, <2>2, <2>3, <2>5 DEF ClosedRow, Position
  <2>7. PICK e \in Event :
          e = [type |-> "CLOSED", at |-> j.quote.at,
               net |-> ClosedRow(j, price, cost).net]
    BY <1>5, <2>4 DEF Event, Position
  <2>8. PICK o \in Order :
          /\ o = FilledOrder("SELL", j, price, cost)
          /\ o.side = "SELL" /\ o.status = "FILLED"
          /\ o.price = price /\ o.cost = cost
    BY <1>5, <1>7 DEF Order, FilledOrder
  <2>9. /\ position \in [Signal -> Position \union {NoPosition}]
        /\ events \in [Signal -> Seq(Event)]
        /\ orders \in [Signal -> Seq(Order)]
    BY DEF PaperInv, TypeOK
  <2>10. /\ position'[s] = row /\ row # NoPosition
         /\ \A t \in Signal \ {s} : position'[t] = position[t]
         /\ position' \in [Signal -> Position \union {NoPosition}]
         /\ events' \in [Signal -> Seq(Event)]
    <3>1. /\ position' = [position EXCEPT ![s] = row]
          /\ events' = [events EXCEPT ![s] = Append(@, e)]
      BY <1>7, <2>5, <2>7
    <3> QED
      BY <2>9, <3>1, NullAssumption
  <2>11. PICK n :
         /\ orders' \in [Signal -> Seq(Order)]
         /\ \A t \in Signal \ {s} : orders'[t] = orders[t]
         /\ orders'[s][n] = o
         /\ \A i \in DOMAIN orders[s] : orders'[s][i] = orders[s][i]
         /\ Filled(s, "BUY")' = Filled(s, "BUY")
         /\ Filled(s, "SELL")' = Filled(s, "SELL") \union {n}
    <3> DEFINE n == Len(orders[s]) + 1
    <3>1. /\ orders' \in [Signal -> Seq(Order)]
          /\ \A t \in Signal \ {s} : orders'[t] = orders[t]
          /\ orders'[s][n] = o
          /\ \A i \in DOMAIN orders[s] : orders'[s][i] = orders[s][i]
          /\ \A side \in {"BUY", "SELL"} : Filled(s, side)' =
                IF o.side = side /\ o.status = "FILLED"
                THEN Filled(s, side) \union {n} ELSE Filled(s, side)
      BY <1>7, <2>8, <2>9, AppendOrder
    <3> HIDE DEF n
    <3> QED
      BY <2>8, <3>1
  <2>12. /\ Filled(s, "SELL") = {} /\ \E b : Filled(s, "BUY") = {b}
         /\ Balanced(s)
    BY <2>1 DEF PaperInv, Books, OrdersFit
  <2>13. OrdersFit(s)'
    BY <2>6, <2>10, <2>11, <2>12 DEF OrdersFit
  <2>14. Balanced(s)'
    <3>1. \A b \in Filled(s, "BUY") : orders'[s][b] = orders[s][b]
      BY <2>11 DEF Filled
    <3>2. ASSUME NEW b \in Filled(s, "BUY")
          PROVE  /\ position'[s].entryPrice = orders'[s][b].price
                 /\ position'[s].net = position'[s].gross - position'[s].costs
                 /\ position'[s].costs = orders'[s][b].cost + orders'[s][n].cost
                 /\ position'[s].gross =
                      Gross(s, orders'[s][b].price, orders'[s][n].price)
      BY <2>6, <2>8, <2>10, <2>11, <2>12, <3>1, <3>2 DEF Balanced
    <3> QED
      BY <2>11, <2>12, <3>2 DEF Balanced, Gross, Money, HalfUp
  <2>15. Books'
    <3>1. \A t \in Signal \ {s} : OrdersFit(t)' /\ Balanced(t)'
      BY <2>10, <2>11, BooksOfOthers DEF PaperInv, Books
    <3> QED
      BY <2>13, <2>14, <3>1 DEF Books
  <2>16. \A t \in Signal : Evolves(t)
    BY <2>6, <2>10 DEF Evolves, IsOpen
  <2>17. Snapshots' /\ job' \in [Client -> Job \union {Idle}]
    BY <1>3, <2>16, SnapshotsKept
  <2> QED
    BY <1>3, <2>10, <2>11, <2>15, <2>17 DEF PaperInv, TypeOK
<1>8. PICK slip \in Slippage, fee \in Fee :
        LET price == FillPrice(j.quote.last, -slip)
            cost == TransactionCost(s, price, fee)
            row == ClosedRow(j, price, cost)
        IN  \/ /\ ExitIsAllowed(s, price)
               /\ orders' = [orders EXCEPT ![s] =
                               Append(@, FilledOrder("SELL", j, price, cost))]
               /\ position' = [position EXCEPT ![s] = row]
               /\ events' = [events EXCEPT ![s] = Append(@,
                    [type |-> "CLOSED", at |-> j.quote.at, net |-> row.net])]
            \/ ~ExitIsAllowed(s, price) /\ UNCHANGED tables
  BY <1>1, <1>2 DEF PersistClose
<1>9. -slip \in Int /\ fee \in Int
  BY ScalesType
<1>10. PICK price \in Int : price = FillPrice(j.quote.last, -slip)
  BY <1>5, <1>9, PriceTypes
<1>11. PICK cost \in Int : cost = TransactionCost(s, price, fee)
  BY <1>9, PriceTypes
<1> QED
  BY <1>6, <1>7, <1>8, <1>10, <1>11

---------------------------------------------------------------------------
LEMMA InitPaper == Init => PaperInv
<1> SUFFICES ASSUME Init PROVE PaperInv
  OBVIOUS
<1>1. /\ position = [s \in Signal |-> NoPosition]
      /\ orders = [s \in Signal |-> <<>>]
      /\ \A k \in Client : job[k] = Idle
  BY DEF Init
<1>2. TypeOK
  BY ScalesType DEF Init, TypeOK
<1>3. Snapshots
  BY <1>1 DEF Snapshots
<1>4. \A s \in Signal, side \in {"BUY", "SELL"} : Filled(s, side) = {}
  BY <1>1 DEF Filled
<1>5. Books
  BY <1>1, <1>4 DEF Books, OrdersFit, Balanced
<1> QED
  BY <1>2, <1>3, <1>5 DEF PaperInv

LEMMA AbandonInv ==
    ASSUME PaperInv, NEW k \in Client, Abandon(k)
    PROVE  PaperInv'
BY CallMoves DEF Abandon

LEMMA NextPaper == PaperInv /\ [Next]_vars => PaperInv'
<1> SUFFICES ASSUME PaperInv, [Next]_vars PROVE PaperInv'
  OBVIOUS
<1>1. ASSUME NEW s \in Signal, NEW t \in Moment, NEW p \in Price, Publish(s, t, p)
      PROVE  PaperInv'
  BY <1>1, PublishInv
<1>2. ASSUME NEW k \in Client, Step(k)
      PROVE  PaperInv'
  <2>1. ASSUME NEW s \in Signal, NEW asOf \in Moment, OpenPosition(k, s, asOf)
        PROVE  PaperInv'
    BY <2>1, StartInv DEF OpenPosition
  <2>2. ASSUME NEW s \in Signal, NEW asOf \in Moment, MarkPosition(k, s, asOf)
        PROVE  PaperInv'
    BY <2>2, StartInv DEF MarkPosition
  <2>3. ASSUME NEW s \in Signal, NEW asOf \in Moment, ClosePosition(k, s, asOf)
        PROVE  PaperInv'
    BY <2>3, StartInv DEF ClosePosition
  <2>4. CASE LatestMark(k)
    BY <2>4, LatestMarkInv
  <2>5. CASE RejectOpen(k)
    BY <2>5, RejectOpenInv
  <2>6. CASE PersistOpen(k)
    BY <2>6, PersistOpenInv
  <2>7. CASE PersistMark(k)
    BY <2>7, PersistMarkInv
  <2>8. CASE PersistClose(k)
    BY <2>8, PersistCloseInv
  <2>9. CASE Abandon(k)
    BY <2>9, AbandonInv
  <2> QED
    BY <1>2, <2>1, <2>2, <2>3, <2>4, <2>5, <2>6, <2>7, <2>8, <2>9 DEF Step
<1>3. CASE UNCHANGED vars
  <2>1. UNCHANGED <<market, tables, position, orders, events, job>>
    BY <1>3 DEF vars, tables
  <2>2. TypeOK'
    BY <2>1 DEF PaperInv, TypeOK
  <2>3. ASSUME NEW m \in Client, job'[m] # Idle
        PROVE  SnapshotHolds(job[m])'
    BY <2>1, <2>3 DEF PaperInv, Snapshots, SnapshotHolds, IsOpen
  <2> QED
    BY <2>1, <2>2, <2>3, TablesKept DEF PaperInv, Snapshots
<1> QED
  BY <1>1, <1>2, <1>3 DEF Next

LEMMA PaperInvariant == Spec => []PaperInv
BY InitPaper, NextPaper, PTL DEF Spec

---------------------------------------------------------------------------
\* Every row and every call of the program has its type: no order, position or
\* event is written that its table would not take.
THEOREM TypeCorrect == Spec => []TypeOK
<1>1. PaperInv => TypeOK
  BY DEF PaperInv
<1> QED
  BY <1>1, PaperInvariant, PTL

\* The costs and the P&L of a position are those of its fills, although each
\* was computed from a row read in an earlier transaction.
THEOREM LedgerHolds == Spec => []LedgerBalances
<1>1. PaperInv => LedgerBalances
  BY DEF PaperInv, Books, Balanced, LedgerBalances
<1> QED
  BY <1>1, PaperInvariant, PTL

\* Nothing ever changes a closed position.
THEOREM ClosedStaysClosed == Spec => ClosedForGood
<1>1. ASSUME TypeOK, [Next]_vars, NEW s \in Signal,
             position[s] # NoPosition, position[s].status = "CLOSED"
      PROVE  position'[s] = position[s]
  <2>1. ~IsOpen(s) /\ position \in [Signal -> Position \union {NoPosition}]
    BY <1>1 DEF IsOpen, TypeOK
  <2>2. ASSUME NEW k \in Client, Step(k)
        PROVE  position'[s] = position[s]
    <3>1. CASE PersistOpen(k)
      BY <1>1, <2>1, <3>1
      DEF PersistOpen, EntryIsNew, InsertEntry, OpenedRow, tables
    <3>2. CASE PersistMark(k)
      BY <2>1, <3>2 DEF PersistMark, RowIsOpen
    <3>3. CASE PersistClose(k)
      BY <2>1, <3>3 DEF PersistClose, ExitIsAllowed, RowIsOpen, tables
    <3> QED
      BY <2>2, <3>1, <3>2, <3>3
      DEF Step, OpenPosition, MarkPosition, ClosePosition, Start, LatestMark,
          RejectOpen, Abandon, tables
  <2> QED
    BY <1>1, <2>2 DEF Next, Publish, vars, tables
<1>2. TypeOK /\ [Next]_vars =>
        \A s \in Signal :
          position[s] # NoPosition /\ position[s].status = "CLOSED" =>
            position'[s] = position[s]
  BY <1>1
<1> QED
  BY <1>2, TypeCorrect, PTL DEF Spec, ClosedForGood

\* A mark is not newer than the last one only when its call had read another
\* row than the one it overwrites.
THEOREM MarksGoBackInRacesOnly == Spec => OnlyRacesMarkBack
<1> DEFINE Race(s) == \E k \in Client :
                job[k] # Idle /\ job[k].signal = s /\ job[k].seen # position[s]
<1>1. ASSUME PaperInv, [Next]_vars, NEW s \in Signal,
             IsOpen(s), IsOpen(s)', events'[s] # events[s],
             position'[s].markAt <= position[s].markAt
      PROVE  Race(s)
  <2>1. position[s] \in Position /\ position[s].markAt \in Int
    BY <1>1 DEF PaperInv, TypeOK, IsOpen, Position, Moment
  <2>2. events'[s] # events[s]
    BY <1>1
  <2>4. PICK k \in Client : PersistMark(k)
    <3>1. ASSUME NEW k \in Client, Step(k)
          PROVE  PersistMark(k)
      <4>1. ~PersistOpen(k)
        BY <1>1, <2>2 DEF PersistOpen, EntryIsNew, InsertEntry, OpenedRow, IsOpen, tables, PaperInv, TypeOK
      <4>2. ~PersistClose(k)
        <5> SUFFICES ASSUME PersistClose(k) PROVE FALSE
          OBVIOUS
        <5>1. PICK j \in Job : j = job[k]
          BY <1>1 DEF PersistClose, Persist, PaperInv, TypeOK
        <5>2. PICK price, cost :
                /\ position' = [position EXCEPT ![j.signal] = ClosedRow(j, price, cost)]
                /\ \A t \in Signal \ {j.signal} : events'[t] = events[t]
          BY <1>1, <2>2, <5>1 DEF PersistClose, tables, PaperInv, TypeOK
        <5>3. j.signal = s /\ position'[s] = ClosedRow(j, price, cost)
          BY <1>1, <2>2, <5>2 DEF PaperInv, TypeOK
        <5>4. ClosedRow(j, price, cost).status = "CLOSED"
          BY <2>1, <5>3 DEF ClosedRow, Position
        <5> QED
          BY <1>1, <5>3, <5>4 DEF IsOpen
      <4> QED
        BY <2>2, <3>1, <4>1, <4>2
        DEF Step, OpenPosition, MarkPosition, ClosePosition, Start, LatestMark,
            RejectOpen, Abandon, tables
    <3> QED
      BY <1>1, <2>2, <3>1 DEF Next, Publish, vars, tables
  <2>5. PICK j \in Job : j = job[k] /\ j # Idle /\ j.call = "mark" /\ j.stage = "quoted"
    BY <1>1, <2>4 DEF PersistMark, Persist, PaperInv, TypeOK
  <2>6. /\ position' = [position EXCEPT ![j.signal] = MarkedRow(j)]
        /\ \A t \in Signal \ {j.signal} : events'[t] = events[t]
    BY <1>1, <2>2, <2>4, <2>5 DEF PersistMark, PaperInv, TypeOK
  <2>7. j.signal = s /\ position'[s] = MarkedRow(j)
    BY <1>1, <2>2, <2>6 DEF PaperInv, TypeOK
  <2>8. position'[s].markAt = j.quote.at
    BY <2>1, <2>7 DEF MarkedRow, Position
  <2>9. j.seen \in Position /\ j.quote.at > j.seen.markAt /\ j.quote # NoQuote
    BY <1>1, <2>5 DEF PaperInv, Snapshots, SnapshotHolds
  <2>10. j.quote.at \in Int /\ j.seen.markAt \in Int
    BY <2>9 DEF Job, Quote, Position, Moment
  <2>11. j.seen # position[s]
    BY <1>1, <2>1, <2>8, <2>9, <2>10
  <2> QED
    BY <2>5, <2>7, <2>11
<1>2. PaperInv /\ [Next]_vars =>
        \A s \in Signal :
          /\ IsOpen(s) /\ IsOpen(s)'
          /\ events'[s] # events[s]
          /\ position'[s].markAt <= position[s].markAt
          => Race(s)
  BY <1>1
<1> QED
  BY <1>2, PaperInvariant, PTL DEF Spec, OnlyRacesMarkBack
---------------------------------------------------------------------------
\* What a step of a call can do to the tables of a signal: nothing but a rejected
\* order, or a new row of the position with its event, and an order but for a mark.
Untouched(s) ==
    /\ position'[s] = position[s] /\ events'[s] = events[s]
    /\ \/ orders'[s] = orders[s]
       \/ \E o \in Order : o.status = "REJECTED" /\ orders'[s] = Append(orders[s], o)

Fills(s, j, side) ==
    \E o \in Order : /\ o.side = side /\ o.filledAt = j.quote.at /\ o.requestedAt = j.asOf
                     /\ orders'[s] = Append(orders[s], o)

Rewritten(s, j, e) ==
    /\ j.signal = s /\ j.stage = "quoted" /\ j.quote # NoQuote
    /\ position'[s] \in Position /\ position'[s].markAt = j.quote.at
    /\ e.at = j.quote.at /\ e.net = position'[s].net
    /\ events'[s] = Append(events[s], e)
    /\ \/ /\ position[s] = NoPosition /\ j.call = "open" /\ e.type = "OPENED"
          /\ position'[s].status = "OPEN" /\ position'[s].entryAt = j.quote.at
          /\ Fills(s, j, "BUY")
       \/ /\ IsOpen(s) /\ position'[s].entryAt = position[s].entryAt
          /\ \/ /\ j.call = "mark" /\ e.type = "MARKED" /\ position'[s].status = "OPEN"
                /\ orders'[s] = orders[s]
             \/ /\ j.call = "close" /\ e.type = "CLOSED" /\ position'[s].status = "CLOSED"
                /\ Fills(s, j, "SELL")

\* An opening that fills writes the first row of its signal.
LEMMA OpenRewrites ==
    ASSUME PaperInv, NEW k \in Client, PersistOpen(k), NEW s \in Signal
    PROVE  Untouched(s) \/ \E e \in Event : Rewritten(s, job[k], e)
<1>1. PICK j \in Job : j = job[k]
  BY DEF PersistOpen, Persist, PaperInv, TypeOK
<1>2. /\ j.stage = "quoted" /\ j.call = "open" /\ j.quote # NoQuote /\ j.signal \in Signal
      /\ j.asOf \in Moment /\ j.quote.at \in Moment
      /\ j.quote.last \in Nat /\ j.quote.last \in Int
  BY <1>1, QuotedCall DEF PersistOpen, Persist
<1>3. CASE UNCHANGED tables
  BY <1>3 DEF tables, Untouched
<1>4. CASE EntryIsNew(j.signal) /\ \E slip \in Slippage, fee \in Fee :
                LET price == FillPrice(j.quote.last, slip)
                IN  InsertEntry(j, price, TransactionCost(j.signal, price, fee))
  <2>1. PICK price \in Int, cost \in Int : InsertEntry(j, price, cost)
    BY <1>2, <1>4, PriceTypes, ScalesType
  <2>2. CASE j.signal # s
    BY <2>1, <2>2 DEF InsertEntry, OpenedRow, Untouched, PaperInv, TypeOK
  <2>3. CASE j.signal = s
    <3>1. PICK o \in Order : o = FilledOrder("BUY", j, price, cost)
      BY <1>2 DEF Order, FilledOrder
    <3>2. PICK e \in Event : e = [type |-> "OPENED", at |-> j.quote.at, net |-> -cost]
      <4>1. [type |-> "OPENED", at |-> j.quote.at, net |-> -cost] \in Event
        BY <1>2 DEF Event
      <4> QED
        BY <4>1
    <3>3. PICK row \in Position :
            row = [status |-> "OPEN", entryAt |-> j.quote.at, entryPrice |-> price,
                   markAt |-> j.quote.at, markPrice |-> j.quote.last, exitPrice |-> 0,
                   gross |-> 0, costs |-> cost, net |-> -cost]
      <4>1. [status |-> "OPEN", entryAt |-> j.quote.at, entryPrice |-> price,
             markAt |-> j.quote.at, markPrice |-> j.quote.last, exitPrice |-> 0,
             gross |-> 0, costs |-> cost, net |-> -cost] \in Position
        BY <1>2 DEF Position
      <4> QED
        BY <4>1
    <3>4. /\ orders'[s] = Append(orders[s], o) /\ position'[s] = row
          /\ events'[s] = Append(events[s], e)
      BY <2>1, <2>3, <3>1, <3>2, <3>3 DEF InsertEntry, OpenedRow, PaperInv, TypeOK
    <3>5. Fills(s, j, "BUY")
      BY <3>1, <3>4 DEF Fills, FilledOrder
    <3>6. Rewritten(s, j, e)
      BY <1>2, <1>4, <2>3, <3>2, <3>3, <3>4, <3>5 DEF Rewritten, EntryIsNew
    <3> QED
      BY <1>1, <3>6
  <2> QED
    BY <2>2, <2>3
<1> QED
  BY <1>1, <1>3, <1>4 DEF PersistOpen

\* A mark rewrites the open row of its signal and keeps its entry.
LEMMA MarkRewrites ==
    ASSUME PaperInv, NEW k \in Client, PersistMark(k), NEW s \in Signal
    PROVE  Untouched(s) \/ \E e \in Event : Rewritten(s, job[k], e)
<1>1. PICK j \in Job : j = job[k]
  BY DEF PersistMark, Persist, PaperInv, TypeOK
<1>2. /\ j # Idle /\ j.stage = "quoted" /\ j.call = "mark" /\ orders' = orders
  BY <1>1 DEF PersistMark, Persist
<1>3. j.quote # NoQuote /\ j.quote.at \in Moment
  BY <1>1, <1>2, QuotedCall DEF PaperInv, Snapshots, SnapshotHolds
<1>4. CASE UNCHANGED <<position, events>>
  BY <1>2, <1>4 DEF Untouched
<1>5. CASE /\ IsOpen(j.signal)
           /\ position' = [position EXCEPT ![j.signal] = MarkedRow(j)]
           /\ events' = [events EXCEPT ![j.signal] = Append(@,
                [type |-> "MARKED", at |-> j.quote.at, net |-> MarkedRow(j).net])]
  <2>1. CASE j.signal # s
    BY <1>2, <1>5, <2>1 DEF Untouched, PaperInv, TypeOK
  <2>2. CASE j.signal = s
    <3>1. position[s] \in Position /\ position[s].status = "OPEN"
      BY <1>5, <2>2 DEF IsOpen, PaperInv, TypeOK
    <3>2. position'[s] = MarkedRow(j)
      BY <1>5, <2>2 DEF PaperInv, TypeOK
    <3>3. PICK row : row = MarkedRow(j)
      OBVIOUS
    <3>4. row.status = "OPEN" /\ row.markAt = j.quote.at /\ row.entryAt = position[s].entryAt
      BY <2>2, <3>1, <3>3 DEF MarkedRow, Position
    <3>5. row \in Position
      BY <1>1, <1>2, <1>5, <3>3, RowsFit DEF PaperInv, Snapshots
    <3>6. PICK e \in Event : e = [type |-> "MARKED", at |-> j.quote.at, net |-> row.net]
      BY <1>3, <3>5 DEF Event, Position
    <3>7. events'[s] = Append(events[s], e)
      BY <1>5, <2>2, <3>3, <3>6 DEF PaperInv, TypeOK
    <3>8. Rewritten(s, j, e)
      BY <1>2, <1>3, <1>5, <2>2, <3>2, <3>3, <3>4, <3>5, <3>6, <3>7 DEF Rewritten
    <3> QED
      BY <1>1, <3>8
  <2> QED
    BY <2>1, <2>2
<1> QED
  BY <1>1, <1>4, <1>5 DEF PersistMark, RowIsOpen

\* So does a close, which fills the exit besides.
LEMMA CloseRewrites ==
    ASSUME PaperInv, NEW k \in Client, PersistClose(k), NEW s \in Signal
    PROVE  Untouched(s) \/ \E e \in Event : Rewritten(s, job[k], e)
<1>1. PICK j \in Job : j = job[k]
  BY DEF PersistClose, Persist, PaperInv, TypeOK
<1>2. /\ j # Idle /\ j.stage = "quoted" /\ j.call = "close" /\ j.signal \in Signal
  BY <1>1 DEF PersistClose, Persist, Job
<1>3. /\ j.quote # NoQuote /\ j.quote.at \in Moment /\ j.asOf \in Moment
      /\ j.quote.last \in Nat /\ j.quote.last \in Int
  BY <1>1, <1>2, QuotedCall DEF PaperInv, Snapshots, SnapshotHolds
<1>4. CASE UNCHANGED tables
  BY <1>4 DEF tables, Untouched
<1>5. ASSUME NEW price \in Int, NEW cost \in Int, ExitIsAllowed(j.signal, price),
             orders' = [orders EXCEPT ![j.signal] =
                          Append(@, FilledOrder("SELL", j, price, cost))],
             position' = [position EXCEPT ![j.signal] = ClosedRow(j, price, cost)],
             events' = [events EXCEPT ![j.signal] = Append(@,
               [type |-> "CLOSED", at |-> j.quote.at,
                net |-> ClosedRow(j, price, cost).net])]
      PROVE  Untouched(s) \/ \E e \in Event : Rewritten(s, job[k], e)
  <2>1. CASE j.signal # s
    BY <1>5, <2>1 DEF Untouched, PaperInv, TypeOK
  <2>2. CASE j.signal = s
    <3>1. IsOpen(s) /\ position[s] \in Position
      BY <1>5, <2>2 DEF ExitIsAllowed, RowIsOpen, IsOpen, PaperInv, TypeOK
    <3>2. PICK row : row = ClosedRow(j, price, cost)
      OBVIOUS
    <3>3. row \in Position
      BY <1>1, <1>2, <2>2, <3>1, <3>2, RowsFit DEF PaperInv, Snapshots
    <3>4. row.status = "CLOSED" /\ row.markAt = j.quote.at /\ row.entryAt = position[s].entryAt
      BY <2>2, <3>1, <3>2 DEF ClosedRow, Position
    <3>5. PICK e \in Event : e = [type |-> "CLOSED", at |-> j.quote.at, net |-> row.net]
      BY <1>3, <3>3 DEF Event, Position
    <3>6. PICK o \in Order : o = FilledOrder("SELL", j, price, cost)
      BY <1>3 DEF Order, FilledOrder
    <3>7. /\ orders'[s] = Append(orders[s], o) /\ position'[s] = row
          /\ events'[s] = Append(events[s], e)
      BY <1>5, <2>2, <3>2, <3>5, <3>6 DEF PaperInv, TypeOK
    <3>8. Fills(s, j, "SELL")
      BY <3>6, <3>7 DEF Fills, FilledOrder
    <3>9. Rewritten(s, j, e)
      BY <1>2, <1>3, <2>2, <3>1, <3>3, <3>4, <3>5, <3>7, <3>8 DEF Rewritten
    <3> QED
      BY <1>1, <3>9
  <2> QED
    BY <2>1, <2>2
<1>6. PICK slip \in Slippage, fee \in Fee :
        LET price == FillPrice(j.quote.last, -slip)
            cost == TransactionCost(j.signal, price, fee)
            row == ClosedRow(j, price, cost)
        IN  \/ /\ ExitIsAllowed(j.signal, price)
               /\ orders' = [orders EXCEPT ![j.signal] =
                               Append(@, FilledOrder("SELL", j, price, cost))]
               /\ position' = [position EXCEPT ![j.signal] = row]
               /\ events' = [events EXCEPT ![j.signal] = Append(@,
                    [type |-> "CLOSED", at |-> j.quote.at, net |-> row.net])]
            \/ ~ExitIsAllowed(j.signal, price) /\ UNCHANGED tables
  BY <1>1 DEF PersistClose
<1>7. -slip \in Int /\ fee \in Int
  BY ScalesType
<1>8. PICK price \in Int : price = FillPrice(j.quote.last, -slip)
  BY <1>3, <1>7, PriceTypes
<1>9. PICK cost \in Int : cost = TransactionCost(j.signal, price, fee)
  BY <1>2, <1>7, PriceTypes
<1> QED
  BY <1>4, <1>5, <1>6, <1>8, <1>9

\* A rejection adds its order and no more.
LEMMA RejectionAdds ==
    ASSUME PaperInv, NEW k \in Client, RejectOpen(k), NEW s \in Signal
    PROVE  Untouched(s)
<1>1. PICK j \in Job : j = job[k]
  BY DEF RejectOpen, Persist, PaperInv, TypeOK
<1>2. PICK o \in Order : o = [side |-> "BUY", status |-> "REJECTED", requestedAt |-> j.asOf,
                              filledAt |-> 0, price |-> 0, cost |-> 0]
  <2>1. [side |-> "BUY", status |-> "REJECTED", requestedAt |-> j.asOf,
         filledAt |-> 0, price |-> 0, cost |-> 0] \in Order
    BY ScalesType DEF Order, Job
  <2> QED
    BY <2>1
<1>3. orders'[s] = orders[s] \/ orders'[s] = Append(orders[s], o)
  BY <1>1, <1>2 DEF RejectOpen, PaperInv, TypeOK
<1>4. UNCHANGED <<position, events>> /\ o.status = "REJECTED"
  BY <1>2 DEF RejectOpen
<1> QED
  BY <1>3, <1>4 DEF Untouched

\* The tables of a signal, step by step.
LEMMA TableSteps ==
    ASSUME PaperInv, [Next]_vars, NEW s \in Signal
    PROVE  Untouched(s) \/ \E k \in Client : \E e \in Event : job[k] # Idle /\ Rewritten(s, job[k], e)
<1>1. CASE UNCHANGED tables
  BY <1>1 DEF tables, Untouched
<1>2. ASSUME NEW k \in Client, Step(k), ~ UNCHANGED tables
      PROVE  Untouched(s) \/ \E e \in Event : job[k] # Idle /\ Rewritten(s, job[k], e)
  <2>1. RejectOpen(k) \/ PersistOpen(k) \/ PersistMark(k) \/ PersistClose(k)
    BY <1>2 DEF Step, OpenPosition, MarkPosition, ClosePosition, Start, LatestMark, Abandon
  <2>2. job[k] # Idle
    BY <2>1 DEF RejectOpen, PersistOpen, PersistMark, PersistClose, Persist
  <2> QED
    BY <2>1, <2>2, RejectionAdds, OpenRewrites, MarkRewrites, CloseRewrites
<1> QED
  BY <1>1, <1>2 DEF Next, Publish, vars, tables

---------------------------------------------------------------------------
\* One signal's part of EventsTellThePosition, of its row and its events.
Tells(row, es) ==
    IF row = NoPosition THEN Len(es) = 0
    ELSE /\ Len(es) > 0
         /\ \A i \in 1..Len(es) :
              /\ es[i].type = "OPENED" <=> i = 1
              /\ es[i].type = "CLOSED" <=> i = Len(es) /\ row.status = "CLOSED"
         /\ es[Len(es)].at = row.markAt
         /\ es[Len(es)].net = row.net

\* An event that is written with its row continues the history.
LEMMA AppendTells ==
    ASSUME NEW es \in Seq(Event), NEW old, NEW row \in Position, NEW e \in Event,
           Tells(old, es), row # NoPosition, e.at = row.markAt, e.net = row.net,
           \/ old = NoPosition /\ e.type = "OPENED" /\ row.status = "OPEN"
           \/ /\ old # NoPosition /\ old.status = "OPEN"
              /\ \/ e.type = "MARKED" /\ row.status = "OPEN"
                 \/ e.type = "CLOSED" /\ row.status = "CLOSED"
    PROVE  Tells(row, Append(es, e))
<1>1. PICK n \in Nat : n = Len(es)
  OBVIOUS
<1>2. PICK hs \in Seq(Event) : hs = Append(es, e)
  BY AppendProperties
<1>3. /\ Len(hs) = n + 1 /\ hs[n + 1] = e
      /\ \A i \in 1..n : hs[i] = es[i]
  BY <1>1, <1>2
<1>4. hs[Len(hs)].at = row.markAt /\ hs[Len(hs)].net = row.net /\ Len(hs) > 0
  BY <1>1, <1>3
<1>5. ASSUME NEW i \in 1..Len(hs)
      PROVE  /\ hs[i].type = "OPENED" <=> i = 1
             /\ hs[i].type = "CLOSED" <=> i = Len(hs) /\ row.status = "CLOSED"
  <2>1. i \in 1..n \/ i = n + 1
    BY <1>1, <1>3
  <2>2. n + 1 \notin 1..n /\ (n = 0 \/ n >= 1) /\ 1..0 = {}
    BY <1>1
  <2>3. CASE old = NoPosition
    <3>1. n = 0
      BY <1>1, <2>3 DEF Tells
    <3>2. i = 1 /\ hs[i] = e /\ i = Len(hs)
      BY <1>3, <2>1, <2>2, <3>1
    <3> QED
      BY <2>3, <3>2
  <2>4. CASE old # NoPosition
    <3>1. /\ n > 0
          /\ \A m \in 1..n : /\ es[m].type = "OPENED" <=> m = 1
                             /\ es[m].type # "CLOSED"
      BY <1>1, <2>4 DEF Tells
    <3>2. CASE i \in 1..n
      <4>1. hs[i] = es[i] /\ i # Len(hs)
        BY <1>1, <1>3, <3>2
      <4> QED
        BY <3>1, <3>2, <4>1
    <3>3. CASE i = n + 1
      <4>1. hs[i] = e /\ i = Len(hs) /\ i # 1
        BY <1>1, <1>3, <3>1, <3>3
      <4> QED
        BY <2>4, <4>1
    <3> QED
      BY <2>1, <3>2, <3>3
  <2> QED
    BY <2>3, <2>4
<1> QED
  BY <1>2, <1>4, <1>5 DEF Tells

\* Every step continues the history of every row.
LEMMA EventsStep ==
    ASSUME PaperInv, EventsTellThePosition, [Next]_vars
    PROVE  EventsTellThePosition'
<1> SUFFICES ASSUME NEW s \in Signal PROVE Tells(position'[s], events'[s])
  BY DEF EventsTellThePosition, Tells
<1>1. Tells(position[s], events[s])
  BY DEF EventsTellThePosition, Tells
<1>2. CASE Untouched(s)
  BY <1>1, <1>2 DEF Untouched
<1>3. ASSUME NEW k \in Client, NEW e \in Event, Rewritten(s, job[k], e)
      PROVE  Tells(position'[s], events'[s])
  <2>1. PICK row \in Position : row = position'[s]
    BY <1>3 DEF Rewritten
  <2>2. PICK es \in Seq(Event) : es = events[s]
    BY DEF PaperInv, TypeOK
  <2>3. PICK old : old = position[s]
    OBVIOUS
  <2>4. /\ row # NoPosition /\ e.at = row.markAt /\ e.net = row.net
        /\ events'[s] = Append(es, e)
    BY <1>3, <2>1, <2>2, NullAssumption DEF Rewritten
  <2>5. \/ old = NoPosition /\ e.type = "OPENED" /\ row.status = "OPEN"
        \/ /\ old # NoPosition /\ old.status = "OPEN"
           /\ \/ e.type = "MARKED" /\ row.status = "OPEN"
              \/ e.type = "CLOSED" /\ row.status = "CLOSED"
    BY <1>3, <2>1, <2>3 DEF Rewritten, IsOpen
  <2>6. Tells(old, es)
    BY <1>1, <2>2, <2>3
  <2>7. Tells(row, Append(es, e))
    BY <2>4, <2>5, <2>6, AppendTells
  <2> QED
    BY <2>1, <2>4, <2>7
<1> QED
  BY <1>2, <1>3, TableSteps

\* The audit events tell the history of every row, for any number of calls and
\* whatever their interleaving.
THEOREM EventsTellTheRow == Spec => []EventsTellThePosition
<1>1. Init => EventsTellThePosition
  BY DEF Init, EventsTellThePosition
<1> QED
  BY <1>1, PaperInvariant, EventsStep, PTL DEF Spec

\* However many opens and closes of a signal race, it gets at most one filled
\* entry, one position and one exit, the three always agree, and the release
\* audit paper_lineage finds no error (persist_open, persist_close).
THEOREM OneEntryHolds == Spec => []OneEntryOnePosition
<1>1. ASSUME PaperInv, EventsTellThePosition PROVE OneEntryOnePosition
  <2> SUFFICES ASSUME NEW s \in Signal
               PROVE  /\ PaperLineage(s)
                      /\ Cardinality(Filled(s, "BUY")) <= 1
                      /\ Cardinality(Filled(s, "SELL")) <= 1
                      /\ Filled(s, "BUY") = {} <=> position[s] = NoPosition
                      /\ Filled(s, "SELL") # {} <=>
                           position[s] # NoPosition /\ position[s].status = "CLOSED"
    BY DEF OneEntryOnePosition
  <2>1. OrdersFit(s) /\ position[s] \in Position \union {NoPosition}
    BY <1>1 DEF PaperInv, Books, TypeOK
  <2>2. position[s] # NoPosition => position[s].status \in {"OPEN", "CLOSED"}
    BY <2>1 DEF Position
  <2>3. /\ Filled(s, "BUY") = {} \/ \E b : Filled(s, "BUY") = {b}
        /\ Filled(s, "SELL") = {} \/ \E x : Filled(s, "SELL") = {x}
        /\ Filled(s, "BUY") = {} <=> position[s] = NoPosition
        /\ Filled(s, "SELL") # {} <=>
             position[s] # NoPosition /\ position[s].status = "CLOSED"
    BY <2>1, <2>2 DEF OrdersFit
  <2>4. \A S : S = {} \/ (\E x : S = {x}) => Cardinality(S) = IF S = {} THEN 0 ELSE 1
    <3>1. Cardinality({}) = 0 /\ \A x : Cardinality({x}) = 1 /\ {x} # {}
      BY FS_EmptySet, FS_Singleton
    <3> QED
      BY <3>1, Zenon
  <2>5. /\ Cardinality(Filled(s, "BUY")) = IF position[s] = NoPosition THEN 0 ELSE 1
        /\ Cardinality(Filled(s, "SELL")) = IF Filled(s, "SELL") = {} THEN 0 ELSE 1
    BY <2>3, <2>4
  <2>6. position[s] # NoPosition => events[s] # <<>>
    <3>1. Len(<<>>) = 0
      OBVIOUS
    <3>2. position[s] # NoPosition => Len(events[s]) > 0
      BY <1>1 DEF EventsTellThePosition
    <3> QED
      BY <3>1, <3>2
  <2>7. PaperLineage(s)
    BY <2>3, <2>5, <2>6 DEF PaperLineage
  <2> QED
    BY <2>3, <2>5, <2>7
<1> QED
  BY <1>1, PaperInvariant, EventsTellTheRow, PTL

---------------------------------------------------------------------------
\* What keeps a call in time: a row of the signal is what it read but for what
\* marks change, and the quote it found lies where it looked for one.
FillsTimely(os, m, s) ==
    \A i \in DOMAIN os : os[i].status = "FILLED" =>
        /\ os[i].filledAt \in Captured[s]..os[i].requestedAt
        /\ m[os[i].filledAt] > 0

RowTimely(row, es) ==
    row # NoPosition =>
        /\ row.entryAt <= row.markAt
        /\ \A i \in 2..Len(es) : es[i].at > row.entryAt

CallTimely(j, row, m) ==
    /\ j.stage = "checked" => j.quote = NoQuote
    /\ j.call # "open" =>
         /\ row # NoPosition /\ j.seen \in Position
         /\ j.seen.entryAt = row.entryAt /\ j.seen.entryAt <= j.seen.markAt
    /\ j.quote # NoQuote =>
         /\ j.quote.at \in Captured[j.signal]..j.asOf
         /\ m[j.quote.at] > 0
         /\ j.call = "mark" => j.quote.at > j.seen.markAt
         /\ j.call = "close" => j.quote.at > j.seen.entryAt

Timely ==
    /\ \A s \in Signal : /\ FillsTimely(orders[s], market[s], s)
                         /\ RowTimely(position[s], events[s])
    /\ \A k \in Client : job[k] # Idle =>
         CallTimely(job[k], position[job[k].signal], market[job[k].signal])

\* A published quote stays published.
LEMMA QuotesStay ==
    ASSUME PaperInv, [Next]_vars, NEW s \in Signal, NEW t \in Moment, market[s][t] > 0
    PROVE  market'[s][t] > 0
<1>1. CASE market' = market
  BY <1>1
<1>2. ASSUME NEW r \in Signal, NEW u \in Moment, NEW p \in Price, Publish(r, u, p)
      PROVE  market'[s][t] > 0
  <2>1. p > 0
    BY PaperAssumption
  <2>2. market \in [Signal -> [Moment -> Nat]]
    BY DEF PaperInv, TypeOK
  <2> QED
    BY <1>2, <2>1, <2>2 DEF Publish
<1>3. ASSUME NEW k \in Client, Step(k) PROVE market' = market
  BY <1>3 DEF Step, OpenPosition, MarkPosition, ClosePosition, Start, LatestMark,
              RejectOpen, PersistOpen, PersistMark, PersistClose, Persist, Abandon
<1> QED
  BY <1>1, <1>2, <1>3 DEF Next, vars

\* Fills stay in time while quotes stay published.
LEMMA KeptFills ==
    ASSUME NEW s \in Signal, NEW os \in Seq(Order),
           NEW m, NEW m2, FillsTimely(os, m, s),
           \A t \in Moment : m[t] > 0 => m2[t] > 0
    PROVE  FillsTimely(os, m2, s)
<1> SUFFICES ASSUME NEW i \in DOMAIN os, os[i].status = "FILLED"
             PROVE  /\ os[i].filledAt \in Captured[s]..os[i].requestedAt
                    /\ m2[os[i].filledAt] > 0
  BY DEF FillsTimely
<1>1. os[i] \in Order
  BY ElementOfSeq
<1> QED
  BY <1>1 DEF FillsTimely, Order

\* A filled order is appended with a quote in time.
LEMMA FillsStayTimely ==
    ASSUME NEW s \in Signal, NEW os \in Seq(Order), NEW o \in Order,
           NEW m, NEW m2, FillsTimely(os, m, s),
           \A t \in Moment : m[t] > 0 => m2[t] > 0,
           o.status = "FILLED" => /\ o.filledAt \in Captured[s]..o.requestedAt
                                  /\ m[o.filledAt] > 0
    PROVE  FillsTimely(Append(os, o), m2, s)
<1>1. \A i \in DOMAIN os : os[i].status = "FILLED" =>
        /\ os[i].filledAt \in Captured[s]..os[i].requestedAt
        /\ m2[os[i].filledAt] > 0
  BY KeptFills DEF FillsTimely
<1>2. ASSUME NEW i \in DOMAIN Append(os, o), Append(os, o)[i].status = "FILLED"
      PROVE  /\ Append(os, o)[i].filledAt \in Captured[s]..Append(os, o)[i].requestedAt
             /\ m2[Append(os, o)[i].filledAt] > 0
  <2>1. i \in DOMAIN os \/ i = Len(os) + 1
    BY <1>2
  <2>2. CASE i \in DOMAIN os
    <3>1. Append(os, o)[i] = os[i]
      BY <2>2
    <3> QED
      BY <1>1, <1>2, <2>2, <3>1
  <2>3. CASE i = Len(os) + 1
    <3>1. Append(os, o)[i] = o
      BY <2>3
    <3>2. o.filledAt \in Moment
      BY DEF Order
    <3> QED
      BY <1>2, <3>1, <3>2
  <2> QED
    BY <2>1, <2>2, <2>3
<1> QED
  BY <1>1, <1>2 DEF FillsTimely

\* What a step adds to the orders of a signal is in time.
LEMMA OrdersTimelyStep ==
    ASSUME PaperInv, Timely, [Next]_vars, NEW s \in Signal
    PROVE  FillsTimely(orders'[s], market'[s], s)
<1>1. FillsTimely(orders[s], market[s], s)
  BY DEF Timely
<1>2. PICK os \in Seq(Order) : os = orders[s]
  BY DEF PaperInv, TypeOK
<1>3. PICK m : m = market[s]
  OBVIOUS
<1>4. PICK m2 : m2 = market'[s]
  OBVIOUS
<1>5. \A t \in Moment : m[t] > 0 => m2[t] > 0
  BY <1>3, <1>4, QuotesStay
<1>6. ASSUME NEW o \in Order,
             o.status = "FILLED" => /\ o.filledAt \in Captured[s]..o.requestedAt
                                    /\ m[o.filledAt] > 0,
             orders'[s] = os \/ orders'[s] = Append(os, o)
      PROVE  FillsTimely(orders'[s], market'[s], s)
  <2>1. FillsTimely(os, m, s)
    BY <1>1, <1>2, <1>3
  <2>2. FillsTimely(os, m2, s) /\ FillsTimely(Append(os, o), m2, s)
    BY <1>5, <1>6, <2>1, KeptFills, FillsStayTimely
  <2> QED
    BY <1>4, <1>6, <2>2
<1>7. CASE orders'[s] = orders[s]
  <2>1. FillsTimely(os, m2, s)
    BY <1>1, <1>2, <1>3, <1>5, KeptFills
  <2> QED
    BY <1>2, <1>4, <1>7, <2>1
<1>8. CASE Untouched(s) /\ orders'[s] # orders[s]
  <2>1. PICK o \in Order : o.status = "REJECTED" /\ orders'[s] = Append(os, o)
    BY <1>2, <1>8 DEF Untouched
  <2> QED
    BY <1>6, <2>1
<1>9. ASSUME NEW k \in Client, NEW e \in Event, job[k] # Idle, Rewritten(s, job[k], e),
             orders'[s] # orders[s]
      PROVE  FillsTimely(orders'[s], market'[s], s)
  <2>1. PICK j \in Job : j = job[k]
    BY <1>9 DEF PaperInv, TypeOK
  <2>2. PICK o \in Order : /\ o.filledAt = j.quote.at /\ o.requestedAt = j.asOf
                           /\ orders'[s] = Append(os, o)
    BY <1>2, <1>9, <2>1 DEF Rewritten, Fills
  <2>3. j.signal = s /\ j.quote # NoQuote
    BY <1>9, <2>1 DEF Rewritten
  <2>4. j.quote.at \in Captured[s]..j.asOf /\ m[j.quote.at] > 0
    BY <1>3, <1>9, <2>1, <2>3 DEF Timely, CallTimely
  <2> QED
    BY <1>6, <2>2, <2>4
<1> QED
  BY <1>7, <1>8, <1>9, TableSteps

\* A row is rewritten at a time after its entry only.
LEMMA RowTimelyStep ==
    ASSUME PaperInv, EventsTellThePosition, Timely, [Next]_vars, NEW s \in Signal
    PROVE  RowTimely(position'[s], events'[s])
<1>1. RowTimely(position[s], events[s])
  BY DEF Timely
<1>2. CASE Untouched(s)
  BY <1>1, <1>2 DEF Untouched
<1>3. ASSUME NEW k \in Client, NEW e \in Event, job[k] # Idle, Rewritten(s, job[k], e)
      PROVE  RowTimely(position'[s], events'[s])
  <2>1. PICK j \in Job : j = job[k]
    BY <1>3 DEF PaperInv, TypeOK
  <2>2. PICK row \in Position : row = position'[s]
    BY <1>3 DEF Rewritten
  <2>3. PICK es \in Seq(Event) : es = events[s]
    BY DEF PaperInv, TypeOK
  <2>4. PICK n \in Nat : n = Len(es)
    OBVIOUS
  <2>5. PICK at \in Moment : at = j.quote.at
    BY <1>3, <2>1, QuotedCall DEF Rewritten
  <2>6. PICK hs \in Seq(Event) : hs = Append(es, e)
    BY AppendProperties
  <2>7. /\ events'[s] = hs /\ e.at = at /\ row.markAt = at
        /\ j.signal = s /\ j.quote # NoQuote
    BY <1>3, <2>1, <2>2, <2>3, <2>5, <2>6 DEF Rewritten
  <2>8. Len(hs) = n + 1 /\ hs[n + 1] = e /\ \A i \in 1..n : hs[i] = es[i]
    BY <2>4, <2>6
  <2>9. PICK entry \in Moment : entry = row.entryAt
    BY DEF Position
  <2>10. at \in Int /\ entry \in Int
    BY PaperAssumption DEF Moment
  <2>11. CASE position[s] = NoPosition
    <3>1. n = 0
      BY <2>3, <2>4, <2>11 DEF EventsTellThePosition
    <3>2. row.entryAt = row.markAt
      BY <1>3, <2>1, <2>2, <2>7, <2>11 DEF Rewritten, IsOpen
    <3>3. 2..Len(hs) = {}
      BY <2>8, <3>1
    <3>4. row.entryAt <= row.markAt
      BY <2>9, <2>10, <3>2
    <3> QED
      BY <2>2, <2>7, <3>3, <3>4 DEF RowTimely
  <2>12. CASE position[s] # NoPosition
    <3>1. /\ row.entryAt = position[s].entryAt /\ j.call \in {"mark", "close"}
      BY <1>3, <2>1, <2>2, <2>12 DEF Rewritten
    <3>2. /\ j.seen \in Position /\ j.seen.entryAt = entry
          /\ j.seen.entryAt <= j.seen.markAt
          /\ j.call = "mark" => at > j.seen.markAt
          /\ j.call = "close" => at > j.seen.entryAt
      BY <1>3, <2>1, <2>5, <2>7, <2>9, <3>1 DEF Timely, CallTimely
    <3>3. PICK mark \in Int : mark = j.seen.markAt
      BY <3>2, PaperAssumption DEF Position, Moment
    <3>4. at > entry
      BY <2>10, <3>1, <3>2, <3>3
    <3>5. ASSUME NEW i \in 2..Len(hs) PROVE hs[i].at > entry
      <4>1. i \in 2..n \/ i = n + 1
        BY <2>8
      <4>2. CASE i = n + 1
        BY <2>7, <2>8, <3>4, <4>2
      <4>3. CASE i \in 2..n
        <5>1. hs[i] = es[i]
          BY <2>4, <2>8, <4>3
        <5>2. es[i].at > entry
          BY <1>1, <2>3, <2>4, <2>9, <2>12, <3>1, <4>3 DEF RowTimely
        <5> QED
          BY <5>1, <5>2
      <4> QED
        BY <4>1, <4>2, <4>3
    <3>6. row.entryAt <= row.markAt
      BY <2>7, <2>9, <2>10, <3>4
    <3> QED
      BY <2>2, <2>7, <2>9, <3>5, <3>6 DEF RowTimely
  <2> QED
    BY <2>11, <2>12
<1> QED
  BY <1>2, <1>3, TableSteps

\* What a step can do to a call.
LEMMA CallSteps ==
    ASSUME PaperInv, [Next]_vars, NEW k \in Client, job'[k] # Idle, job'[k] # job[k]
    PROVE  /\ UNCHANGED <<market, position>>
           /\ \/ \E s \in Signal, asOf \in Moment, call \in {"open", "mark", "close"} :
                    /\ job'[k] = [call |-> call, stage |-> "checked", signal |-> s,
                                  asOf |-> asOf, seen |-> position[s], quote |-> NoQuote]
                    /\ call # "open" => IsOpen(s)
              \/ LatestMark(k) /\ job[k] # Idle
<1>1. job \in [Client -> Job \union {Idle}]
  BY DEF PaperInv, TypeOK
<1>2. ASSUME NEW c \in Client, Step(c)
      PROVE  /\ UNCHANGED <<market, position>>
             /\ \/ \E s \in Signal, asOf \in Moment, call \in {"open", "mark", "close"} :
                      /\ job'[k] = [call |-> call, stage |-> "checked", signal |-> s,
                                    asOf |-> asOf, seen |-> position[s], quote |-> NoQuote]
                      /\ call # "open" => IsOpen(s)
                \/ LatestMark(k) /\ job[k] # Idle
  <2>1. ASSUME NEW s \in Signal, NEW asOf \in Moment,
               NEW call \in {"open", "mark", "close"}, Start(c, call, s, asOf),
               call # "open" => IsOpen(s)
        PROVE  /\ UNCHANGED <<market, position>>
               /\ job'[k] = [call |-> call, stage |-> "checked", signal |-> s,
                             asOf |-> asOf, seen |-> position[s], quote |-> NoQuote]
    BY <1>1, <2>1 DEF Start, tables
  <2>2. CASE \E s \in Signal, asOf \in Moment :
                \/ OpenPosition(c, s, asOf)
                \/ MarkPosition(c, s, asOf)
                \/ ClosePosition(c, s, asOf)
    BY <2>1, <2>2 DEF OpenPosition, MarkPosition, ClosePosition
  <2>3. CASE LatestMark(c)
    <3>1. c = k
      BY <1>1, <2>3 DEF LatestMark
    <3> QED
      BY <2>3, <3>1 DEF LatestMark, tables
  <2>4. ASSUME job' = [job EXCEPT ![c] = Idle] PROVE FALSE
    BY <1>1, <2>4
  <2>5. CASE RejectOpen(c) \/ PersistOpen(c) \/ PersistMark(c) \/ PersistClose(c) \/ Abandon(c)
    BY <2>4, <2>5 DEF RejectOpen, PersistOpen, PersistMark, PersistClose, Persist, Abandon
  <2> QED
    BY <1>2, <2>2, <2>3, <2>5 DEF Step
<1>3. job' # job
  OBVIOUS
<1> QED
  BY <1>2, <1>3 DEF Next, Publish, vars

\* Each call stays in time, whatever step another call takes.
LEMMA CallTimelyStep ==
    ASSUME PaperInv, Timely, [Next]_vars, NEW k \in Client, job'[k] # Idle
    PROVE  CallTimely(job'[k], position'[job'[k].signal], market'[job'[k].signal])
<1>1. CASE job'[k] = job[k]
  <2>1. PICK j \in Job : j = job[k]
    BY <1>1 DEF PaperInv, TypeOK
  <2>2. PICK s \in Signal : s = j.signal
    BY <2>1 DEF Job
  <2>3. CallTimely(j, position[s], market[s])
    BY <1>1, <2>1, <2>2 DEF Timely
  <2>4. j.call # "open" => position'[s] # NoPosition /\ position'[s].entryAt = position[s].entryAt
    BY <2>3, TableSteps, NullAssumption DEF Untouched, Rewritten, CallTimely
  <2>5. j.quote # NoQuote => market'[s][j.quote.at] > 0
    <3> SUFFICES ASSUME j.quote # NoQuote PROVE market'[s][j.quote.at] > 0
      OBVIOUS
    <3>1. j.quote.at \in Moment
      BY DEF Job, Quote
    <3> QED
      BY <2>3, <3>1, QuotesStay DEF CallTimely
  <2>6. CallTimely(j, position'[s], market'[s])
    BY <2>2, <2>3, <2>4, <2>5 DEF CallTimely
  <2> QED
    BY <1>1, <2>1, <2>2, <2>6
<1>2. ASSUME NEW s \in Signal, NEW asOf \in Moment, NEW call \in {"open", "mark", "close"},
             UNCHANGED <<market, position>>,
             job'[k] = [call |-> call, stage |-> "checked", signal |-> s,
                        asOf |-> asOf, seen |-> position[s], quote |-> NoQuote],
             call # "open" => IsOpen(s)
      PROVE  CallTimely(job'[k], position'[job'[k].signal], market'[job'[k].signal])
  <2>1. call # "open" => /\ position[s] # NoPosition /\ position[s] \in Position
                         /\ position[s].entryAt <= position[s].markAt
    BY <1>2 DEF IsOpen, PaperInv, TypeOK, Timely, RowTimely
  <2> QED
    BY <1>2, <2>1 DEF CallTimely
<1>3. CASE UNCHANGED <<market, position>> /\ LatestMark(k) /\ job[k] # Idle
  <2>1. PICK j \in Job : j = job[k]
    BY <1>3 DEF PaperInv, TypeOK
  <2>2. PICK s \in Signal : s = j.signal
    BY <2>1 DEF Job
  <2>3. CallTimely(j, position[s], market[s]) /\ j.stage = "checked"
    BY <1>3, <2>1, <2>2 DEF Timely, LatestMark
  <2>4. ASSUME NEW t \in Quoted(j),
               job' = [job EXCEPT ![k] =
                 [j EXCEPT !.stage = "quoted",
                           !.quote = [at |-> t, last |-> market[s][t]]]]
        PROVE  CallTimely(job'[k], position[s], market[s]) /\ job'[k].signal = s
    <3>1. job'[k] = [j EXCEPT !.stage = "quoted",
                              !.quote = [at |-> t, last |-> market[s][t]]]
      BY <2>4 DEF PaperInv, TypeOK
    <3>2. PICK q : q = job'[k]
      OBVIOUS
    <3>3. /\ q.stage = "quoted" /\ q.quote.at = t /\ q.signal = s /\ q.asOf = j.asOf
          /\ q.call = j.call /\ q.seen = j.seen
      BY <2>2, <3>1, <3>2 DEF Job
    <3>4. /\ t \in Moment /\ market[s][t] > 0 /\ Captured[s] <= t /\ t <= j.asOf
          /\ j.call = "mark" => t > j.seen.markAt
          /\ j.call = "close" => t > j.seen.entryAt
      BY <2>2 DEF Quoted
    <3>5. j.asOf \in Int /\ t \in Int /\ Captured[s] \in Int
      BY <3>4, PaperAssumption DEF Job, Moment
    <3>6. t \in Captured[s]..j.asOf
      BY <3>4, <3>5
    <3> QED
      BY <2>3, <3>2, <3>3, <3>4, <3>6 DEF CallTimely
  <2>5. CASE job'[k] = [j EXCEPT !.stage = "quoted"]
    <3>1. PICK q : q = job'[k]
      OBVIOUS
    <3>2. /\ q.stage = "quoted" /\ q.quote = j.quote /\ q.signal = s /\ q.asOf = j.asOf
          /\ q.call = j.call /\ q.seen = j.seen
      BY <2>2, <2>5, <3>1 DEF Job
    <3>3. CallTimely(q, position[s], market[s])
      BY <2>3, <3>2 DEF CallTimely
    <3> QED
      BY <1>3, <3>1, <3>2, <3>3
  <2>6. \/ \E t \in Quoted(j) :
              job' = [job EXCEPT ![k] =
                 [j EXCEPT !.stage = "quoted",
                           !.quote = [at |-> t, last |-> market[s][t]]]]
        \/ job'[k] = [j EXCEPT !.stage = "quoted"]
    BY <1>3, <2>1, <2>2 DEF LatestMark, PaperInv, TypeOK
  <2> QED
    BY <1>3, <2>4, <2>5, <2>6
<1> QED
  BY <1>1, <1>2, <1>3, CallSteps

\* No fill, mark or exit lies before what it needs or after the moment it was
\* asked for, whatever other calls do between the steps of its call.
THEOREM NothingInHindsight == Spec => []NoHindsight
<1>1. Init => Timely
  BY DEF Init, Timely, FillsTimely, RowTimely
<1>2. PaperInv /\ EventsTellThePosition /\ Timely /\ [Next]_vars => Timely'
  <2> SUFFICES ASSUME PaperInv, EventsTellThePosition, Timely, [Next]_vars
               PROVE  Timely'
    OBVIOUS
  <2> QED
    BY OrdersTimelyStep, RowTimelyStep, CallTimelyStep DEF Timely
<1>3. PaperInv /\ EventsTellThePosition /\ Timely => NoHindsight
  <2> SUFFICES ASSUME EventsTellThePosition, Timely, NEW s \in Signal
               PROVE  /\ \A i \in Filled(s, "BUY") \union Filled(s, "SELL") :
                           /\ orders[s][i].filledAt \in Captured[s]..orders[s][i].requestedAt
                           /\ market[s][orders[s][i].filledAt] > 0
                      /\ \A i \in 2..Len(events[s]) : events[s][i].at > position[s].entryAt
    BY DEF NoHindsight
  <2>1. \A i \in Filled(s, "BUY") \union Filled(s, "SELL") :
                           /\ orders[s][i].filledAt \in Captured[s]..orders[s][i].requestedAt
                           /\ market[s][orders[s][i].filledAt] > 0
    BY DEF Timely, FillsTimely, Filled
  <2>2. CASE position[s] = NoPosition
    <3>1. 2..Len(events[s]) = {}
      BY <2>2 DEF EventsTellThePosition
    <3> QED
      BY <2>1, <3>1
  <2>3. CASE position[s] # NoPosition
    BY <2>1, <2>3 DEF Timely, RowTimely
  <2> QED
    BY <2>2, <2>3
<1> QED
  BY <1>1, <1>2, <1>3, PaperInvariant, EventsTellTheRow, PTL DEF Spec

==================================================================================
