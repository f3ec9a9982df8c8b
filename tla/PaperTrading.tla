------------------------------ MODULE PaperTrading ------------------------------
(***************************************************************************)
(* Paper positions: the operations open, mark and close of                 *)
(* paper_trading_service.py over the tables of paper_trading_repository.py *)
(* and migration 017.                                                      *)
(*                                                                         *)
(* Each operation is one call of scripts/paper_trade.py and three steps:   *)
(* it reads the position (the signal it reads besides never changes), it   *)
(* reads the newest persisted mark, and it persists what it computed from  *)
(* both in one transaction. Between the steps other calls take theirs. A   *)
(* fill is inserted in the transaction of its order and keeps the same     *)
(* data: here it is part of the order. Prices and money are integers:      *)
(* price units of 0.000001, money units of PriceScale price units.         *)
(***************************************************************************)
EXTENDS Integers, Sequences, FiniteSets

CONSTANTS
    Client,        \* the calls that may be under way at the same time
    Signal,        \* the persisted option signals
    NoPosition,    \* there is no row for the signal
    NoQuote,       \* no mark was found, or none was looked for yet
    Quantity,      \* approved_quantity, by signal
    Captured,      \* source_captured_at, by signal
    Calculated,    \* calculated_at of the signal run, by signal
    LastMoment,    \* the last moment of the day of expiry, by signal
    Price,         \* bound: the last prices that may be quoted
    Slippage,      \* bound: the slippage_bps a call may ask for
    Fee,           \* bound: the transaction_cost_bps a call may ask for
    BPS,           \* 10000 in the code
    PriceScale,    \* price units of one money unit
    Horizon,       \* bound: the last moment
    MaxRejected,   \* bound: rejected orders of one signal
    MaxEvents      \* bound: events of one position

Moment == 0..Horizon

ASSUME PaperAssumption ==
    /\ Quantity \in [Signal -> Nat \ {0}]
    /\ Captured \in [Signal -> Nat]
    /\ Calculated \in [Signal -> Nat]
    /\ LastMoment \in [Signal -> Nat]
    /\ Price \subseteq Nat \ {0}
    /\ Slippage \subseteq Nat
    /\ Fee \subseteq Nat
    /\ BPS \in Nat \ {0}
    /\ PriceScale \in Nat \ {0}
    /\ Horizon \in Nat
    /\ MaxRejected \in Nat
    /\ MaxEvents \in Nat

VARIABLES
    market,     \* the last price quoted at each moment, 0 for none
    position,   \* the row of paper_positions of each signal
    orders,     \* the rows of paper_trade_orders of each signal with their
                \* fills, in the order of their commits, 0 for NULL
    events,     \* the rows of paper_position_events, by sequence_number
    job         \* what each client is doing

tables == <<position, orders, events>>
vars == <<market, tables, job>>

Order == [side : {"BUY", "SELL"}, status : {"FILLED", "REJECTED"},
          requestedAt : Moment, filledAt : Moment,
          price : Int, cost : Int]

Event == [type : {"OPENED", "MARKED", "CLOSED"}, at : Moment, net : Int]

Position == [status : {"OPEN", "CLOSED"}, entryAt : Moment, entryPrice : Int,
             markAt : Moment, markPrice : Nat, exitPrice : Int,
             gross : Int, costs : Int, net : Int]

Quote == [at : Moment, last : Nat]

Idle == [call |-> "idle"]

Job == [call : {"open", "mark", "close"}, stage : {"checked", "quoted"},
        signal : Signal, asOf : Moment,
        seen : Position \union {NoPosition},
        quote : Quote \union {NoQuote}]

ASSUME NullAssumption == NoPosition \notin Position /\ NoQuote \notin Quote

TypeOK ==
    /\ market \in [Signal -> [Moment -> Nat]]
    /\ position \in [Signal -> Position \union {NoPosition}]
    /\ orders \in [Signal -> Seq(Order)]
    /\ events \in [Signal -> Seq(Event)]
    /\ job \in [Client -> Job \union {Idle}]

Init ==
    /\ market = [s \in Signal |-> [t \in Moment |-> 0]]
    /\ position = [s \in Signal |-> NoPosition]
    /\ orders = [s \in Signal |-> <<>>]
    /\ events = [s \in Signal |-> <<>>]
    /\ job = [k \in Client |-> Idle]

---------------------------------------------------------------------------
\* Decimal.quantize with ROUND_HALF_UP of n / d, away from zero at a half.
HalfUp(n, d) ==
    IF n >= 0 THEN (2 * n + d) \div (2 * d) ELSE -((d - 2 * n) \div (2 * d))

Money(priceUnits) == HalfUp(priceUnits, PriceScale)

FillPrice(last, bps) == HalfUp(last * (BPS + bps), BPS)

TransactionCost(s, price, bps) ==
    HalfUp(price * Quantity[s] * bps, BPS * PriceScale)

Gross(s, entry, exit) == Money((exit - entry) * Quantity[s])

\* The rows the partial unique indexes of paper_trade_orders are about.
Filled(s, side) ==
    {i \in DOMAIN orders[s] :
        orders[s][i].side = side /\ orders[s][i].status = "FILLED"}

Rejected(s) == {i \in DOMAIN orders[s] : orders[s][i].status = "REJECTED"}

IsOpen(s) == position[s] # NoPosition /\ position[s].status = "OPEN"

---------------------------------------------------------------------------
\* A run of the option chain completes, with a price captured at t. Runs may
\* overlap: an older price can appear after a newer one.
Publish(s, t, p) ==
    /\ market[s][t] = 0
    /\ market' = [market EXCEPT ![s][t] = p]
    /\ UNCHANGED <<tables, job>>

Start(k, call, s, asOf) ==
    /\ job[k] = Idle
    /\ job' = [job EXCEPT ![k] =
                 [call |-> call, stage |-> "checked", signal |-> s,
                  asOf |-> asOf, seen |-> position[s], quote |-> NoQuote]]
    /\ UNCHANGED <<market, tables>>

OpenPosition(k, s, asOf) ==
    /\ position[s] = NoPosition
    /\ Calculated[s] <= asOf
    /\ asOf <= LastMoment[s]
    /\ Start(k, "open", s, asOf)

MarkPosition(k, s, asOf) ==
    /\ IsOpen(s)
    /\ asOf > position[s].markAt
    /\ Start(k, "mark", s, asOf)

ClosePosition(k, s, asOf) ==
    /\ IsOpen(s)
    /\ asOf > position[s].entryAt
    /\ Start(k, "close", s, asOf)

\* Mutants of Quoted: no upper bound, no lower bound beyond the capture.
QuotedAnyLater(j) ==
    {t \in Moment :
        /\ market[j.signal][t] > 0
        /\ Captured[j.signal] <= t
        /\ j.call = "mark" => t > j.seen.markAt
        /\ j.call = "close" => t > j.seen.entryAt}

QuotedAnyEarlier(j) ==
    {t \in Moment :
        /\ market[j.signal][t] > 0
        /\ Captured[j.signal] <= t
        /\ t <= j.asOf}

\* The quotes latest_mark selects from: an opening has no lower bound but the
\* capture of the signal's source, a mark lies after the position's latest
\* mark, an exit after its entry.
Quoted(j) ==
    {t \in Moment :
        /\ market[j.signal][t] > 0
        /\ Captured[j.signal] <= t
        /\ t <= j.asOf
        /\ j.call = "mark" => t > j.seen.markAt
        /\ j.call = "close" => t > j.seen.entryAt}

\* ORDER BY captured_at DESC LIMIT 1. An opening goes on without a mark, a
\* mark and a close raise.
LatestMark(k) ==
    LET j == job[k] IN
    /\ j # Idle
    /\ j.stage = "checked"
    /\ \/ \E t \in Quoted(j) :
            /\ \A u \in Quoted(j) : u <= t
            /\ job' = [job EXCEPT ![k] =
                 [j EXCEPT !.stage = "quoted",
                           !.quote = [at |-> t, last |-> market[j.signal][t]]]]
       \/ /\ Quoted(j) = {}
          /\ job' = [job EXCEPT ![k] =
               IF j.call = "open" THEN [j EXCEPT !.stage = "quoted"] ELSE Idle]
    /\ UNCHANGED <<market, tables>>

---------------------------------------------------------------------------
\* The transactions. Each ends the call, whether it commits or raises.
Persist(k, call) ==
    /\ job[k] # Idle
    /\ job[k].call = call
    /\ job[k].stage = "quoted"
    /\ job' = [job EXCEPT ![k] = Idle]
    /\ UNCHANGED market

\* NO_PERSISTED_MARK: a rejected order and nothing else.
RejectOpen(k) ==
    LET j == job[k] IN
    /\ Persist(k, "open")
    /\ j.quote = NoQuote
    /\ Cardinality(Rejected(j.signal)) < MaxRejected
    /\ orders' = [orders EXCEPT ![j.signal] = Append(@,
         [side |-> "BUY", status |-> "REJECTED", requestedAt |-> j.asOf,
          filledAt |-> 0, price |-> 0, cost |-> 0])]
    /\ UNCHANGED <<position, events>>

FilledOrder(side, j, price, cost) ==
    [side |-> side, status |-> "FILLED", requestedAt |-> j.asOf,
     filledAt |-> j.quote.at, price |-> price, cost |-> cost]

OpenedRow(j, price, cost) ==
    [status |-> "OPEN", entryAt |-> j.quote.at, entryPrice |-> price,
     markAt |-> j.quote.at, markPrice |-> j.quote.last, exitPrice |-> 0,
     gross |-> 0, costs |-> cost, net |-> -cost]

\* The rows persist_open inserts.
InsertEntry(j, price, cost) ==
    /\ orders' = [orders EXCEPT ![j.signal] =
                    Append(@, FilledOrder("BUY", j, price, cost))]
    /\ position' = [position EXCEPT ![j.signal] = OpenedRow(j, price, cost)]
    /\ events' = [events EXCEPT ![j.signal] =
         Append(@, [type |-> "OPENED", at |-> j.quote.at, net |-> -cost])]

\* Mutant of EntryIsNew: no unique index.
AnyEntry(s) == TRUE

\* uq_paper_trade_entry_order_signal and the UNIQUE signal_id.
EntryIsNew(s) == Filled(s, "BUY") = {} /\ position[s] = NoPosition

PersistOpen(k) ==
    LET j == job[k] IN
    /\ Persist(k, "open")
    /\ j.quote # NoQuote
    /\ \/ /\ EntryIsNew(j.signal)
          /\ \E slip \in Slippage, fee \in Fee :
                LET price == FillPrice(j.quote.last, slip)
                IN  InsertEntry(j, price, TransactionCost(j.signal, price, fee))
       \/ ~EntryIsNew(j.signal) /\ UNCHANGED tables

\* Mutant of RowIsOpen: an UPDATE without AND status='OPEN'.
AnyRow(s) == TRUE

\* WHERE position_id=.. AND status='OPEN' finds the row; if not, the call
\* raises and the transaction rolls back.
RowIsOpen(s) == IsOpen(s)

\* Mutant of MarkedRow: two parameters of the UPDATE are swapped.
MarkedSwapped(j) ==
    LET gross == Gross(j.signal, j.seen.entryPrice, j.quote.last)
    IN  [position[j.signal] EXCEPT
            !.markAt = j.quote.at, !.markPrice = gross,
            !.gross = j.quote.last, !.costs = j.seen.costs,
            !.net = gross - j.seen.costs]

\* The row after the mark: what the call computed from the row it read, in
\* the columns the UPDATE sets.
MarkedRow(j) ==
    LET gross == Gross(j.signal, j.seen.entryPrice, j.quote.last)
    IN  [position[j.signal] EXCEPT
            !.markAt = j.quote.at, !.markPrice = j.quote.last,
            !.gross = gross, !.costs = j.seen.costs,
            !.net = gross - j.seen.costs]

PersistMark(k) ==
    LET j == job[k]
        s == j.signal
    IN
    /\ Persist(k, "mark")
    /\ \/ /\ RowIsOpen(s)
          /\ Len(events[s]) < MaxEvents
          /\ position' = [position EXCEPT ![s] = MarkedRow(j)]
          /\ events' = [events EXCEPT ![s] = Append(@,
               [type |-> "MARKED", at |-> j.quote.at, net |-> MarkedRow(j).net])]
       \/ ~RowIsOpen(s) /\ UNCHANGED <<position, events>>
    /\ UNCHANGED orders

\* Mutant of ClosedRow: only the exit is charged.
ClosedWithExitCost(j, price, cost) ==
    LET gross == Gross(j.signal, j.seen.entryPrice, price)
    IN  [position[j.signal] EXCEPT
            !.status = "CLOSED", !.markAt = j.quote.at,
            !.markPrice = j.quote.last, !.exitPrice = price,
            !.gross = gross, !.costs = cost, !.net = gross - cost]

\* The row after the close, computed like MarkedRow. exit_time is markAt.
ClosedRow(j, price, cost) ==
    LET gross == Gross(j.signal, j.seen.entryPrice, price)
        total == j.seen.costs + cost
    IN  [position[j.signal] EXCEPT
            !.status = "CLOSED", !.markAt = j.quote.at,
            !.markPrice = j.quote.last, !.exitPrice = price,
            !.gross = gross, !.costs = total, !.net = gross - total]

\* uq_paper_trade_exit_order_signal, the CHECK that a fill price is positive
\* and the rowcount of the UPDATE.
ExitIsAllowed(s, price) ==
    Filled(s, "SELL") = {} /\ price > 0 /\ RowIsOpen(s)

PersistClose(k) ==
    LET j == job[k]
        s == j.signal
    IN
    /\ Persist(k, "close")
    /\ \E slip \in Slippage, fee \in Fee :
         LET price == FillPrice(j.quote.last, -slip)
             cost == TransactionCost(s, price, fee)
             row == ClosedRow(j, price, cost)
         IN  \/ /\ ExitIsAllowed(s, price)
                /\ orders' = [orders EXCEPT ![s] =
                                Append(@, FilledOrder("SELL", j, price, cost))]
                /\ position' = [position EXCEPT ![s] = row]
                /\ events' = [events EXCEPT ![s] = Append(@,
                     [type |-> "CLOSED", at |-> j.quote.at, net |-> row.net])]
             \/ ~ExitIsAllowed(s, price) /\ UNCHANGED tables

\* The operator stops a call, or its connection fails before the commit.
Abandon(k) ==
    /\ job[k] # Idle
    /\ job' = [job EXCEPT ![k] = Idle]
    /\ UNCHANGED <<market, tables>>

Step(k) ==
    \/ \E s \in Signal, asOf \in Moment :
        \/ OpenPosition(k, s, asOf)
        \/ MarkPosition(k, s, asOf)
        \/ ClosePosition(k, s, asOf)
    \/ LatestMark(k)
    \/ RejectOpen(k)
    \/ PersistOpen(k)
    \/ PersistMark(k)
    \/ PersistClose(k)
    \/ Abandon(k)

Next ==
    \/ \E s \in Signal, t \in Moment, p \in Price : Publish(s, t, p)
    \/ \E k \in Client : Step(k)

Spec == Init /\ [][Next]_vars

---------------------------------------------------------------------------
\* The release audit of one position, by its fills and its events.
PaperLineage(s) ==
    position[s] # NoPosition =>
        /\ Cardinality(Filled(s, "BUY")) = 1
        /\ Cardinality(Filled(s, "SELL")) = IF position[s].status = "CLOSED" THEN 1 ELSE 0
        /\ events[s] # <<>>

\* docs/PAPER_TRADING.md:46: a signal has at most one filled BUY entry and one
\* position, whichever opens race; a position is closed exactly when its one
\* SELL order is filled, and the release audit paper_lineage counts no error.
OneEntryOnePosition ==
    \A s \in Signal :
        /\ PaperLineage(s)
        /\ Cardinality(Filled(s, "BUY")) <= 1
        /\ Cardinality(Filled(s, "SELL")) <= 1
        /\ Filled(s, "BUY") = {} <=> position[s] = NoPosition
        /\ Filled(s, "SELL") # {} <=>
             position[s] # NoPosition /\ position[s].status = "CLOSED"

\* The P&L of a position follows from its fills, although the call that wrote
\* it worked from a row it had read earlier: the costs are those of the fills,
\* the gross of a closed position is what its two fill prices give.
LedgerBalances ==
    \A s \in Signal : \A b \in Filled(s, "BUY") :
        /\ position[s].entryPrice = orders[s][b].price
        /\ position[s].net = position[s].gross - position[s].costs
        /\ Filled(s, "SELL") = {} => position[s].costs = orders[s][b].cost
        /\ \A x \in Filled(s, "SELL") :
             /\ position[s].costs = orders[s][b].cost + orders[s][x].cost
             /\ position[s].gross =
                  Gross(s, orders[s][b].price, orders[s][x].price)

\* The audit events tell the history of the row: OPENED first, CLOSED last and
\* only for a closed position, the last one with the time and the net of the
\* row.
EventsTellThePosition ==
    \A s \in Signal :
        LET es == events[s]
            n == Len(es)
        IN  IF position[s] = NoPosition THEN n = 0
            ELSE /\ n > 0
                 /\ \A i \in 1..n :
                      /\ es[i].type = "OPENED" <=> i = 1
                      /\ es[i].type = "CLOSED" <=>
                           i = n /\ position[s].status = "CLOSED"
                 /\ es[n].at = position[s].markAt
                 /\ es[n].net = position[s].net

\* No fill or mark uses a price from before the signal's data, an order none
\* captured after the moment it was requested at, and nothing happens to a
\* position at a time that is not after its entry.
NoHindsight ==
    \A s \in Signal :
        /\ \A i \in Filled(s, "BUY") \union Filled(s, "SELL") :
             /\ orders[s][i].filledAt \in Captured[s]..orders[s][i].requestedAt
             /\ market[s][orders[s][i].filledAt] > 0
        /\ \A i \in 2..Len(events[s]) : events[s][i].at > position[s].entryAt

\* Nothing changes a closed position, a late mark or second close included.
ClosedForGood ==
    [][\A s \in Signal :
         position[s] # NoPosition /\ position[s].status = "CLOSED" =>
            position'[s] = position[s]]_vars

\* A mark that is not newer than the one the open position has is a race: the
\* call had read another row than the one it overwrites.
OnlyRacesMarkBack ==
    [][\A s \in Signal :
         /\ IsOpen(s) /\ IsOpen(s)'
         /\ events'[s] # events[s]
         /\ position'[s].markAt <= position[s].markAt
         => \E k \in Client :
                job[k] # Idle /\ job[k].signal = s /\ job[k].seen # position[s]]_vars
================================================================================
