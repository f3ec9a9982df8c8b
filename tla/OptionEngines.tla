----------------------------- MODULE OptionEngines -----------------------------
\* The calculations of the option research chain as functions of their inputs:
\* analytics of a chain, ranking, contract selection, position sizing, simulation of
\* a trade, calibration; and the look-ups of ReferenceData. Decimals are integers: a price counts ticks, a score counts hundredths.
EXTENDS ReferenceData

CONSTANTS
    Problem        \* sets of inputs by name of the engine

Sides == {"CE", "PE"}
Absolute(n) == IF n < 0 THEN -n ELSE n
\* Round to the nearest, halves up: ROUND_HALF_UP of a / b for a >= 0.
HalfUp(a, b) == (2 * a + b) \div (2 * b)
Least(S, before(_, _)) == CHOOSE x \in S : \A y \in S \ {x} : before(x, y)

-------------------------------------------------------------------------------
\* option_analytics_service.py. A quote is [strike, side, price, oi, bid, ask].
Strikes(quotes) == {q.strike : q \in quotes}
SortedStrikes(quotes) == InOrder(Strikes(quotes), <)
Quote(quotes, k, side) == CHOOSE q \in quotes : q.strike = k /\ q.side = side

\* Every strike has one quote of each side.
ValidChain(quotes) ==
    /\ quotes # {}
    /\ \A k \in Strikes(quotes) : \A side \in Sides :
          Cardinality({q \in quotes : q.strike = k /\ q.side = side}) = 1

AtTheMoney(quotes, spot) ==
    Least(Strikes(quotes), LAMBDA k, l : \/ Absolute(k - spot) < Absolute(l - spot)
                                         \/ Absolute(k - spot) = Absolute(l - spot) /\ k < l)

\* Mutant: the upper end of the slice is one strike short.
NearbyShort(quotes, atm, each) ==
    LET sorted == SortedStrikes(quotes)
        index == CHOOSE n \in DOMAIN sorted : sorted[n] = atm
    IN  {sorted[n] : n \in Max({1, index - each})..Min({Len(sorted), index + each - 1})}

\* The slice of the sorted strikes around the one at the money.
Nearby(quotes, atm, each) ==
    LET sorted == SortedStrikes(quotes)
        index == CHOOSE n \in DOMAIN sorted : sorted[n] = atm
    IN  {sorted[n] : n \in Max({1, index - each})..Min({Len(sorted), index + each})}

\* Summed over the strikes in their order; a missing one counts zero.
InterestUpTo(quotes, strikes, side) ==
    LET sorted == SortedStrikes(quotes)
        of(k) == Quote(quotes, k, side).oi
        sum[n \in 0..Len(sorted)] ==
            IF n = 0 THEN 0
            ELSE sum[n - 1] + IF sorted[n] \in strikes /\ of(sorted[n]) # NoValue THEN of(sorted[n]) ELSE 0
    IN  sum

OpenInterest(quotes, strikes, side) == InterestUpTo(quotes, strikes, side)[Cardinality(Strikes(quotes))]

\* The strike with the largest open interest of a side, the lowest of equals.
OiWall(quotes, side) ==
    LET known == {q \in quotes : q.side = side /\ q.oi # NoValue}
    IN  IF known = {} THEN NoValue
        ELSE Least(known, LAMBDA p, q : p.oi > q.oi \/ (p.oi = q.oi /\ p.strike < q.strike)).strike

Liquid(q) == q.bid # NoValue /\ q.ask # NoValue /\ q.ask >= q.bid /\ q.ask > 0

CalculateAnalytics(p) ==
    IF ~ ValidChain(p.quotes) THEN [error |-> TRUE]
    ELSE LET atm == AtTheMoney(p.quotes, p.spot)
             near == Nearby(p.quotes, atm, p.each)
         IN  IF \E side \in Sides : Quote(p.quotes, atm, side).price = NoValue THEN [error |-> TRUE]
             ELSE [error |-> FALSE, atm |-> atm, near |-> near,
                   straddle |-> Quote(p.quotes, atm, "CE").price + Quote(p.quotes, atm, "PE").price,
                   total |-> [side \in Sides |-> OpenInterest(p.quotes, Strikes(p.quotes), side)],
                   nearby |-> [side \in Sides |-> OpenInterest(p.quotes, near, side)],
                   wall |-> [side \in Sides |-> OiWall(p.quotes, side)],
                   priced |-> Cardinality({q \in p.quotes : q.price # NoValue}),
                   liquid |-> Cardinality({q \in p.quotes : Liquid(q)})]

-------------------------------------------------------------------------------
\* option_ranking_service.py. A candidate is [symbol, liquidity, activity,
\* volatility, directional], the raw measures; a symbol with its expiry is one number, in their order.
Normalize(values) ==
    LET low == Min(Range(values))
        high == Max(Range(values))
    IN  [n \in DOMAIN values |-> IF high = low THEN 50 ELSE HalfUp(100 * (values[n] - low), high - low)]

Measure(candidates, name) == Normalize([n \in DOMAIN candidates |-> candidates[n][name]])

Totals(candidates) ==
    [n \in DOMAIN candidates |->
        HalfUp(35 * Measure(candidates, "liquidity")[n] + 30 * Measure(candidates, "activity")[n]
               + 20 * Measure(candidates, "volatility")[n] + 15 * Measure(candidates, "directional")[n], 100)]

\* The best total first, then the symbol.
Outranks(total, candidates, m, n) ==
    total[m] > total[n] \/ (total[m] = total[n] /\ candidates[m].symbol < candidates[n].symbol)

Rank(p) ==
    LET total == Totals(p.candidates)
        order == InOrder(DOMAIN p.candidates, LAMBDA m, n : Outranks(total, p.candidates, m, n))
    IN  [position \in DOMAIN order |-> [symbol |-> p.candidates[order[position]].symbol,
                                        total |-> total[order[position]]]]

-------------------------------------------------------------------------------
\* option_contract_selection_service.py. A contract is [id, strike, price, bid,
\* ask, oi, lot]; ratios are percentages;
\* the volume is bounded like the open interest and left out.
Spread(c) ==
    IF c.bid = NoValue \/ c.ask = NoValue \/ c.ask < c.bid \/ c.bid + c.ask <= 0 THEN NoValue
    ELSE HalfUp(200 * (c.ask - c.bid), c.bid + c.ask)

\* The distance is compared as a fraction of the spot price, before it is rounded.
Eligible(c, p) ==
    /\ c.price > 0 /\ c.lot > 0
    /\ c.oi >= p.minimumOi
    /\ 100 * Absolute(c.strike - p.spot) <= p.maximumDistance * p.spot
    /\ Spread(c) <= p.maximumSpread
    /\ p.maximumPremium = NoValue \/ c.price * c.lot <= p.maximumPremium

\* Distance, spread (none counts as zero), open interest, strike, security id.
Preference(c, p) == <<Absolute(c.strike - p.spot), Max({0, Spread(c)}), -c.oi, c.strike, c.id>>

Precedes(s, t) == \E n \in DOMAIN s : s[n] < t[n] /\ \A m \in 1..(n - 1) : s[m] = t[m]

Choose(p) ==
    LET eligible == {c \in p.contracts : Eligible(c, p)}
    IN  IF eligible = {} THEN NoValue
        ELSE Least(eligible, LAMBDA c, d : Precedes(Preference(c, p), Preference(d, p))).id

-------------------------------------------------------------------------------
\* option_risk_service.py. Money is rounded to the cent, which is two ticks, halves
\* to even: Decimal.quantize without a rounding mode.
Money(ticks) == IF ticks % 2 = 0 THEN ticks ELSE IF ticks % 4 = 1 THEN ticks - 1 ELSE ticks + 1

\* A request that normalized() lets through, and contracts as they are stored: none
\* without a positive premium.
ValidRequest(p) ==
    /\ p.existing \in Nat /\ p.available \in Nat /\ p.maximumLots \in Nat \ {0}
    /\ p.tradeLoss \in Nat /\ p.totalLimit \in Nat /\ p.underlyingLimit \in Nat
    /\ p.existingBy \in [DOMAIN p.existingBy -> Nat]
    /\ p.selections \in Seq([symbol : DOMAIN p.existingBy, premium : Nat \ {0}])

MaximumLots(budget, premium, hardLimit) ==
    IF budget <= 0 \/ premium <= 0 THEN 0 ELSE Min({budget \div premium, hardLimit})

RejectionCode(p, used, premium, symbol) ==
    IF premium > p.tradeLoss THEN "SINGLE_TRADE_LOSS_LIMIT"
    ELSE IF p.available - used.available < premium THEN "AVAILABLE_CAPITAL_LIMIT"
    ELSE IF p.totalLimit - used.total < premium THEN "TOTAL_EXPOSURE_LIMIT"
    ELSE IF p.underlyingLimit - used.underlying[symbol] < premium THEN "UNDERLYING_CONCENTRATION_LIMIT"
    ELSE "NO_AFFORDABLE_LOTS"

Budget(p, used, symbol) ==
    Min({p.tradeLoss, Max({0, p.totalLimit - used.total}),
         Max({0, p.underlyingLimit - used.underlying[symbol]}), Max({0, p.available - used.available})})

\* Mutant: the capital spent on earlier contracts of the run is forgotten.
UseWithoutCapital(used, symbol, exposure) ==
    [used EXCEPT !.total = @ + exposure, !.underlying[symbol] = @ + exposure]

\* What an approved contract adds to the exposures used so far.
Use(used, symbol, exposure) ==
    [used EXCEPT !.total = @ + exposure, !.underlying[symbol] = @ + exposure, !.available = @ + exposure]

Assess(p, used, s) ==
    LET lots == MaximumLots(Budget(p, used, s.symbol), s.premium, p.maximumLots)
    IN  IF lots = 0
        THEN [lots |-> 0, exposure |-> 0, code |-> RejectionCode(p, used, s.premium, s.symbol)]
        ELSE [lots |-> lots, exposure |-> Money(s.premium * lots), code |-> "approved"]

\* The exposures used when that many selections are assessed, in their order.
UsedAfter(p) ==
    LET used[n \in 0..Len(p.selections)] ==
            IF n = 0 THEN [total |-> p.existing, underlying |-> p.existingBy, available |-> 0]
            ELSE LET s == p.selections[n]
                 IN  Use(used[n - 1], s.symbol, Assess(p, used[n - 1], s).exposure)
    IN  used

\* Each selection against what the earlier ones left.
AssessRisk(p) == [n \in 1..Len(p.selections) |-> Assess(p, UsedAfter(p)[n - 1], p.selections[n])]

-------------------------------------------------------------------------------
\* option_backtest_service.py. Slippage, target and stop in percent; costs left out.
FirstExit(marks, target, stop) ==
    LET hits == {n \in DOMAIN marks : marks[n] >= target \/ marks[n] <= stop}
    IN  IF hits = {} THEN Len(marks) ELSE Min(hits)

\* Entry, target, stop and exit in parts of a tick: 10000 of them make one.
Simulate(p) ==
    LET entry == 100 * p.entry * (100 + p.slippage)
        target == p.entry * (100 + p.slippage) * (100 + p.target)
        stop == p.entry * (100 + p.slippage) * (100 - p.stop)
        marks == [n \in DOMAIN p.marks |-> 10000 * p.marks[n]]
        n == FirstExit(marks, target, stop)
    IN  IF marks = <<>> THEN [reason |-> "NO_FUTURE_MARK", mark |-> 0, gross |-> 0]
        ELSE [mark |-> n, gross |-> 100 * p.marks[n] * (100 - p.slippage) - entry,
              reason |-> IF marks[n] >= target THEN "TARGET"
                         ELSE IF marks[n] <= stop THEN "STOP_LOSS" ELSE "LAST_AVAILABLE"]

\* Equity, its peak and the deepest fall so far, trade by trade.
Drawdowns(profits) ==
    LET at[n \in 0..Len(profits)] ==
            IF n = 0 THEN [equity |-> 0, peak |-> 0, fall |-> 0]
            ELSE LET equity == at[n - 1].equity + profits[n]
                     peak == Max({at[n - 1].peak, equity})
                 IN  [equity |-> equity, peak |-> peak, fall |-> Max({at[n - 1].fall, peak - equity})]
    IN  at

MaximumDrawdown(profits) == Drawdowns(profits)[Len(profits)].fall

-------------------------------------------------------------------------------
\* calibration_v2_service.py: reliability bins over scores in 0..scale. A rate is a pair
\* of wins and size. A row is [id, score, win].
LowerRate(a, b) == a[1] * b[2] < b[1] * a[2]
BinOf(score, p) == Min({p.bins, ((score * p.bins) \div p.scale) + 1})
Observed(n, p) ==
    LET rows == {r \in p.rows : BinOf(r.score, p) = n}
    IN  <<Cardinality({r \in rows : r.win}), Cardinality(rows)>>

\* The rate of a bin, not below that of the bins before it when the method is monotonic.
Empty(n, p) == Observed(n, p)[2] = 0

RatesUpTo(p) ==
    LET rate[n \in 0..p.bins] ==
            IF n = 0 THEN <<0, 1>>
            ELSE IF Empty(n, p) \/ (p.monotonic /\ LowerRate(Observed(n, p), rate[n - 1])) THEN rate[n - 1]
            ELSE Observed(n, p)
    IN  rate

ReliabilityBins(p) == [n \in 1..p.bins |-> IF Empty(n, p) THEN <<>> ELSE RatesUpTo(p)[n]]

\* The first bin with a rate that does not end below the score; past the last of them
\* the last bin, which may have none: that raises.
Predict(score, p) ==
    LET bins == ReliabilityBins(p)
        reached == {n \in 1..p.bins : score * p.bins <= n * p.scale /\ bins[n] # <<>>}
    IN  IF reached = {} THEN bins[p.bins] ELSE bins[Min(reached)]

Calibrate(p) == [score \in 0..p.scale |-> Predict(score, p)]

-------------------------------------------------------------------------------
\* What the engines are asked: rows as the tables hold them, requests that are let
\* through.
ValidQuotes(p) ==
    /\ IsFiniteSet(p.quotes) /\ p.spot \in Int /\ p.each \in Nat
    /\ \A q \in p.quotes : q.strike \in Nat /\ q.side \in Sides /\ q.oi \in Nat \union {NoValue}

Measures == {"liquidity", "activity", "volatility", "directional"}

\* One row per symbol and expiry, at least one.
ValidCandidates(p) ==
    /\ p.candidates \in Seq([Measures \union {"symbol"} -> Int]) /\ p.candidates # <<>>
    /\ \A m, n \in DOMAIN p.candidates : p.candidates[m].symbol = p.candidates[n].symbol => m = n

ValidContracts(p) ==
    /\ IsFiniteSet(p.contracts) /\ p.spot \in Int
    /\ \A c \in p.contracts : /\ c.id \in Nat /\ c.strike \in Int /\ c.oi \in Int
                              /\ c.bid \in Int /\ c.ask \in Int
    /\ \A c, d \in p.contracts : c.id = d.id => c = d

ValidTrade(p) ==
    /\ p.entry \in Int /\ p.slippage \in Int /\ p.target \in Int /\ p.stop \in Int
    /\ p.marks \in Seq(Int)

ValidSample(p) ==
    /\ IsFiniteSet(p.rows) /\ p.bins \in Nat \ {0} /\ p.scale \in Nat \ {0} /\ p.monotonic \in BOOLEAN
    /\ \A r \in p.rows : r.score \in 0..p.scale /\ r.win \in BOOLEAN

ValidProblem(engine, p) ==
    /\ engine = "analytics" => ValidQuotes(p)
    /\ engine = "ranking" => ValidCandidates(p)
    /\ engine = "selection" => ValidContracts(p)
    /\ engine = "risk" => ValidRequest(p)
    /\ engine = "backtest" => ValidTrade(p)
    /\ engine = "drawdown" => p \in Seq(Int)
    /\ engine = "calendar" => ValidMoment(p)
    /\ engine = "expiries" => ValidListing(p)
    /\ engine = "mappings" => ValidMappings(p)
    /\ engine = "calibration" => ValidSample(p)

ASSUME ProblemsAreValid == \A engine \in DOMAIN Problem : \A p \in Problem[engine] : ValidProblem(engine, p)

-------------------------------------------------------------------------------
VARIABLES
    problem,       \* what an engine is asked
    answer         \* what it returned, or <<>>

engineVars == <<problem, answer>>

EngineInit ==
    /\ \E engine \in DOMAIN Problem : \E p \in Problem[engine] : problem = [engine |-> engine, input |-> p]
    /\ answer = <<>>

Asked(engine) == answer = <<>> /\ problem.engine = engine

EngineStep ==
    /\ UNCHANGED problem
    /\ \/ Asked("analytics") /\ answer' = <<CalculateAnalytics(problem.input)>>
       \/ Asked("ranking") /\ answer' = <<Rank(problem.input)>>
       \/ Asked("selection") /\ answer' = <<Choose(problem.input)>>
       \/ Asked("risk") /\ answer' = <<AssessRisk(problem.input)>>
       \/ Asked("backtest") /\ answer' = <<Simulate(problem.input)>>
       \/ Asked("drawdown") /\ answer' = <<MaximumDrawdown(problem.input)>>
       \/ Asked("calendar") /\ answer' = <<SessionStatus(problem.input)>>
       \/ Asked("expiries") /\ answer' = <<SelectExpiries(problem.input)>>
       \/ Asked("mappings") /\ answer' = <<ImportMappings(problem.input)>>
       \/ Asked("calibration") /\ answer' = <<Calibrate(problem.input)>>

Answered(engine) == answer # <<>> /\ problem.engine = engine

\* The strikes on both sides of the money that are among the nearest by position, a
\* wall no strike of its side exceeds, and totals that contain the nearby ones.
AnalyticsAgree(p, a) ==
    ~ a.error =>
        /\ a.near = {k \in Strikes(p.quotes) :
                        Cardinality({l \in Strikes(p.quotes) : (l > a.atm /\ l <= k) \/ (l < a.atm /\ l >= k)}) <= p.each}
        /\ \A k \in Strikes(p.quotes) : Absolute(a.atm - p.spot) <= Absolute(k - p.spot)
        /\ \A side \in Sides :
              /\ a.total[side] >= a.nearby[side]
              /\ \A q \in p.quotes : q.side = side /\ q.oi # NoValue =>
                    a.wall[side] # NoValue /\ Quote(p.quotes, a.wall[side], side).oi >= q.oi

\* Every candidate has one position, and a candidate that is at least as good in
\* every measure as another one, and better in one that counts, is not behind it.
RankingAgrees(p, a) ==
    /\ \A n \in DOMAIN p.candidates : Cardinality({k \in DOMAIN a : a[k].symbol = p.candidates[n].symbol}) = 1
    /\ \A k \in DOMAIN a : a[k].total \in 0..100
    /\ \A m, n \in DOMAIN a :
          LET c == CHOOSE x \in Range(p.candidates) : x.symbol = a[m].symbol
              d == CHOOSE x \in Range(p.candidates) : x.symbol = a[n].symbol
          IN  (\A name \in DOMAIN c \ {"symbol"} : c[name] <= d[name]) /\ a[m].total # a[n].total => m > n

\* No eligible contract is nearer to the money than the chosen one.
SelectionAgrees(p, a) ==
    LET eligible == {c \in p.contracts : Eligible(c, p)}
    IN  IF a = NoValue THEN eligible = {}
        ELSE \E c \in eligible : /\ c.id = a
                                 /\ \A d \in eligible : Absolute(c.strike - p.spot) <= Absolute(d.strike - p.spot)

\* A trade leaves at the first mark that reaches its target or its stop.
BacktestAgrees(p, a) ==
    LET hit(n) == \/ 100 * p.marks[n] * 100 >= p.entry * (100 + p.slippage) * (100 + p.target)
                  \/ 100 * p.marks[n] * 100 <= p.entry * (100 + p.slippage) * (100 - p.stop)
    IN  p.marks # <<>> =>
            /\ \A n \in 1..(a.mark - 1) : ~ hit(n)
            /\ hit(a.mark) <=> a.reason # "LAST_AVAILABLE"
            /\ a.reason = "LAST_AVAILABLE" => a.mark = Len(p.marks)

\* The largest loss over any stretch of consecutive trades.
DrawdownAgrees(profits, a) ==
    LET sum[n \in 0..Len(profits)] == IF n = 0 THEN 0 ELSE sum[n - 1] + profits[n]
        later == {q \in (0..Len(profits)) \X (0..Len(profits)) : q[1] <= q[2]}
    IN  a = Max({sum[q[1]] - sum[q[2]] : q \in later})

\* A prediction is the largest rate observed in the bins up to one of them, a higher
\* score is not predicted lower, and none is missing but past the last row fitted.
CalibrationAgrees(p, a) ==
    LET up(n) == {Observed(m, p) : m \in {b \in 1..n : Observed(b, p)[2] > 0}}
        fitted == {r.score : r \in p.rows}
    IN  /\ \A s \in fitted : a[s] # <<>>
        /\ \A s \in DOMAIN a : a[s] = <<>> => \A r \in p.rows : BinOf(r.score, p) < BinOf(s, p)
        /\ p.monotonic => \A s \in DOMAIN a : a[s] # <<>> =>
              /\ \E n \in 1..p.bins : a[s] \in up(n) /\ \A rate \in up(n) : ~ LowerRate(a[s], rate)
              /\ \A higher \in DOMAIN a : higher >= s /\ a[higher] # <<>> => ~ LowerRate(a[higher], a[s])

\* The engines return what an independent definition of their result demands:
\* window slicing, ties, nulls, equal measures and early exits included.
EnginesAgree ==
    /\ Answered("analytics") => AnalyticsAgree(problem.input, answer[1])
    /\ Answered("ranking") => RankingAgrees(problem.input, answer[1])
    /\ Answered("selection") => SelectionAgrees(problem.input, answer[1])
    /\ Answered("backtest") => BacktestAgrees(problem.input, answer[1])
    /\ Answered("drawdown") => DrawdownAgrees(problem.input, answer[1])
    /\ Answered("calendar") => CalendarAgrees(problem.input, answer[1])
    /\ Answered("expiries") => ExpiriesAgree(problem.input, answer[1])
    /\ Answered("mappings") => MappingsAgree(problem.input, answer[1])
    /\ Answered("calibration") => CalibrationAgrees(problem.input, answer[1])

\* The exposure approved for the contracts of some symbols.
SpentAfter(p, decisions, symbols) ==
    LET spent[n \in 0..Len(p.selections)] ==
            IF n = 0 THEN 0
            ELSE spent[n - 1] + IF p.selections[n].symbol \in symbols THEN decisions[n].exposure ELSE 0
    IN  spent

Spent(p, decisions, symbols) == SpentAfter(p, decisions, symbols)[Len(p.selections)]

\* Whatever the order and number of contracts of a risk run, its approvals stay within
\* every budget, up to the half cent by which rounding may exceed it once, and a
\* rejection always names a budget that does not hold one more lot.
ExposureWithinLimits ==
    Answered("risk") =>
        LET p == problem.input
            decisions == answer[1]
            symbols == {s.symbol : s \in Range(p.selections)}
        IN  /\ p.existing + Spent(p, decisions, symbols) <= Max({p.existing, p.totalLimit + 1})
            /\ Spent(p, decisions, symbols) <= p.available + 1
            /\ \A x \in symbols :
                  p.existingBy[x] + Spent(p, decisions, {x}) <= Max({p.existingBy[x], p.underlyingLimit + 1})
            /\ \A n \in DOMAIN decisions : /\ decisions[n].exposure <= p.tradeLoss + 1
                                           /\ decisions[n].lots <= p.maximumLots
                                           /\ decisions[n].code # "NO_AFFORDABLE_LOTS"
================================================================================
