------------------------------- MODULE MCResearch -------------------------------
\* The instance of Research that TLC checks.
EXTENDS Research

MCGroups == {"engines", "lineage", "evidence", "overlap", "rankings", "events", "passes", "prospects", "points", "recommendations", "validation", "drift", "governance"}

\* Prices and open interest of the quotes of two or three strikes.
Quotes(strikes, values) == {{[strike |-> k, side |-> side, price |-> v[k][side].price, oi |-> v[k][side].oi,
                              bid |-> v[k][side].price, ask |-> v[k][side].oi] : k \in strikes, side \in Sides} :
                                v \in [strikes -> [Sides -> values]]}
AnalyticsInputs ==
    {[quotes |-> q, spot |-> spot, each |-> each] :
        q \in Quotes({10, 20}, [price : {NoValue, 4}, oi : {NoValue, 1, 2}])
              \union Quotes({10, 20, 30}, [price : {4}, oi : {1, 3}]),
        spot \in {12, 15, 30}, each \in {0, 1}}
    \union {[quotes |-> {[strike |-> 10, side |-> "CE", price |-> 4, oi |-> 1, bid |-> 1, ask |-> 1]}, spot |-> 9, each |-> 1]}

RankingInputs ==
    {[candidates |-> [n \in 1..3 |-> [symbol |-> n, liquidity |-> v[n].l, activity |-> v[n].a,
                                      volatility |-> v[n].a, directional |-> v[n].d]]] :
        v \in [1..3 -> [l : {0, 100}, a : {0, 3}, d : {0, 1, 2}]]}

Contracts == {<<strike, price, spread, oi>> : strike \in {10, 30}, price \in {0, 5}, spread \in {NoValue, 0, 1}, oi \in {1, 9}}
Contract(id, v) == [id |-> id, strike |-> v[1], price |-> v[2], bid |-> IF v[3] = NoValue THEN NoValue ELSE 4,
                    ask |-> 4 + v[3], oi |-> v[4], lot |-> 2]
SelectionInputs ==
    {[contracts |-> {Contract(1, c), Contract(2, d)}, spot |-> spot, minimumOi |-> 5,
      maximumDistance |-> 40, maximumSpread |-> 10, maximumPremium |-> premium] :
        c, d \in Contracts, spot \in {20, 25}, premium \in {NoValue, 10}}

RiskInputs ==
    {[selections |-> [n \in 1..3 |-> [symbol |-> IF n = 2 THEN "y" ELSE "x", premium |-> premium[n]]],
      existing |-> existing, existingBy |-> [s \in {"x", "y"} |-> IF s = "x" THEN existing ELSE 0],
      tradeLoss |-> 7, totalLimit |-> total, underlyingLimit |-> 9, available |-> available, maximumLots |-> lots] :
        premium \in [1..3 -> {1, 3, 5, 8}], existing \in {0, 5, 20}, total \in {11, 15}, available \in {6, 13}, lots \in {1, 3}}

BacktestInputs ==
    {[entry |-> 10, slippage |-> slippage, target |-> 20, stop |-> 10, marks |-> marks] :
        slippage \in {0, 1}, marks \in UNION {[1..n -> {8, 9, 10, 11, 12, 13}] : n \in 0..3}}

CalendarInputs ==
    {[wall |-> wall, aware |-> zone[1], offset |-> zone[2], zone |-> 5, open |-> 9, close |-> 15, holidays |-> {2}] :
        wall \in 0..167, zone \in {<<FALSE, 0>>, <<TRUE, 0>>, <<TRUE, 5>>, <<TRUE, -8>>}}

\* Every day of two months has no contract, an active or an inactive one.
ExpiryInputs ==
    {[contracts |-> {[type |-> IF day = 4 THEN "FUTSTK" ELSE "OPTSTK", expiry |-> day, active |-> listed[day] = 1] :
                        day \in {d \in 0..6 : listed[d] # 2}},
      type |-> "OPTSTK", asOf |-> asOf, month |-> 4, minimum |-> window[1], maximum |-> window[2]] :
        listed \in [0..6 -> 0..2], asOf \in {0, 2}, window \in {<<0, NoValue>>, <<1, 3>>}}
    \union {[contracts |-> {}, type |-> "OPTSTK", asOf |-> 0, month |-> 4, minimum |-> 2, maximum |-> 1]}

\* One or two rows of each score, or none, in two or three bins.
CalibrationInputs ==
    {[rows |-> {[id |-> row[1], score |-> row[2], win |-> row[3]] : row \in fitted},
      bins |-> bins, scale |-> 6, monotonic |-> monotonic] :
        fitted \in (SUBSET ({1} \X {0, 2, 3, 6} \X BOOLEAN) \union SUBSET ({1, 2} \X {1, 4} \X BOOLEAN)) \ {{}},
        bins \in {2, 3}, monotonic \in BOOLEAN}

Mappings == [id : {1}, from : {0, 1}, to : {1, 2, NoValue}, target : {1, 2}]
OtherMappings == [id : {2}, from : {0}, to : {NoValue}, target : {1}]
MappingInputs ==
    {<<first, <<second>>>> : first \in UNION {[1..n -> Mappings] : n \in 1..2}, second \in Mappings \union OtherMappings}
    \union {<<<<m>>, <<n>>, <<o, m>>>> : m, n \in Mappings, o \in OtherMappings}

MCProblem == [calendar |-> CalendarInputs, expiries |-> ExpiryInputs, mappings |-> MappingInputs,
              calibration |-> CalibrationInputs,
              analytics |-> AnalyticsInputs, ranking |-> RankingInputs, selection |-> SelectionInputs,
              risk |-> RiskInputs, backtest |-> BacktestInputs,
              drawdown |-> UNION {[1..n -> {-3, -1, 0, 2}] : n \in 0..4}]

\* Two collections of one underlying, whose contracts expire at time 1.
MCSymbolOf == [c \in {1, 2} |-> "x"]
MCExpiry == [x |-> 1]

\* Two observations before the expiry date, one on it. The second is not ranked at first.
MCObservedAt == <<1, 2, 3>>
MCRankingsOf == <<{"none"}, {"none", "ranked"}, {"none"}>>

\* An event is published at once, after it happened or never.
MCEventRecord == {[published |-> 1, at |-> -1], [published |-> 3, at |-> 1], [published |-> -1, at |-> 3]}

\* Three bars of an instrument. The third arrives late and from another source, with a
\* second bar that contradicts the one stored; a correction comes with a corporate action.
MCKind == [i |-> "INSTRUMENT", b1 |-> "BAR", b2 |-> "BAR", b3 |-> "BAR", a |-> "ACTION"]
MCCloseAt == [b1 |-> 1, b2 |-> 2, b3 |-> 3]
Import(records, sum, available, origin) ==
    [records |-> records, sum |-> sum, available |-> available, origin |-> origin, permitted |-> TRUE]
MCPayload == {Import({"i", "b1", "b2"}, 1, 2, "x"), Import({"b2", "b3"}, 3, 3, "y"), Import({"b1", "a"}, 2, 3, "x")}

\* Two candidates of the calibration period, one whose outcome ends in the next one, and
\* one of the test period; a policy for them and one for another strategy.
MCStrategyOf == [c \in {1, 2, 3, 4} |-> "a"]
MCSeenAt == <<3, 4, 5, 7>>
MCEndsAt == <<4, 5, 7, 8>>
MCFlaws == <<{}, {"liquidity"}, {"concentration"}, {}>>
MCPolicy == {[strategy |-> "a", minimum |-> 2], [strategy |-> "b", minimum |-> 2]}
MCPeriod == [TRAIN |-> [start |-> 0, end |-> 0], VALIDATION |-> [start |-> 1, end |-> 1],
             CALIBRATION |-> [start |-> 2, end |-> 5], TEST |-> [start |-> 6, end |-> 9]]

-------------------------------------------------------------------------------
\* What a behaviour of a group has at most: programs, passes, queries and outcomes next to
\* each other are each followed where they matter, and so are the two sides of a chain, the
\* queries of the second generation and the gates of two calibration runs.
OneAtATime == \A p \in Program : work[p] # Idle => p = CHOOSE q \in Program : TRUE
OnePass == \A l \in Linker : linking[l] # Resting => l = CHOOSE m \in Linker : TRUE
RankedOnce == \A v \in Observation : rankings[v] \subseteq {CHOOSE x \in RankingsOf[v] : TRUE}
OneQuery == Cardinality(Stored(similarity)) <= 1
OneOutcome == Cardinality(Stored(outcomes)) <= 1
NoMatches == \A q \in Stored(similarity) : similarity[q].matched = {}
TwoVectors == Cardinality(Stored(vectors)) <= 2
AlikeRuns == \A r, s \in calibrations : r.calibrated /\ s.calibrated => r.passed = s.passed
OneSide == Exists(selection) => \A o, p \in selection.of : o[1] = p[1] => o = p
OneRunOfMatches == Cardinality(Rows(matchesV2)) <= 1
NoPasses(steps) == At(steps) = {}
NoPlans(kinds) == \A kind \in kinds : Plans(kind) = {}
Historical == {"events", "vectors", "replaced", "runs"}
Prospective == {"opportunity events", "opportunities"}

Within ==
    /\ group \in EvidenceGroups \ {"overlap"} => OneAtATime
    /\ group \in EvidenceGroups \ {"rankings"} => RankedOnce /\ OneOutcome
    /\ group \in EvidenceGroups \ {"evidence"} => OneQuery
    /\ group \in {"evidence", "overlap", "rankings"} => imports = 0 /\ NoPasses(Historical \union Prospective)
    /\ group \in {"events", "passes", "prospects"} => NoMatches
    /\ group \in {"events", "passes"} => TwoVectors
    /\ group = "events" => OnePass /\ NoPlans({"opportunities"}) /\ NoPasses(Prospective)
    /\ group = "passes" => imports <= 1 /\ NoPlans({"opportunities", "outcome"}) /\ NoPasses(Prospective)
    /\ group = "prospects" => NoPlans({"outcome"}) /\ NoPasses(Historical)
    /\ group = "lineage" => OneSide
    /\ group = "points" => OneRunOfMatches
    /\ group = "recommendations" => AlikeRuns /\ \A e \in evaluations : e.wide => e.ready

MCSpec == Init /\ [][Next /\ Within']_researchVars
=================================================================================
