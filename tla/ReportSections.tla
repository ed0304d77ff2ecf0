--------------------------- MODULE ReportSections ---------------------------
(***************************************************************************)
(* What the section builders of core/tools/report_generator.py find in the *)
(* stored profile of a dataset.  Sentences, headings and evidence are left *)
(* out: a finding is the rule that found it and how grave it is.           *)
(*                                                                         *)
(* A profile is a record.  rows and columns are counts; missing has, per   *)
(* column, the number of empty cells; numeric, categorical and dates       *)
(* describe the columns of each kind, in the order of the file; shifts are *)
(* the trend_insights, in percent; correlations are in percent.  Means are *)
(* integers.  Shares and rates are compared by cross-multiplication: where *)
(* one is exactly at its threshold the program's floating point may fall   *)
(* on the other side.                                                      *)
(***************************************************************************)
EXTENDS Integers, Sequences, FiniteSets, SequencesExt, FiniteSetsExt, Folds

Abs(x) == IF x < 0 THEN -x ELSE x
Total(s) == FoldSeq(LAMBDA x, sum : x + sum, 0, s)
Each(s, Op(_)) == [i \in DOMAIN s |-> Op(s[i])]
Upto(n, s) == SubSeq(s, 1, IF n < Len(s) THEN n ELSE Len(s))
Count(s, Test(_)) == Cardinality({i \in DOMAIN s : Test(s[i])})

\* count / of >= percent / 100.
AtLeast(count, of, percent) == 100 * count >= percent * of

Grades == <<"high", "medium", "low">>
\* list.sort by grade: stable.
ByGrade(s) ==
  LET Of(g) == SelectSeq(s, LAMBDA f : f.grade = g)
  IN Of("high") \o Of("medium") \o Of("low")

Finding(rule, grade) == [rule |-> rule, grade |-> grade]
\* One finding for each member of s that the rule grades.
Graded(rule, s, Grade(_)) ==
  Each(SelectSeq(s, LAMBDA x : Grade(x) # "none"),
       LAMBDA x : Finding(rule, Grade(x)))
If(cond, f) == IF cond THEN <<f>> ELSE <<>>

-----------------------------------------------------------------------------
\* Filled cells in tenths of a percent; Unknown without cells.
Unknown == -1
Cells(p) == p.rows * p.columns
Filled(p) == Cells(p) - Total(p.missing)
Completeness(p) ==
  IF Cells(p) = 0 THEN Unknown
  ELSE (2000 * Filled(p) + Cells(p)) \div (2 * Cells(p))

\* Where a column's outliers are counted and at least this share of it.
Outlying(c, percent) == c.filled > 0 /\ AtLeast(c.outliers, c.filled, percent)
Strong(p) == SelectSeq(p.correlations, LAMBDA r : Abs(r) >= 50)
FirstDate(p) == Upto(1, p.dates)
Granular(p, kinds) == \E i \in DOMAIN FirstDate(p) : p.dates[i].granularity \in kinds

-----------------------------------------------------------------------------
\* _build_anomaly_section, rule by rule.

MissingCells(p) ==
  IF p.rows = 0 THEN <<>>
  ELSE Graded("missing", p.missing,
              LAMBDA n : CASE n > 0 /\ AtLeast(n, p.rows, 25) -> "high"
                           [] n > 0 /\ AtLeast(n, p.rows, 10)
                              /\ ~AtLeast(n, p.rows, 25)       -> "medium"
                           [] OTHER                            -> "none")
Incomplete(p) ==
  If(Cells(p) > 0 /\ ~AtLeast(Filled(p), Cells(p), 95),
     Finding("completeness",
             IF AtLeast(Filled(p), Cells(p), 80) THEN "medium" ELSE "high"))
SmallSample(p) ==
  If(p.rows < 100, Finding("sample", IF p.rows < 30 THEN "high" ELSE "medium"))
Dominance(p) ==
  IF p.rows = 0 THEN <<>>
  ELSE Graded("dominance", p.categorical,
              LAMBDA c : IF c.top > 0 /\ AtLeast(c.top, p.rows, 90) THEN "high"
                         ELSE IF c.top > 0 /\ AtLeast(c.top, p.rows, 80) THEN "medium"
                         ELSE "none")
WideRange(p) ==
  Graded("range", p.numeric,
         LAMBDA c : IF \/ c.min > 0 /\ c.max > 1000 * c.min
                       \/ c.mean > 0 /\ c.max > 10 * c.mean
                    THEN "medium" ELSE "none")
SharpShift(p) ==
  Graded("shift", p.shifts,
         LAMBDA pct : IF Abs(pct) >= 200 THEN "medium" ELSE "none")
OutlierDensity(p) ==
  Graded("outliers", p.numeric,
         LAMBDA c : IF Outlying(c, 20) THEN "high"
                    ELSE IF Outlying(c, 10) THEN "medium" ELSE "none")
Variability(p) ==
  Graded("variability", p.numeric,
         LAMBDA c : IF c.mean = 0 THEN "none"
                    ELSE IF c.std > 5 * Abs(c.mean) THEN "high"
                    ELSE IF c.std > 2 * Abs(c.mean) THEN "medium" ELSE "none")
\* Only the sparsest histogram is named.
Sparse(p) ==
  If(\E i \in DOMAIN p.numeric :
       p.numeric[i].bins >= 5 /\ 2 * p.numeric[i].empty > p.numeric[i].bins,
     Finding("sparse", "medium"))
Collinear(p) ==
  Upto(2, Graded("collinear", p.correlations,
                 LAMBDA r : IF Abs(r) >= 90 THEN "medium" ELSE "none"))
\* Entropy in hundredths.
Flat(c)     == c.values > 1 /\ c.entropy < 30
Diversity(p) ==
  Graded("diversity", p.categorical,
         LAMBDA c : IF Flat(c) /\ ~AtLeast(c.top, p.rows, 80)
                    THEN "medium" ELSE "none")

AllFindings(p) ==
  MissingCells(p) \o Incomplete(p) \o SmallSample(p) \o Dominance(p)
    \o WideRange(p) \o SharpShift(p) \o OutlierDensity(p) \o Variability(p)
    \o Sparse(p) \o Collinear(p) \o Diversity(p)

AllClear == Finding("clear", "low")
\* As it would be if the cap came before the sort.
AnomaliesAsFound(p) ==
  IF AllFindings(p) = <<>> THEN <<AllClear>> ELSE ByGrade(Upto(8, AllFindings(p)))
Anomalies(p) ==
  LET worst == Upto(8, ByGrade(AllFindings(p)))
  IN IF worst = <<>> THEN <<AllClear>> ELSE worst

-----------------------------------------------------------------------------
\* _build_recommendation_section: at most five, in the order of the rules.

Rec(rule, grade, sure) == [rule |-> rule, grade |-> grade, sure |-> sure]
Concentrated(p) == SelectSeq(p.numeric, LAMBDA c : Outlying(c, 10))

RowRecs(p) ==
  If(Total(p.missing) > 0,
     Rec("clean", IF Completeness(p) # Unknown /\ Completeness(p) < 800
                  THEN "high" ELSE "medium", TRUE))
  \o If(p.rows < 100,             Rec("sample", "high", TRUE))
  \o If(p.dates # <<>>,           Rec("schedule", "medium", TRUE))
ColumnRecs(p) ==
  If(p.categorical # <<>>,        Rec("segment", "medium", FALSE))
  \o If(Len(p.numeric) >= 2,      Rec("relate", "medium", FALSE))
  \o If(Concentrated(p) # <<>>,
        Rec("outliers", IF Outlying(Concentrated(p)[1], 20)
                        THEN "high" ELSE "medium", TRUE))
  \o If(Len(Strong(p)) >= 2,      Rec("leverage", "medium", FALSE))
  \o If(Granular(p, {"daily"}),   Rec("forecast", "medium", TRUE))
  \o If(p.rows >= 10000,          Rec("automate", "low", FALSE))
AllRecs(p) == RowRecs(p) \o ColumnRecs(p)

\* The narrative configuration may drop what is not sure and lower the limit.
Recommendations(p, limit, suppress) ==
  Upto(limit, SelectSeq(Upto(5, AllRecs(p)), LAMBDA r : r.sure \/ ~suppress))

-----------------------------------------------------------------------------
\* _build_trend_section.

Trend(direction, grade) == [direction |-> direction, grade |-> grade]

Shifts(p) ==
  Each(Upto(3, p.shifts),
       LAMBDA pct : Trend(CASE Abs(pct) <= 5 -> "stable"
                            [] pct > 5       -> "up"
                            [] pct < -5      -> "down",
                          CASE Abs(pct) >= 100 -> "high"
                            [] Abs(pct) \in 30 .. 99 -> "medium"
                            [] Abs(pct) < 30 -> "low"))
Reliability(p) ==
  IF Cells(p) = 0 THEN <<>>
  ELSE IF AtLeast(Filled(p), Cells(p), 98) THEN <<Trend("stable", "high")>>
  ELSE IF AtLeast(Filled(p), Cells(p), 80) THEN <<Trend("stable", "medium")>>
  ELSE <<Trend("volatile", "medium")>>
\* Of the column whose most frequent value is the most frequent.
Concentration(p) ==
  LET tops == {p.categorical[i].top : i \in DOMAIN p.categorical} \ {0}
      best == Max(tops)
  IN IF p.rows = 0 \/ tops = {} THEN <<>>
     ELSE <<Trend("stable", IF AtLeast(best, p.rows, 80) THEN "high"
                            ELSE IF AtLeast(best, p.rows, 50) THEN "medium"
                            ELSE "low")>>
\* Of the column with the widest range relative to its mean.
Dispersion(p) ==
  LET spread == {c \in ToSet(p.numeric) : c.mean # 0 /\ c.max > c.min}
  IN IF spread = {} THEN <<>>
     ELSE IF \E c \in spread : c.max - c.min > 10 * Abs(c.mean)
     THEN <<Trend("volatile", "medium")>>
     ELSE <<Trend("stable", "low")>>
\* The monthly counts of the first date column: first half against second.
Volume(p) ==
  LET counts == p.dates[1].months
      half   == Len(counts) \div 2
      first  == Total(SubSeq(counts, 1, half)) * (Len(counts) - half)
      second == Total(SubSeq(counts, half + 1, Len(counts))) * half
  IN IF p.dates = <<>> \/ Len(counts) < 3 THEN <<>>
     ELSE IF 100 * second > 115 * first THEN <<Trend("up", "medium")>>
     ELSE IF 100 * second < 85 * first THEN <<Trend("down", "medium")>>
     ELSE <<Trend("stable", "low")>>
Granularity(p) ==
  If(Granular(p, {"daily"}), Trend("stable", "high"))
  \o If(Granular(p, {"weekly", "monthly"}), Trend("stable", "medium"))

Trends(p) ==
  LET all == Shifts(p) \o Reliability(p) \o Concentration(p)
               \o Dispersion(p) \o Volume(p) \o Granularity(p)
  IN IF all = <<>> THEN <<Trend("stable", "low")>> ELSE Upto(6, ByGrade(all))

-----------------------------------------------------------------------------
\* _build_predictive_readiness_section: five signals of 20 points, then
\* bonuses and penalties, each of them clamped.

Points(ready, partial) == IF ready THEN 20 ELSE IF partial THEN 10 ELSE 0
SignalPoints(p) ==
  Points(p.rows >= 1000, p.rows >= 100)
    + Points(Len(p.numeric) >= 2, Len(p.numeric) = 1)
    + Points(p.categorical # <<>>, FALSE)
    + Points(Completeness(p) >= 950, Completeness(p) >= 800)
    + Points(p.dates # <<>> /\ p.shifts # <<>>, p.dates # <<>>)
Readiness(p) ==
  LET Up(score, cond)   == IF cond THEN Min({100, score + 5}) ELSE score
      Down(score, cond) == IF cond THEN Max({0, score - 5}) ELSE score
      network  == Up(SignalPoints(p), Len(Strong(p)) >= 3)
      outliers == Down(network, \E c \in ToSet(p.numeric) : Outlying(c, 20))
      daily    == Up(outliers, Granular(p, {"daily"}))
  IN Down(daily, \E c \in ToSet(p.categorical) : Flat(c))

\* _build_forecast_section: a date column of six months or more.
CanForecast(p) ==
  /\ p.numeric # <<>>
  /\ \E d \in ToSet(p.dates) : Len(d.months) >= 6

-----------------------------------------------------------------------------
\* Sections.  facts are the numbers that later sections and the snapshot read:
\* findings and recommendations of high grade, trends by direction, the
\* readiness and the completeness, a section's own list.

NoFacts == [high |-> 0, up |-> 0, down |-> 0, score |-> Unknown,
            filled |-> Unknown, rows |-> Unknown, list |-> <<>>]
Section(type, facts) == [type |-> type, facts |-> facts, overview |-> FALSE]
Plain(type) == Section(type, NoFacts)
Highs(list) == Count(list, LAMBDA f : f.grade = "high")

KpiSection(p) ==
  Section("kpi", [NoFacts EXCEPT !.rows = p.rows, !.filled = Completeness(p)])
AnomalySection(p) ==
  Section("anomaly", [NoFacts EXCEPT !.list = Anomalies(p),
                                     !.high = Highs(Anomalies(p))])
TrendSection(p) ==
  LET Toward(d) == Count(Trends(p), LAMBDA t : t.direction = d)
  IN Section("trend", [NoFacts EXCEPT !.up = Toward("up"),
                         !.down = Toward("down"), !.list = Trends(p)])
ReadinessSection(p) ==
  Section("predictive_readiness", [NoFacts EXCEPT !.score = Readiness(p)])
RecommendationSection(recs) ==
  Section("recommendation", [NoFacts EXCEPT !.list = recs, !.high = Highs(recs)])

\* What a scan of the sections for one type finds; the last one counts.
FactsOf(sections, type) ==
  LET of == SelectSeq(sections, LAMBDA s : s.type = type)
  IN IF of = <<>> THEN NoFacts ELSE Last(of).facts
Has(sections, type) == \E i \in DOMAIN sections : sections[i].type = type

\* _extract_snapshot, and the metrics the history and the drift compare with:
\* counts are 0, the rest Unknown, where the section is not there.
Metrics(sections) ==
  LET kpi == FactsOf(sections, "kpi")
      trend == FactsOf(sections, "trend")
  IN [score    |-> FactsOf(sections, "predictive_readiness").score,
      rows     |-> kpi.rows,
      anomaly  |-> FactsOf(sections, "anomaly").high,
      rec      |-> FactsOf(sections, "recommendation").high,
      up       |-> trend.up,
      down     |-> trend.down,
      complete |-> kpi.filled]
Carrier == [score |-> "predictive_readiness", rows |-> "kpi",
            anomaly |-> "anomaly", rec |-> "recommendation",
            up |-> "trend", down |-> "trend", complete |-> "kpi"]

\* _build_historical_comparison_section.  The rows are the dataset's.
Compared == <<"score", "rows", "anomaly", "rec", "up", "complete">>
Comparisons(now, previous, rows) ==
  LET current == [now EXCEPT !.rows = rows]
      Known(m) == current[m] # Unknown /\ previous[m] # Unknown
  IN Each(SelectSeq(Compared, Known),
          LAMBDA m : [metric |-> m, current |-> current[m],
                      previous |-> previous[m]])

\* _build_drift_detection_section: against the average of what is known.
\* Rows of one grade keep the order of the metrics.
Drifting == <<"score", "rows", "anomaly", "rec", "down", "complete">>
Drifts(now, baseline, rows) ==
  LET current == [now EXCEPT !.rows = rows]
      Values(m) == SelectSeq(Each(baseline, LAMBDA b : b[m]),
                             LAMBDA v : v # Unknown)
      Apart(m) == Abs(current[m] * Len(Values(m)) - Total(Values(m)))
      By(m, percent) == 100 * Apart(m) >= percent * Total(Values(m))
      Drifted(m) == /\ current[m] # Unknown /\ Total(Values(m)) # 0
                    /\ By(m, 10)
      Grade(m) == IF By(m, 40) THEN "high"
                  ELSE IF By(m, 20) THEN "medium" ELSE "low"
  IN IF Len(baseline) < 3 THEN <<>>
     ELSE ByGrade(Each(SelectSeq(Drifting, Drifted),
                       LAMBDA m : Finding(m, Grade(m))))

-----------------------------------------------------------------------------
\* _build_ai_dashboard_section: the first finding that is not the all-clear,
\* and a risk if it or a recommendation is of high grade.

Headline(sections) ==
  LET first == Head(FactsOf(sections, "anomaly").list)
  IN [insight |-> first # AllClear,
      risk    |-> \/ first.grade = "high"
                  \/ FactsOf(sections, "recommendation").high > 0]

\* _build_insight_priority_section: recommendations after what is as grave.
Prioritized(sections) ==
  LET anomalies == SelectSeq(FactsOf(sections, "anomaly").list,
                             LAMBDA f : f # AllClear)
      drifts == FactsOf(sections, "drift_detection").list
      recs   == Each(FactsOf(sections, "recommendation").list,
                     LAMBDA r : Finding(r.rule, r.grade))
      Of(g, s) == SelectSeq(s, LAMBDA f : f.grade = g)
      All(g)   == Of(g, anomalies) \o Of(g, drifts) \o Of(g, recs)
  IN Upto(8, All("high") \o All("medium") \o All("low"))
=============================================================================
