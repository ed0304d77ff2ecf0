--------------------------- MODULE ReportAssembly ---------------------------
(***************************************************************************)
(* generate_dataset_report of core/tools/report_generator.py: the plan of  *)
(* core/intelligence/report_planner.py, the strategy of                    *)
(* core/intelligence/report_strategy_engine.py, the sections in the order  *)
(* they are put together, then reordered, filtered and cut.                *)
(*                                                                         *)
(* A request has a type (or "none"), the phrases its text contains, the    *)
(* columns and charts the text is about, the sections that are selected    *)
(* (<<>>: all, or <<S>>), and what the AI narrative has to say.  Heard     *)
(* adds what the phrases speak for.                                        *)
(***************************************************************************)
EXTENDS ReportSections, ReportTables

General == "full_intelligence"
\* The table's value, or the default where the key is not there.
Get(table, key, default) == IF key \in DOMAIN table THEN table[key] ELSE default

-----------------------------------------------------------------------------
\* What a text is about: the weights of the phrases add up, what has most is
\* meant if it has ten tenths, of equals the first that was met.

Weight(row, says) == row[2] * Cardinality(row[3] \cap says)
Spoken(table, says, meant) ==
  LET Of(n) == IF table[n][1] = meant THEN Weight(table[n], says) ELSE 0
  IN MapThenSumSet(Of, DOMAIN table)
Meant(table, says, default) ==
  LET most == Max({Spoken(table, says, row[1]) : row \in ToSet(table)})
      Leads(row) == Weight(row, says) > 0 /\ Spoken(table, says, row[1]) = most
  IN IF most >= 10 THEN SelectSeq(table, Leads)[1][1] ELSE default

\* detect_user_preferences hears the type's hint too, _classify_intent_text
\* does not.
Heard(q) ==
  [style |-> Meant(StylePhrases, q.says \cup Get(Hints, q.type, {}), "none"),
   said  |-> Meant(IntentPhrases, q.says, General)] @@ q

-----------------------------------------------------------------------------
\* _style_from_dataset, of the kinds of columns a profile has.
Timed(p) == p.dates # <<>> /\ p.shifts # <<>>
StyleFromDataset(p) ==
  LET few == 5 * Len(p.categorical) <= 3 * (Len(p.numeric) + Len(p.categorical))
  IN CASE Timed(p) /\ p.financial = 0            -> "monitoring_report"
       [] p.financial > 0 /\ p.dimensions = 0    -> "kpi_summary"
       [] p.financial = 0 /\ ~Timed(p) /\ ~few /\ p.dimensions >= 2
                                                 -> "table_heavy_report"
       [] OTHER                                  -> "analyst_deep_dive"

\* infer_report_style
Style(q, p) == IF q.style # "none" THEN q.style ELSE StyleFromDataset(p)

\* resolve_report_strategy: the type, else what the text says.
Intent(q) == Get(TypeIntent, q.type, q.said)

Scores(q, p) == Get(IntentScores, Intent(q), StyleScores[Style(q, p)])
Score(q, p, type) == Get(Scores(q, p), type, 0)
Viz(q, p, kind) == Get(IntentViz, Intent(q), StyleViz[Style(q, p)])[kind]

-----------------------------------------------------------------------------
\* _build_chart_sections.  The columns the text likes are numbers in q.likes,
\* the charts whose headings share a word with it are in q.words.

QualityStyles == {"analyst_deep_dive", "anomaly_report", "operational_report",
                  "monitoring_report", "table_heavy_report"}
NoHistogramStyles == {"kpi_summary", "executive_brief"}

\* _best_dimension_col: the best by its rank, then the most values.
Rank(q, p, i) ==
  IF p.categorical[i].dimension THEN IF i \in q.likes THEN 0 ELSE 1 ELSE 2
Dimension(q, p) ==
  LET columns == {i \in DOMAIN p.categorical :
                    ~p.categorical[i].id /\ p.categorical[i].values > 0}
      Before(i, j) == \/ Rank(q, p, i) < Rank(q, p, j)
                      \/ /\ Rank(q, p, i) = Rank(q, p, j)
                         /\ \/ p.categorical[i].values > p.categorical[j].values
                            \/ /\ p.categorical[i].values = p.categorical[j].values
                               /\ i <= j
  IN {i \in columns : \A j \in columns : Before(i, j)}

\* A further column of two to seven values.
HasPie(p, charted) ==
  \E i \in DOMAIN p.categorical \ charted :
    ~p.categorical[i].id /\ p.categorical[i].values \in 2 .. 7

\* _best_metric_col: a column with a value in its histogram.
HasMetric(p) == \E c \in ToSet(p.numeric) : c.empty < c.bins

Chart(name, kind) == [name |-> name, kind |-> kind]
Charted(q, p) == IF Viz(q, p, "bar") > 0 THEN Dimension(q, p) ELSE {}
BarCharts(q, p) ==
  LET style == Style(q, p)
  IN If(Charted(q, p) # {}, Chart("dimension", "bar"))
     \o If(/\ style \in QualityStyles /\ Viz(q, p, "bar") >= 3
           /\ \E n \in ToSet(p.missing) : n > 0 /\ AtLeast(n, p.rows, 5),
           Chart("missing", "bar"))
     \o If(/\ style \notin NoHistogramStyles /\ Viz(q, p, "bar") >= 3
           /\ HasMetric(p),
           Chart("histogram", "bar"))
Charts(q, p) ==
  LET pie == IF Viz(q, p, "donut") > Viz(q, p, "pie") THEN "donut" ELSE "pie"
  IN BarCharts(q, p)
     \o If(/\ Viz(q, p, "line") > 0
           /\ p.dates # <<>> /\ Len(p.dates[1].months) >= 2,
           Chart("trend", "line"))
     \o If(Len(p.correlations) >= 2 /\ Viz(q, p, "correlation_matrix") >= 3,
           Chart("matrix", "correlation_matrix"))
     \o If(Viz(q, p, pie) > 0 /\ HasPie(p, Charted(q, p)), Chart("share", pie))

\* _rank_chart_sections: stable; the first three make the overview.
ChartScore(q, p, c) == Viz(q, p, c.kind) + (IF c.name \in q.words THEN 1 ELSE 0)
RankedCharts(q, p) ==
  LET charts == Charts(q, p)
      S(i) == ChartScore(q, p, charts[i])
      order == SortSeq([i \in DOMAIN charts |-> i],
                       LAMBDA i, j : S(i) > S(j) \/ (S(i) = S(j) /\ i < j))
  IN [i \in DOMAIN order |->
        [Section("chart", [NoFacts EXCEPT !.list = <<charts[order[i]]>>])
           EXCEPT !.overview = i <= 3]]

-----------------------------------------------------------------------------
\* The sections in the order the code appends and inserts them.

At(sections, type, default) ==
  LET at == SelectInSeq(sections, LAMBDA s : s.type = type)
  IN IF at = 0 THEN default ELSE at
After(sections, at, section) == InsertAt(sections, at + 1, section)

Recs(q, p) ==
  Recommendations(p, Get(RecommendationLimit, Intent(q), 5),
                  Intent(q) \in Suppressing)

Leading(q, p) ==
  <<Plain("text")>>
  \o If(Intent(q) \in {"data_quality", General}, KpiSection(p))
  \o If("business_kpis" \in p.semantic
          /\ Intent(q) \in {"executive_brief", "kpi_scorecard", General},
        Plain("business_kpis"))
  \o If("segmentation" \in p.semantic, Plain("segmentation"))
  \o If("drilldown_table" \in p.semantic, Plain("drilldown_table"))
Described(p) ==
  If(p.numeric # <<>>, Plain("text")) \o <<Plain("text")>>
  \o If(\E c \in ToSet(p.categorical) : c.values > 0, Plain("text"))
  \o If(p.dates # <<>>, Plain("text")) \o If(Timed(p), Plain("text"))
Appended(q, p) ==
  Leading(q, p) \o Described(p)
  \o <<AnomalySection(p), TrendSection(p), ReadinessSection(p)>>
  \o RankedCharts(q, p)

WithRecommendations(q, p, s) ==
  IF AllRecs(p) = <<>> THEN s
  ELSE After(s, At(s, "kpi", 2), RecommendationSection(Recs(q, p)))

WithHistory(p, s, previous) ==
  IF previous = <<>> THEN s
  ELSE After(s, At(s, "predictive_readiness", Len(s)),
             Section("historical_comparison",
               [NoFacts EXCEPT !.list =
                  Comparisons(Metrics(s), previous[1], p.rows)]))

WithDrift(p, s, baseline) ==
  LET drifts == Drifts(Metrics(s), baseline, p.rows)
  IN IF drifts = <<>> THEN s
     ELSE After(s, At(s, "historical_comparison",
                      At(s, "predictive_readiness", Len(s))),
                Section("drift_detection", [NoFacts EXCEPT !.list = drifts]))

WithForecast(p, s) ==
  IF ~CanForecast(p) THEN s
  ELSE After(s, At(s, "drift_detection",
                   At(s, "historical_comparison",
                      At(s, "predictive_readiness", Len(s)))),
             Plain("forecast"))

\* The dashboard and the priorities are built of what is there so far, the
\* summary goes before them.
WithHeadlines(s) ==
  LET first == Prioritized(s)
  IN <<Plain("executive_summary"),
       Section("ai_dashboard", [NoFacts EXCEPT !.list = <<Headline(s)>>])>>
     \o If(first # <<>>,
           Section("insight_priority", [NoFacts EXCEPT !.list = first]))
     \o s

\* The AI narrative is there or not, and has three optional parts.
WithNarrative(q, s) ==
  IF q.ai = {} THEN s
  ELSE LET led == <<Plain("executive_summary")>>
                    \o If("ai_findings" \in q.ai, Plain("ai_findings"))
                    \o If("ai_insights" \in q.ai, Plain("ai_insights"))
           at  == At(s, "recommendation", Len(s) + 1)
       IN led \o (IF "ai_recommendations" \in q.ai
                  THEN InsertAt(s, at, Plain("ai_recommendations")) ELSE s)

\* As it would be if the history were compared before the recommendations
\* are there.
AssembledEarly(q, p, previous, baseline) ==
  WithNarrative(q, WithHeadlines(WithForecast(p, WithRecommendations(q, p,
    WithDrift(p, WithHistory(p, Appended(q, p), previous), baseline)))))
Assembled(q, p, previous, baseline) ==
  WithNarrative(q, WithHeadlines(WithForecast(p,
    WithDrift(p, WithHistory(p, WithRecommendations(q, p, Appended(q, p)),
                             previous), baseline))))

-----------------------------------------------------------------------------
\* What becomes of them.

\* reorder_sections: stable, the highest score first.
Reordered(q, p, s) ==
  LET Of(n) == Score(q, p, s[n].type)
      order == SortSeq([n \in DOMAIN s |-> n],
                       LAMBDA m, n : Of(m) > Of(n) \/ (Of(m) = Of(n) /\ m < n))
  IN [n \in DOMAIN s |-> s[order[n]]]

Wanted(q, section) ==
  q.selection = <<>> \/ \E types \in ToSet(q.selection) : section.type \in types
Selected(q, s) == SelectSeq(s, LAMBDA section : Wanted(q, section))

\* As it would be if charts of the overview counted.
CutAll(q, p, s) == Upto(MaxSections[Style(q, p)], s)
\* The budget is the style's; charts of the overview do not count.
Cut(q, p, s) ==
  LET max == MaxSections[Style(q, p)]
      Counted(n) == Cardinality({m \in 1 .. n : ~s[m].overview})
      kept == SelectSeq([n \in DOMAIN s |-> n],
                        LAMBDA n : s[n].overview \/ Counted(n) <= max)
  IN IF Len(s) <= max THEN s ELSE [k \in DOMAIN kept |-> s[kept[k]]]

Returned(q, p, s) == Cut(q, p, Selected(q, Reordered(q, p, s)))
=============================================================================
