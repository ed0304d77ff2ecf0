---------------------------- MODULE ReportTables ----------------------------
(***************************************************************************)
(* The tables of core/intelligence/report_planner.py and                   *)
(* core/intelligence/report_strategy_engine.py that order a report.        *)
(***************************************************************************)

\* _SECTION_SCORES of the planner: what a style puts first.
StyleScores == [
  executive_brief |->
    [ai_dashboard |-> 10, executive_summary |-> 9, kpi |-> 8,
     business_kpis |-> 8, recommendation |-> 7, insight_priority |-> 6,
     anomaly |-> 5, trend |-> 4, chart |-> 3, predictive_readiness |-> 2,
     historical_comparison |-> 2, drift_detection |-> 1, forecast |-> 1,
     text |-> 0],
  visual_dashboard |->
    [ai_dashboard |-> 10, kpi |-> 9, business_kpis |-> 9, chart |-> 8,
     segmentation |-> 8, executive_summary |-> 7, trend |-> 7,
     anomaly |-> 6, recommendation |-> 5, insight_priority |-> 5,
     predictive_readiness |-> 4, historical_comparison |-> 3,
     drift_detection |-> 3, forecast |-> 4, drilldown_table |-> 2,
     text |-> 1],
  analyst_deep_dive |->
    [executive_summary |-> 10, ai_dashboard |-> 9, insight_priority |-> 9,
     business_kpis |-> 8, kpi |-> 8, anomaly |-> 8, trend |-> 7,
     recommendation |-> 7, segmentation |-> 7, drilldown_table |-> 7,
     chart |-> 6, predictive_readiness |-> 6, historical_comparison |-> 6,
     drift_detection |-> 6, forecast |-> 5, text |-> 4],
  table_heavy_report |->
    [executive_summary |-> 10, kpi |-> 9, business_kpis |-> 8,
     drilldown_table |-> 8, segmentation |-> 8, anomaly |-> 7,
     recommendation |-> 7, historical_comparison |-> 6, text |-> 5,
     drift_detection |-> 5, trend |-> 4, predictive_readiness |-> 3,
     chart |-> 2, ai_dashboard |-> 1, forecast |-> 1],
  operational_report |->
    [anomaly |-> 10, recommendation |-> 9, kpi |-> 8, trend |-> 8,
     business_kpis |-> 7, ai_dashboard |-> 7, insight_priority |-> 7,
     drift_detection |-> 6, historical_comparison |-> 6,
     executive_summary |-> 5, chart |-> 4, segmentation |-> 4, text |-> 3,
     predictive_readiness |-> 3, forecast |-> 3],
  anomaly_report |->
    [anomaly |-> 10, insight_priority |-> 9, ai_dashboard |-> 8,
     recommendation |-> 8, drift_detection |-> 7, trend |-> 6,
     executive_summary |-> 5, kpi |-> 5, business_kpis |-> 4,
     historical_comparison |-> 4, chart |-> 3, text |-> 3,
     predictive_readiness |-> 2, forecast |-> 1],
  kpi_summary |->
    [kpi |-> 10, business_kpis |-> 10, ai_dashboard |-> 8,
     executive_summary |-> 8, insight_priority |-> 7, recommendation |-> 6,
     chart |-> 5, anomaly |-> 4, trend |-> 3, segmentation |-> 3,
     text |-> 2, predictive_readiness |-> 2, historical_comparison |-> 2,
     drilldown_table |-> 1, forecast |-> 1],
  monitoring_report |->
    [drift_detection |-> 10, historical_comparison |-> 9, anomaly |-> 9,
     trend |-> 8, ai_dashboard |-> 8, kpi |-> 7, insight_priority |-> 7,
     business_kpis |-> 6, recommendation |-> 6, executive_summary |-> 5,
     forecast |-> 5, chart |-> 4, text |-> 3, predictive_readiness |-> 3,
     segmentation |-> 2]]

\* _VIZ_SCORES, of the charts that are drawn.
StyleViz == [
  executive_brief |->
    [bar |-> 5, line |-> 6, donut |-> 4, pie |-> 3,
     correlation_matrix |-> 0],
  visual_dashboard |->
    [bar |-> 8, line |-> 9, donut |-> 6, pie |-> 5,
     correlation_matrix |-> 5],
  analyst_deep_dive |->
    [bar |-> 8, line |-> 8, donut |-> 4, pie |-> 4,
     correlation_matrix |-> 9],
  table_heavy_report |->
    [bar |-> 5, line |-> 4, donut |-> 2, pie |-> 2,
     correlation_matrix |-> 3],
  operational_report |->
    [bar |-> 8, line |-> 7, donut |-> 2, pie |-> 2,
     correlation_matrix |-> 2],
  anomaly_report |->
    [bar |-> 8, line |-> 6, donut |-> 2, pie |-> 2,
     correlation_matrix |-> 4],
  kpi_summary |->
    [bar |-> 7, line |-> 6, donut |-> 6, pie |-> 5,
     correlation_matrix |-> 2],
  monitoring_report |->
    [bar |-> 7, line |-> 10, donut |-> 2, pie |-> 1,
     correlation_matrix |-> 5]]

\* _SECTION_SCORES_BY_INTENT of the strategies.
IntentScores == [
  executive_brief |->
    [ai_dashboard |-> 100, executive_summary |-> 95, business_kpis |-> 90,
     kpi |-> 85, recommendation |-> 80, insight_priority |-> 75,
     chart |-> 70, anomaly |-> 40, trend |-> 30,
     predictive_readiness |-> 20, historical_comparison |-> 15,
     drift_detection |-> 10, segmentation |-> 5, drilldown_table |-> 5,
     forecast |-> 0, text |-> 0],
  kpi_scorecard |->
    [ai_dashboard |-> 100, business_kpis |-> 95, kpi |-> 90,
     executive_summary |-> 85, chart |-> 80, recommendation |-> 70,
     insight_priority |-> 60, anomaly |-> 40, trend |-> 30,
     segmentation |-> 25, predictive_readiness |-> 15,
     historical_comparison |-> 10, text |-> 10, drift_detection |-> 5,
     drilldown_table |-> 5, forecast |-> 5],
  anomaly_focus |->
    [anomaly |-> 100, drift_detection |-> 90, insight_priority |-> 85,
     recommendation |-> 80, ai_dashboard |-> 75, executive_summary |-> 60,
     historical_comparison |-> 55, kpi |-> 40, business_kpis |-> 35,
     trend |-> 30, predictive_readiness |-> 20, chart |-> 15,
     segmentation |-> 10, drilldown_table |-> 10, text |-> 10,
     forecast |-> 5],
  trend_monitoring |->
    [trend |-> 100, trend_insights |-> 95, drift_detection |-> 90,
     historical_comparison |-> 85, forecast |-> 80, chart |-> 75,
     ai_dashboard |-> 70, insight_priority |-> 65, anomaly |-> 55,
     executive_summary |-> 45, kpi |-> 35, business_kpis |-> 30,
     recommendation |-> 25, predictive_readiness |-> 20,
     segmentation |-> 15, text |-> 5, drilldown_table |-> 5],
  data_quality |->
    [missing_data |-> 100, anomaly |-> 95, drift_detection |-> 85,
     insight_priority |-> 80, recommendation |-> 70, ai_dashboard |-> 65,
     kpi |-> 55, executive_summary |-> 50, historical_comparison |-> 45,
     predictive_readiness |-> 40, trend |-> 25, chart |-> 20,
     business_kpis |-> 15, text |-> 10, segmentation |-> 5,
     drilldown_table |-> 5, forecast |-> 5],
  visual_dashboard |->
    [chart |-> 100, ai_dashboard |-> 95, business_kpis |-> 90, kpi |-> 85,
     executive_summary |-> 80, insight_priority |-> 70, trend |-> 65,
     segmentation |-> 60, anomaly |-> 40, recommendation |-> 35,
     drilldown_table |-> 30, historical_comparison |-> 20,
     drift_detection |-> 15, predictive_readiness |-> 10, text |-> 5,
     forecast |-> 5]]

\* _VIZ_TYPE_SCORES_BY_INTENT.
IntentViz == [
  executive_brief |->
    [bar |-> 7, line |-> 6, donut |-> 9, pie |-> 5,
     correlation_matrix |-> 0],
  kpi_scorecard |->
    [bar |-> 8, line |-> 5, donut |-> 9, pie |-> 5,
     correlation_matrix |-> 0],
  anomaly_focus |->
    [bar |-> 8, line |-> 4, donut |-> 3, pie |-> 3,
     correlation_matrix |-> 9],
  trend_monitoring |->
    [bar |-> 5, line |-> 10, donut |-> 3, pie |-> 3,
     correlation_matrix |-> 4],
  data_quality |->
    [bar |-> 9, line |-> 2, donut |-> 2, pie |-> 2,
     correlation_matrix |-> 8],
  visual_dashboard |->
    [bar |-> 8, line |-> 8, donut |-> 9, pie |-> 6,
     correlation_matrix |-> 7]]

\* max_sections of _STYLE_META.
MaxSections == [
  executive_brief |-> 7, visual_dashboard |-> 12, analyst_deep_dive |-> 20,
  table_heavy_report |-> 15, operational_report |-> 12, anomaly_report |-> 10,
  kpi_summary |-> 8, monitoring_report |-> 12]

\* _NARRATIVE_CONFIGS_BY_INTENT: recommendation_limit, and the intents that
\* suppress what is not sure.
RecommendationLimit == [
  executive_brief |-> 3, kpi_scorecard |-> 3, anomaly_focus |-> 5,
  trend_monitoring |-> 4, data_quality |-> 5, visual_dashboard |-> 2]
Suppressing == {"executive_brief", "kpi_scorecard", "visual_dashboard"}

\* _REPORT_TYPE_TO_STYLE and _REPORT_TYPE_TO_INTENT.
TypeStyle == [
  executive |-> "executive_brief", risk |-> "anomaly_report",
  forecast |-> "monitoring_report", segmentation |-> "table_heavy_report",
  operational |-> "operational_report", data_quality |-> "anomaly_report"]
TypeIntent == [
  executive |-> "executive_brief", risk |-> "anomaly_focus",
  forecast |-> "trend_monitoring", data_quality |-> "data_quality"]

-----------------------------------------------------------------------------
\* What phrases speak for.  A row has a style or intent, a weight in tenths
\* and the phrases of that weight; the rows are in the order of the code,
\* which settles ties.  A text counts as the set of the phrases it contains.

\* _INTENT_SIGNALS
StylePhrases == <<
  <<"executive_brief", 10, {"brief"}>>,
  <<"executive_brief", 11, {"board", "high level", "high-level",
      "quick overview", "cfo", "top level"}>>,
  <<"executive_brief", 12, {"executive", "c-suite", "quick summary",
      "at a glance"}>>,
  <<"executive_brief", 13, {"summary only", "ceo"}>>,
  <<"executive_brief", 14, {"leadership summary"}>>,
  <<"executive_brief", 15, {"one page", "one-page"}>>,
  <<"visual_dashboard", 9, {"charts", "graph", "graphs"}>>,
  <<"visual_dashboard", 10, {"visualize", "plot"}>>,
  <<"visual_dashboard", 11, {"chart"}>>,
  <<"visual_dashboard", 12, {"visual", "visualization"}>>,
  <<"visual_dashboard", 13, {"visual report"}>>,
  <<"visual_dashboard", 15, {"dashboard"}>>,
  <<"visual_dashboard", 18, {"charts only"}>>,
  <<"analyst_deep_dive", 11, {"comprehensive"}>>,
  <<"analyst_deep_dive", 12, {"detailed", "full report", "complete report"}>>,
  <<"analyst_deep_dive", 13, {"in-depth", "in depth"}>>,
  <<"analyst_deep_dive", 14, {"full analysis"}>>,
  <<"analyst_deep_dive", 15, {"deep dive", "deep-dive"}>>,
  <<"table_heavy_report", 8, {"breakdown"}>>,
  <<"table_heavy_report", 12, {"tables", "drilldown", "drill down",
      "drill-down"}>>,
  <<"table_heavy_report", 13, {"tabular"}>>,
  <<"table_heavy_report", 18, {"table-heavy", "table heavy"}>>,
  <<"operational_report", 9, {"ops"}>>,
  <<"operational_report", 11, {"daily report"}>>,
  <<"operational_report", 13, {"operations"}>>,
  <<"operational_report", 14, {"ops report", "daily digest"}>>,
  <<"operational_report", 15, {"operational"}>>,
  <<"anomaly_report", 8, {"issues"}>>,
  <<"anomaly_report", 12, {"missing values", "outliers", "outlier",
      "attrition"}>>,
  <<"anomaly_report", 13, {"churn"}>>,
  <<"anomaly_report", 14, {"data quality", "quality report"}>>,
  <<"anomaly_report", 15, {"anomaly", "anomalies"}>>,
  <<"operational_report", 12, {"retention"}>>,
  <<"kpi_summary", 12, {"key metrics", "top metrics"}>>,
  <<"kpi_summary", 13, {"kpi", "scorecard"}>>,
  <<"kpi_summary", 15, {"kpis", "metrics only"}>>,
  <<"kpi_summary", 18, {"kpi focused", "kpi only", "kpi summary"}>>,
  <<"monitoring_report", 8, {"compare"}>>,
  <<"monitoring_report", 10, {"tracking", "comparison", "over time"}>>,
  <<"monitoring_report", 12, {"historical", "performance over"}>>,
  <<"monitoring_report", 13, {"monitor", "analyze trends", "time series",
      "time-series"}>>,
  <<"monitoring_report", 14, {"week over week", "month over month",
      "trend analysis"}>>,
  <<"monitoring_report", 15, {"drift", "monitoring"}>>,
  <<"monitoring_report", 18, {"drift detection"}>>>>

\* _INTENT_KEYWORD_SIGNALS
IntentPhrases == <<
  <<"executive_brief", 10, {"top level", "leadership", "brief"}>>,
  <<"executive_brief", 11, {"quick overview", "high-level", "high level",
      "board", "cfo"}>>,
  <<"executive_brief", 12, {"quick summary", "at a glance", "executive",
      "c-suite"}>>,
  <<"executive_brief", 13, {"summary only", "management overview", "ceo"}>>,
  <<"executive_brief", 14, {"leadership summary"}>>,
  <<"executive_brief", 15, {"exec summary", "one-page", "one page"}>>,
  <<"kpi_scorecard", 12, {"key metrics", "top metrics"}>>,
  <<"kpi_scorecard", 13, {"scorecard", "kpi"}>>,
  <<"kpi_scorecard", 15, {"metrics only", "kpis"}>>,
  <<"kpi_scorecard", 18, {"kpi focused", "kpi only", "kpi summary"}>>,
  <<"anomaly_focus", 9, {"detect"}>>,
  <<"anomaly_focus", 10, {"abnormal", "irregular", "unusual", "spike"}>>,
  <<"anomaly_focus", 12, {"outliers", "outlier"}>>,
  <<"anomaly_focus", 13, {"fraud"}>>,
  <<"anomaly_focus", 15, {"anomalies", "anomaly"}>>,
  <<"trend_monitoring", 10, {"over time", "tracking"}>>,
  <<"trend_monitoring", 11, {"trend"}>>,
  <<"trend_monitoring", 12, {"performance over", "historical"}>>,
  <<"trend_monitoring", 13, {"analyze trends", "time-series", "time series",
      "monitor"}>>,
  <<"trend_monitoring", 14, {"week over week", "month over month",
      "trend analysis"}>>,
  <<"trend_monitoring", 15, {"monitoring", "drift"}>>,
  <<"trend_monitoring", 18, {"drift detection"}>>,
  <<"data_quality", 12, {"validate", "integrity"}>>,
  <<"data_quality", 13, {"null values", "cleaning", "validation"}>>,
  <<"data_quality", 14, {"hygiene", "cleanse"}>>,
  <<"data_quality", 15, {"missing values", "completeness"}>>,
  <<"data_quality", 16, {"quality report", "data hygiene"}>>,
  <<"data_quality", 18, {"data quality"}>>,
  <<"visual_dashboard", 9, {"graphs", "charts", "graph"}>>,
  <<"visual_dashboard", 10, {"visualize", "plot"}>>,
  <<"visual_dashboard", 11, {"chart"}>>,
  <<"visual_dashboard", 12, {"visualization", "visual"}>>,
  <<"visual_dashboard", 13, {"visual report"}>>,
  <<"visual_dashboard", 15, {"dashboard"}>>,
  <<"visual_dashboard", 18, {"charts only"}>>,
  <<"full_intelligence", 10, {"everything"}>>,
  <<"full_intelligence", 11, {"comprehensive"}>>,
  <<"full_intelligence", 12, {"complete report", "full report", "detailed"}>>,
  <<"full_intelligence", 13, {"in-depth", "in depth"}>>,
  <<"full_intelligence", 14, {"full analysis"}>>,
  <<"full_intelligence", 15, {"all sections", "deep-dive", "deep dive"}>>>>

\* _REPORT_TYPE_PLANNER_HINTS: the phrases of _INTENT_SIGNALS in a type's hint.
Hints == [
  executive |-> {"executive", "brief", "kpi summary", "kpi", "at a glance"},
  risk |-> {"anomaly", "anomalies", "data quality", "issues", "outliers",
            "outlier"},
  forecast |-> {"trend analysis", "monitoring", "monitor", "drift detection",
                "drift", "time series"},
  segmentation |-> {"drilldown", "drill-down", "tabular", "breakdown",
                    "tables"},
  operational |-> {"operational", "operations", "ops", "daily report"},
  data_quality |-> {"data quality", "anomalies", "missing values", "outliers",
                    "outlier"}]
=============================================================================
