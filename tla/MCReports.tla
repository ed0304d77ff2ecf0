----------------------------- MODULE MCReports -----------------------------
EXTENDS Reports
CONSTANTS r1, r2

Number(min, max, mean, std, outliers, filled) ==
  [min |-> min, max |-> max, mean |-> mean, std |-> std,
   outliers |-> outliers, filled |-> filled, empty |-> 3, bins |-> 5]
Category(top, values, entropy, dimension) ==
  [top |-> top, values |-> values, entropy |-> entropy,
   dimension |-> dimension, id |-> FALSE]

Clean == [rows |-> 2000, columns |-> 4, missing |-> <<0, 0, 0, 0>>,
          numeric |-> <<Number(1, 50, 20, 10, 0, 2000),
                        Number(0, 9, 5, 2, 0, 2000)>>,
          categorical |-> <<Category(700, 5, 90, TRUE)>>,
          dates |-> <<[months |-> <<300, 300, 300, 350, 350, 400>>,
                       granularity |-> "daily"]>>,
          shifts |-> <<40, -8>>, correlations |-> <<60>>,
          financial |-> 1, dimensions |-> 1,
          semantic |-> {"business_kpis", "segmentation"}]
Dirty == [Clean EXCEPT
            !.rows = 1000, !.missing = <<300, 0, 120, 0>>,
            !.numeric = <<Number(1, 5000, 20, 60, 250, 1000),
                          Number(0, 9, 5, 11, 120, 1000)>>,
            !.categorical = <<Category(850, 5, 20, TRUE),
                              Category(400, 3, 80, FALSE)>>,
            !.correlations = <<95, -92, 91>>, !.shifts = <<-260, -40>>,
            !.columns = 5, !.missing = <<300, 0, 120, 0, 0>>]
\* A file with a heading and no rows.
Bare == [rows |-> 0, columns |-> 1, missing |-> <<0>>, numeric |-> <<>>,
         categorical |-> <<>>, dates |-> <<>>, shifts |-> <<>>,
         correlations |-> <<>>, financial |-> 0, dimensions |-> 0,
         semantic |-> {}]
\* No finding, only recommendations; what is grave is the size of the sample.
Small == [Bare EXCEPT !.rows = 60, !.columns = 2, !.missing = <<0, 0>>,
                      !.categorical = <<Category(20, 4, 80, TRUE),
                                        Category(25, 9, 80, TRUE)>>,
                      !.dimensions = 2, !.semantic = {"drilldown_table"}]
\* More findings than are told, the grave ones found last.
Worst == [Dirty EXCEPT
            !.rows = 10000, !.columns = 6,
            !.missing = <<1200, 1300, 1400, 1500, 1600, 1700>>,
            !.numeric = <<Number(1, 5000, 20, 60, 2500, 10000)>>,
            !.financial = 0]
Files == [clean |-> Clean, dirty |-> Dirty, bare |-> Bare, small |-> Small,
          worst |-> Worst]

Plainly == [type |-> "none", says |-> {}, selection |-> <<>>, ai |-> {},
            likes |-> {}, words |-> {}]
Kpis == {"kpis", "kpi"}
Asks == [
  plain     |-> Plainly,
  kpis      |-> [Plainly EXCEPT !.says = Kpis],
  executive |-> [Plainly EXCEPT !.type = "executive", !.says = Kpis],
  risk      |-> [Plainly EXCEPT !.type = "risk", !.says = {"trend"},
                   !.words = {"trend"}],
  forecast  |-> [Plainly EXCEPT !.type = "forecast"],
  tables    |-> [Plainly EXCEPT !.type = "segmentation", !.likes = {2}],
  quality   |-> [Plainly EXCEPT !.type = "data_quality",
                   !.ai = {"narrative", "ai_findings", "ai_insights"}],
  charts    |-> [Plainly EXCEPT !.says = {"dashboard", "charts", "chart"},
                   !.ai = {"narrative", "ai_recommendations"}],
  daily     |-> [Plainly EXCEPT !.says = {"retention", "attrition"}],
  detail    |-> [Plainly EXCEPT !.says = {"detailed", "drift", "detect"}],
  some      |-> [Plainly EXCEPT !.selection = <<{"kpi", "chart", "trend"}>>]]

Wide == [profiles : {{f} : f \in DOMAIN Files}, requests : {DOMAIN Asks},
         reports : {1}, faults : {1}]
\* Four reports: of two files in turn, or by two requests.
Long == {[profiles |-> {"clean", "dirty"}, requests |-> {"kpis"},
          reports |-> 4, faults |-> 0],
         [profiles |-> {"dirty"}, requests |-> {"plain", "kpis"},
          reports |-> 4, faults |-> 0]}
Both == Wide \cup Long
Symmetry == Permutations(Runs)
=============================================================================
