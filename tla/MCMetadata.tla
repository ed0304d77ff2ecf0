----------------------------- MODULE MCMetadata -----------------------------
EXTENDS DataDictionary
CONSTANTS w1, w2

\* Two tables nobody knows, in one schema; two of the finances that begin like
\* them; one of the academics that does not.
MCTables == {"a", "b", "c", "d", "e"}
MCLabels == <<"Finance", "Academic">>
MCName   == [a |-> <<"ops">>, b |-> <<"ops", "x">>, c |-> <<"ops", "pay">>,
             d |-> <<"opsy", "pay", "x">>, e |-> <<"x", "pay">>]
MCSchema == [a |-> "dbo", b |-> "dbo", c |-> "fin", d |-> "pay", e |-> "x"]
MCBegins == [ops |-> {"ops", "opsy"}, opsy |-> {"opsy"}, pay |-> {"pay"},
             x |-> {"x"}, dbo |-> {"dbo"}, fin |-> {"fin"}]
None     == [named |-> 0, inSchema |-> 0, structure |-> 0, types |-> 0]
MCSignals ==
  [a |-> [Finance |-> None, Academic |-> [None EXCEPT !.structure = 4]],
   b |-> [Finance |-> None, Academic |-> [None EXCEPT !.types = 5]],
   c |-> [Finance |-> [None EXCEPT !.named = 1, !.inSchema = 1],
          Academic |-> [None EXCEPT !.structure = 2]],
   d |-> [Finance |-> [None EXCEPT !.inSchema = 1, !.structure = 2],
          Academic |-> [None EXCEPT !.types = 7]],
   e |-> [Finance |-> None, Academic |-> [None EXCEPT !.named = 1]]]
\* A primary key, a phone number, a person's name, an amount, a flag.
Column(tokens, data) == [tokens |-> tokens, data |-> data, key |-> FALSE]
MCColumn ==
  [a |-> [Column(<<"word", "pii">>, "INTEGER") EXCEPT !.key = TRUE],
   b |-> Column(<<"word", "suffix">>, "TEXT"), c |-> Column(<<"name">>, "TEXT"),
   d |-> Column(<<"metric">>, "DECIMAL"), e |-> Column(<<"flag", "metric">>, "INTEGER")]
MCStaging == {"a"}
MCFound  == {{"a"}, {"a", "c"}}

\* The rules suggested after the first generation.
Suggested(status) ==
  LET unknown == {t \in Tables : Detect(t, TRUE).label = Unknown}
      new == Suggestions(unknown, [t \in unknown |-> Detect(t, TRUE).rivals])
  IN [i \in DOMAIN new |-> new[i] @@ [status |-> status, from |-> 0]]

\* The refinements found after all of these were approved and applied.
FoundFiner(status) ==
  LET broad == Suggested("APPROVED")
      by == Generated(broad)
      new == Refinements(broad, [i \in DOMAIN broad |-> {t \in Tables : \E a \in by[t] :
                                                a.by = {broad[i].pattern}}],
               Cardinality({t \in Tables : \E a \in by[t] : a.label # Unknown}))
  IN [i \in DOMAIN new |-> [parent |-> new[i].parent, pattern |-> new[i].pattern,
                            label |-> new[i].label, status |-> status]]

\* One of them, about a word that names begin with or consist of, was approved
\* and applied.
OneApplied ==
  LET new == Suggested("PENDING")
      i == CHOOSE i \in DOMAIN new : new[i].pattern.type = "PREFIX"
      rows == [new EXCEPT ![i].status = "APPROVED"]
  IN [rules |-> rows, applied |-> <<rows[i]>>, refinements |-> <<>>]

\* Suggested; one approved and applied; approved and applied, with finer rules
\* found; those approved too.
MCStages ==
  {[rules |-> Suggested("PENDING"), applied |-> <<>>, refinements |-> <<>>], OneApplied}
    \cup {[rules |-> Suggested("APPROVED"), applied |-> Suggested("APPROVED"),
           refinements |-> FoundFiner(status)] : status \in {"PENDING", "APPROVED"}}

Symmetry == Permutations(Workers)
=============================================================================
