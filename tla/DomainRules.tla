----------------------------- MODULE DomainRules -----------------------------
(***************************************************************************)
(* How a table gets its business domain (and, by the same code twice, its  *)
(* entity): the scores of the generic engine in core/domains/rules.py, the *)
(* naming rules of core/domains/learning.py, the rules suggested from what *)
(* stayed unknown, and the finer rules that domain_refinement_service.py   *)
(* finds below a broad one.  Pure functions; a table is its schema, the    *)
(* words of its name, and the points its keywords and columns bring it.    *)
(***************************************************************************)
EXTENDS Integers, Sequences, SequencesExt, FiniteSets, FiniteSetsExt

CONSTANTS
  Tables,        \* tables of the foreign database
  Unknown,       \* the label of a table no domain matches
  LabelOrder,    \* the domains in the order of _DOMAIN_KEYWORDS
  NameOf,        \* the words of each table's name, in order
  SchemaOf,      \* the schema of each table, a word
  Begins,        \* per word: the words that begin with it
  Signals,       \* per table and domain: keyword hits, and boosts in tenths
  MinSupport     \* tables a pattern must cover to be suggested (3 in the code)

Labels == ToSet(LabelOrder)
Words  == DOMAIN Begins

Patterns == [type : {"SCHEMA", "PREFIX", "SUFFIX", "TOKEN"}, word : Words]

-----------------------------------------------------------------------------
\* The members of a set, one after the other by their keys, those with one key in any order.
SortedBy(S, key) ==
  CHOOSE order \in [1 .. Cardinality(S) -> S] :
    /\ IsInjective(order)
    /\ \A m, n \in DOMAIN order : key[order[m]] < key[order[n]] => m < n

-----------------------------------------------------------------------------
\* Points in tenths; the types of the columns count only when they are passed.
Points(t, l, typed) ==
  LET s == Signals[t][l]
  IN 10 * s.named + 5 * s.inSchema + s.structure + IF typed THEN s.types ELSE 0

\* detect_table_domain: the first of the best, from 0.6 on, and its rivals.
Detect(t, typed) ==
  LET points == [i \in DOMAIN LabelOrder |-> Points(t, LabelOrder[i], typed)]
      best == CHOOSE i \in DOMAIN points :
                /\ \A j \in DOMAIN points : points[j] <= points[i]
                /\ \A j \in 1 .. i - 1 : points[j] < points[i]
  IN IF points[best] < 6
       THEN [label |-> Unknown, rivals |-> {}]
       ELSE [label |-> LabelOrder[best],
             rivals |-> {LabelOrder[i] : i \in {j \in DOMAIN points \ {best} :
                                                  points[j] > 0}}]

-----------------------------------------------------------------------------
\* The word at a place of a name, if there is one.
WordAt(name, i) == IF i \in DOMAIN name THEN <<name[i]>> ELSE <<>>

\* _matches: a word of a table fits a pattern's word when it begins with it.
Matches(p, t) ==
  LET name == NameOf[t]
  IN CASE p.type = "SCHEMA" -> SchemaOf[t] = p.word
       [] p.type = "PREFIX" -> name # <<>> /\ name[1] \in Begins[p.word]
       [] p.type = "SUFFIX" -> Len(name) >= 2 /\ Last(name) = p.word
       [] p.type = "TOKEN"  -> \E i \in DOMAIN name : name[i] \in Begins[p.word]

\* apply_learned_rules: the rules, by their ids, that match; the first one counts.
Fitting(learned, t) == {i \in DOMAIN learned : Matches(learned[i].pattern, t)}

\* A table's assignment: a learned rule goes before the generic engine.
Classify(learned, t) ==
  LET i == Min(Fitting(learned, t))
  IN IF Fitting(learned, t) # {}
       THEN [label |-> learned[i].label, rivals |-> {}, by |-> {learned[i].pattern}]
       ELSE [label |-> Detect(t, TRUE).label, rivals |-> Detect(t, TRUE).rivals,
             by |-> {}]

-----------------------------------------------------------------------------
\* The words of a table that count for a pattern type (a word of the name may repeat).
Counted(type, t) ==
  LET name == NameOf[t]
  IN CASE type = "SCHEMA" -> <<SchemaOf[t]>>
       [] type = "PREFIX" -> WordAt(name, 1)
       [] type = "SUFFIX" -> IF Len(name) >= 2 THEN <<Last(name)>> ELSE <<>>
       [] type = "TOKEN"  -> name

Hits(p, t) ==
  LET words == Counted(p.type, t) IN {i \in DOMAIN words : words[i] = p.word}

Support(p, tables) == Cardinality(UNION {{t} \X Hits(p, t) : t \in tables})

\* _infer_domain: the rival named most often, or Unknown when there is none.
Inferred(p, tables, rivals) ==
  LET votes == [l \in Labels |-> Support(p, {t \in tables : l \in rivals[t]})]
      named == {l \in Labels : votes[l] > 0}
  IN IF named = {} THEN Unknown
     ELSE CHOOSE l \in named : \A k \in named : votes[k] <= votes[l]

TypeRank == [SCHEMA |-> 0, PREFIX |-> 1, SUFFIX |-> 2, TOKEN |-> 3]

\* suggest_domain_rules: patterns with enough support, most support first, of two with
\* the same the type that comes first.
Suggestions(tables, rivals) ==
  LET enough == {p \in Patterns : Support(p, tables) >= MinSupport}
      kept == {p \in enough : p.type = "TOKEN" =>
                                [p EXCEPT !.type = "PREFIX"] \notin enough}
      order == SortedBy(kept, [p \in kept |->
                          TypeRank[p.type] - Cardinality(DOMAIN TypeRank) * Support(p, tables)])
  IN [i \in DOMAIN order |->
        [pattern |-> order[i], label |-> Inferred(order[i], tables, rivals)]]

-----------------------------------------------------------------------------
\* _get_discriminator: the word after the one that made the rule match.
Discriminator(p, t) ==
  LET name == NameOf[t]
      hits == {i \in DOMAIN name : name[i] \in Begins[p.word]}
  IN IF p.type = "SCHEMA" THEN WordAt(name, 1)
     ELSE IF hits = {} THEN <<>> ELSE WordAt(name, Min(hits) + 1)

\* _is_flagged: what a learned rule assigned is too many, or too mixed.
\* (Its average confidence is never below 0.6: rules are made with 0.6 or more.)
Flagged(matched, assigned) ==
  LET n == Cardinality(matched)
  IN \/ n > 100
     \/ Cardinality({Detect(t, FALSE).label : t \in matched}) > 3
     \/ assigned > 0 /\ 4 * n > assigned

\* The finer rule for the matched tables that go on with word w, if there is one.
Finer(id, rule, matched, w) ==
  LET group == {t \in matched : Discriminator(rule.pattern, t) = <<w>>}
      votes(l) == Cardinality({t \in group : Detect(t, FALSE).label = l})
      top == CHOOSE l \in Labels \cup {Unknown} :
               \A k \in Labels \cup {Unknown} : votes(k) <= votes(l)
  IN IF /\ Cardinality(group) >= MinSupport
        /\ 10 * votes(top) >= 6 * Cardinality(group)
        /\ top \notin {Unknown, rule.label}
       THEN {[parent |-> id, pattern |-> [type |-> "TOKEN", word |-> w], label |-> top,
              support |-> Cardinality(group)]}
       ELSE {}

\* analyze_rule_refinement: rules is the approved ones by their ids, found what
\* they assigned.  Of two with one word the better supported stays.
Refinements(rules, found, assigned) ==
  LET flagged == {i \in DOMAIN rules : Flagged(found[i], assigned)}
      approved == {rules[i].pattern : i \in DOMAIN rules}
      all == UNION {UNION {Finer(i, rules[i], found[i], w) : w \in Words} : i \in flagged}
      fresh == {c \in all : c.pattern \notin approved}
      best == {c \in fresh : \A d \in fresh :
                 d.pattern = c.pattern => \/ d.support < c.support
                                          \/ d.support = c.support /\ d.parent >= c.parent}
  IN SortedBy(best, [c \in best |-> -c.support])
=============================================================================
