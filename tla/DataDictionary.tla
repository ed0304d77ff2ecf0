--------------------------- MODULE DataDictionary ---------------------------
(***************************************************************************)
(* The data dictionary of a source, beside the rules learned about it: an  *)
(* entry for each table and each column of the newest schema snapshot,     *)
(* generated from their names and approved by people                       *)
(* (data/dictionary_service.py, core/dictionary/).  A generation reads the *)
(* owner and the snapshot in connections of their own and writes all       *)
(* entries in one transaction.  Its requests run on the threads of         *)
(* LearnedRules, at its desks.                                             *)
(***************************************************************************)
EXTENDS LearnedRules

CONSTANTS
  ColumnOf       \* each table's column: its tokens, data type, primary key

VARIABLES
  entries,       \* data_dictionary_tables and _columns: per item at most one row
  signed,        \* history: the items that somebody approved
  topic          \* what the requests so far were about besides metadata

dictVars == <<entries, signed, topic>>

\* A table is an item, and so is its column.
Items == Tables \X {"table", "column"}

-----------------------------------------------------------------------------
\* detect_pii: a telling token, or a name in a text.
PiiRisk(c) ==
  \/ "pii" \in Range(c.tokens)
  \/ "name" \in Range(c.tokens) /\ c.data = "TEXT"

IsId(c) ==
  \/ c.key
  \/ "id" \in Range(c.tokens)
  \/ c.tokens # <<>> /\ Last(c.tokens) = "suffix"

IsFlag(c) ==
  \/ c.data = "BOOLEAN"
  \/ c.tokens # <<>> /\ Head(c.tokens) = "flag"

IsMetric(c) ==
  c.data \in {"INTEGER", "DECIMAL"} /\ "metric" \in Range(c.tokens) /\ ~IsId(c)

IsDimension(c) == c.data = "TEXT" /\ ~IsId(c) /\ ~PiiRisk(c)

\* classify_column: the first that holds.
SemanticType(c) ==
  CASE IsId(c) -> "id"
    [] ~IsId(c) /\ c.data = "DATETIME" -> "date"
    [] ~IsId(c) /\ c.data # "DATETIME" /\ IsFlag(c) -> "flag"
    [] OTHER -> IF IsMetric(c) THEN "metric"
                ELSE IF IsDimension(c) THEN "dimension" ELSE "other"

\* What is written about a column: a placeholder if it may be about people.
Meaning(c) == IF PiiRisk(c) THEN "review" ELSE SemanticType(c)

\* generate_dictionary: the rows of a snapshot's items, approved by nobody.
Generate(tables, snap) ==
  [i \in tables \X {"table", "column"} |->
     [snap |-> snap, approved |-> FALSE,
      means |-> IF i[2] = "table" THEN "table" ELSE Meaning(ColumnOf[i[1]])]]

-----------------------------------------------------------------------------
\* One more stage of a profiled source: its dictionary was generated.
DescribedSoFar ==
  /\ Profiled /\ NothingLearned
  /\ entries = [i \in Items |-> {Generate(Tables, 1)[i]}]

DictionaryInit ==
  /\ LearnedInit
  /\ signed = {}
  /\ \/ entries = [i \in Items |-> {}] /\ topic = "metadata"
     \/ DescribedSoFar /\ topic = "dictionary"

(***************************************************************************)
(* A bound: in one behaviour the requests are about learned rules or about *)
(* the dictionary, besides the metadata.  Neither reads the rows of the    *)
(* other.                                                                  *)
(***************************************************************************)
About(subject) == topic \in {"metadata", subject} /\ topic' = subject

DictionaryRequest(w) ==
  /\ About("dictionary")
  /\ \/ RuleRequest(w, "dictionary", 0)
     \/ \E i \in Items : entries[i] # {} /\ RuleRequest(w, "approveEntry", i)
  /\ UNCHANGED <<entries, signed>>

\* generate_and_save_dictionary, approve_table_dictionary, approve_column_dictionary:
\* without the source there is nothing to do.
CheckDictionary(w) ==
  /\ Reading(w, "dictionary") \/ Reading(w, "approveEntry")
  /\ IF ~IsThere
       THEN Leave(w)
       ELSE Turn(w, [desk[w] EXCEPT !.pc = IF desk[w].kind = "dictionary"
                                             THEN "newest" ELSE "write"])
  /\ UNCHANGED <<metaVars, RuleRows, History, dictVars>>

\* The newest schema snapshot; there must be one.
ReadNewest(w) ==
  /\ desk[w].pc = "newest"
  /\ IF schemas = <<>>
       THEN Leave(w)
       ELSE Turn(w, [desk[w] EXCEPT !.pc = "write", !.id = Len(schemas),
                                    !.tables = schemas[Len(schemas)].tables])
  /\ UNCHANGED <<metaVars, RuleRows, History, dictVars>>

\* Mutant of Renewed: the approval is written over as well.
RenewedWhole(old, new) == {new}

\* ON CONFLICT DO UPDATE: everything but the approval.
Renewed(old, new) == {[new EXCEPT !.approved = \E e \in old : e.approved]}

\* All entries in one transaction, which a foreign key refuses without the source.
SaveDictionary(w) ==
  LET new == Generate(desk[w].tables, desk[w].id)
  IN /\ Writing(w, "dictionary")
     /\ entries' = IF ~IsThere THEN entries
          ELSE [i \in Items |-> IF i \in DOMAIN new
                  THEN Renewed(entries[i], new[i]) ELSE entries[i]]
     /\ Leave(w)
     /\ UNCHANGED <<metaVars, RuleRows, History, signed, topic>>

\* An UPDATE, of no row when it is gone.
ApproveEntry(w) ==
  LET i == desk[w].id
  IN /\ Writing(w, "approveEntry")
     /\ entries' = [entries EXCEPT ![i] = {[e EXCEPT !.approved = TRUE] : e \in @}]
     /\ signed' = IF entries[i] # {} THEN signed \cup {i} ELSE signed
     /\ Leave(w)
     /\ UNCHANGED <<metaVars, RuleRows, History, topic>>

\* The entries go with the source.
DeleteWithDictionary(w) ==
  /\ DeleteWithRules(w)
  /\ entries' = [i \in Items |-> {}]
  /\ signed' = {}
  /\ UNCHANGED topic

DictionaryNext ==
  \/ (MetaStep \/ CrashAll) /\ UNCHANGED dictVars
  \/ \E w \in Workers :
       \/ \E kind \in Kinds : MetaRequest(w, kind) /\ UNCHANGED dictVars
       \/ (RuleStep(w) \/ RuleStorageFails(w)) /\ UNCHANGED dictVars
       \/ DeleteWithDictionary(w)
       \/ /\ About("rules") /\ UNCHANGED <<entries, signed>>
          /\ \E kind \in RuleKinds : \E id \in IdsFor(kind) : RuleRequest(w, kind, id)
       \/ DictionaryRequest(w) \/ CheckDictionary(w) \/ ReadNewest(w)
       \/ SaveDictionary(w) \/ ApproveEntry(w)

DictionarySpec == DictionaryInit /\ [][DictionaryNext]_<<vars, dictVars>>

-----------------------------------------------------------------------------
(***************************************************************************)
(* An entry is of a snapshot of this source that has its table, also when  *)
(* the source was deleted or discovered again while it was generated; it   *)
(* is approved if and only if somebody approved it, however often it was   *)
(* generated since; and a column that may be about people is left to       *)
(* people to describe, whatever else it is.                                *)
(***************************************************************************)
DictionaryIsSound ==
  \A i \in Items : \A e \in entries[i] :
    /\ Cardinality(entries[i]) = 1 /\ IsThere
    /\ e.snap \in DOMAIN schemas /\ i[1] \in schemas[e.snap].tables
    /\ e.approved <=> i \in signed
    /\ i[2] = "column" => (e.means = "review" <=> PiiRisk(ColumnOf[i[1]]))

(***************************************************************************)
(* Requests one at a time, none failing: after a generation the entries of *)
(* every table of the newest snapshot are of that snapshot.  (Generations  *)
(* that overlap with a discovery may leave the older one's.)               *)
(***************************************************************************)
DictionaryIsCurrent ==
  (~mixed /\ faults = 0 /\ ~Busy /\ last_done = "dictionary"
     /\ IsThere /\ schemas # <<>>) =>
    \A t \in schemas[Len(schemas)].tables : \A part \in {"table", "column"} :
      \E e \in entries[<<t, part>>] : e.snap = Len(schemas)

(***************************************************************************)
(* What is known of a source, by learned rules and by its dictionary, is   *)
(* of something there, and an entry is approved if and only if somebody    *)
(* approved it.                                                            *)
(***************************************************************************)
KnowledgeIsSound == LearnedOfWhatIsThere /\ DictionaryIsSound

(***************************************************************************)
(* What was generated without anything in between is of the newest profile *)
(* and of the newest snapshot.                                             *)
(***************************************************************************)
KnowledgeIsCurrent == GenerationIsCurrent /\ DictionaryIsCurrent
=============================================================================
