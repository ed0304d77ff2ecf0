----------------------------- MODULE AdminTools -----------------------------
(***************************************************************************)
(* The dynamic tools administrators make: data/tool_service.py creates,    *)
(* edits and approves rows, core/registry/tool_registry.py reads them once *)
(* when the server starts.  Looking and writing are apart, and no index    *)
(* makes the name of a tool unique.                                        *)
(***************************************************************************)
EXTENDS RequestThreads

CONSTANTS
  ToolNames, Builtin,   \* names of tools; those that are built in
  Configs, Valid,       \* config_json; those _validate_tool_config accepts
  MaxTools              \* bound: rows of dynamic tools

VARIABLES
  tools,        \* the rows, in the order of their ids
  registry,     \* TOOL_REGISTRY: name and config of the dynamic tools
  late          \* history: edits of each tool that were written after its approval

toolvars == <<tools, registry, late>>

ToolsInit == tools = <<>> /\ registry = {} /\ late = <<>>

Named(n) == {t \in DOMAIN tools : tools[t].name = n}

-----------------------------------------------------------------------------
(* create_tool_db: a name or config that is refused changes nothing. *)

\* _validate_tool_config
Accepted(c) == c \in Valid

CreateTool(w, n, c) ==
  /\ n \notin Builtin /\ Accepted(c)
  /\ Begin(w, [pc |-> "create_look", name |-> n, config |-> c])
  /\ UNCHANGED toolvars

CreateLook(w) ==
  /\ At(w, "create_look")
  /\ IF Named(job[w].name) # {} THEN End(w) ELSE Goto(w, "create_insert")
  /\ UNCHANGED toolvars

CreateInsert(w) ==
  /\ At(w, "create_insert")
  /\ Len(tools) < MaxTools
  /\ tools' = Append(tools, [name |-> job[w].name, config |-> job[w].config,
                             enabled |-> FALSE, approved |-> FALSE])
  /\ late' = Append(late, 0)
  /\ End(w)
  /\ UNCHANGED registry

(* update_tool_db, for one field *)

Edits == [field: {"config"}, value: Valid] \cup [field: {"enabled"}, value: BOOLEAN]
           \cup [field: {"name"}, value: ToolNames \ Builtin]

EditTool(w, t, e) ==
  /\ Begin(w, [pc |-> "edit_look", tool |-> t, edit |-> e])
  /\ UNCHANGED toolvars

\* Mutant of EditLook: an approved tool may be edited.
EditAnyway(w) ==
  /\ At(w, "edit_look")
  /\ Goto(w, IF job[w].edit.field = "name" THEN "edit_name" ELSE "edit_write")
  /\ UNCHANGED toolvars

\* An approved tool cannot be edited.
EditLook(w) ==
  /\ At(w, "edit_look")
  /\ IF tools[job[w].tool].approved THEN End(w)
     ELSE Goto(w, IF job[w].edit.field = "name" THEN "edit_name" ELSE "edit_write")
  /\ UNCHANGED toolvars

\* A new name must not be that of another tool.
EditName(w) ==
  /\ At(w, "edit_name")
  /\ IF Named(job[w].edit.value) \ {job[w].tool} # {} THEN End(w) ELSE Goto(w, "edit_write")
  /\ UNCHANGED toolvars

EditWrite(w) ==
  LET t == job[w].tool
      e == job[w].edit
  IN /\ At(w, "edit_write")
     /\ tools' = [tools EXCEPT ![t] =
          CASE e.field = "config"  -> [@ EXCEPT !.config = e.value]
            [] e.field = "enabled" -> [@ EXCEPT !.enabled = e.value]
            [] e.field = "name"    -> [@ EXCEPT !.name = e.value]]
     /\ late' = IF tools[t].approved THEN [late EXCEPT ![t] = @ + 1] ELSE late
     /\ End(w)
     /\ UNCHANGED registry

(* approve_tool_db *)

ApproveTool(w, t) ==
  /\ Begin(w, [pc |-> "approve_look", tool |-> t])
  /\ UNCHANGED toolvars

\* The config is validated once more.
ApproveLook(w) ==
  /\ At(w, "approve_look")
  /\ IF Accepted(tools[job[w].tool].config) THEN Goto(w, "approve_write") ELSE End(w)
  /\ UNCHANGED toolvars

ApproveWrite(w) ==
  LET t == job[w].tool
  IN /\ At(w, "approve_write")
     /\ tools' = [tools EXCEPT ![t].approved = TRUE, ![t].enabled = TRUE]
     /\ End(w)
     /\ UNCHANGED <<registry, late>>

(* _load_registry: of the tools of one name the last row counts *)

Offered == {t \in DOMAIN tools : tools[t].enabled /\ tools[t].approved
                                   /\ tools[t].name \notin Builtin}

LoadRegistry ==
  registry' = {[name |-> tools[t].name, config |-> tools[t].config, row |-> t] :
                 t \in {u \in Offered :
                          \A v \in Offered : tools[v].name = tools[u].name => v <= u}}

-----------------------------------------------------------------------------
ToolStep(w) ==
  \/ CreateLook(w) \/ CreateInsert(w) \/ EditLook(w) \/ EditName(w) \/ EditWrite(w)
  \/ ApproveLook(w) \/ ApproveWrite(w)

ToolRequest(w) ==
  \/ \E n \in ToolNames, c \in Configs : CreateTool(w, n, c)
  \/ \E t \in DOMAIN tools : ApproveTool(w, t) \/ \E e \in Edits : EditTool(w, t, e)

Writing(t) == {w \in AtSteps({"edit_name", "edit_write"}) : job[w].tool = t}

Naming(n) == {w \in AtSteps({"create_insert", "edit_write"}) :
                \/ At(w, "create_insert") /\ job[w].name = n
                \/ /\ At(w, "edit_write") /\ job[w].tool \notin Named(n)
                   /\ job[w].edit.field = "name" /\ job[w].edit.value = n}

(***************************************************************************)
(* Approved tools are immutable to preserve execution safety: after its    *)
(* approval a tool is edited only by requests that had looked at it        *)
(* before, at most one of each thread but the one that approves.           *)
(***************************************************************************)
EditsSettle ==
  \A t \in DOMAIN tools :
    tools[t].approved => late[t] + Cardinality(Writing(t)) < Cardinality(Threads)

(***************************************************************************)
(* A name is looked up before it is written, and nothing else keeps it     *)
(* unique: of one name there are no more tools, those under way included,  *)
(* than threads that may have looked at the same time.                     *)
(***************************************************************************)
NamesSettle ==
  \A n \in ToolNames :
    Cardinality(Named(n)) + Cardinality(Naming(n)) <= Cardinality(Threads)

(***************************************************************************)
(* What the server offers was approved and has a valid config, bears no    *)
(* name twice and takes no name of a built-in tool.                        *)
(***************************************************************************)
RegistryWasApproved ==
  \A r \in registry :
    /\ tools[r.row].approved /\ r.config \in Valid /\ r.name \notin Builtin
    /\ \A s \in registry : s.name = r.name => s = r
=============================================================================
