---------------------------- MODULE GraphOrder ----------------------------
(***************************************************************************)
(* get_execution_order of core/engine/graph.py: detect_cycle searches the  *)
(* graph depth-first with three colours, then Kahn's algorithm orders it.  *)
(*                                                                         *)
(* A node is its position in graph.nodes, the edges are a sequence; edges  *)
(* may be repeated, and may lead from a node to itself, which              *)
(* validate_execution_graph accepts.                                       *)
(***************************************************************************)
EXTENDS Sequences, Integers, FiniteSets

CONSTANTS
  Size,         \* number of nodes
  MaxEdges      \* bound: number of edges

ASSUME GraphAssumption == Size \in Nat \ {0} /\ MaxEdges \in Nat

VARIABLES
  edges,        \* graph.edges: pairs of a node and its successor
  phase,        \* where get_execution_order is
  color,        \* of each node
  stack,        \* nodes being searched, each with the last edge it looked at
  indegree,     \* in_degree
  queue,
  order,        \* result
  at            \* the node seeded last; the last edge of order's last node looked at

graphVars == <<edges, phase, color, stack, indegree, queue, order, at>>
searching == <<color, stack>>
sorting   == <<indegree, queue, order, at>>

Vertices == 1 .. Size
Pairs == Vertices \X Vertices
Frames == [node: Vertices, at: Nat]

From(j) == edges[j][1]
To(j)   == edges[j][2]
Into(n) == {j \in DOMAIN edges : To(j) = n}

\* j is the first edge of n after edge k.
FirstAfter(j, n, k) ==
  /\ j > k /\ From(j) = n
  /\ \A i \in DOMAIN edges : i > k /\ From(i) = n => i >= j

NoneAfter(n, k) == \A j \in DOMAIN edges : j > k => From(j) # n

Top == stack[Len(stack)]
Pop == SubSeq(stack, 1, Len(stack) - 1)

-----------------------------------------------------------------------------
GraphInit ==
  /\ edges \in UNION {[1 .. k -> Pairs] : k \in 0 .. MaxEdges}
  /\ phase    = "search"
  /\ color    = [n \in Vertices |-> "white"]
  /\ stack    = <<>>
  /\ indegree = [n \in Vertices |-> 0]
  /\ queue    = <<>>
  /\ order    = <<>>
  /\ at       = 0

(* detect_cycle *)

\* The search goes on at the next node that was not seen.
Root(n) ==
  /\ phase = "search" /\ stack = <<>>
  /\ color[n] = "white" /\ \A m \in 1 .. n - 1 : color[m] # "white"
  /\ color' = [color EXCEPT ![n] = "grey"]
  /\ stack' = <<[node |-> n, at |-> 0]>>
  /\ UNCHANGED <<edges, phase, sorting>>

\* The next edge of the top of the stack.
Look(j) ==
  /\ phase = "search" /\ stack # <<>>
  /\ FirstAfter(j, Top.node, Top.at)
  /\ UNCHANGED <<edges, sorting>>

Looked(j) == Append(Pop, [Top EXCEPT !.at = j])

\* Mutant of BackEdge: a node that was seen before closes a cycle.
SeenEdge(j) ==
  /\ Look(j)
  /\ color[To(j)] # "white"
  /\ phase' = "cycle"
  /\ UNCHANGED searching

BackEdge(j) ==
  /\ Look(j)
  /\ color[To(j)] = "grey"
  /\ phase' = "cycle"
  /\ UNCHANGED searching

TreeEdge(j) ==
  /\ Look(j)
  /\ color[To(j)] = "white"
  /\ color' = [color EXCEPT ![To(j)] = "grey"]
  /\ stack' = Append(Looked(j), [node |-> To(j), at |-> 0])
  /\ UNCHANGED phase

OtherEdge(j) ==
  /\ Look(j)
  /\ color[To(j)] = "black"
  /\ stack' = Looked(j)
  /\ UNCHANGED <<phase, color>>

Leave ==
  /\ phase = "search" /\ stack # <<>>
  /\ NoneAfter(Top.node, Top.at)
  /\ color' = [color EXCEPT ![Top.node] = "black"]
  /\ stack' = Pop
  /\ UNCHANGED <<edges, phase, sorting>>

\* assert_acyclic is content; the in-degrees are counted.
Acyclic ==
  /\ phase = "search" /\ stack = <<>>
  /\ \A n \in Vertices : color[n] # "white"
  /\ phase' = "seed"
  /\ indegree' = [n \in Vertices |-> Cardinality(Into(n))]
  /\ UNCHANGED <<edges, searching, queue, order, at>>

(* The order. *)

Enqueue(n) == queue' = IF indegree'[n] = 0 THEN Append(queue, n) ELSE queue

\* The nodes without predecessors, by position.
Seed ==
  /\ phase = "seed" /\ at < Size
  /\ at' = at + 1
  /\ UNCHANGED indegree
  /\ Enqueue(at + 1)
  /\ UNCHANGED <<edges, phase, searching, order>>

Seeded ==
  /\ phase = "seed" /\ at = Size
  /\ phase' = "take"
  /\ UNCHANGED <<edges, searching, sorting>>

\* popleft
Take ==
  /\ phase = "take" /\ queue # <<>>
  /\ order' = Append(order, Head(queue))
  /\ queue' = Tail(queue)
  /\ at' = 0
  /\ phase' = "relax"
  /\ UNCHANGED <<edges, searching, indegree>>

\* Mutant of Relax: a successor is ready with the first of its predecessors.
RelaxEager(j) ==
  /\ phase = "relax"
  /\ FirstAfter(j, order[Len(order)], at)
  /\ at' = j
  /\ indegree' = [indegree EXCEPT ![To(j)] = 0]
  /\ queue' = IF indegree[To(j)] # 0 THEN Append(queue, To(j)) ELSE queue
  /\ UNCHANGED <<edges, phase, searching, order>>

\* One successor of the node that was taken.
Relax(j) ==
  /\ phase = "relax"
  /\ FirstAfter(j, order[Len(order)], at)
  /\ at' = j
  /\ indegree' = [indegree EXCEPT ![To(j)] = @ - 1]
  /\ Enqueue(To(j))
  /\ UNCHANGED <<edges, phase, searching, order>>

Relaxed ==
  /\ phase = "relax"
  /\ NoneAfter(order[Len(order)], at)
  /\ phase' = "take"
  /\ UNCHANGED <<edges, searching, sorting>>

SortEnds ==
  /\ phase = "take" /\ queue = <<>>
  /\ phase' = IF Len(order) # Size THEN "incomplete" ELSE "ordered"
  /\ UNCHANGED <<edges, searching, sorting>>

GraphNext ==
  \/ \E n \in Vertices : Root(n)
  \/ \E j \in DOMAIN edges : BackEdge(j) \/ TreeEdge(j) \/ OtherEdge(j) \/ Relax(j)
  \/ Leave \/ Acyclic \/ Seed \/ Seeded \/ Take \/ Relaxed \/ SortEnds

GraphSpec == GraphInit /\ [][GraphNext]_graphVars

-----------------------------------------------------------------------------
\* Every variable has its type; what is ordered or searched are nodes of the graph.
GraphTypeOK ==
  /\ edges \in Seq(Pairs)
  /\ phase \in {"search", "cycle", "seed", "take", "relax", "incomplete", "ordered"}
  /\ color \in [Vertices -> {"white", "grey", "black"}]
  /\ stack \in Seq(Frames)
  /\ indegree \in [Vertices -> Nat]
  /\ queue \in Seq(Vertices) /\ order \in Seq(Vertices)
  /\ at \in Nat

\* A finite graph has a cycle iff some of its nodes all have a successor, or
\* all a predecessor, among themselves.
Onward(S)   == \A n \in S : \E j \in DOMAIN edges : From(j) = n /\ To(j) \in S
Backward(S) == \A n \in S : \E j \in DOMAIN edges : To(j) = n /\ From(j) \in S
HasCycle    == \E S \in SUBSET Vertices : S # {} /\ Onward(S)

(***************************************************************************)
(* detect_cycle is right: it finds a cycle just when there is one.         *)
(***************************************************************************)
VerdictIsRight ==
  /\ phase = "cycle" => HasCycle
  /\ phase \notin {"search", "cycle"} => ~HasCycle

(***************************************************************************)
(* In the order, every node stands exactly once, and after all nodes it    *)
(* has an edge from.                                                       *)
(***************************************************************************)
OrderIsTopological ==
  phase = "ordered" =>
    /\ Len(order) = Size
    /\ \A n \in Vertices : \E i \in 1 .. Size : order[i] = n
    /\ \A j \in DOMAIN edges, k, l \in 1 .. Size :
         order[k] = From(j) /\ order[l] = To(j) => k < l

(***************************************************************************)
(* The check after the loop, kept as a hard invariant, never raises.       *)
(***************************************************************************)
SortIsComplete == phase # "incomplete"

(***************************************************************************)
(* The sort gives every graph that passed detect_cycle a complete          *)
(* topological order: its last check never raises, and whatever it returns *)
(* respects the edges.                                                     *)
(***************************************************************************)
SortIsRight == OrderIsTopological /\ SortIsComplete

(***************************************************************************)
(* Search and sort agree: a graph is refused just if it has a cycle, and   *)
(* every other one is given a complete order that respects its edges.      *)
(***************************************************************************)
GraphsAreOrdered == VerdictIsRight /\ SortIsRight
=============================================================================
