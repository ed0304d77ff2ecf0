------------------------- MODULE ToolRuntime_proofs -------------------------
(***************************************************************************)
(* Proofs about ToolRuntime, for every number of nodes, attempts and       *)
(* faults, and about GraphOrder, the order it executes the nodes in, for   *)
(* graphs of any size.                                                     *)
(***************************************************************************)
EXTENDS ToolRuntime, GraphOrder, SequenceTheorems, FiniteSetTheorems, TLAPS

(***************************************************************************)
(* The order of the nodes: detect_cycle is right, and Kahn's algorithm     *)
(* gives a topological order of all nodes whenever detect_cycle lets it run. *)
(***************************************************************************)

\* An edge has an index, and joins two nodes.
LEMMA Edges ==
  ASSUME GraphTypeOK
  PROVE  /\ DOMAIN edges = 1 .. Len(edges) /\ Len(edges) \in Nat
         /\ \A j \in DOMAIN edges : j \in Nat /\ j >= 1 /\ From(j) \in Vertices /\ To(j) \in Vertices
  BY DEF GraphTypeOK, From, To, Pairs

\* What the top of the stack may be replaced by.
LEMMA Stacks ==
  ASSUME NEW s \in Seq(Frames), s # <<>>, NEW f \in Frames, NEW g \in Frames
  PROVE  LET L == Len(s)
             p == SubSeq(s, 1, L - 1)
         IN  /\ L \in Nat /\ L >= 1 /\ s[L] \in Frames
             /\ p \in Seq(Frames) /\ Len(p) = L - 1
             /\ \A i \in 1 .. L - 1 : p[i] = s[i]
             /\ Append(p, f) \in Seq(Frames) /\ Len(Append(p, f)) = L
             /\ \A i \in 1 .. L - 1 : Append(p, f)[i] = s[i]
             /\ Append(p, f)[L] = f
             /\ Append(Append(p, f), g) \in Seq(Frames)
             /\ Len(Append(Append(p, f), g)) = L + 1
             /\ \A i \in 1 .. L - 1 : Append(Append(p, f), g)[i] = s[i]
             /\ Append(Append(p, f), g)[L] = f
             /\ Append(Append(p, f), g)[L + 1] = g
  <1> DEFINE L == Len(s)
             p == SubSeq(s, 1, L - 1)
  <1>1. L \in Nat /\ L >= 1 /\ s[L] \in Frames
    BY EmptySeq
  <1>2. p \in Seq(Frames) /\ Len(p) = L - 1 /\ \A i \in 1 .. L - 1 : p[i] = s[i]
    <2>1. \A i \in 1 .. L - 1 : s[i] \in Frames
      BY <1>1, ElementOfSeq
    <2> DEFINE q == L - 1
    <2>2. q \in Int /\ q >= 0
      BY <1>1
    <2> HIDE DEF q
    <2>3. /\ SubSeq(s, 1, q) \in Seq(Frames)
          /\ Len(SubSeq(s, 1, q)) = IF 1 <= q THEN q - 1 + 1 ELSE 0
          /\ \A i \in 1 .. q - 1 + 1 : SubSeq(s, 1, q)[i] = s[1 + i - 1]
      <3>1. \A i \in 1 .. q : s[i] \in Frames
        BY <2>1 DEF q
      <3> HIDE DEF L
      <3> QED  BY <2>2, <3>1, SubSeqProperties
    <2>4. q - 1 + 1 = q /\ \A i \in 1 .. q : 1 + i - 1 = i
      BY <2>2
    <2>5. Len(SubSeq(s, 1, q)) = q
      BY <2>2, <2>3
    <2>6. \A i \in 1 .. q : SubSeq(s, 1, q)[i] = s[i]
      BY <2>3, <2>4
    <2> QED  BY <2>3, <2>5, <2>6 DEF q
  <1> HIDE DEF p
  <1>3. /\ Append(p, f) \in Seq(Frames) /\ Len(Append(p, f)) = L
        /\ \A i \in 1 .. L - 1 : Append(p, f)[i] = s[i]
        /\ Append(p, f)[L] = f
    BY <1>1, <1>2
  <1>4. /\ Append(Append(p, f), g) \in Seq(Frames)
        /\ Len(Append(Append(p, f), g)) = L + 1
        /\ \A i \in 1 .. L - 1 : Append(Append(p, f), g)[i] = s[i]
        /\ Append(Append(p, f), g)[L] = f
        /\ Append(Append(p, f), g)[L + 1] = g
    <2> DEFINE q == Append(p, f)
    <2>1. q \in Seq(Frames) /\ Len(q) = L
      BY <1>3
    <2>2. /\ Append(q, g) \in Seq(Frames) /\ Len(Append(q, g)) = L + 1
          /\ \A i \in 1 .. L : Append(q, g)[i] = q[i]
          /\ Append(q, g)[L + 1] = g
      <3> HIDE DEF q
      <3> QED  BY <1>1, <2>1
    <2> QED  BY <1>1, <1>3, <2>2
  <1> QED  BY <1>1, <1>2, <1>3, <1>4 DEF p
-----------------------------------------------------------------------------
(* The search. *)

\* The grey nodes are those on the stack, each once.
Stacked ==
  /\ \A i \in 1 .. Len(stack) : color[stack[i].node] = "grey"
  /\ \A i, k \in 1 .. Len(stack) : stack[i].node = stack[k].node => i = k
  /\ \A n \in Vertices : color[n] = "grey" => \E i \in 1 .. Len(stack) : stack[i].node = n

\* Each is a successor of the one below.
Chained ==
  \A i \in 1 .. Len(stack) - 1 :
    /\ stack[i].at \in DOMAIN edges
    /\ From(stack[i].at) = stack[i].node
    /\ To(stack[i].at) = stack[i + 1].node

\* What was looked at from a node on the stack is black, or next on the stack.
Inspected ==
  \A i \in 1 .. Len(stack) : \A j \in DOMAIN edges :
    From(j) = stack[i].node /\ j <= stack[i].at =>
      color[To(j)] = "black" \/ (i < Len(stack) /\ j = stack[i].at)

\* The successors of black nodes are black.
Blackened ==
  \A j \in DOMAIN edges : color[From(j)] = "black" => color[To(j)] = "black"

\* No black node is on a cycle, and no cycle is black.
Uncircled ==
  \A S \in SUBSET Vertices :
    /\ Onward(S) => \A n \in S : color[n] # "black"
    /\ Backward(S) /\ S # {} => \E n \in S : color[n] # "black"

SearchInv == Stacked /\ Chained /\ Inspected /\ Blackened /\ Uncircled

\* A successor on the stack closes a cycle.
LEMMA BackEdgeCycle ==
  ASSUME GraphTypeOK, SearchInv, NEW j \in DOMAIN edges, BackEdge(j)
  PROVE  HasCycle
  <1> DEFINE L == Len(stack)
  <1>1. L \in Nat /\ L >= 1 /\ stack \in Seq(Frames) /\ stack # <<>>
    BY EmptySeq DEF GraphTypeOK, BackEdge, Look
  <1>2. From(j) = stack[L].node /\ To(j) \in Vertices /\ color[To(j)] = "grey"
    BY Edges DEF BackEdge, Look, FirstAfter, Top
  <1>3. PICK i \in 1 .. L : stack[i].node = To(j)
    BY <1>2 DEF SearchInv, Stacked
  <1> DEFINE S == {stack[k].node : k \in i .. L}
  <1>4. S \in SUBSET Vertices
    <2>1. \A k \in i .. L : stack[k] \in Frames
      BY <1>1, <1>3
    <2> QED  BY <2>1 DEF Frames
  <1>5. S # {}
    BY <1>1, <1>3
  <1>6. ASSUME NEW n \in S PROVE \E e \in DOMAIN edges : From(e) = n /\ To(e) \in S
    <2>1. PICK k \in i .. L : n = stack[k].node
      BY <1>6
    <2>2. CASE k = L
      <3>1. To(j) \in S
        BY <1>1, <1>3
      <3> QED  BY <1>2, <2>1, <2>2, <3>1
    <2>3. CASE k # L
      <3>1. k \in 1 .. L - 1 /\ k + 1 \in i .. L
        BY <1>1, <1>3, <2>1, <2>3
      <3>2. /\ stack[k].at \in DOMAIN edges /\ From(stack[k].at) = n
            /\ To(stack[k].at) = stack[k + 1].node
        BY <2>1, <3>1 DEF SearchInv, Chained
      <3>3. stack[k + 1].node \in S
        BY <3>1
      <3> QED  BY <3>2, <3>3
    <2> QED  BY <2>2, <2>3
  <1> HIDE DEF S
  <1> QED  BY <1>4, <1>5, <1>6 DEF HasCycle, Onward

\* The top of the stack is a grey node.
LEMMA OnTop ==
  ASSUME GraphTypeOK, SearchInv, stack # <<>>
  PROVE  LET L == Len(stack)
         IN  /\ L \in Nat /\ L >= 1 /\ Top = stack[L] /\ Top \in Frames
             /\ stack \in Seq(Frames)
             /\ Top.node \in Vertices /\ Top.at \in Nat /\ color[Top.node] = "grey"
             /\ \A i \in 1 .. L : stack[i] \in Frames /\ stack[i].node \in Vertices
                                  /\ stack[i].at \in Nat
  <1>1. Len(stack) \in Nat /\ Len(stack) >= 1 /\ stack \in Seq(Frames)
    BY EmptySeq DEF GraphTypeOK
  <1>2. \A i \in 1 .. Len(stack) : stack[i] \in Frames
    BY <1>1, ElementOfSeq
  <1> QED  BY <1>1, <1>2 DEF Top, Frames, SearchInv, Stacked

\* Uncircled is about the edges and which nodes are black.
LEMMA SameCircles ==
  ASSUME Uncircled, edges' = edges,
         \A m \in Vertices : color'[m] = "black" <=> color[m] = "black"
  PROVE  Uncircled'
  <1> SUFFICES ASSUME NEW S \in SUBSET Vertices
               PROVE  /\ Onward(S)' => \A n \in S : color'[n] # "black"
                      /\ Backward(S)' /\ S # {} => \E n \in S : color'[n] # "black"
    BY DEF Uncircled
  <1>1. (Onward(S)' <=> Onward(S)) /\ (Backward(S)' <=> Backward(S))
    BY DEF Onward, Backward, From, To
  <1> QED  BY <1>1 DEF Uncircled

\* The search goes on at a root.
LEMMA RootStep ==
  ASSUME GraphTypeOK, SearchInv, NEW n \in Vertices, Root(n)
  PROVE  SearchInv'
  <1>1. /\ stack = <<>> /\ Len(stack) = 0
        /\ stack' = <<[node |-> n, at |-> 0]>> /\ Len(stack') = 1
        /\ stack'[1].node = n /\ stack'[1].at = 0
        /\ edges' = edges /\ color[n] = "white" /\ color'[n] = "grey"
        /\ \A m \in Vertices : m # n => color'[m] = color[m]
    BY DEF Root, GraphTypeOK
  <1>2. \A j \in DOMAIN edges : From(j) \in Vertices /\ To(j) \in Vertices /\ j >= 1 /\ j \in Nat
    BY Edges
  <1>3. Stacked'
    BY <1>1 DEF SearchInv, Stacked
  <1>4. Chained'
    BY <1>1 DEF Chained
  <1>5. Inspected'
    BY <1>1, <1>2 DEF Inspected, From, To
  <1>6. Blackened'
    BY <1>1, <1>2 DEF SearchInv, Blackened, From, To
  <1>7. Uncircled'
    <2>1. \A m \in Vertices : color'[m] = "black" <=> color[m] = "black"
      BY <1>1
    <2> QED  BY <1>1, <2>1, SameCircles DEF SearchInv
  <1> QED  BY <1>3, <1>4, <1>5, <1>6, <1>7 DEF SearchInv

\* It looks at an edge to a black node.
LEMMA OtherEdgeStep ==
  ASSUME GraphTypeOK, SearchInv, NEW j \in DOMAIN edges, OtherEdge(j)
  PROVE  SearchInv'
  <1> DEFINE L == Len(stack)
  <1>1. stack # <<>> /\ edges' = edges /\ color' = color /\ color[To(j)] = "black"
        /\ stack' = Append(Pop, [Top EXCEPT !.at = j])
    BY DEF OtherEdge, Look, Looked
  <1>2. /\ L \in Nat /\ L >= 1 /\ stack \in Seq(Frames) /\ Top \in Frames /\ Top = stack[L]
        /\ \A i \in 1 .. L : stack[i].node \in Vertices /\ stack[i].at \in Nat
    BY <1>1, OnTop
  <1>3. \A i \in DOMAIN edges : i \in Nat /\ i >= 1 /\ From(i) \in Vertices /\ To(i) \in Vertices
    BY Edges
  <1>4. [Top EXCEPT !.at = j] \in Frames
    BY <1>2, <1>3 DEF Frames
  <1>5. /\ Len(stack') = L
        /\ \A i \in 1 .. L - 1 : stack'[i] = stack[i]
        /\ stack'[L] = [Top EXCEPT !.at = j]
    BY <1>1, <1>2, <1>4, Stacks DEF Pop
  <1>6. stack'[L].node = stack[L].node /\ stack'[L].at = j
    BY <1>2, <1>5 DEF Frames
  <1>7. \A i \in 1 .. L : stack'[i].node = stack[i].node
    <2>1. \A i \in 1 .. L : i \in 1 .. L - 1 \/ i = L
      BY <1>2
    <2> QED  BY <1>5, <1>6, <2>1
  <1>8. From(j) = stack[L].node
        /\ \A i \in DOMAIN edges : i > stack[L].at /\ From(i) = stack[L].node => i >= j
    BY <1>2 DEF OtherEdge, Look, FirstAfter
  <1>9. Stacked'
    BY <1>1, <1>5, <1>7, SMTT(30) DEF SearchInv, Stacked
  <1>10. Chained'
    <2> SUFFICES ASSUME NEW i \in 1 .. L - 1
                 PROVE  /\ stack'[i].at \in DOMAIN edges
                        /\ From(stack'[i].at) = stack'[i].node
                        /\ To(stack'[i].at) = stack'[i + 1].node
      BY <1>1, <1>5 DEF Chained, From, To
    <2>1. stack'[i] = stack[i] /\ stack'[i + 1].node = stack[i + 1].node
      BY <1>2, <1>5, <1>7
    <2> QED  BY <2>1 DEF SearchInv, Chained
  <1>11. Inspected'
    <2> SUFFICES ASSUME NEW i \in 1 .. L, NEW e \in DOMAIN edges,
                        From(e) = stack'[i].node, e <= stack'[i].at
                 PROVE  color[To(e)] = "black" \/ (i < L /\ e = stack'[i].at)
      BY <1>1, <1>5 DEF Inspected, From, To
    <2>1. CASE i # L
      <3>1. i \in 1 .. L - 1 /\ stack'[i] = stack[i]
        BY <1>2, <1>5, <2>1
      <3> QED  BY <3>1 DEF SearchInv, Inspected
    <2>2. CASE i = L /\ e = j
      BY <1>1, <2>2
    <2>3. CASE i = L /\ e # j
      <3>1. e <= stack[L].at
        BY <1>2, <1>3, <1>6, <1>8, <2>3
      <3> QED  BY <1>6, <2>3, <3>1 DEF SearchInv, Inspected
    <2> QED  BY <2>1, <2>2, <2>3
  <1>12. Blackened'
    BY <1>1 DEF SearchInv, Blackened, From, To
  <1>13. Uncircled'
    BY <1>1, SMTT(30) DEF SearchInv, Uncircled, Onward, Backward, From, To
  <1> QED  BY <1>9, <1>10, <1>11, <1>12, <1>13 DEF SearchInv

\* It goes on to a white node.
LEMMA TreeEdgeStep ==
  ASSUME GraphTypeOK, SearchInv, NEW j \in DOMAIN edges, TreeEdge(j)
  PROVE  SearchInv'
  <1> DEFINE L == Len(stack)
             t == To(j)
  <1>1. stack # <<>> /\ edges' = edges /\ color[t] = "white"
        /\ color' = [color EXCEPT ![t] = "grey"]
        /\ stack' = Append(Append(Pop, [Top EXCEPT !.at = j]), [node |-> t, at |-> 0])
    BY DEF TreeEdge, Look, Looked
  <1>2. /\ L \in Nat /\ L >= 1 /\ stack \in Seq(Frames) /\ Top \in Frames /\ Top = stack[L]
        /\ \A i \in 1 .. L : stack[i].node \in Vertices /\ stack[i].at \in Nat
    BY <1>1, OnTop
  <1>3. \A i \in DOMAIN edges : i \in Nat /\ i >= 1 /\ From(i) \in Vertices /\ To(i) \in Vertices
    BY Edges
  <1>4. [Top EXCEPT !.at = j] \in Frames /\ [node |-> t, at |-> 0] \in Frames
    BY <1>2, <1>3 DEF Frames
  <1>5. /\ Len(stack') = L + 1
        /\ \A i \in 1 .. L - 1 : stack'[i] = stack[i]
        /\ stack'[L] = [Top EXCEPT !.at = j]
        /\ stack'[L + 1] = [node |-> t, at |-> 0]
    BY <1>1, <1>2, <1>4, Stacks DEF Pop
  <1>6. /\ stack'[L].node = stack[L].node /\ stack'[L].at = j
        /\ stack'[L + 1].node = t /\ stack'[L + 1].at = 0
    BY <1>2, <1>5 DEF Frames
  <1>7. \A i \in 1 .. L : stack'[i].node = stack[i].node
    <2>1. \A i \in 1 .. L : i \in 1 .. L - 1 \/ i = L
      BY <1>2
    <2> QED  BY <1>5, <1>6, <2>1
  <1>8. From(j) = stack[L].node
        /\ \A i \in DOMAIN edges : i > stack[L].at /\ From(i) = stack[L].node => i >= j
    BY <1>2 DEF TreeEdge, Look, FirstAfter
  <1>9. /\ t \in Vertices /\ color'[t] = "grey"
        /\ \A m \in Vertices : m # t => color'[m] = color[m]
    BY <1>1, <1>3 DEF GraphTypeOK
  <1>10. \A i \in 1 .. L : stack[i].node # t
    BY <1>1 DEF SearchInv, Stacked
  <1>11. \A m \in Vertices : color'[m] = "black" <=> color[m] = "black"
    BY <1>1, <1>9
  <1> HIDE DEF t
  <1>12. Stacked'
    <2>1. ASSUME NEW i \in 1 .. L + 1 PROVE color'[stack'[i].node] = "grey"
      <3>1. CASE i = L + 1
        BY <1>6, <1>9, <3>1
      <3>2. CASE i # L + 1
        <4>1. i \in 1 .. L
          BY <1>2, <3>2
        <4> QED  BY <1>2, <1>7, <1>9, <1>10, <4>1 DEF SearchInv, Stacked
      <3> QED  BY <3>1, <3>2
    <2>2. ASSUME NEW i \in 1 .. L + 1, NEW k \in 1 .. L + 1,
                 stack'[i].node = stack'[k].node
          PROVE  i = k
      <3>1. \A h \in 1 .. L + 1 : h \in 1 .. L \/ h = L + 1
        BY <1>2
      <3> QED  BY <1>6, <1>7, <1>10, <2>2, <3>1 DEF SearchInv, Stacked
    <2>3. ASSUME NEW m \in Vertices, color'[m] = "grey"
          PROVE  \E i \in 1 .. L + 1 : stack'[i].node = m
      <3>1. CASE m = t
        BY <1>2, <1>6, <3>1
      <3>2. CASE m # t
        <4>1. PICK i \in 1 .. L : stack[i].node = m
          BY <1>9, <2>3, <3>2 DEF SearchInv, Stacked
        <4>2. i \in 1 .. L + 1
          BY <1>2
        <4> QED  BY <1>7, <4>1, <4>2
      <3> QED  BY <3>1, <3>2
    <2> QED  BY <1>5, <2>1, <2>2, <2>3 DEF Stacked
  <1>13. Chained'
    <2> SUFFICES ASSUME NEW i \in 1 .. L
                 PROVE  /\ stack'[i].at \in DOMAIN edges
                        /\ From(stack'[i].at) = stack'[i].node
                        /\ To(stack'[i].at) = stack'[i + 1].node
      BY <1>1, <1>2, <1>5 DEF Chained, From, To
    <2>1. CASE i = L
      BY <1>6, <1>8, <2>1 DEF t
    <2>2. CASE i # L
      <3>1. i \in 1 .. L - 1 /\ stack'[i] = stack[i] /\ stack'[i + 1].node = stack[i + 1].node
        BY <1>2, <1>5, <1>7, <2>2
      <3> QED  BY <3>1 DEF SearchInv, Chained
    <2> QED  BY <2>1, <2>2
  <1>14. Inspected'
    <2> SUFFICES ASSUME NEW i \in 1 .. L + 1, NEW e \in DOMAIN edges,
                        From(e) = stack'[i].node, e <= stack'[i].at
                 PROVE  color[To(e)] = "black" \/ (i < L + 1 /\ e = stack'[i].at)
      BY <1>1, <1>3, <1>5, <1>11, SMTT(30) DEF Inspected, From, To
    <2>1. CASE i = L + 1
      BY <1>3, <1>6, <2>1
    <2>2. CASE i \in 1 .. L - 1
      <3>1. stack'[i] = stack[i]
        BY <1>5, <2>2
      <3>2. color[To(e)] = "black" \/ (i < L /\ e = stack[i].at)
        BY <1>2, <2>2, <3>1 DEF SearchInv, Inspected
      <3> QED  BY <1>2, <3>1, <3>2
    <2>3. CASE i = L /\ e = j
      BY <1>2, <1>6, <2>3
    <2>4. CASE i = L /\ e # j
      <3>1. e <= stack[L].at
        BY <1>2, <1>3, <1>6, <1>8, <2>4
      <3> QED  BY <1>2, <1>6, <2>4, <3>1 DEF SearchInv, Inspected
    <2> QED  BY <1>2, <2>1, <2>2, <2>3, <2>4
  <1>15. Blackened'
    BY <1>1, <1>3, <1>11 DEF SearchInv, Blackened, From, To
  <1>16. Uncircled'
    BY <1>1, <1>11, SameCircles DEF SearchInv
  <1> QED  BY <1>12, <1>13, <1>14, <1>15, <1>16 DEF SearchInv

\* It leaves a node whose successors are black.
LEMMA LeaveStep ==
  ASSUME GraphTypeOK, SearchInv, Leave
  PROVE  SearchInv'
  <1> DEFINE L == Len(stack)
             n == Top.node
  <1>1. stack # <<>> /\ edges' = edges /\ stack' = Pop
        /\ color' = [color EXCEPT ![n] = "black"]
    BY DEF Leave
  <1>2. /\ L \in Nat /\ L >= 1 /\ stack \in Seq(Frames) /\ Top \in Frames /\ Top = stack[L]
        /\ n \in Vertices /\ Top.at \in Nat /\ color[n] = "grey"
        /\ \A i \in 1 .. L : stack[i].node \in Vertices /\ stack[i].at \in Nat
    BY <1>1, OnTop
  <1>3. \A i \in DOMAIN edges : i \in Nat /\ i >= 1 /\ From(i) \in Vertices /\ To(i) \in Vertices
    BY Edges
  <1>4. Len(stack') = L - 1 /\ \A i \in 1 .. L - 1 : stack'[i] = stack[i]
    BY <1>1, <1>2, Stacks DEF Pop
  <1>5. color'[n] = "black" /\ \A m \in Vertices : m # n => color'[m] = color[m]
    BY <1>1, <1>2 DEF GraphTypeOK
  <1>6. \A i \in 1 .. L - 1 : i \in 1 .. L /\ stack[i].node # n
    BY <1>2 DEF SearchInv, Stacked
  <1>7. ASSUME NEW j \in DOMAIN edges, From(j) = n PROVE color[To(j)] = "black"
    <2>1. j <= Top.at
      BY <1>2, <1>3, <1>7 DEF Leave, NoneAfter
    <2>2. L \in 1 .. L
      BY <1>2
    <2> QED  BY <1>2, <1>7, <2>1, <2>2 DEF SearchInv, Inspected
  <1>8. \A j \in DOMAIN edges : color[To(j)] = "black" => color'[To(j)] = "black"
    BY <1>3, <1>5
  <1> HIDE DEF n
  <1>9. Stacked'
    <2>1. \A i \in 1 .. L - 1 : color'[stack'[i].node] = "grey"
      BY <1>2, <1>4, <1>5, <1>6 DEF SearchInv, Stacked
    <2>2. \A i, k \in 1 .. L - 1 : stack'[i].node = stack'[k].node => i = k
      BY <1>4, <1>6 DEF SearchInv, Stacked
    <2>3. ASSUME NEW m \in Vertices, color'[m] = "grey"
          PROVE  \E i \in 1 .. L - 1 : stack'[i].node = m
      <3>1. m # n /\ color[m] = "grey"
        BY <1>5, <2>3
      <3>2. PICK i \in 1 .. L : stack[i].node = m
        BY <3>1 DEF SearchInv, Stacked
      <3>3. i # L
        BY <1>2, <3>1, <3>2 DEF n
      <3>4. i \in 1 .. L - 1
        BY <1>2, <3>3
      <3> QED  BY <1>4, <3>2, <3>4
    <2> QED  BY <1>4, <2>1, <2>2, <2>3 DEF Stacked
  <1>10. Chained'
    <2> SUFFICES ASSUME NEW i \in 1 .. L - 1 - 1
                 PROVE  /\ stack'[i].at \in DOMAIN edges
                        /\ From(stack'[i].at) = stack'[i].node
                        /\ To(stack'[i].at) = stack'[i + 1].node
      BY <1>1, <1>4 DEF Chained, From, To
    <2>1. i \in 1 .. L - 1 /\ i + 1 \in 1 .. L - 1
      BY <1>2
    <2> QED  BY <1>4, <2>1 DEF SearchInv, Chained
  <1>11. Inspected'
    <2> SUFFICES ASSUME NEW i \in 1 .. L - 1, NEW e \in DOMAIN edges,
                        From(e) = stack'[i].node, e <= stack'[i].at
                 PROVE  color'[To(e)] = "black" \/ (i < L - 1 /\ e = stack'[i].at)
      BY <1>1, <1>4 DEF Inspected, From, To
    <2>1. stack'[i] = stack[i] /\ i \in 1 .. L
      BY <1>4, <1>6
    <2>2. color[To(e)] = "black" \/ (i < L /\ e = stack[i].at)
      BY <2>1 DEF SearchInv, Inspected
    <2>3. CASE i = L - 1 /\ e = stack[i].at
      <3>1. To(e) = stack[i + 1].node /\ i + 1 = L
        BY <1>2, <2>3 DEF SearchInv, Chained
      <3>2. To(e) = n
        BY <1>2, <3>1 DEF n
      <3> QED  BY <1>5, <3>2
    <2> QED  BY <1>2, <1>8, <2>1, <2>2, <2>3
  <1>12. Blackened'
    <2> SUFFICES ASSUME NEW j \in DOMAIN edges, color'[From(j)] = "black"
                 PROVE  color'[To(j)] = "black"
      BY <1>1 DEF Blackened, From, To
    <2>1. CASE From(j) = n
      BY <1>7, <1>8, <2>1
    <2>2. CASE From(j) # n
      <3>1. color[From(j)] = "black"
        BY <1>3, <1>5, <2>2
      <3> QED  BY <1>8, <3>1 DEF SearchInv, Blackened
    <2> QED  BY <2>1, <2>2
  <1>13. Uncircled'
    <2> SUFFICES ASSUME NEW S \in SUBSET Vertices
                 PROVE  /\ Onward(S)' => \A m \in S : color'[m] # "black"
                        /\ Backward(S)' /\ S # {} => \E m \in S : color'[m] # "black"
      BY DEF Uncircled
    <2>0. (Onward(S)' <=> Onward(S)) /\ (Backward(S)' <=> Backward(S))
      BY <1>1 DEF Onward, Backward, From, To
    <2>1. ASSUME Onward(S), NEW m \in S, color'[m] = "black" PROVE FALSE
      <3>1. \A k \in S : color[k] # "black"
        BY <2>1 DEF SearchInv, Uncircled
      <3>2. m = n
        BY <1>5, <2>1, <3>1
      <3>3. PICK j \in DOMAIN edges : From(j) = n /\ To(j) \in S
        BY <2>1, <3>2 DEF Onward
      <3> QED  BY <1>7, <3>1, <3>3
    <2>2. ASSUME Backward(S), S # {}, \A m \in S : color'[m] = "black" PROVE FALSE
      <3>1. PICK m \in S : color[m] # "black"
        BY <2>2 DEF SearchInv, Uncircled
      <3>2. m = n
        BY <1>5, <2>2, <3>1
      <3>3. PICK j \in DOMAIN edges : To(j) = n /\ From(j) \in S
        BY <2>2, <3>2 DEF Backward
      <3>4. From(j) # n
        BY <1>2, <1>7, <3>3
      <3>5. color[From(j)] = "black"
        BY <1>3, <1>5, <2>2, <3>3, <3>4
      <3>6. color[To(j)] = "black"
        BY <3>5 DEF SearchInv, Blackened
      <3> QED  BY <1>2, <3>3, <3>6
    <2> QED  BY <2>0, <2>1, <2>2
  <1> QED  BY <1>9, <1>10, <1>11, <1>12, <1>13 DEF SearchInv

\* The search has not begun.
LEMMA SearchStart == GraphInit => SearchInv
  <1> SUFFICES ASSUME GraphInit PROVE SearchInv
    OBVIOUS
  <1>1. stack = <<>> /\ Len(stack) = 0 /\ \A n \in Vertices : color[n] = "white"
    BY DEF GraphInit
  <1>2. edges \in Seq(Pairs)
    <2>1. PICK k \in 0 .. MaxEdges : edges \in [1 .. k -> Pairs]
      BY DEF GraphInit
    <2> QED  BY <2>1, SeqDef, GraphAssumption
  <1>3. \A j \in DOMAIN edges : From(j) \in Vertices
    BY <1>2 DEF From, Pairs
  <1> QED  BY <1>1, <1>3 DEF SearchInv, Stacked, Chained, Inspected, Blackened, Uncircled
-----------------------------------------------------------------------------
(* The sort. *)

\* The edges that the sort has taken off.
Done(j) ==
  \E i \in 1 .. Len(order) : order[i] = From(j) /\ (phase = "relax" /\ i = Len(order) => j <= at)

\* The edges into n that are left.
Rest(n) == {j \in DOMAIN edges : To(j) = n /\ ~Done(j)}

Sorting == {"seed", "take", "relax", "incomplete", "ordered"}

\* The in-degree of a node counts the edges that are left.
Counted == \A n \in Vertices : indegree[n] = Cardinality(Rest(n))

\* Queue and order together hold a node at most once.
Single ==
  /\ \A i, k \in 1 .. Len(order) : order[i] = order[k] => i = k
  /\ \A i, k \in 1 .. Len(queue) : queue[i] = queue[k] => i = k
  /\ \A i \in 1 .. Len(order), k \in 1 .. Len(queue) : order[i] # queue[k]

Held(n) == \/ \E i \in 1 .. Len(order) : order[i] = n
           \/ \E i \in 1 .. Len(queue) : queue[i] = n

\* They hold the nodes without edges left: so far, while the queue is seeded.
ReadyHeld ==
  \A n \in Vertices :
    /\ Held(n) => indegree[n] = 0
    /\ phase = "seed" => (Held(n) => n <= at) /\ order = <<>>
    /\ indegree[n] = 0 /\ (phase = "seed" => n <= at) => Held(n)

\* A node in the order comes after its predecessors.
Topological ==
  \A k \in 1 .. Len(order) : \A j \in DOMAIN edges :
    To(j) = order[k] => \E i \in 1 .. k - 1 : order[i] = From(j)

\* All nodes are black, so no set of nodes is circular.
NoCircle ==
  \A S \in SUBSET Vertices : (Onward(S) => S = {}) /\ (Backward(S) => S = {})

SortInv ==
  /\ Counted /\ Single /\ ReadyHeld /\ Topological /\ NoCircle
  /\ phase = "seed" => at <= Size
  /\ phase = "relax" => order # <<>>
  /\ phase = "ordered" => Len(order) = Size /\ \A n \in Vertices : \E i \in 1 .. Len(order) : order[i] = n
  /\ phase # "incomplete"

Inv ==
  /\ GraphTypeOK
  /\ phase = "search" => SearchInv /\ order = <<>> /\ queue = <<>> /\ at = 0
  /\ phase = "cycle" => HasCycle
  /\ phase \in Sorting => SortInv

\* What is left of a node's edges is finite.
LEMMA RestIsFinite ==
  ASSUME GraphTypeOK, NEW n
  PROVE  IsFiniteSet(Rest(n)) /\ Cardinality(Rest(n)) \in Nat
         /\ (Cardinality(Rest(n)) = 0 <=> Rest(n) = {})
  <1>1. IsFiniteSet(1 .. Len(edges)) /\ Rest(n) \in SUBSET (1 .. Len(edges))
    BY Edges, FS_Interval DEF Rest
  <1>2. IsFiniteSet(Rest(n))
    BY <1>1, FS_Subset
  <1> QED  BY <1>2, FS_CardinalityType, FS_EmptySet

\* The counts stay when no edge is taken off.
LEMMA SameCounts ==
  ASSUME Counted, edges' = edges, indegree' = indegree,
         \A j \in DOMAIN edges : Done(j)' <=> Done(j)
  PROVE  Counted'
  <1>1. \A n \in Vertices : Rest(n)' = Rest(n)
    BY DEF Rest, To
  <1> QED  BY <1>1 DEF Counted

\* The set of circles depends on the edges alone.
LEMMA SameNoCircle ==
  ASSUME NoCircle, edges' = edges PROVE NoCircle'
  <1>1. \A S \in SUBSET Vertices : (Onward(S)' <=> Onward(S)) /\ (Backward(S)' <=> Backward(S))
    BY DEF Onward, Backward, From, To
  <1> QED  BY <1>1 DEF NoCircle

\* The search hands over: everything is black.
LEMMA AcyclicStep == Inv /\ Acyclic => SortInv'
  <1> SUFFICES ASSUME Inv, Acyclic PROVE SortInv'
    OBVIOUS
  <1>1. /\ phase = "search" /\ phase' = "seed" /\ stack = <<>> /\ Len(stack) = 0
        /\ edges' = edges /\ order' = <<>> /\ queue' = <<>> /\ at' = 0
        /\ Len(order') = 0 /\ Len(queue') = 0
        /\ indegree' = [n \in Vertices |-> Cardinality(Into(n))]
    BY DEF Inv, Acyclic
  <1>2. GraphTypeOK /\ SearchInv
    BY <1>1 DEF Inv
  <1>3. \A n \in Vertices : color[n] = "black"
    BY <1>1, <1>2 DEF Acyclic, SearchInv, Stacked, GraphTypeOK
  <1>4. NoCircle
    BY <1>2, <1>3 DEF SearchInv, Uncircled, NoCircle
  <1>5. Counted'
    <2>1. \A j \in DOMAIN edges : ~Done(j)'
      BY <1>1 DEF Done
    <2>2. \A n \in Vertices : Rest(n)' = Into(n)
      BY <1>1, <2>1 DEF Rest, Into, To
    <2> QED  BY <1>1, <2>2 DEF Counted
  <1>6. Single' /\ Topological'
    BY <1>1 DEF Single, Topological
  <1>7. ReadyHeld'
    BY <1>1, GraphAssumption DEF ReadyHeld, Held, Vertices
  <1> QED  BY <1>1, <1>4, <1>5, <1>6, <1>7, SameNoCircle, GraphAssumption DEF SortInv

\* The next position is seeded.
LEMMA SeedStep == Inv /\ Seed => SortInv' /\ GraphTypeOK'
  <1> SUFFICES ASSUME Inv, Seed PROVE SortInv' /\ GraphTypeOK'
    OBVIOUS
  <1> DEFINE n == at + 1
             q == Len(queue)
  <1>1. /\ phase = "seed" /\ phase' = "seed" /\ at' = n /\ at < Size /\ edges' = edges
        /\ order' = order /\ indegree' = indegree
        /\ queue' = IF indegree[n] = 0 THEN Append(queue, n) ELSE queue
        /\ UNCHANGED <<color, stack>>
    BY DEF Seed, Enqueue, searching
  <1>2. GraphTypeOK /\ SortInv
    BY <1>1 DEF Inv, Sorting
  <1>3. /\ order = <<>> /\ Len(order) = 0 /\ at \in Nat /\ n \in Vertices
        /\ queue \in Seq(Vertices) /\ q \in Nat /\ at <= Size
    BY <1>1, <1>2, GraphAssumption DEF SortInv, ReadyHeld, GraphTypeOK, Vertices
  <1>4. \A i \in 1 .. q : queue[i] # n
    <2>1. \A m \in Vertices : Held(m) => m <= at
      BY <1>1, <1>2 DEF SortInv, ReadyHeld
    <2> QED  BY <1>3, <2>1 DEF Held
  <1>7. Counted' /\ NoCircle' /\ Topological'
    <2>1. \A j \in DOMAIN edges : Done(j)' <=> Done(j)
      BY <1>1, <1>3 DEF Done
    <2>2. Counted' /\ NoCircle'
      BY <1>1, <1>2, <2>1, SameCounts, SameNoCircle DEF SortInv
    <2>3. Topological'
      BY <1>1, <1>3 DEF Topological
    <2> QED  BY <2>2, <2>3
  <1>5. CASE indegree[n] = 0
    <2>1. /\ Len(queue') = q + 1 /\ queue'[q + 1] = n /\ queue' \in Seq(Vertices)
          /\ \A i \in 1 .. q : queue'[i] = queue[i]
      BY <1>1, <1>3, <1>5
    <2>2. \A i \in 1 .. q + 1 : i \in 1 .. q \/ i = q + 1
      BY <1>3
    <2>3. Single'
      BY <1>1, <1>2, <1>3, <1>4, <2>1, <2>2 DEF SortInv, Single
    <2>4. \A m \in Vertices : Held(m)' <=> Held(m) \/ m = n
      <3>1. \A i \in 1 .. q : i \in 1 .. q + 1
        BY <1>3
      <3> QED  BY <1>1, <1>3, <2>1, <2>2, <3>1 DEF Held
    <2>5. ReadyHeld'
      BY <1>1, <1>2, <1>3, <1>5, <2>4 DEF SortInv, ReadyHeld, Vertices
    <2>6. GraphTypeOK'
      BY <1>1, <1>2, <1>3, <2>1 DEF GraphTypeOK
    <2>7. at' <= Size
      BY <1>1, <1>3, GraphAssumption
    <2> QED  BY <1>1, <1>7, <2>3, <2>5, <2>6, <2>7 DEF SortInv
  <1>6. CASE indegree[n] # 0
    <2>1. queue' = queue
      BY <1>1, <1>6
    <2>2. Single'
      BY <1>1, <1>2, <2>1 DEF SortInv, Single
    <2>3. \A m \in Vertices : Held(m)' <=> Held(m)
      BY <1>1, <2>1 DEF Held
    <2>4. ReadyHeld'
      BY <1>1, <1>2, <1>3, <1>6, <2>3 DEF SortInv, ReadyHeld, Vertices
    <2>5. GraphTypeOK'
      BY <1>1, <1>2, <1>3, <2>1 DEF GraphTypeOK
    <2>6. at' <= Size
      BY <1>1, <1>3, GraphAssumption
    <2> QED  BY <1>1, <1>7, <2>2, <2>4, <2>5, <2>6 DEF SortInv
  <1> QED  BY <1>5, <1>6

\* The seeding ends.
LEMMA SeededStep == Inv /\ Seeded => SortInv' /\ GraphTypeOK'
  <1> SUFFICES ASSUME Inv, Seeded PROVE SortInv' /\ GraphTypeOK'
    OBVIOUS
  <1>1. /\ phase = "seed" /\ at = Size /\ phase' = "take" /\ edges' = edges
        /\ UNCHANGED <<color, stack, indegree, queue, order, at>>
    BY DEF Seeded, searching, sorting
  <1>2. GraphTypeOK /\ SortInv
    BY <1>1 DEF Inv, Sorting
  <1>3. \A j \in DOMAIN edges : Done(j)' <=> Done(j)
    BY <1>1 DEF Done, From
  <1>4. Counted' /\ NoCircle'
    BY <1>1, <1>2, <1>3, SameCounts, SameNoCircle DEF SortInv
  <1>5. Single' /\ Topological'
    BY <1>1, <1>2 DEF SortInv, Single, Topological, From, To
  <1>6. ReadyHeld'
    BY <1>1, <1>2, GraphAssumption DEF SortInv, ReadyHeld, Held, Vertices
  <1> QED  BY <1>1, <1>2, <1>4, <1>5, <1>6 DEF SortInv, GraphTypeOK

\* The head of the queue is put into the order.
LEMMA TakeStep == Inv /\ Take => SortInv' /\ GraphTypeOK'
  <1> SUFFICES ASSUME Inv, Take PROVE SortInv' /\ GraphTypeOK'
    OBVIOUS
  <1> DEFINE n == Head(queue)
             q == Len(queue)
             l == Len(order)
  <1>1. /\ phase = "take" /\ phase' = "relax" /\ queue # <<>> /\ edges' = edges
        /\ order' = Append(order, n) /\ queue' = Tail(queue) /\ at' = 0
        /\ UNCHANGED <<color, stack, indegree>>
    BY DEF Take, searching
  <1>2. GraphTypeOK /\ SortInv
    BY <1>1 DEF Inv, Sorting
  <1>3. /\ order \in Seq(Vertices) /\ queue \in Seq(Vertices) /\ q \in Nat /\ l \in Nat /\ q >= 1
        /\ n = queue[1] /\ n \in Vertices
    BY <1>1, <1>2, EmptySeq DEF GraphTypeOK
  <1>4. /\ queue' \in Seq(Vertices) /\ Len(queue') = q - 1
        /\ \A i \in 1 .. q - 1 : queue'[i] = queue[i + 1]
    BY <1>1, <1>3, HeadTailProperties
  <1>5. /\ order' \in Seq(Vertices) /\ Len(order') = l + 1 /\ order'[l + 1] = n
        /\ \A i \in 1 .. l : order'[i] = order[i]
    BY <1>1, <1>3
  <1>6. GraphTypeOK'
    BY <1>1, <1>2, <1>4, <1>5 DEF GraphTypeOK
  <1> HIDE DEF n
  <1>7. \A i \in 1 .. l + 1 : i \in 1 .. l \/ i = l + 1
    BY <1>3
  <1>8. \A i \in 1 .. q - 1 : i + 1 \in 1 .. q /\ i + 1 # 1
    BY <1>3
  <1>9. \A i \in 1 .. l : order[i] # n
    BY <1>2, <1>3 DEF SortInv, Single
  <1>10. Single'
    <2>1. \A i, k \in 1 .. l + 1 : order'[i] = order'[k] => i = k
      BY <1>2, <1>5, <1>7, <1>9 DEF SortInv, Single
    <2>2. \A i, k \in 1 .. q - 1 : queue'[i] = queue'[k] => i = k
      <3> SUFFICES ASSUME NEW i \in 1 .. q - 1, NEW k \in 1 .. q - 1, queue'[i] = queue'[k]
                   PROVE  i = k
        OBVIOUS
      <3>1. i + 1 = k + 1
        BY <1>2, <1>4, <1>8 DEF SortInv, Single
      <3> QED  BY <1>3, <3>1
    <2>3. \A i \in 1 .. l + 1, k \in 1 .. q - 1 : order'[i] # queue'[k]
      <3> SUFFICES ASSUME NEW i \in 1 .. l + 1, NEW k \in 1 .. q - 1
                   PROVE  order'[i] # queue'[k]
        OBVIOUS
      <3>1. queue'[k] = queue[k + 1] /\ k + 1 \in 1 .. q /\ 1 \in 1 .. q /\ k + 1 # 1
        BY <1>3, <1>4, <1>8
      <3>2. CASE i \in 1 .. l
        BY <1>2, <1>5, <3>1, <3>2 DEF SortInv, Single
      <3>3. CASE i = l + 1
        BY <1>2, <1>3, <1>5, <3>1, <3>3 DEF SortInv, Single
      <3> QED  BY <1>7, <3>2, <3>3
    <2> QED  BY <1>4, <1>5, <2>1, <2>2, <2>3 DEF Single
  <1>11. ASSUME NEW m PROVE Held(m)' <=> Held(m)
    <2>1. ASSUME NEW i \in 1 .. l, order[i] = m PROVE Held(m)'
      <3>1. i \in 1 .. l + 1
        BY <1>3
      <3> QED  BY <1>5, <2>1, <3>1 DEF Held
    <2>2. ASSUME NEW i \in 1 .. q, queue[i] = m PROVE Held(m)'
      <3>1. CASE i = 1
        <4>1. l + 1 \in 1 .. l + 1
          BY <1>3
        <4> QED  BY <1>3, <1>5, <2>2, <3>1, <4>1 DEF Held
      <3>2. CASE i # 1
        <4>1. i - 1 \in 1 .. q - 1 /\ (i - 1) + 1 = i
          BY <1>3, <3>2
        <4> QED  BY <1>4, <2>2, <4>1 DEF Held
      <3> QED  BY <3>1, <3>2
    <2>3. ASSUME NEW i \in 1 .. l + 1, order'[i] = m PROVE Held(m)
      <3>1. 1 \in 1 .. q
        BY <1>3
      <3> QED  BY <1>3, <1>5, <1>7, <2>3, <3>1 DEF Held
    <2>4. ASSUME NEW i \in 1 .. q - 1, queue'[i] = m PROVE Held(m)
      BY <1>4, <1>8, <2>4 DEF Held
    <2> QED  BY <1>4, <1>5, <2>1, <2>2, <2>3, <2>4 DEF Held
  <1>12. ReadyHeld'
    BY <1>1, <1>2, <1>11 DEF SortInv, ReadyHeld
  \* No edge of n was taken off before, and none is yet.
  <1>13. \A j \in DOMAIN edges : Done(j)' <=> Done(j)
    <2> SUFFICES ASSUME NEW j \in DOMAIN edges PROVE Done(j)' <=> Done(j)
      OBVIOUS
    <2>1. j \in Nat /\ j >= 1
      BY <1>2, Edges
    <2>2. Done(j) <=> \E i \in 1 .. l : order[i] = From(j)
      BY <1>1 DEF Done
    <2>3. Done(j)' <=> \E i \in 1 .. l + 1 : order'[i] = From(j) /\ (i = l + 1 => j <= 0)
      BY <1>1, <1>5 DEF Done, From
    <2>4. \A i \in 1 .. l : i \in 1 .. l + 1 /\ i # l + 1
      BY <1>3
    <2>5. ~(j <= 0)
      BY <2>1
    <2> QED  BY <1>5, <1>7, <2>2, <2>3, <2>4, <2>5
  <1>14. Counted' /\ NoCircle'
    BY <1>1, <1>2, <1>13, SameCounts, SameNoCircle DEF SortInv
  <1>15. Topological'
    <2> SUFFICES ASSUME NEW k \in 1 .. l + 1, NEW j \in DOMAIN edges, To(j) = order'[k]
                 PROVE  \E i \in 1 .. k - 1 : order'[i] = From(j)
      BY <1>1, <1>5 DEF Topological, From, To
    <2>1. CASE k \in 1 .. l
      <3>1. PICK i \in 1 .. k - 1 : order[i] = From(j)
        BY <1>2, <1>5, <2>1 DEF SortInv, Topological
      <3>2. i \in 1 .. l
        BY <1>3, <2>1
      <3> QED  BY <1>5, <3>1, <3>2
    <2>2. CASE k = l + 1
      <3>1. Held(n)
        <4>1. 1 \in 1 .. q
          BY <1>3
        <4> QED  BY <1>3, <4>1 DEF Held
      <3>2. Rest(n) = {}
        BY <1>2, <1>3, <3>1, RestIsFinite DEF SortInv, ReadyHeld, Counted
      <3>3. Done(j)
        BY <1>5, <2>2, <3>2 DEF Rest
      <3>4. PICK i \in 1 .. l : order[i] = From(j)
        BY <3>3 DEF Done
      <3>5. i \in 1 .. k - 1
        BY <1>3, <2>2
      <3> QED  BY <1>5, <3>4, <3>5
    <2> QED  BY <1>7, <2>1, <2>2
  <1>16. order' # <<>>
    BY <1>3, <1>5, EmptySeq
  <1> QED  BY <1>1, <1>6, <1>10, <1>12, <1>14, <1>15, <1>16 DEF SortInv

\* An edge of the node taken last is taken off.
LEMMA RelaxStep ==
  ASSUME Inv, NEW j \in DOMAIN edges, Relax(j)
  PROVE  SortInv' /\ GraphTypeOK'
  <1> DEFINE t == To(j)
             q == Len(queue)
             l == Len(order)
  <1>1. /\ phase = "relax" /\ phase' = "relax" /\ edges' = edges /\ order' = order /\ at' = j
        /\ indegree' = [indegree EXCEPT ![t] = @ - 1]
        /\ queue' = IF indegree'[t] = 0 THEN Append(queue, t) ELSE queue
        /\ UNCHANGED <<color, stack>>
    BY DEF Relax, searching, Enqueue
  <1>2. GraphTypeOK /\ SortInv
    BY <1>1 DEF Inv, Sorting
  <1>3. /\ order \in Seq(Vertices) /\ queue \in Seq(Vertices) /\ q \in Nat /\ l \in Nat /\ l >= 1
        /\ at \in Nat
    BY <1>1, <1>2, EmptySeq DEF GraphTypeOK, SortInv
  <1>4. \A i \in DOMAIN edges : i \in Nat /\ i >= 1 /\ From(i) \in Vertices /\ To(i) \in Vertices
    BY <1>2, Edges
  <1>5. j > at /\ From(j) = order[l]
        /\ \A i \in DOMAIN edges : i > at /\ From(i) = order[l] => i >= j
    BY DEF Relax, FirstAfter
  <1>6. /\ t \in Vertices /\ indegree'[t] = indegree[t] - 1
        /\ \A m \in Vertices : m # t => indegree'[m] = indegree[m]
    BY <1>1, <1>2, <1>4 DEF GraphTypeOK
  <1>7. ~Done(j)
    <2> SUFFICES ASSUME NEW i \in 1 .. l, order[i] = From(j), i = l => j <= at PROVE FALSE
      BY <1>1 DEF Done
    <2>1. i = l
      <3>1. l \in 1 .. l
        BY <1>3
      <3> QED  BY <1>2, <1>5, <3>1 DEF SortInv, Single
    <2> QED  BY <1>3, <1>4, <1>5, <2>1
  <1>8. ASSUME NEW e \in DOMAIN edges PROVE Done(e)' <=> (Done(e) \/ e = j)
    <2>1. Done(e) <=> \E i \in 1 .. l : order[i] = From(e) /\ (i = l => e <= at)
      BY <1>1 DEF Done
    <2>2. Done(e)' <=> \E i \in 1 .. l : order[i] = From(e) /\ (i = l => e <= j)
      BY <1>1 DEF Done, From
    <2>3. CASE From(e) = order[l]
      <3>1. e <= j <=> (e <= at \/ e = j)
        BY <1>3, <1>4, <1>5, <2>3
      <3>2. \A i \in 1 .. l : order[i] = From(e) => i = l
        <4>1. l \in 1 .. l
          BY <1>3
        <4> QED  BY <1>2, <2>3, <4>1 DEF SortInv, Single
      <3>3. l \in 1 .. l
        BY <1>3
      <3> QED  BY <2>1, <2>2, <2>3, <3>1, <3>2, <3>3
    <2>4. CASE From(e) # order[l]
      <3>1. e # j
        BY <1>5, <2>4
      <3>2. \A i \in 1 .. l : order[i] = From(e) => i # l
        BY <2>4
      <3> QED  BY <2>1, <2>2, <3>1, <3>2
    <2> QED  BY <2>3, <2>4
  <1>9. j \in Rest(t) /\ Rest(t)' = Rest(t) \ {j}
        /\ \A m \in Vertices : m # t => Rest(m)' = Rest(m)
    BY <1>1, <1>7, <1>8 DEF Rest, To
  <1> HIDE DEF t
  <1>10. /\ indegree[t] # 0 /\ indegree[t] - 1 \in Nat
         /\ Cardinality(Rest(t)') = indegree[t] - 1
    <2>1. IsFiniteSet(Rest(t)) /\ indegree[t] = Cardinality(Rest(t)) /\ indegree[t] \in Nat
      BY <1>2, <1>6, RestIsFinite DEF SortInv, Counted
    <2>2. indegree[t] # 0
      BY <1>2, <1>9, <2>1, RestIsFinite
    <2>3. Cardinality(Rest(t) \ {j}) = Cardinality(Rest(t)) - 1
      <3> DEFINE S == Rest(t)
      <3>1. IsFiniteSet(S) /\ j \in S
        BY <1>9, <2>1
      <3> HIDE DEF S
      <3>2. Cardinality(S \ {j}) = Cardinality(S) - 1
        BY <3>1, FS_RemoveElement
      <3> QED  BY <3>2 DEF S
    <2>4. Cardinality(Rest(t)') = Cardinality(Rest(t)) - 1
      <3>1. Rest(t)' = Rest(t) \ {j}
        BY <1>9
      <3> QED  BY <2>3, <3>1
    <2>5. indegree[t] - 1 \in Nat
      BY <2>1, <2>2
    <2> QED  BY <2>1, <2>2, <2>4, <2>5
  <1>11. Counted'
    <2> SUFFICES ASSUME NEW m \in Vertices PROVE indegree'[m] = Cardinality(Rest(m)')
      BY DEF Counted
    <2>1. CASE m = t
      <3>0. t' = t
        BY <1>1 DEF t, To
      <3>1. Rest(m)' = Rest(t)'
        BY <2>1, <3>0 DEF Rest
      <3>2. indegree'[m] = indegree[t] - 1
        BY <1>6, <2>1
      <3> QED  BY <1>10, <3>1, <3>2
    <2>2. CASE m # t
      BY <1>2, <1>6, <1>9, <2>2 DEF SortInv, Counted
    <2> QED  BY <2>1, <2>2
  <1>12. indegree' \in [Vertices -> Nat]
    BY <1>1, <1>2, <1>6, <1>10 DEF GraphTypeOK
  <1>13. ~Held(t)
    BY <1>2, <1>6, <1>10 DEF SortInv, ReadyHeld
  <1>14. Topological' /\ NoCircle' /\ order' # <<>> /\ at' \in Nat
    BY <1>1, <1>2, <1>4, SameNoCircle DEF SortInv, Topological, From, To
  <1>15. CASE indegree'[t] = 0
    <2>1. /\ queue' \in Seq(Vertices) /\ Len(queue') = q + 1 /\ queue'[q + 1] = t
          /\ \A i \in 1 .. q : queue'[i] = queue[i]
      BY <1>1, <1>3, <1>6, <1>15
    <2>2. \A i \in 1 .. q + 1 : i \in 1 .. q \/ i = q + 1
      BY <1>3
    <2>3. Single'
      BY <1>1, <1>2, <1>13, <2>1, <2>2 DEF SortInv, Single, Held
    <2>4. \A m \in Vertices : Held(m)' <=> Held(m) \/ m = t
      <3>1. \A i \in 1 .. q : i \in 1 .. q + 1
        BY <1>3
      <3>2. q + 1 \in 1 .. q + 1
        BY <1>3
      <3> QED  BY <1>1, <2>1, <2>2, <3>1, <3>2 DEF Held
    <2>5. ReadyHeld'
      BY <1>1, <1>2, <1>6, <1>13, <1>15, <2>4 DEF SortInv, ReadyHeld
    <2>6. GraphTypeOK'
      BY <1>1, <1>2, <1>12, <1>14, <2>1 DEF GraphTypeOK
    <2> QED  BY <1>1, <1>11, <1>14, <2>3, <2>5, <2>6 DEF SortInv
  <1>16. CASE indegree'[t] # 0
    <2>1. queue' = queue
      BY <1>1, <1>16
    <2>2. Single'
      BY <1>1, <1>2, <2>1 DEF SortInv, Single
    <2>3. \A m \in Vertices : Held(m)' <=> Held(m)
      BY <1>1, <2>1 DEF Held
    <2>4. ReadyHeld'
      BY <1>1, <1>2, <1>6, <1>10, <1>16, <2>3 DEF SortInv, ReadyHeld
    <2>5. GraphTypeOK'
      BY <1>1, <1>2, <1>12, <1>14, <2>1 DEF GraphTypeOK
    <2> QED  BY <1>1, <1>11, <1>14, <2>2, <2>4, <2>5 DEF SortInv
  <1> QED  BY <1>15, <1>16

\* All edges of the node taken last are off.
LEMMA RelaxedStep == Inv /\ Relaxed => SortInv' /\ GraphTypeOK'
  <1> SUFFICES ASSUME Inv, Relaxed PROVE SortInv' /\ GraphTypeOK'
    OBVIOUS
  <1> DEFINE l == Len(order)
  <1>1. /\ phase = "relax" /\ phase' = "take" /\ edges' = edges
        /\ UNCHANGED <<color, stack, indegree, queue, order, at>>
    BY DEF Relaxed, searching, sorting
  <1>2. GraphTypeOK /\ SortInv
    BY <1>1 DEF Inv, Sorting
  <1>3. \A j \in DOMAIN edges : Done(j)' <=> Done(j)
    <2> SUFFICES ASSUME NEW j \in DOMAIN edges PROVE Done(j)' <=> Done(j)
      OBVIOUS
    <2>1. j \in Nat /\ at \in Nat
      BY <1>2, Edges DEF GraphTypeOK
    <2>2. From(j) = order[l] => j <= at
      BY <2>1 DEF Relaxed, NoneAfter
    <2> QED  BY <1>1, <2>2 DEF Done, From
  <1>4. Counted' /\ NoCircle'
    BY <1>1, <1>2, <1>3, SameCounts, SameNoCircle DEF SortInv
  <1>5. Single' /\ Topological'
    BY <1>1, <1>2 DEF SortInv, Single, Topological, From, To
  <1>6. ReadyHeld'
    BY <1>1, <1>2 DEF SortInv, ReadyHeld, Held
  <1> QED  BY <1>1, <1>2, <1>4, <1>5, <1>6 DEF SortInv, GraphTypeOK

\* A queue that is empty leaves no node out: those left would be a circle.
LEMMA FinishStep == Inv /\ SortEnds => SortInv' /\ GraphTypeOK'
  <1> SUFFICES ASSUME Inv, SortEnds PROVE SortInv' /\ GraphTypeOK'
    OBVIOUS
  <1> DEFINE l == Len(order)
             R == {n \in Vertices : \A i \in 1 .. l : order[i] # n}
  <1>1. /\ phase = "take" /\ queue = <<>> /\ edges' = edges
        /\ phase' = IF l # Size THEN "incomplete" ELSE "ordered"
        /\ UNCHANGED <<color, stack, indegree, queue, order, at>>
    BY DEF SortEnds, searching, sorting
  <1>2. GraphTypeOK /\ SortInv
    BY <1>1 DEF Inv, Sorting
  <1>3. order \in Seq(Vertices) /\ l \in Nat
    BY <1>2 DEF GraphTypeOK
  <1>4. Backward(R)
    <2> SUFFICES ASSUME NEW n \in R
                 PROVE  \E j \in DOMAIN edges : To(j) = n /\ From(j) \in R
      BY DEF Backward
    <2>1. ~Held(n)
      BY <1>1 DEF Held
    <2>2. indegree[n] # 0
      BY <1>1, <1>2, <2>1 DEF SortInv, ReadyHeld
    <2>3. Rest(n) # {}
      BY <1>2, <2>2, RestIsFinite DEF SortInv, Counted
    <2>4. PICK j \in DOMAIN edges : To(j) = n /\ ~Done(j)
      BY <2>3 DEF Rest
    <2>5. From(j) \in Vertices /\ \A i \in 1 .. l : order[i] # From(j)
      BY <1>1, <1>2, <2>4, Edges DEF Done
    <2> QED  BY <2>4, <2>5
  <1>5. R = {}
    <2>1. R \in SUBSET Vertices
      OBVIOUS
    <2> HIDE DEF R
    <2> QED  BY <1>2, <1>4, <2>1 DEF SortInv, NoCircle
  <1>6. \A n \in Vertices : \E i \in 1 .. l : order[i] = n
    BY <1>5
  <1>7. l = Size
    <2>1. order \in [1 .. l -> Vertices]
      BY <1>3
    <2>2. order \in Bijection(1 .. l, Vertices)
      <3>1. order \in Injection(1 .. l, Vertices)
        BY <1>2, <2>1 DEF SortInv, Single, Injection, IsInjective
      <3>2. order \in Surjection(1 .. l, Vertices)
        BY <1>6, <2>1 DEF Surjection
      <3> QED  BY <3>1, <3>2 DEF Bijection
    <2>3. Cardinality(Vertices) = l
      BY <1>3, <2>2, FS_CountingElements DEF ExistsBijection
    <2>4. Cardinality(Vertices) = Size
      BY FS_Interval, GraphAssumption DEF Vertices
    <2> QED  BY <2>3, <2>4
  <1>8. \A j \in DOMAIN edges : Done(j)' <=> Done(j)
    BY <1>1 DEF Done, From
  <1>9. Counted' /\ NoCircle' /\ Single' /\ Topological' /\ ReadyHeld'
    <2>1. Counted' /\ NoCircle'
      BY <1>1, <1>2, <1>8, SameCounts, SameNoCircle DEF SortInv
    <2>2. Single' /\ Topological'
      BY <1>1, <1>2 DEF SortInv, Single, Topological, From, To
    <2>3. ReadyHeld'
      BY <1>1, <1>2 DEF SortInv, ReadyHeld, Held
    <2> QED  BY <2>1, <2>2, <2>3
  <1> QED  BY <1>1, <1>2, <1>6, <1>7, <1>9 DEF SortInv, GraphTypeOK
-----------------------------------------------------------------------------
\* The types of the search.
LEMMA SearchTypes ==
  ASSUME Inv, phase = "search",
         \/ \E n \in Vertices : Root(n)
         \/ \E j \in DOMAIN edges : BackEdge(j) \/ TreeEdge(j) \/ OtherEdge(j)
         \/ Leave \/ Acyclic
  PROVE  GraphTypeOK'
  <1>0. GraphTypeOK /\ SearchInv
    BY DEF Inv
  <1>1. ASSUME NEW n \in Vertices, Root(n) PROVE GraphTypeOK'
    <2>1. [node |-> n, at |-> 0] \in Frames
      BY DEF Frames
    <2> QED  BY <1>0, <1>1, <2>1 DEF Root, GraphTypeOK, sorting
  <1>2. ASSUME NEW j \in DOMAIN edges, BackEdge(j) PROVE GraphTypeOK'
    BY <1>0, <1>2 DEF BackEdge, Look, GraphTypeOK, sorting, searching
  <1>3. ASSUME NEW j \in DOMAIN edges, TreeEdge(j) PROVE GraphTypeOK'
    <2>1. stack # <<>>
      BY <1>3 DEF TreeEdge, Look
    <2>2. Top \in Frames /\ stack \in Seq(Frames)
      BY <1>0, <2>1, OnTop
    <2>3. j \in Nat /\ To(j) \in Vertices
      BY <1>0, Edges
    <2>4. [Top EXCEPT !.at = j] \in Frames /\ [node |-> To(j), at |-> 0] \in Frames
      BY <2>2, <2>3 DEF Frames
    <2>5. stack' \in Seq(Frames)
      BY <1>3, <2>1, <2>2, <2>4, Stacks DEF TreeEdge, Looked, Pop
    <2> QED  BY <1>0, <1>3, <2>3, <2>5 DEF TreeEdge, Look, GraphTypeOK, sorting
  <1>4. ASSUME NEW j \in DOMAIN edges, OtherEdge(j) PROVE GraphTypeOK'
    <2>1. stack # <<>>
      BY <1>4 DEF OtherEdge, Look
    <2>2. Top \in Frames /\ stack \in Seq(Frames)
      BY <1>0, <2>1, OnTop
    <2>3. [Top EXCEPT !.at = j] \in Frames
      BY <1>0, <2>2, Edges DEF Frames
    <2>4. stack' \in Seq(Frames)
      BY <1>4, <2>1, <2>2, <2>3, Stacks DEF OtherEdge, Looked, Pop
    <2> QED  BY <1>0, <1>4, <2>4 DEF OtherEdge, Look, GraphTypeOK, sorting
  <1>5. ASSUME Leave PROVE GraphTypeOK'
    <2>1. stack # <<>>
      BY <1>5 DEF Leave
    <2>2. Top \in Frames /\ stack \in Seq(Frames) /\ Top.node \in Vertices
      BY <1>0, <2>1, OnTop
    <2>3. stack' \in Seq(Frames)
      BY <1>5, <2>1, <2>2, Stacks DEF Leave, Pop
    <2> QED  BY <1>0, <1>5, <2>2, <2>3 DEF Leave, GraphTypeOK, sorting
  <1>6. ASSUME Acyclic PROVE GraphTypeOK'
    <2>1. \A n \in Vertices : Cardinality(Into(n)) \in Nat
      <3> TAKE n \in Vertices
      <3>1. IsFiniteSet(1 .. Len(edges)) /\ Into(n) \in SUBSET (1 .. Len(edges))
        BY <1>0, Edges, FS_Interval DEF Into
      <3> QED  BY <3>1, FS_Subset, FS_CardinalityType
    <2> QED  BY <1>0, <1>6, <2>1 DEF Acyclic, GraphTypeOK, searching
  <1> QED  BY <1>1, <1>2, <1>3, <1>4, <1>5, <1>6

\* The invariant of the search and of the sort.
LEMMA InvStep == Inv /\ [GraphNext]_graphVars => Inv'
  <1> SUFFICES ASSUME Inv, [GraphNext]_graphVars PROVE Inv'
    OBVIOUS
  <1>1. CASE \/ \E n \in Vertices : Root(n)
             \/ \E j \in DOMAIN edges : BackEdge(j) \/ TreeEdge(j) \/ OtherEdge(j)
             \/ Leave \/ Acyclic
    <2>1. phase = "search" /\ GraphTypeOK /\ SearchInv /\ order = <<>> /\ queue = <<>> /\ at = 0
      BY <1>1 DEF Inv, Root, BackEdge, TreeEdge, OtherEdge, Look, Leave, Acyclic
    <2>2. GraphTypeOK'
      BY <1>1, <2>1, SearchTypes
    <2>3. ASSUME NEW n \in Vertices, Root(n) PROVE Inv'
      BY <2>1, <2>2, <2>3, RootStep DEF Inv, Root, sorting, Sorting
    <2>4. ASSUME NEW j \in DOMAIN edges, BackEdge(j) PROVE Inv'
      <3>1. HasCycle /\ phase' = "cycle" /\ edges' = edges
        BY <2>1, <2>4, BackEdgeCycle DEF BackEdge, Look
      <3>2. HasCycle'
        BY <3>1 DEF HasCycle, Onward, From, To
      <3> QED  BY <2>2, <3>1, <3>2 DEF Inv, Sorting
    <2>5. ASSUME NEW j \in DOMAIN edges, TreeEdge(j) PROVE Inv'
      BY <2>1, <2>2, <2>5, TreeEdgeStep DEF Inv, TreeEdge, Look, sorting, Sorting
    <2>6. ASSUME NEW j \in DOMAIN edges, OtherEdge(j) PROVE Inv'
      BY <2>1, <2>2, <2>6, OtherEdgeStep DEF Inv, OtherEdge, Look, sorting, Sorting
    <2>7. ASSUME Leave PROVE Inv'
      BY <2>1, <2>2, <2>7, LeaveStep DEF Inv, Leave, sorting, Sorting
    <2>8. ASSUME Acyclic PROVE Inv'
      <3>1. phase' = "seed" /\ SortInv'
        BY <2>8, AcyclicStep DEF Acyclic
      <3> QED  BY <2>2, <3>1 DEF Inv
    <2> QED  BY <1>1, <2>3, <2>4, <2>5, <2>6, <2>7, <2>8
  <1>2. CASE (\E j \in DOMAIN edges : Relax(j)) \/ Seed \/ Seeded \/ Take \/ Relaxed \/ SortEnds
    <2>1. phase' \in Sorting
      BY <1>2 DEF Relax, Seed, Seeded, Take, Relaxed, SortEnds, Sorting
    <2>2. SortInv' /\ GraphTypeOK'
      BY <1>2, RelaxStep, SeedStep, SeededStep, TakeStep, RelaxedStep, FinishStep
    <2> QED  BY <2>1, <2>2 DEF Inv, Sorting
  <1>3. CASE UNCHANGED graphVars
    <2>1. UNCHANGED <<edges, phase, color, stack, indegree, queue, order, at>>
      BY <1>3 DEF graphVars
    <2>2. GraphTypeOK'
      BY <2>1 DEF Inv, GraphTypeOK
    <2>3. SearchInv => SearchInv'
      <3>1. Uncircled => Uncircled'
        BY <2>1, SameCircles
      <3> QED  BY <2>1, <3>1 DEF SearchInv, Stacked, Chained, Inspected, Blackened, From, To
    <2>4. HasCycle => HasCycle'
      BY <2>1 DEF HasCycle, Onward, From, To
    <2>5. SortInv => SortInv'
      <3>1. \A j \in DOMAIN edges : Done(j)' <=> Done(j)
        BY <2>1 DEF Done, From
      <3>2. (Counted => Counted') /\ (NoCircle => NoCircle')
        BY <2>1, <3>1, SameCounts, SameNoCircle
      <3> QED  BY <2>1, <3>2 DEF SortInv, Single, ReadyHeld, Held, Topological, From, To
    <2> QED  BY <2>1, <2>2, <2>3, <2>4, <2>5 DEF Inv
  <1> QED  BY <1>1, <1>2, <1>3 DEF GraphNext

\* It holds initially.
LEMMA InvInit == GraphInit => Inv
  <1> SUFFICES ASSUME GraphInit PROVE Inv
    OBVIOUS
  <1>1. edges \in Seq(Pairs)
    <2>1. PICK k \in 0 .. MaxEdges : edges \in [1 .. k -> Pairs]
      BY DEF GraphInit
    <2> QED  BY <2>1, SeqDef, GraphAssumption
  <1>2. GraphTypeOK
    BY <1>1 DEF GraphInit, GraphTypeOK
  <1> QED  BY <1>2, SearchStart DEF GraphInit, Inv, Sorting

(***************************************************************************)
(* Every variable has its type; an in-degree does not go below zero.       *)
(***************************************************************************)
THEOREM GraphTypeCorrect == GraphSpec => []GraphTypeOK
  <1>1. Inv => GraphTypeOK
    BY DEF Inv
  <1> QED  BY <1>1, InvInit, InvStep, PTL DEF GraphSpec

(***************************************************************************)
(* detect_cycle finds a cycle exactly when the graph has one.              *)
(***************************************************************************)
THEOREM CycleSearchIsRight == GraphSpec => []VerdictIsRight
  <1>1. Inv => VerdictIsRight
    <2> SUFFICES ASSUME Inv, phase \notin {"search", "cycle"} PROVE ~HasCycle
      BY DEF VerdictIsRight, Inv
    <2>1. NoCircle
      BY DEF Inv, GraphTypeOK, Sorting, SortInv
    <2> QED  BY <2>1 DEF NoCircle, HasCycle
  <1> QED  BY <1>1, InvInit, InvStep, PTL DEF GraphSpec

(***************************************************************************)
(* The execution order holds each node once, after all its predecessors.   *)
(***************************************************************************)
THEOREM OrderRespectsEdges == GraphSpec => []OrderIsTopological
  <1>1. Inv => OrderIsTopological
    <2> SUFFICES ASSUME Inv, phase = "ordered"
                 PROVE  /\ Len(order) = Size
                        /\ \A n \in Vertices : \E i \in 1 .. Size : order[i] = n
                        /\ \A j \in DOMAIN edges, k, m \in 1 .. Size :
                             order[k] = From(j) /\ order[m] = To(j) => k < m
      BY DEF OrderIsTopological
    <2>1. SortInv /\ Len(order) = Size
      BY DEF Inv, Sorting, SortInv
    <2>2. ASSUME NEW j \in DOMAIN edges, NEW k \in 1 .. Size, NEW m \in 1 .. Size,
                 order[k] = From(j), order[m] = To(j)
          PROVE  k < m
      <3>1. PICK i \in 1 .. m - 1 : order[i] = From(j)
        BY <2>1, <2>2 DEF SortInv, Topological
      <3>2. i \in 1 .. Size /\ i < m
        BY GraphAssumption
      <3>3. i = k
        BY <2>1, <2>2, <3>1, <3>2 DEF SortInv, Single
      <3> QED  BY <3>2, <3>3
    <2> QED  BY <2>1, <2>2 DEF SortInv
  <1> QED  BY <1>1, InvInit, InvStep, PTL DEF GraphSpec

(***************************************************************************)
(* The sort never stops short: its last check cannot fail.                 *)
(***************************************************************************)
THEOREM SortNeverFails == GraphSpec => []SortIsComplete
  <1>1. Inv => SortIsComplete
    BY DEF Inv, Sorting, SortInv, SortIsComplete
  <1> QED  BY <1>1, InvInit, InvStep, PTL DEF GraphSpec

\* Both together, on every graph.
THEOREM SortingIsRight == GraphSpec => []SortIsRight
  BY OrderRespectsEdges, SortNeverFails, PTL DEF SortIsRight

\* The search and the sort, on every graph.
THEOREM OrderingIsRight == GraphSpec => []GraphsAreOrdered
  BY CycleSearchIsRight, SortingIsRight, PTL DEF GraphsAreOrdered

-----------------------------------------------------------------------------
(***************************************************************************)
(* The runtime, which takes the nodes in that order.                       *)
(***************************************************************************)

USE ToolRuntimeAssumption
USE DEF Nodes, FailureModes, StepStatuses, Terminal, Endings

\* Every step keeps the types.
LEMMA TypeStep == TypeOK /\ [Next]_vars => TypeOK'
  <1> SUFFICES ASSUME TypeOK, [Next]_vars PROVE TypeOK'
    OBVIOUS
  <1>0. /\ tool \in Tools /\ results \in Seq(StepStatuses) /\ Len(results) \in Nat
        /\ Len(results) <= N /\ failed \in BOOLEAN /\ tries \in 0 .. MaxAttempts - 1
        /\ stored \in Rows /\ dispatched \in [Nodes -> Seq(Endings)]
        /\ hooked \subseteq {"before_run", "after_run", "on_failure"}
    BY DEF TypeOK
  <1>1. Fault => faults' \in 0 .. MaxFaults
    BY DEF TypeOK, Fault
  <1>2. ASSUME pc = "nodes", ~LoopOver
        PROVE  current \in Nodes /\ current = Len(results) + 1
    BY <1>0, <1>2 DEF LoopOver, current
  <1>3. ASSUME NEW status \in StepStatuses, Record(status), pc = "nodes", ~LoopOver
        PROVE  /\ results' \in Seq(StepStatuses) /\ Len(results') <= N
               /\ failed' \in BOOLEAN /\ tries' \in 0 .. MaxAttempts - 1
    <2> DEFINE step == IF status = "FAILED" /\ tool.policy[current] = "SKIP_NODE"
                         THEN "SKIPPED" ELSE status
    <2>1. step \in StepStatuses /\ results' = Append(results, step)
      BY <1>3 DEF Record
    <2> HIDE DEF step
    <2>2. results' \in Seq(StepStatuses) /\ Len(results') = Len(results) + 1
      BY <1>0, <2>1
    <2>3. failed' \in BOOLEAN /\ tries' = 0
      BY <1>3 DEF Record
    <2> QED  BY <1>0, <1>2, <1>3, <2>2, <2>3
  <1>4. ASSUME NEW ended \in Endings, Attempt(ended)
        PROVE  /\ dispatched' \in [Nodes -> Seq(Endings)]
               /\ UNCHANGED <<tool, stored, hooked>>
               /\ pc = "nodes" /\ ~LoopOver
    <2>1. current \in Nodes
      BY <1>2, <1>4 DEF Attempt
    <2>2. Append(dispatched[current], ended) \in Seq(Endings)
      BY <1>0, <2>1
    <2> QED  BY <1>0, <1>4, <2>1, <2>2 DEF Attempt
  <1>5. ASSUME \/ \E status \in StepStatuses : Returns(status)
               \/ Raises
        PROVE  TypeOK'
    <2>1. PICK ended \in Endings : Attempt(ended)
      BY <1>5 DEF Returns, Raises
    <2>2. /\ results' \in Seq(StepStatuses) /\ Len(results') <= N
          /\ failed' \in BOOLEAN /\ tries' \in 0 .. MaxAttempts - 1
      <3>1. CASE \E status \in StepStatuses : Record(status)
        BY <1>3, <1>4, <2>1, <3>1
      <3>2. CASE /\ tries + 1 < tool.attempts[current]
                 /\ tries' = tries + 1 /\ UNCHANGED <<results, failed>>
        <4>1. tool.attempts[current] \in 1 .. MaxAttempts
          BY <1>0, <1>2, <1>4, <2>1 DEF Tools
        <4> QED  BY <1>0, <3>2, <4>1
      <3> QED  BY <1>5, <3>1, <3>2 DEF Returns, Raises
    <2>3. UNCHANGED <<pc, faults>>
      BY <1>5 DEF Returns, Raises
    <2> QED  BY <1>4, <2>1, <2>2, <2>3 DEF TypeOK
  <1>6. ASSUME HandlerMissing PROVE TypeOK'
    BY <1>3, <1>6 DEF HandlerMissing, TypeOK
  <1>7. ASSUME ReturnsNonsense PROVE TypeOK'
    <2>1. /\ Attempt("answered") /\ Fault /\ pc' = "exc_steps"
          /\ UNCHANGED <<tries, results, failed>>
      BY <1>7 DEF ReturnsNonsense, Goto
    <2> QED  BY <1>1, <1>4, <2>1 DEF TypeOK, Labels
  <1>8. ASSUME UNCHANGED <<tool, loop>>, pc' \in Labels, stored' \in Rows,
               UNCHANGED faults \/ Fault,
               hooked' \subseteq {"before_run", "after_run", "on_failure"}
        PROVE  TypeOK'
    BY <1>1, <1>8 DEF TypeOK, loop
  <1>9. ASSUME Gate \/ CreateRun \/ BeforeHooks \/ SaveSteps \/ Finish \/ FinishFailed
        PROVE  TypeOK'
    <2>0. stored.status \in Terminal \cup {"absent", "RUNNING"}
          /\ stored.steps \in Seq(StepStatuses) /\ <<>> \in Seq(StepStatuses)
      BY <1>0 DEF Rows
    <2> HIDE DEF StepStatuses
    <2>1. stored' \in Rows
      <3>1. \A status \in Terminal \cup {"absent", "RUNNING"}, steps \in Seq(StepStatuses) :
              Row(status, steps) \in Rows
        BY DEF Row, Rows
      <3>2. CASE Gate \/ BeforeHooks
        BY <1>0, <3>2 DEF Gate, BeforeHooks
      <3>3. CASE CreateRun \/ SaveSteps
        BY <1>0, <2>0, <3>1, <3>3, ZenonT(60) DEF CreateRun, SaveSteps
      <3>4. CASE Finish \/ FinishFailed
        BY <2>0, <3>1, <3>4 DEF Finish, FinishFailed
      <3> QED  BY <1>9, <3>2, <3>3, <3>4
    <2> QED
      BY <1>0, <1>8, <1>9, <2>1
      DEF Gate, CreateRun, BeforeHooks, SaveSteps, Finish, FinishFailed, Goto, Labels
  <1>10. ASSUME ExceptionHooks \/ Reload \/ AfterHooks \/ Crash PROVE TypeOK'
    BY <1>0, <1>8, <1>10 DEF ExceptionHooks, Reload, AfterHooks, Crash, Goto, Labels
  <1>11. ASSUME RunFails, ~ReturnsNonsense PROVE TypeOK'
    BY <1>0, <1>8, <1>11
    DEF RunFails, CreateRunFails, BeforeHooksFail, SaveStepsFails, FinishFails,
        FinishFailedFails, ReloadFails, AfterHooksFail, Goto, Labels
  <1>12. CASE UNCHANGED vars
    BY <1>12 DEF TypeOK, vars
  <1> QED
    BY <1>5, <1>6, <1>7, <1>9, <1>10, <1>11, <1>12 DEF Next, Run

\* The initial state has them.
LEMMA TypeInit == Init => TypeOK
  <1> SUFFICES ASSUME Init PROVE TypeOK
    OBVIOUS
  <1>1. <<>> \in Seq(StepStatuses) /\ Len(<<>>) = 0 /\ <<>> \in Seq(Endings)
    OBVIOUS
  <1>2. stored \in Rows
    BY <1>1 DEF Init, Row, Rows
  <1>3. dispatched \in [Nodes -> Seq(Endings)]
    BY <1>1 DEF Init
  <1>4. results \in Seq(StepStatuses) /\ Len(results) <= N
    BY <1>1 DEF Init
  <1>5. tries \in 0 .. MaxAttempts - 1 /\ faults \in 0 .. MaxFaults
    BY DEF Init
  <1>6. pc \in Labels /\ failed \in BOOLEAN
    BY DEF Init, Labels
  <1>7. tool \in Tools /\ hooked = {}
    BY DEF Init
  <1> QED  BY <1>2, <1>3, <1>4, <1>5, <1>6, <1>7 DEF TypeOK

(***************************************************************************)
(* The variables of ToolRuntime keep their types, for every graph and      *)
(* every bound.                                                            *)
(***************************************************************************)
THEOREM TypeCorrect == Spec => []TypeOK
  BY TypeInit, TypeStep, PTL DEF Spec

-----------------------------------------------------------------------------
(***************************************************************************)
(* The invariant behind the three safety properties.  It says what the     *)
(* steps so far look like, which row each stage of the run meets, and how  *)
(* often the handlers were called, the current node's among them.          *)
(***************************************************************************)
Stands(n) == ~(results[n] = "FAILED" /\ tool.policy[n] = "FAIL_GRAPH")

\* Only the last step can have failed the graph.
StepsStand ==
  \A n \in 1 .. Len(results) : Stands(n) \/ (failed /\ n = Len(results))

StageRow ==
  /\ pc \in {"gate", "create"} => stored.status = "absent"
  /\ pc \in {"before", "nodes", "finish", "exc_steps", "exc_finish"}
       => stored.status = "RUNNING"
  /\ pc \in {"gate", "create", "before"} => ~failed /\ Len(results) = 0
  /\ pc = "finish" => LoopOver /\ stored.steps = results

\* Where the nodes stand: handlers of later nodes were not called, and the
\* attempts at the current one all raised.
Calls ==
  /\ \A n \in Nodes : n > current => dispatched[n] = <<>>
  /\ pc \in {"gate", "create", "before", "nodes"} /\ current \in Nodes =>
       /\ tries < tool.attempts[current]
       /\ Len(dispatched[current]) = tries
       /\ \A m \in 1 .. tries : dispatched[current][m] = "raised"
  /\ failed /\ current \in Nodes => dispatched[current] = <<>>
  /\ failed => tries = 0

RunInv == /\ TypeOK /\ StepsStand /\ StageRow /\ Calls
          /\ OnlyExceptionsAreRetried /\ CompletedMeansAllStepsStand

\* A step outside the loop over the nodes.
LEMMA QuietRun ==
  ASSUME RunInv, TypeOK', UNCHANGED <<tool, loop>>,
         pc' \in {"gate", "create", "before", "nodes"}
           => pc \in {"gate", "create", "before", "nodes"}
  PROVE  StepsStand' /\ Calls' /\ OnlyExceptionsAreRetried'
  BY DEF RunInv, StepsStand, Stands, Calls, OnlyExceptionsAreRetried, loop, current

\* The loop is over and no failure ended it: every step stands.
LEMMA AllStand ==
  ASSUME RunInv, LoopOver, ~failed
  PROVE  /\ Len(results) = N
         /\ \A n \in Nodes : tool.policy[n] = "FAIL_GRAPH" => results[n] # "FAILED"
  BY DEF RunInv, StepsStand, Stands, LoopOver

\* A step of the current node is recorded.
LEMMA Recorded ==
  ASSUME RunInv, TypeOK', pc = "nodes", ~LoopOver, pc' = pc, UNCHANGED <<tool, stored>>,
         NEW status \in StepStatuses, Record(status),
         \A n \in Nodes : n # current => dispatched'[n] = dispatched[n],
         OnlyExceptionsAreRetried'
  PROVE  RunInv'
  <1>0. /\ results \in Seq(StepStatuses) /\ Len(results) \in Nat /\ Len(results) < N
        /\ ~failed /\ current = Len(results) + 1 /\ current \in Nodes
        /\ tool \in Tools /\ stored.status = "RUNNING"
    BY DEF RunInv, TypeOK, LoopOver, current, StageRow
  <1> DEFINE step == IF status = "FAILED" /\ tool.policy[current] = "SKIP_NODE"
                       THEN "SKIPPED" ELSE status
  <1>1. step \in StepStatuses /\ results' = Append(results, step)
    BY DEF Record
  <1>2. /\ Len(results') = Len(results) + 1 /\ results'[current] = step
        /\ \A n \in 1 .. Len(results) : results'[n] = results[n]
    <2> HIDE DEF step
    <2> QED  BY <1>0, <1>1
  <1>3. failed' = (status = "FAILED" /\ tool.policy[current] = "FAIL_GRAPH") /\ tries' = 0
    BY DEF Record
  <1>4. StepsStand'
    <2> SUFFICES ASSUME NEW n \in 1 .. Len(results')
                 PROVE  \/ ~(results'[n] = "FAILED" /\ tool'.policy[n] = "FAIL_GRAPH")
                        \/ failed' /\ n = Len(results')
      BY DEF StepsStand, Stands
    <2>1. CASE n = current
      BY <1>0, <1>2, <1>3, <2>1
    <2>2. CASE n \in 1 .. Len(results)
      BY <1>0, <1>2, <2>2 DEF RunInv, StepsStand, Stands
    <2> QED  BY <1>0, <1>2, <2>1, <2>2
  <1>5. StageRow' /\ CompletedMeansAllStepsStand'
    BY <1>0 DEF StageRow, CompletedMeansAllStepsStand
  <1>6. Calls'
    <2>1. current' = current + 1
      BY <1>0, <1>2 DEF current
    <2>2. \A n \in Nodes : n > current => dispatched'[n] = <<>>
      BY <1>0 DEF RunInv, Calls
    <2>3. current' \in Nodes => dispatched'[current'] = <<>>
      BY <1>0, <2>1, <2>2
    <2>4. current' \in Nodes => tool.attempts[current'] \in 1 .. MaxAttempts
      BY <1>0 DEF Tools
    <2> QED  BY <1>0, <1>3, <2>1, <2>2, <2>3, <2>4 DEF Calls
  <1> QED  BY <1>4, <1>5, <1>6 DEF RunInv

\* An attempt adds one call to the current node.
LEMMA Attempted ==
  ASSUME RunInv, NEW ended \in Endings, Attempt(ended)
  PROVE  /\ current \in Nodes /\ ~failed /\ tool.attempts[current] \in Nat
         /\ tries + 1 <= tool.attempts[current] /\ tries \in Nat
         /\ Len(dispatched'[current]) = tries + 1
         /\ dispatched'[current][tries + 1] = ended
         /\ \A m \in 1 .. tries : dispatched'[current][m] = "raised"
         /\ \A n \in Nodes : n # current => dispatched'[n] = dispatched[n]
         /\ OnlyExceptionsAreRetried'
  <1>0. /\ results \in Seq(StepStatuses) /\ Len(results) \in Nat /\ pc = "nodes"
        /\ ~LoopOver /\ dispatched \in [Nodes -> Seq(Endings)] /\ Len(results) <= N
        /\ dispatched' = [dispatched EXCEPT ![current] = Append(@, ended)]
        /\ tool' = tool /\ tries \in Nat /\ tool \in Tools
    BY DEF RunInv, TypeOK, Attempt
  <1>1. current \in Nodes /\ ~failed
    BY <1>0 DEF LoopOver, current
  <1>2. /\ tries < tool.attempts[current] /\ tool.attempts[current] \in Nat
        /\ Len(dispatched[current]) = tries
        /\ \A m \in 1 .. tries : dispatched[current][m] = "raised"
    BY <1>0, <1>1 DEF RunInv, Calls, Tools
  <1>3. /\ dispatched'[current] = Append(dispatched[current], ended)
        /\ dispatched[current] \in Seq(Endings)
        /\ \A n \in Nodes : n # current => dispatched'[n] = dispatched[n]
    BY <1>0, <1>1
  <1>4. /\ Len(dispatched'[current]) = tries + 1
        /\ dispatched'[current][tries + 1] = ended
        /\ \A m \in 1 .. tries : dispatched'[current][m] = "raised"
    BY <1>0, <1>2, <1>3
  <1>5. OnlyExceptionsAreRetried'
    <2> SUFFICES ASSUME NEW n \in Nodes
                 PROVE  /\ Len(dispatched'[n]) <= tool.attempts[n]
                        /\ \A m \in 1 .. Len(dispatched'[n]) - 1 :
                             dispatched'[n][m] = "raised"
      BY <1>0 DEF OnlyExceptionsAreRetried
    <2>1. CASE n = current
      BY <1>0, <1>2, <1>4, <2>1
    <2>2. CASE n # current
      BY <1>3, <2>2 DEF RunInv, OnlyExceptionsAreRetried
    <2> QED  BY <2>1, <2>2
  <1> QED  BY <1>0, <1>1, <1>2, <1>3, <1>4, <1>5

\* The steps of a node.
LEMMA NodeSteps ==
  ASSUME RunInv, TypeOK',
         \/ \E status \in StepStatuses : Returns(status)
         \/ Raises \/ HandlerMissing \/ ReturnsNonsense
  PROVE  RunInv'
  <1>0. /\ pc = "nodes" /\ ~LoopOver /\ UNCHANGED <<tool, stored>>
        /\ stored.status = "RUNNING"
    BY DEF Returns, Raises, HandlerMissing, ReturnsNonsense, Attempt, RunInv, StageRow
  <1>1. ASSUME NEW status \in StepStatuses, Returns(status) PROVE RunInv'
    BY <1>0, <1>1, Attempted, Recorded DEF Returns
  <1>2. CASE HandlerMissing
    <2>1. Record("FAILED") /\ dispatched' = dispatched /\ pc' = pc
      BY <1>2 DEF HandlerMissing
    <2>2. OnlyExceptionsAreRetried'
      BY <1>0, <2>1 DEF RunInv, OnlyExceptionsAreRetried
    <2> QED  BY <1>0, <2>1, <2>2, Recorded
  <1>3. CASE Raises /\ Record("FAILED")
    BY <1>0, <1>3, Attempted, Recorded DEF Raises
  <1>4. CASE /\ Raises /\ tries + 1 < tool.attempts[current]
             /\ tries' = tries + 1 /\ UNCHANGED <<results, failed>>
    <2>1. Attempt("raised") /\ pc' = pc /\ current' = current
      BY <1>4 DEF Raises, current
    <2>2. Calls'
      BY <1>0, <1>4, <2>1, Attempted DEF RunInv, Calls
    <2>3. StepsStand' /\ StageRow' /\ CompletedMeansAllStepsStand'
      BY <1>0, <1>4, <2>1
      DEF RunInv, StepsStand, Stands, StageRow, CompletedMeansAllStepsStand
    <2> QED  BY <2>1, <2>2, <2>3, Attempted DEF RunInv
  <1>5. CASE ReturnsNonsense
    <2>1. /\ Attempt("answered") /\ pc' = "exc_steps" /\ current' = current
          /\ UNCHANGED <<tries, results, failed>>
      BY <1>5 DEF ReturnsNonsense, Goto, current
    <2>2. Calls'
      <3>1. \A n \in Nodes : n > current => dispatched'[n] = <<>>
        BY <2>1, Attempted DEF RunInv, Calls
      <3>2. ~failed'
        BY <2>1, Attempted
      <3> QED  BY <2>1, <3>1, <3>2 DEF Calls
    <2>3. StepsStand' /\ StageRow' /\ CompletedMeansAllStepsStand'
      BY <1>0, <2>1
      DEF RunInv, StepsStand, Stands, StageRow, CompletedMeansAllStepsStand
    <2> QED  BY <2>1, <2>2, <2>3, Attempted DEF RunInv
  <1> QED  BY <1>1, <1>2, <1>3, <1>4, <1>5 DEF Raises

\* The steps outside the loop.
LEMMA StageSteps ==
  ASSUME RunInv, TypeOK', UNCHANGED loop,
         \/ Gate \/ CreateRun \/ BeforeHooks \/ SaveSteps \/ Finish \/ FinishFailed
         \/ ExceptionHooks \/ Reload \/ AfterHooks \/ Crash
         \/ CreateRunFails \/ BeforeHooksFail \/ SaveStepsFails \/ FinishFails
         \/ FinishFailedFails \/ ReloadFails \/ AfterHooksFail
  PROVE  RunInv'
  <1>0. /\ UNCHANGED <<tool, results, failed>>
        /\ StageRow /\ CompletedMeansAllStepsStand
    BY DEF RunInv, loop, Gate, CreateRun, BeforeHooks, SaveSteps, Finish,
           FinishFailed, ExceptionHooks, Reload, AfterHooks, Crash, CreateRunFails,
           BeforeHooksFail, SaveStepsFails, FinishFails, FinishFailedFails,
           ReloadFails, AfterHooksFail
  <1>1. StepsStand' /\ Calls' /\ OnlyExceptionsAreRetried'
    <2>1. pc' \in {"gate", "create", "before", "nodes"}
            => pc \in {"gate", "create", "before", "nodes"}
      BY DEF Goto, Gate, CreateRun, BeforeHooks, SaveSteps, Finish,
             FinishFailed, ExceptionHooks, Reload, AfterHooks, Crash, CreateRunFails,
             BeforeHooksFail, SaveStepsFails, FinishFails, FinishFailedFails,
             ReloadFails, AfterHooksFail
    <2> QED  BY <1>0, <2>1, QuietRun
  <1>2. CASE Gate \/ CreateRun \/ BeforeHooks
    <2>1. StageRow' /\ CompletedMeansAllStepsStand'
      BY <1>0, <1>2
      DEF Gate, CreateRun, BeforeHooks, Goto, Row, StageRow, CompletedMeansAllStepsStand
    <2> QED  BY <1>1, <2>1 DEF RunInv
  <1>3. CASE SaveSteps
    <2>1. /\ stored' = [status |-> stored.status, steps |-> results]
          /\ stored.status = "RUNNING"
          /\ \/ pc' = "finish" /\ LoopOver
             \/ pc' = "exc_finish"
      BY <1>0, <1>3 DEF SaveSteps, Goto, Row, StageRow
    <2>2. StageRow' /\ CompletedMeansAllStepsStand'
      BY <1>0, <2>1 DEF StageRow, CompletedMeansAllStepsStand, LoopOver
    <2> QED  BY <1>1, <2>2 DEF RunInv
  <1>4. CASE Finish
    <2>1. /\ stored' = [status |-> IF failed THEN "FAILED" ELSE "COMPLETED",
                        steps |-> results]
          /\ LoopOver /\ pc' = "reload"
      BY <1>0, <1>4 DEF Finish, Goto, Row, StageRow
    <2>2. StageRow'
      BY <2>1 DEF StageRow
    <2>3. CompletedMeansAllStepsStand'
      BY <1>0, <2>1, AllStand DEF CompletedMeansAllStepsStand
    <2> QED  BY <1>1, <2>2, <2>3 DEF RunInv
  <1>5. CASE FinishFailed
    <2>1. StageRow' /\ CompletedMeansAllStepsStand'
      BY <1>0, <1>5 DEF FinishFailed, Goto, Row, StageRow, CompletedMeansAllStepsStand
    <2> QED  BY <1>1, <2>1 DEF RunInv
  <1>6. CASE \/ ExceptionHooks \/ Reload \/ AfterHooks \/ Crash
             \/ CreateRunFails \/ BeforeHooksFail \/ SaveStepsFails \/ FinishFails
             \/ FinishFailedFails \/ ReloadFails \/ AfterHooksFail
    <2>1. /\ stored' = stored
          /\ \/ pc' \in {"raised", "after", "on_failure", "returned", "dead"}
             \/ pc' = "exc_steps" /\ pc \in {"nodes", "finish"}
      BY <1>6
      DEF Goto, ExceptionHooks, Reload, AfterHooks, Crash, CreateRunFails,
          BeforeHooksFail, SaveStepsFails, FinishFails, FinishFailedFails,
          ReloadFails, AfterHooksFail
    <2>2. StageRow' /\ CompletedMeansAllStepsStand'
      BY <1>0, <2>1 DEF StageRow, CompletedMeansAllStepsStand
    <2> QED  BY <1>1, <2>2 DEF RunInv
  <1> QED  BY <1>2, <1>3, <1>4, <1>5, <1>6

\* Every step preserves the invariant.
LEMMA RunStep == RunInv /\ [Next]_vars => RunInv'
  <1> SUFFICES ASSUME RunInv, [Next]_vars PROVE RunInv'
    OBVIOUS
  <1>1. TypeOK'
    BY TypeStep DEF RunInv
  <1>2. CASE \/ \E status \in StepStatuses : Returns(status)
             \/ Raises \/ HandlerMissing \/ ReturnsNonsense
    BY <1>1, <1>2, NodeSteps
  <1>3. CASE \/ Gate \/ CreateRun \/ BeforeHooks \/ SaveSteps \/ Finish \/ FinishFailed
             \/ ExceptionHooks \/ Reload \/ AfterHooks \/ Crash
             \/ CreateRunFails \/ BeforeHooksFail \/ SaveStepsFails \/ FinishFails
             \/ FinishFailedFails \/ ReloadFails \/ AfterHooksFail
    <2>1. UNCHANGED loop
      BY <1>3
      DEF Gate, CreateRun, BeforeHooks, SaveSteps, Finish,
          FinishFailed, ExceptionHooks, Reload, AfterHooks, Crash, CreateRunFails,
          BeforeHooksFail, SaveStepsFails, FinishFails, FinishFailedFails,
          ReloadFails, AfterHooksFail
    <2> QED  BY <1>1, <1>3, <2>1, StageSteps
  <1>4. CASE UNCHANGED vars
    BY <1>4 DEF vars, RunInv, TypeOK, StepsStand, Stands, StageRow, Calls, LoopOver,
                current, OnlyExceptionsAreRetried, CompletedMeansAllStepsStand
  <1> QED  BY <1>2, <1>3, <1>4 DEF Next, Run, RunFails

\* It holds initially.
LEMMA RunInit == Init => RunInv
  <1>1. Init => TypeOK
    BY TypeInit
  <1>2. ASSUME Init PROVE Calls
    <2>1. current = 1 /\ tool.attempts[1] \in 1 .. MaxAttempts
      BY <1>2 DEF Init, current, Tools
    <2> QED  BY <1>2, <2>1 DEF Init, Calls
  <1>3. ASSUME Init PROVE OnlyExceptionsAreRetried
    <2>1. \A n \in Nodes : tool.attempts[n] \in 1 .. MaxAttempts
      BY <1>3 DEF Init, Tools
    <2> QED  BY <1>3, <2>1 DEF Init, OnlyExceptionsAreRetried
  <1>4. Init => StepsStand /\ StageRow /\ CompletedMeansAllStepsStand
    BY DEF Init, Row, StepsStand, StageRow, CompletedMeansAllStepsStand
  <1> QED  BY <1>1, <1>2, <1>3, <1>4 DEF RunInv

(***************************************************************************)
(* A run that is recorded as completed has a step for every node, none of  *)
(* which failed under FAIL_GRAPH.                                          *)
(***************************************************************************)
THEOREM CompletedRunsStand == Spec => []CompletedMeansAllStepsStand
  <1>1. RunInv => CompletedMeansAllStepsStand
    BY DEF RunInv
  <1> QED
    BY <1>1, RunInit, RunStep, PTL DEF Spec

(***************************************************************************)
(* A handler is called at most max_attempts times for a node, and never    *)
(* again once it has answered.                                             *)
(***************************************************************************)
THEOREM RetriesAreForExceptions == Spec => []OnlyExceptionsAreRetried
  <1>1. RunInv => OnlyExceptionsAreRetried
    BY DEF RunInv
  <1> QED
    BY <1>1, RunInit, RunStep, PTL DEF Spec

(***************************************************************************)
(* No handler is called after a step that failed under FAIL_GRAPH, nor     *)
(* before all earlier nodes have a step.                                   *)
(***************************************************************************)
THEOREM FailuresStopTheGraph == Spec => []FailedGraphStops
  <1>1. RunInv => FailedGraphStops
    <2> SUFFICES ASSUME RunInv, NEW m \in Nodes, NEW n \in Nodes,
                        m < n, dispatched[n] # <<>>
                 PROVE  /\ m <= Len(results)
                        /\ ~(results[m] = "FAILED" /\ tool.policy[m] = "FAIL_GRAPH")
      BY DEF FailedGraphStops
    <2>1. current = Len(results) + 1 /\ Len(results) \in Nat
      BY DEF RunInv, TypeOK, current
    <2>2. n <= current
      BY <2>1 DEF RunInv, Calls
    <2>3. m \in 1 .. Len(results)
      BY <2>1, <2>2
    <2>4. failed => n # current
      BY <2>1 DEF RunInv, Calls
    <2> QED  BY <2>1, <2>2, <2>3, <2>4 DEF RunInv, StepsStand, Stands
  <1> QED
    BY <1>1, RunInit, RunStep, PTL DEF Spec

(***************************************************************************)
(* A terminal record is final.                                             *)
(***************************************************************************)
THEOREM TerminalRecordsAreFinal == Spec => TerminalIsFinal
  <1>1. RunInv /\ [Next]_vars =>
          [stored.status \in Terminal => stored' = stored]_vars
    <2> SUFFICES ASSUME RunInv, Next, stored.status \in Terminal
                 PROVE  stored' = stored
      BY DEF vars
    <2>1. pc \notin {"gate", "create", "before", "nodes", "finish", "exc_steps",
                     "exc_finish"}
      BY DEF RunInv, StageRow
    <2> QED
      BY <2>1
      DEF Next, Run, RunFails, Gate, CreateRun, BeforeHooks, Returns, Raises, Attempt,
          HandlerMissing, ReturnsNonsense, SaveSteps, Finish, FinishFailed,
          ExceptionHooks, Reload, AfterHooks, Crash, CreateRunFails, BeforeHooksFail,
          SaveStepsFails, FinishFails, FinishFailedFails, ReloadFails, AfterHooksFail
  <1> QED
    BY <1>1, RunInit, RunStep, PTL DEF Spec, TerminalIsFinal

\* Both together, for graphs of any size and whatever raises.
THEOREM AttemptsFollowThePolicies == Spec => []AttemptsFollowPolicies
  BY RetriesAreForExceptions, FailuresStopTheGraph, PTL DEF AttemptsFollowPolicies

-----------------------------------------------------------------------------
\* The result of a node settles it, or breaks the run.
LEMMA RecordSettles ==
  ASSUME RunInv, pc = "nodes", ~LoopOver, UNCHANGED <<tool, stored>>,
         NEW status \in StepStatuses, Record(status)
  PROVE  Stepwise!Settle \/ Stepwise!Break
  <1> DEFINE step == IF status = "FAILED" /\ tool.policy[current] = "SKIP_NODE"
                       THEN "SKIPPED" ELSE status
  <1>1. /\ results \in Seq(StepStatuses) /\ Len(results) \in Nat /\ Len(results) < N
        /\ ~failed /\ stored.status = "RUNNING" /\ failed \in BOOLEAN
    BY DEF RunInv, TypeOK, LoopOver, StageRow
  <1>2. /\ results' = Append(results, step) /\ step \in StepStatuses
        /\ failed' \in BOOLEAN /\ (failed' => step = "FAILED")
    BY DEF Record
  <1> HIDE DEF step
  <1>3. N - Len(results') = N - Len(results) - 1 /\ N - Len(results) > 0
    BY <1>1, <1>2
  <1>4. Stepwise!SettleAs(step)
    BY <1>1, <1>2, <1>3 DEF Stepwise!SettleAs, Stepwise!Open
  <1>5. CASE failed'
    BY <1>2, <1>4, <1>5 DEF Stepwise!Break
  <1>6. CASE ~failed'
    BY <1>1, <1>2, <1>4, <1>6 DEF Stepwise!Settle
  <1> QED  BY <1>5, <1>6

LEMMA StepwiseStep == RunInv /\ [Next]_vars => [Stepwise!Next]_(Stepwise!vars)
  <1> SUFFICES ASSUME RunInv, [Next]_vars
               PROVE  Stepwise!Next \/ UNCHANGED Stepwise!vars
    OBVIOUS
  <1>1. StageRow /\ failed \in BOOLEAN /\ Len(results) \in Nat
    BY DEF RunInv, TypeOK
  <1>2. ASSUME UNCHANGED <<results, failed>>,
               stored'.status = stored.status \/ {stored.status, stored'.status} \cap Terminal = {}
        PROVE  UNCHANGED Stepwise!vars
    BY <1>2 DEF Stepwise!vars
  <1>3. CASE (\E status \in StepStatuses : Returns(status)) \/ Raises \/ HandlerMissing
    <2>1. pc = "nodes" /\ ~LoopOver /\ UNCHANGED <<tool, stored>>
      BY <1>3 DEF Returns, Raises, HandlerMissing, Attempt
    <2>2. CASE \E status \in StepStatuses : Record(status)
      BY <2>1, <2>2, RecordSettles DEF Stepwise!Next
    <2>3. CASE UNCHANGED <<results, failed>>
      BY <1>2, <2>1, <2>3
    <2> QED  BY <1>3, <2>2, <2>3 DEF Returns, Raises, HandlerMissing
  <1>4. CASE Finish
    <2>1. /\ UNCHANGED <<results, failed>> /\ LoopOver /\ stored.status = "RUNNING"
          /\ stored'.status = IF failed THEN "FAILED" ELSE "COMPLETED"
      BY <1>1, <1>4 DEF Finish, Row, loop, StageRow
    <2>2. CASE failed
      BY <2>1, <2>2 DEF Stepwise!Fail, Stepwise!Next
    <2>3. CASE ~failed
      <3>1. N - Len(results) = 0
        BY <1>1, <2>1, <2>3 DEF LoopOver
      <3>2. Stepwise!Open /\ {stored'.status} \cap Terminal = {"COMPLETED"}
        BY <2>1, <2>3 DEF Stepwise!Open
      <3>3. UNCHANGED <<results, N - Len(results), failed>>
        BY <2>1
      <3> QED  BY <3>1, <3>2, <3>3 DEF Stepwise!Complete, Stepwise!Next
    <2> QED  BY <2>2, <2>3
  <1>5. CASE FinishFailed
    <2>1. /\ UNCHANGED <<results, failed>> /\ stored.status = "RUNNING"
          /\ stored'.status = "FAILED"
      BY <1>1, <1>5 DEF FinishFailed, Row, loop, StageRow
    <2> QED  BY <2>1 DEF Stepwise!Fail, Stepwise!Next
  <1>6. CASE CreateRun
    BY <1>1, <1>2, <1>6 DEF CreateRun, StageRow, Row, loop
  <1>7. CASE SaveSteps
    BY <1>2, <1>7 DEF SaveSteps, Row, loop
  <1>8. CASE \/ Gate \/ BeforeHooks \/ ExceptionHooks \/ Reload \/ AfterHooks \/ Crash
             \/ RunFails
    BY <1>2, <1>8
    DEF loop, Gate, BeforeHooks, ExceptionHooks, Reload, AfterHooks, Crash, RunFails,
        CreateRunFails, BeforeHooksFail, ReturnsNonsense, SaveStepsFails, FinishFails,
        FinishFailedFails, ReloadFails, AfterHooksFail, Attempt
  <1>9. CASE UNCHANGED vars
    BY <1>2, <1>9 DEF vars
  <1> QED
    BY <1>3, <1>4, <1>5, <1>6, <1>7, <1>8, <1>9 DEF Next, Run

(***************************************************************************)
(* The runtime implements the run of steps, for graphs of any size, and    *)
(* its verdict is stored for good.                                         *)
(***************************************************************************)
THEOREM RuntimeRunsStepwise == Spec => NodesAreRunStepwise
  <1>1. Init => Stepwise!Init
    <2> SUFFICES ASSUME Init PROVE Stepwise!Init
      OBVIOUS
    <2>1. results = <<>> /\ failed = FALSE /\ stored.status = "absent"
      BY DEF Init, Row
    <2> QED  BY <2>1 DEF Stepwise!Init
  <1> QED
    BY <1>1, RunInit, RunStep, StepwiseStep, TerminalRecordsAreFinal, PTL
    DEF Spec, NodesAreRunStepwise, Stepwise!Spec
=============================================================================
