-------------------------- MODULE LeaseGateProofs --------------------------
(***************************************************************************)
(* Proofs about LeaseGate, for every set of tasks and groups and every     *)
(* depth of nesting.                                                       *)
(***************************************************************************)
EXTENDS LeaseGate, FiniteSetTheorems, SequenceTheorems, TLAPS

(***************************************************************************)
(* Blocks: what a push and a pop do to the calls in flight.                *)
(***************************************************************************)

\* The calls in flight are finitely many.
LEMMA HeldFinite ==
  /\ IsFiniteSet(Held)
  /\ \A g : IsFiniteSet(Members(g)) /\ Members(g) \subseteq Held
<1>1. IsFiniteSet(1..MaxNest)
  BY FS_Interval, NestAssumption
<1>2. IsFiniteSet(Task \X (1..MaxNest))
  BY <1>1, FS_Product, TaskAssumption
<1>3. Held \subseteq Task \X (1..MaxNest)
  BY DEF Held
<1>4. \A g : Members(g) \subseteq Held
  BY DEF Members, Held
<1>5. QED BY <1>2, <1>3, <1>4, FS_Subset

\* Entering a block appends it and changes nothing else.
LEMMA Pushed ==
  ASSUME TypeOK, NEW t \in Task, NEW k \in {"outer", "nested", "free", "window"},
         NEW g \in Group \cup {NoGroup}, Push(t, k, g)
  PROVE  /\ frames' \in [Task -> Seq(Frame)]
         /\ Len(frames'[t]) = Len(frames[t]) + 1
         /\ \A i \in 1..Len(frames[t]) : frames'[t][i] = frames[t][i]
         /\ frames'[t][Len(frames[t]) + 1].kind = k
         /\ frames'[t][Len(frames[t]) + 1].group = g
         /\ \A u \in Task \ {t} : frames'[u] = frames[u]
         /\ \A u \in Task : Len(frames[u]) \in Nat
<1> DEFINE f == [kind |-> k, group |-> g]
<1>1. frames \in [Task -> Seq(Frame)] /\ f \in Frame
  BY DEF TypeOK, Frame
<1>2. f.kind = k /\ f.group = g
  OBVIOUS
<1>3. frames' = [frames EXCEPT ![t] = Append(@, f)]
  BY DEF Push
<1> HIDE DEF f
<1>4. /\ frames' \in [Task -> Seq(Frame)]
      /\ Len(frames'[t]) = Len(frames[t]) + 1
      /\ \A i \in 1..Len(frames[t]) : frames'[t][i] = frames[t][i]
      /\ frames'[t][Len(frames[t]) + 1] = f
      /\ \A u \in Task \ {t} : frames'[u] = frames[u]
      /\ \A u \in Task : Len(frames[u]) \in Nat
  BY <1>1, <1>3
<1>5. QED BY <1>2, <1>4

\* Blocks that do not change hold the same calls.
LEMMA SameBlocks ==
  ASSUME frames' = frames
  PROVE  Held' = Held /\ \A g : Members(g)' = Members(g)
BY DEF Held, Members

\* A window, or a lease nobody counts, leaves the calls in flight as they are.
LEMMA PushUncounted ==
  ASSUME TypeOK, NEW t \in Task, NEW k \in {"free", "window"},
         Push(t, k, NoGroup)
  PROVE  Held' = Held /\ \A g : Members(g)' = Members(g)
<1> DEFINE f == [kind |-> k, group |-> NoGroup]
<1>1. frames \in [Task -> Seq(Frame)] /\ f \in Frame
  BY DEF TypeOK, Frame
<1>2. frames' = [frames EXCEPT ![t] = Append(@, f)]
  BY DEF Push
<1>3. /\ Len(frames'[t]) = Len(frames[t]) + 1
      /\ \A i \in 1..Len(frames[t]) : frames'[t][i] = frames[t][i]
      /\ frames'[t][Len(frames[t]) + 1].kind = k
      /\ \A u \in Task \ {t} : frames'[u] = frames[u]
      /\ \A u \in Task : Len(frames[u]) \in Nat
  BY <1>1, <1>2
<1>4. k \notin Counted
  BY DEF Counted
<1>5. \A u \in Task, i \in 1..MaxNest :
        /\ (i <= Len(frames'[u]) /\ frames'[u][i].kind \in Counted)
           <=> (i <= Len(frames[u]) /\ frames[u][i].kind \in Counted)
        /\ i <= Len(frames[u]) => frames'[u][i] = frames[u][i]
  BY <1>3, <1>4, NestAssumption
<1>6. QED BY <1>5 DEF Held, Members

\* A counted lease is one more call in flight, of its group and of the host.
LEMMA PushCounted ==
  ASSUME TypeOK, NEW t \in Task, NEW k \in Counted, NEW g \in Group,
         Len(frames[t]) < MaxNest, Push(t, k, g)
  PROVE  /\ <<t, Len(frames[t]) + 1>> \notin Held
         /\ <<t, Len(frames[t]) + 1>> \in Task \X (1..MaxNest)
         /\ Held' = Held \cup {<<t, Len(frames[t]) + 1>>}
         /\ Cardinality(Held') = Cardinality(Held) + 1
         /\ Cardinality(Members(g)') = Cardinality(Members(g)) + 1
         /\ \A h \in Group \ {g} : Members(h)' = Members(h)
<1> DEFINE f == [kind |-> k, group |-> g]
           n == Len(frames[t]) + 1
           c == <<t, n>>
<1>1. frames \in [Task -> Seq(Frame)] /\ f \in Frame
  BY DEF TypeOK, Frame, Counted
<1>2. frames' = [frames EXCEPT ![t] = Append(@, f)]
  BY DEF Push
<1>3. /\ Len(frames'[t]) = n
      /\ \A i \in 1..(n - 1) : frames'[t][i] = frames[t][i]
      /\ frames'[t][n].kind = k
      /\ frames'[t][n].group = g
      /\ \A u \in Task \ {t} : frames'[u] = frames[u]
      /\ \A u \in Task : Len(frames[u]) \in Nat
  BY <1>1, <1>2
<1>4. n \in 1..MaxNest
  BY <1>3, NestAssumption
<1>5. c \in Task \X (1..MaxNest)
  BY <1>4
<1>6. c \notin Held /\ c \notin Members(g)
  BY <1>3 DEF Held, Members
<1>7. Held' = Held \cup {c}
  <2>1. \A u \in Task, i \in 1..MaxNest :
          (i <= Len(frames'[u]) /\ frames'[u][i].kind \in Counted)
          <=> \/ i <= Len(frames[u]) /\ frames[u][i].kind \in Counted
              \/ u = t /\ i = n
    BY <1>3, <1>4
  <2>2. \A d \in Task \X (1..MaxNest) : d \in Held' <=> d \in Held \cup {c}
    BY <2>1 DEF Held
  <2>3. QED BY <2>2, <1>5 DEF Held
<1>8. \A h \in Group : Members(h)' = IF h = g THEN Members(h) \cup {c}
                                             ELSE Members(h)
  <2> SUFFICES ASSUME NEW h \in Group
               PROVE  Members(h)' = IF h = g THEN Members(h) \cup {c}
                                             ELSE Members(h)
    OBVIOUS
  <2>1. \A u \in Task, i \in 1..MaxNest :
          (/\ i <= Len(frames'[u])
           /\ frames'[u][i].kind \in Counted
           /\ frames'[u][i].group = h)
          <=> \/ /\ i <= Len(frames[u])
                 /\ frames[u][i].kind \in Counted
                 /\ frames[u][i].group = h
              \/ u = t /\ i = n /\ h = g
    BY <1>3, <1>4
  <2>2. \A d \in Task \X (1..MaxNest) :
          d \in Members(h)' <=> d \in Members(h) \/ (d = c /\ h = g)
    BY <2>1 DEF Members
  <2>3. Members(h) \subseteq Task \X (1..MaxNest)
        /\ Members(h)' \subseteq Task \X (1..MaxNest)
    BY DEF Members
  <2>4. QED BY <2>2, <2>3, <1>5
<1>9. QED
  BY <1>5, <1>6, <1>7, <1>8, HeldFinite, FS_AddElement

\* Leaving a block removes the last one and nothing else.
LEMMA Popped ==
  ASSUME TypeOK, NEW t \in Task, Len(frames[t]) > 0, Pop(t)
  PROVE  /\ frames' \in [Task -> Seq(Frame)]
         /\ Len(frames'[t]) = Len(frames[t]) - 1
         /\ \A i \in 1..(Len(frames[t]) - 1) : frames'[t][i] = frames[t][i]
         /\ \A u \in Task \ {t} : frames'[u] = frames[u]
         /\ \A u \in Task : Len(frames[u]) \in Nat
<1> DEFINE s == frames[t]
           m == Len(s) - 1
<1>1. frames \in [Task -> Seq(Frame)] /\ s \in Seq(Frame)
  BY DEF TypeOK
<1>2. Len(s) \in Nat /\ \A u \in Task : Len(frames[u]) \in Nat
  BY <1>1
<1>3. /\ SubSeq(s, 1, m) \in Seq(Frame)
      /\ Len(SubSeq(s, 1, m)) = m
      /\ \A i \in 1..m : SubSeq(s, 1, m)[i] = s[i]
  <2>1. m \in Nat /\ \A i \in 1..m : s[i] \in Frame
    BY <1>1, <1>2
  <2>2. /\ SubSeq(s, 1, m) \in Seq(Frame)
        /\ Len(SubSeq(s, 1, m)) = IF 1 <= m THEN m - 1 + 1 ELSE 0
        /\ \A i \in 1..(m - 1 + 1) : SubSeq(s, 1, m)[i] = s[1 + i - 1]
    BY <2>1, SubSeqProperties
  <2>3. QED BY <2>1, <2>2
<1>4. /\ frames'[t] = SubSeq(s, 1, m)
      /\ \A u \in Task \ {t} : frames'[u] = frames[u]
      /\ frames' \in [Task -> Seq(Frame)]
  BY <1>1, <1>3 DEF Pop
<1>5. QED BY <1>2, <1>3, <1>4

\* Leaving a window or an uncounted lease leaves the calls in flight as they
\* are.
LEMMA PopUncounted ==
  ASSUME TypeOK, NEW t \in Task, InBlock(t), Top(t).kind \notin Counted,
         Pop(t)
  PROVE  Held' = Held /\ \A g : Members(g)' = Members(g)
<1> DEFINE n == Len(frames[t])
<1>1. frames \in [Task -> Seq(Frame)] /\ n \in Nat /\ n > 0
  BY DEF TypeOK, InBlock, Depth
<1>2. t \in Task /\ Len(frames[t]) > 0 /\ frames[t][n] = Top(t)
  BY <1>1 DEF Top, Depth
<1>3. /\ Len(frames'[t]) = n - 1
      /\ \A i \in 1..(n - 1) : frames'[t][i] = frames[t][i]
      /\ frames[t][n].kind \notin Counted
      /\ \A u \in Task \ {t} : frames'[u] = frames[u]
      /\ \A u \in Task : Len(frames[u]) \in Nat
  BY <1>1, <1>2, Popped
<1>4. \A u \in Task, i \in 1..MaxNest :
        /\ (i <= Len(frames'[u]) /\ frames'[u][i].kind \in Counted)
           <=> (i <= Len(frames[u]) /\ frames[u][i].kind \in Counted)
        /\ i <= Len(frames'[u]) => frames'[u][i] = frames[u][i]
  BY <1>1, <1>3, NestAssumption
<1>5. QED BY <1>4 DEF Held, Members

\* Leaving a counted lease is one call in flight less.
LEMMA PopCounted ==
  ASSUME TypeOK, FramesOK, NEW t \in Task, InBlock(t),
         Top(t).kind \in Counted, Pop(t),
         NEW g, g = Top(t).group,
         NEW n, n = Depth(t)
  PROVE  /\ g \in Group
         /\ <<t, n>> \in Held
         /\ Held' = Held \ {<<t, n>>}
         /\ Cardinality(Held') = Cardinality(Held) - 1
         /\ Cardinality(Members(g)') = Cardinality(Members(g)) - 1
         /\ \A h \in Group \ {g} : Members(h)' = Members(h)
<1> DEFINE c == <<t, n>>
<1>1. frames \in [Task -> Seq(Frame)] /\ n \in Nat /\ n > 0 /\ n <= MaxNest
  BY DEF TypeOK, FramesOK, InBlock, Depth
<1>2. n = Len(frames[t]) /\ Len(frames[t]) > 0 /\ frames[t][n] = Top(t)
  BY <1>1 DEF Top, Depth
<1>3. /\ Len(frames'[t]) = n - 1
      /\ \A i \in 1..(n - 1) : frames'[t][i] = frames[t][i]
      /\ frames[t][n].kind \in Counted
      /\ \A u \in Task \ {t} : frames'[u] = frames[u]
      /\ \A u \in Task : Len(frames[u]) \in Nat
  BY <1>1, <1>2, Popped
<1>4. g = frames[t][n].group /\ g \in Group /\ n \in 1..MaxNest
  BY <1>1, <1>2, <1>3, NestAssumption DEF FramesOK
<1>5. c \in Held /\ c \in Members(g)
  BY <1>1, <1>2, <1>3, <1>4 DEF Held, Members
<1>6. Held' = Held \ {c}
  <2>1. \A u \in Task, i \in 1..MaxNest :
          (i <= Len(frames'[u]) /\ frames'[u][i].kind \in Counted)
          <=> /\ i <= Len(frames[u]) /\ frames[u][i].kind \in Counted
              /\ ~(u = t /\ i = n)
    BY <1>1, <1>2, <1>3, <1>4, NestAssumption
  <2>2. \A d \in Task \X (1..MaxNest) : d \in Held' <=> d \in Held \ {c}
    BY <2>1 DEF Held
  <2>3. QED BY <2>2 DEF Held
<1>7. \A h \in Group : Members(h)' = Members(h) \ (IF h = g THEN {c} ELSE {})
  <2> SUFFICES ASSUME NEW h \in Group
               PROVE  Members(h)' = Members(h) \ (IF h = g THEN {c} ELSE {})
    OBVIOUS
  <2>1. \A u \in Task, i \in 1..MaxNest :
          (/\ i <= Len(frames'[u])
           /\ frames'[u][i].kind \in Counted
           /\ frames'[u][i].group = h)
          <=> /\ i <= Len(frames[u])
              /\ frames[u][i].kind \in Counted
              /\ frames[u][i].group = h
              /\ ~(u = t /\ i = n /\ h = g)
    BY <1>1, <1>2, <1>3, <1>4, NestAssumption
  <2>2. \A d \in Task \X (1..MaxNest) :
          d \in Members(h)' <=> d \in Members(h) /\ ~(d = c /\ h = g)
    BY <2>1 DEF Members
  <2>3. Members(h) \subseteq Task \X (1..MaxNest)
        /\ Members(h)' \subseteq Task \X (1..MaxNest)
    BY DEF Members
  <2>4. QED BY <2>2, <2>3
<1>9. Cardinality(Held') = Cardinality(Held) - 1
  BY <1>5, <1>6, HeldFinite, FS_RemoveElement
<1>10. Members(g)' = Members(g) \ {c} /\ IsFiniteSet(Members(g))
  BY <1>4, <1>7, HeldFinite
<1>11. Cardinality(Members(g)') = Cardinality(Members(g)) - 1
  BY <1>5, <1>10, FS_RemoveElement
<1>12. \A h \in Group \ {g} : Members(h)' = Members(h)
  BY <1>7
<1>13. QED BY <1>4, <1>5, <1>6, <1>9, <1>11, <1>12

\* Entering a block keeps the bounds and the groups of the blocks ...
LEMMA PushKeepsFrames ==
  ASSUME TypeOK, FramesOK, NEW t \in Task,
         NEW k \in {"outer", "nested", "free", "window"},
         NEW g \in Group \cup {NoGroup}, Push(t, k, g),
         k \in Counted => g \in Group,
         Len(frames[t]) < MaxNest, pc'[t] = "running",
         \A u \in Task \ {t} : pc'[u] = pc[u]
  PROVE  FramesOK'
<1>1. SUFFICES ASSUME NEW u \in Task
      PROVE  /\ Len(frames'[u]) <= MaxNest
             /\ pc'[u] = "absent" => frames'[u] = <<>>
             /\ pc'[u] \in {"queued", "draining", "drained"} =>
                  Len(frames'[u]) < MaxNest
             /\ \A i \in 1..Len(frames'[u]) :
                  frames'[u][i].kind \in Counted => frames'[u][i].group \in Group
  BY DEF FramesOK
<1>2. CASE u # t
  BY <1>2, Pushed DEF FramesOK
<1>3. CASE u = t
  <2>1. Len(frames'[t]) = Len(frames[t]) + 1 /\ Len(frames[t]) \in Nat
    BY Pushed
  <2>2. \A i \in 1..(Len(frames[t]) + 1) :
          frames'[t][i].kind \in Counted => frames'[t][i].group \in Group
    <3>1. SUFFICES ASSUME NEW i \in 1..(Len(frames[t]) + 1),
                          frames'[t][i].kind \in Counted
                   PROVE  frames'[t][i].group \in Group
      OBVIOUS
    <3>2. CASE i = Len(frames[t]) + 1
      BY <3>1, <3>2, Pushed
    <3>3. CASE i \in 1..Len(frames[t])
      <4>1. frames'[t][i] = frames[t][i]
        BY <3>3, Pushed
      <4>2. QED BY <3>1, <3>3, <4>1 DEF FramesOK
    <3>4. QED BY <2>1, <3>2, <3>3
  <2>3. QED BY <1>3, <2>1, <2>2, NestAssumption
<1>4. QED BY <1>2, <1>3

\* ... and entering a lease keeps the one window.
LEMMA PushKeepsWindow ==
  ASSUME TypeOK, OneWindow, NEW t \in Task,
         NEW k \in {"outer", "nested", "free"},
         NEW g \in Group \cup {NoGroup}, Push(t, k, g), mutator' = mutator
  PROVE  OneWindow'
<1>1. SUFFICES ASSUME NEW u \in Task, NEW i \in 1..Len(frames'[u]),
                      frames'[u][i].kind = "window"
      PROVE  /\ mutator = u
             /\ \A j \in 1..Len(frames'[u]) :
                  frames'[u][j].kind = "window" => i = j
  BY DEF OneWindow
<1>2. CASE u # t
  BY <1>1, <1>2, Pushed DEF OneWindow
<1>3. CASE u = t
  <2>1. /\ Len(frames'[t]) = Len(frames[t]) + 1
        /\ Len(frames[t]) \in Nat
        /\ frames'[t][Len(frames[t]) + 1].kind # "window"
        /\ \A j \in 1..Len(frames[t]) : frames'[t][j] = frames[t][j]
    BY Pushed
  <2>2. \A j \in 1..Len(frames'[t]) :
          frames'[t][j].kind = "window" => j \in 1..Len(frames[t])
    BY <2>1
  <2>3. QED BY <1>1, <1>3, <2>1, <2>2 DEF OneWindow
<1>4. QED BY <1>2, <1>3

\* Leaving a block keeps the bounds and the groups of the others ...
LEMMA PopKeepsFrames ==
  ASSUME TypeOK, FramesOK, NEW t \in Task, InBlock(t), Pop(t),
         \A u \in Task : pc'[u] # pc[u] =>
                          pc[u] = "draining" /\ pc'[u] = "drained"
  PROVE  FramesOK'
<1>1. SUFFICES ASSUME NEW u \in Task
      PROVE  /\ Len(frames'[u]) <= MaxNest
             /\ pc'[u] = "absent" => frames'[u] = <<>>
             /\ pc'[u] \in {"queued", "draining", "drained"} =>
                  Len(frames'[u]) < MaxNest
             /\ \A i \in 1..Len(frames'[u]) :
                  frames'[u][i].kind \in Counted => frames'[u][i].group \in Group
  BY DEF FramesOK
<1>2. Len(frames[t]) > 0 /\ pc[t] = "running"
  BY DEF InBlock, Depth
<1>3. CASE u # t
  <2>1. frames'[u] = frames[u]
    BY <1>2, <1>3, Popped
  <2>2. QED BY <2>1 DEF FramesOK
<1>4. CASE u = t
  <2>1. /\ Len(frames'[t]) = Len(frames[t]) - 1
        /\ Len(frames[t]) \in Nat
        /\ \A i \in 1..(Len(frames[t]) - 1) : frames'[t][i] = frames[t][i]
    BY <1>2, Popped
  <2>2. pc'[t] = "running" /\ Len(frames[t]) <= MaxNest
    BY <1>2 DEF FramesOK
  <2>3. \A i \in 1..(Len(frames[t]) - 1) :
          frames[t][i].kind \in Counted => frames[t][i].group \in Group
    BY <2>1 DEF FramesOK
  <2>4. QED BY <1>4, <2>1, <2>2, <2>3, NestAssumption
<1>5. QED BY <1>3, <1>4

\* ... and leaving a lease keeps the one window.
LEMMA PopKeepsWindow ==
  ASSUME TypeOK, OneWindow, NEW t \in Task, InBlock(t), Pop(t),
         mutator' = mutator
  PROVE  OneWindow'
<1>1. SUFFICES ASSUME NEW u \in Task, NEW i \in 1..Len(frames'[u]),
                      frames'[u][i].kind = "window"
      PROVE  /\ mutator = u
             /\ \A j \in 1..Len(frames'[u]) :
                  frames'[u][j].kind = "window" => i = j
  BY DEF OneWindow
<1>2. Len(frames[t]) > 0
  BY DEF InBlock, Depth
<1>3. CASE u # t
  <2>1. frames'[u] = frames[u]
    BY <1>2, <1>3, Popped
  <2>2. QED BY <1>1, <2>1 DEF OneWindow
<1>4. CASE u = t
  <2>1. /\ Len(frames'[t]) = Len(frames[t]) - 1
        /\ Len(frames[t]) \in Nat
        /\ \A j \in 1..(Len(frames[t]) - 1) : frames'[t][j] = frames[t][j]
    BY <1>2, Popped
  <2>2. QED BY <1>1, <1>4, <2>1 DEF OneWindow
<1>5. QED BY <1>3, <1>4

\* A group a task refers to has a call in flight, so the host has one.
LEMMA AliveMeansLeased ==
  ASSUME TypeOK, Counters, NEW g \in Group, count[g] > 0
  PROVE  leases > 0 /\ Held # {}
<1>1. Cardinality(Members(g)) > 0
  BY DEF Counters
<1>2. Members(g) # {}
  BY <1>1, FS_EmptySet
<1>3. Held # {}
  BY <1>2, HeldFinite
<1>4. QED BY <1>3, HeldFinite, FS_EmptySet, FS_CardinalityType DEF Counters, TypeOK

(***************************************************************************)
(* IInv is inductive: one lemma for each kind of step.                     *)
(***************************************************************************)

\* Steps that leave the blocks alone leave the counters right.
LEMMA SameCounters ==
  ASSUME Counters, Held' = Held, \A g : Members(g)' = Members(g),
         UNCHANGED <<count, idle, leases>>
  PROVE  Counters'
BY DEF Counters

LEMMA InitIInv == Init => IInv
<1> SUFFICES ASSUME Init PROVE IInv
  OBVIOUS
<1> USE DEF Init
<1>1. TypeOK
  <2>1. \A S : <<>> \in Seq(S)
    BY EmptySeq
  <2>2. frames \in [Task -> Seq(Frame)] /\ queue \in Seq(Task)
    BY <2>1
  <2>3. pc \in [Task -> PC] /\ ask \in [Task -> Ask]
    BY DEF PC, Ask
  <2>4. QED BY <2>2, <2>3 DEF TypeOK
<1>2. Held = {} /\ \A g : Members(g) = {}
  BY DEF Held, Members
<1>3. Counters
  BY <1>2, FS_EmptySet DEF Counters
<1>4. FramesOK
  BY NestAssumption DEF FramesOK
<1>5. GroupsAlive /\ GateHeld /\ OneWindow /\ ClosedIsQuiet
  BY DEF GroupsAlive, GateHeld, OneWindow, ClosedIsQuiet
<1>6. QED BY <1>1, <1>3, <1>4, <1>5 DEF IInv

\* Steps of the task system, the line and the drain, which touch no block
\* and no counter.
LEMMA QuietStep ==
  ASSUME IInv, NEW t \in Task,
         \/ Start(t)
         \/ \E u \in Task : Spawn(t, u)
         \/ Finish(t)
         \/ DrainAborted(t)
         \/ QueueCancelled(t)
         \/ CloseInWindow(t)
  PROVE  IInv'
<1> USE DEF IInv
<1>1. UNCHANGED <<frames, count, idle, leases>>
  BY DEF Start, Spawn, Finish, DrainAborted, QueueCancelled, CloseInWindow
<1>2. Counters'
  BY <1>1, SameBlocks, SameCounters
<1>3. TypeOK'
  <2>1. CASE QueueCancelled(t)
    <3>1. PICK i \in 1..Len(queue) :
            queue' = SubSeq(queue, 1, i - 1) \o SubSeq(queue, i + 1, Len(queue))
      BY <2>1 DEF QueueCancelled
    <3>2. queue \in Seq(Task) /\ Len(queue) \in Nat
      BY DEF TypeOK
    <3>3. /\ \A j \in 1..(i - 1) : queue[j] \in Task
          /\ \A j \in (i + 1)..Len(queue) : queue[j] \in Task
      BY <3>2
    <3>4. /\ SubSeq(queue, 1, i - 1) \in Seq(Task)
          /\ SubSeq(queue, i + 1, Len(queue)) \in Seq(Task)
      BY <3>2, <3>3, SubSeqProperties
    <3>5. queue' \in Seq(Task)
      BY <3>1, <3>4, ConcatProperties
    <3>6. QED BY <2>1, <3>5 DEF QueueCancelled, LeaveQueue, TypeOK, PC, Ask
  <2>2. CASE ~QueueCancelled(t)
    BY <2>2 DEF TypeOK, Start, Spawn, Finish, DrainAborted, CloseInWindow,
                LeaveQueue, PC, Ask
  <2>3. QED BY <2>1, <2>2
<1>4. FramesOK'
  BY <1>1 DEF TypeOK, FramesOK, Start, Spawn, Finish, DrainAborted,
              QueueCancelled, CloseInWindow, LeaveQueue
<1>5. GroupsAlive'
  BY <1>1 DEF TypeOK, GroupsAlive, Start, Spawn, Finish, DrainAborted,
              QueueCancelled, CloseInWindow
<1>6. GateHeld'
  BY <1>1, TaskAssumption
     DEF TypeOK, GateHeld, Start, Spawn, Finish, DrainAborted,
         QueueCancelled, CloseInWindow, LeaveQueue
<1>7. OneWindow'
  BY <1>1 DEF OneWindow, Start, Spawn, Finish, DrainAborted, QueueCancelled,
              CloseInWindow
<1>8. ClosedIsQuiet'
  BY <1>1, TaskAssumption
     DEF TypeOK, GateHeld, ClosedIsQuiet, Start, Spawn, Finish, DrainAborted,
         QueueCancelled, CloseInWindow, LeaveQueue
<1>9. QED BY <1>2, <1>3, <1>4, <1>5, <1>6, <1>7, <1>8

\* Entering an uncounted lease, or leaving one.
LEMMA FreeStep ==
  ASSUME IInv, NEW t \in Task, LeaseFree(t) \/ FreeExit(t)
  PROVE  IInv'
<1> USE DEF IInv
<1>1. UNCHANGED <<pc, ask, group, windowed, count, gate, queue, idle, leases,
                  mutator, closed>>
  BY DEF LeaseFree, FreeExit
<1>2. CASE LeaseFree(t)
  <2>1. Push(t, "free", NoGroup)
    BY <1>2 DEF LeaseFree
  <2>2. Counters'
    BY <1>1, <2>1, PushUncounted, SameCounters
  <2>3. frames' \in [Task -> Seq(Frame)]
    BY <2>1, Pushed
  <2>4. TypeOK'
    BY <1>1, <2>3 DEF TypeOK
  <2>5. FramesOK'
    BY <1>1, <1>2, <2>1, PushKeepsFrames DEF Counted, LeaseFree, HasRoom
  <2>6. OneWindow'
    BY <1>1, <2>1, PushKeepsWindow
  <2>7. GroupsAlive' /\ GateHeld' /\ ClosedIsQuiet'
    BY <1>1 DEF GroupsAlive, GateHeld, ClosedIsQuiet
  <2>8. QED BY <2>2, <2>4, <2>5, <2>6, <2>7
<1>3. CASE FreeExit(t)
  <2>1. Pop(t) /\ InBlock(t) /\ Top(t).kind \notin Counted /\ pc[t] = "running"
    BY <1>3 DEF FreeExit, Counted, InBlock
  <2>2. Counters'
    BY <1>1, <2>1, PopUncounted, SameCounters
  <2>3. frames' \in [Task -> Seq(Frame)]
    BY <2>1, Popped DEF InBlock, Depth
  <2>4. TypeOK'
    BY <1>1, <2>3 DEF TypeOK
  <2>5. FramesOK'
    <3>1. \A u \in Task : pc'[u] # pc[u] =>
                           pc[u] = "draining" /\ pc'[u] = "drained"
      BY <1>1
    <3>2. QED BY <2>1, <3>1, PopKeepsFrames
  <2>6. OneWindow'
    BY <1>1, <2>1, PopKeepsWindow
  <2>7. GroupsAlive' /\ GateHeld' /\ ClosedIsQuiet'
    BY <1>1 DEF GroupsAlive, GateHeld, ClosedIsQuiet
  <2>8. QED BY <2>2, <2>4, <2>5, <2>6, <2>7
<1>4. QED BY <1>2, <1>3

\* A call inside a call: the group is alive, so nobody drains to the end,
\* nobody changes the host and the host is open, without a look at the gate.
LEMMA NestedStep ==
  ASSUME IInv, NEW t \in Task, LeaseNested(t)
  PROVE  IInv'
<1> USE DEF IInv
<1> DEFINE g == group[t]
<1>1. g \in Group /\ count[g] > 0
  BY DEF LeaseNested, JoinsGroup, TypeOK, GroupsAlive
<1>2. leases > 0
  BY <1>1, AliveMeansLeased
<1>3. mutator = NoTask /\ ~closed /\ \A u \in Task : pc[u] # "drained"
  BY <1>2 DEF GateHeld, ClosedIsQuiet
<1>4. /\ UNCHANGED <<pc, ask, group, windowed, gate, queue, idle, mutator,
                     closed>>
      /\ count' = [count EXCEPT ![g] = @ + 1]
      /\ leases' = leases + 1
      /\ Push(t, "nested", g)
      /\ pc[t] = "running"
      /\ Len(frames[t]) < MaxNest
  BY DEF LeaseNested, HasRoom
<1>5. "nested" \in Counted
  BY DEF Counted
<1>6. /\ Cardinality(Held') = Cardinality(Held) + 1
      /\ \A h \in Group : Cardinality(Members(h)') =
            IF h = g THEN Cardinality(Members(h)) + 1
                     ELSE Cardinality(Members(h))
  <2> HIDE DEF g
  <2>1. QED BY <1>1, <1>4, <1>5, PushCounted
<1>7. Counters'
  BY <1>1, <1>2, <1>4, <1>6 DEF Counters, TypeOK
<1>8. /\ frames' \in [Task -> Seq(Frame)]
      /\ FramesOK'
      /\ OneWindow'
  <2> HIDE DEF g
  <2>1. QED BY <1>1, <1>4, Pushed, PushKeepsFrames, PushKeepsWindow
<1>9. TypeOK'
  BY <1>1, <1>4, <1>8 DEF TypeOK
<1>12. GroupsAlive'
  BY <1>1, <1>4 DEF GroupsAlive, TypeOK
<1>13. GateHeld' /\ ClosedIsQuiet'
  BY <1>2, <1>3, <1>4 DEF GateHeld, ClosedIsQuiet, TypeOK
<1>14. QED BY <1>7, <1>8, <1>9, <1>12, <1>13

\* The part of a lease under the gate: it starts a group while nobody holds
\* the gate, or raises because the host is closed.
LEMMA GroupStep ==
  ASSUME IInv, NEW t \in Task, gate = NoTask, PassGate(t),
         Len(frames[t]) < MaxNest,
         pc' = [pc EXCEPT ![t] = "running"],
         ask' = [ask EXCEPT ![t] = "none"],
         queue' \in Seq(Task),
         UNCHANGED <<windowed, gate, mutator, closed>>
  PROVE  IInv'
<1> USE DEF IInv
<1>1. /\ mutator = NoTask
      /\ \A u \in Task : pc[u] \notin {"draining", "drained"}
  BY TaskAssumption DEF GateHeld, TypeOK
<1>2. pc' \in [Task -> PC] /\ ask' \in [Task -> Ask]
  BY DEF TypeOK, PC, Ask
<1>3. CASE closed
  <2>1. UNCHANGED <<frames, group, count, idle, leases>>
    BY <1>3 DEF PassGate, LeaseRefused, calling
  <2>2. Counters'
    BY <2>1, SameBlocks, SameCounters
  <2>3. TypeOK' /\ FramesOK' /\ GroupsAlive' /\ OneWindow'
    BY <1>2, <2>1 DEF TypeOK, FramesOK, GroupsAlive, OneWindow
  <2>4. GateHeld' /\ ClosedIsQuiet'
    BY <1>1, <2>1, TaskAssumption DEF GateHeld, ClosedIsQuiet, TypeOK
  <2>5. QED BY <2>2, <2>3, <2>4
<1>4. CASE ~closed
  <2>1. PICK g \in Group :
          /\ count[g] = 0
          /\ Push(t, "outer", g)
          /\ group' = [group EXCEPT ![t] = g]
          /\ count' = [count EXCEPT ![g] = 1]
          /\ leases' = leases + 1
          /\ idle' = FALSE
    BY <1>4 DEF PassGate, LeaseRefused, OpenGroup
  <2>2. "outer" \in Counted
    BY DEF Counted
  <2>3. /\ Cardinality(Held') = Cardinality(Held) + 1
        /\ \A h \in Group : Cardinality(Members(h)') =
              IF h = g THEN Cardinality(Members(h)) + 1
                       ELSE Cardinality(Members(h))
    <3>1. TypeOK /\ Push(t, "outer", g)
      BY <2>1
    <3>2. /\ Cardinality(Held') = Cardinality(Held) + 1
          /\ Cardinality(Members(g)') = Cardinality(Members(g)) + 1
          /\ \A h \in Group \ {g} : Members(h)' = Members(h)
      BY <2>2, <3>1, PushCounted, Zenon
    <3>3. QED BY <3>2
  <2>4. Counters'
    BY <2>1, <2>3 DEF Counters, TypeOK
  <2>5. frames' \in [Task -> Seq(Frame)]
    BY <2>1, Pushed
  <2>6. TypeOK'
    <3>1. /\ group' \in [Task -> Group \cup {NoGroup}]
          /\ count' \in [Group -> Nat]
          /\ leases' \in Nat
      BY <2>1 DEF TypeOK
    <3>2. idle' \in BOOLEAN
      BY <2>1
    <3>3. QED BY <1>2, <2>5, <3>1, <3>2 DEF TypeOK
  <2>7. FramesOK'
    <3>1. pc'[t] = "running" /\ \A u \in Task \ {t} : pc'[u] = pc[u]
      BY DEF TypeOK
    <3>2. QED BY <2>1, <3>1, PushKeepsFrames
  <2>8. OneWindow'
    BY <2>1, PushKeepsWindow
  <2>9. GroupsAlive'
    BY <2>1 DEF GroupsAlive, TypeOK
  <2>10. GateHeld' /\ ClosedIsQuiet'
    BY <1>1, <1>4, <2>1 DEF GateHeld, ClosedIsQuiet, TypeOK
  <2>11. QED BY <2>4, <2>6, <2>7, <2>8, <2>9, <2>10
<1>5. QED BY <1>3, <1>4

\* A counted lease ends: while it was in flight nobody changed the host and
\* the host was open, so the last one out may wake the task that drains.
LEMMA ExitStep ==
  ASSUME IInv, NEW t \in Task, LeaseExit(t)
  PROVE  IInv'
<1> USE DEF IInv
<1>1. PICK g, n : g = Top(t).group /\ n = Depth(t)
  OBVIOUS
<1>2. InBlock(t) /\ Top(t).kind \in Counted /\ Pop(t)
  BY DEF LeaseExit
<1>3. /\ g \in Group
      /\ <<t, n>> \in Held
      /\ Cardinality(Held') = Cardinality(Held) - 1
      /\ Cardinality(Members(g)') = Cardinality(Members(g)) - 1
      /\ \A h \in Group \ {g} : Members(h)' = Members(h)
  BY <1>1, <1>2, PopCounted
<1>4. leases > 0
  BY <1>3, HeldFinite, FS_EmptySet, FS_CardinalityType DEF Counters, TypeOK
<1>5. count[g] > 0
  <2>1. <<t, n>> \in Members(g)
    BY <1>1, <1>2, <1>3 DEF Held, Members, Top, Depth
  <2>2. QED BY <1>3, <2>1, HeldFinite, FS_EmptySet, FS_CardinalityType
            DEF Counters, TypeOK
<1>6. /\ count' = [count EXCEPT ![g] = @ - 1]
      /\ leases' = leases - 1
      /\ idle' = (idle \/ leases = 1)
      /\ \A u \in Task : group'[u] \in {group[u], NoGroup}
      /\ \A u \in Task : group'[u] = g => count[g] # 1
      /\ group' \in [Task -> Group \cup {NoGroup}]
      /\ UNCHANGED <<ask, windowed, gate, queue, mutator, closed>>
  BY <1>1, GroupAssumption, <1>3 DEF LeaseExit, Forgets, LastOut, TypeOK
<1>7. /\ pc' \in [Task -> PC]
      /\ \A u \in Task :
           pc'[u] = IF leases = 1 /\ pc[u] = "draining" THEN "drained" ELSE pc[u]
  BY DEF LeaseExit, LastOut, TypeOK, PC
<1>8. mutator = NoTask /\ ~closed /\ \A u \in Task : pc[u] # "drained"
  BY <1>4 DEF GateHeld, ClosedIsQuiet
<1>9. Counters'
  <2>1. idle' <=> leases' = 0
    <3>1. ~(leases = 0) /\ (leases' = 0 <=> leases = 1)
      BY <1>4, <1>6 DEF TypeOK
    <3>2. ~idle
      BY <3>1 DEF Counters
    <3>3. idle' <=> leases = 1
      BY <1>6, <3>2
    <3>4. QED BY <3>1, <3>3
  <2>2. leases' = Cardinality(Held')
    BY <1>3, <1>6 DEF Counters
  <2>3. \A h \in Group : count'[h] = Cardinality(Members(h)')
    BY <1>3, <1>6 DEF Counters, TypeOK
  <2>4. QED BY <2>1, <2>2, <2>3 DEF Counters
<1>10. frames' \in [Task -> Seq(Frame)]
  BY <1>2, Popped DEF InBlock, Depth
<1>11. TypeOK'
  <2>1. count' \in [Group -> Nat] /\ leases' \in Nat
    BY <1>3, <1>4, <1>5, <1>6 DEF TypeOK
  <2>2. idle' \in BOOLEAN
    BY <1>6
  <2>3. QED BY <1>6, <1>7, <1>10, <2>1, <2>2 DEF TypeOK
<1>12. FramesOK'
  <2>1. \A u \in Task : pc'[u] # pc[u] =>
                         pc[u] = "draining" /\ pc'[u] = "drained"
    BY <1>7
  <2>2. QED BY <1>2, <2>1, PopKeepsFrames
<1>13. OneWindow'
  BY <1>2, <1>6, PopKeepsWindow
<1>14. GroupsAlive'
  <2>1. SUFFICES ASSUME NEW u \in Task, group'[u] # NoGroup
                 PROVE  count'[group'[u]] > 0
    BY DEF GroupsAlive
  <2>2. group'[u] = group[u] /\ group[u] \in Group /\ count[group[u]] > 0
    BY <1>6, <2>1 DEF TypeOK, GroupsAlive
  <2>3. QED BY <1>3, <1>6, <2>2 DEF TypeOK
<1>15. GateHeld' /\ ClosedIsQuiet'
  BY <1>4, <1>6, <1>7, <1>8 DEF GateHeld, ClosedIsQuiet, TypeOK
<1>16. QED BY <1>9, <1>11, <1>12, <1>13, <1>14, <1>15

\* The window opens: the task has the gate to itself and no call is in flight.
LEMMA OpenStep ==
  ASSUME IInv, NEW t \in Task, NEW a \in {"mutate", "close"},
         mutator = NoTask, leases = 0, Len(frames[t]) < MaxNest,
         ~MutationRefused(a), OpenWindow(t, a),
         \A u \in Task \ {t} : pc[u] \notin {"draining", "drained"},
         pc' = [pc EXCEPT ![t] = "running"],
         ask' = [ask EXCEPT ![t] = "none"],
         gate' = t, queue' \in Seq(Task),
         UNCHANGED <<group, count, idle, leases>>
  PROVE  IInv'
<1> USE DEF IInv
<1>1. /\ mutator' = t
      /\ windowed' = {t}
      /\ closed' = (closed \/ a = "close")
      /\ Push(t, "window", NoGroup)
  BY DEF OpenWindow
<1>2. Counters'
  BY <1>1, PushUncounted, SameCounters
<1>3. pc' \in [Task -> PC] /\ ask' \in [Task -> Ask]
  BY DEF TypeOK, PC, Ask
<1>4. TypeOK'
  <2>1. frames' \in [Task -> Seq(Frame)]
    BY <1>1, Pushed
  <2>2. closed' \in BOOLEAN
    BY <1>1 DEF TypeOK
  <2>3. QED BY <1>1, <1>3, <2>1, <2>2 DEF TypeOK
<1>5. FramesOK'
  <2>1. pc'[t] = "running" /\ \A u \in Task \ {t} : pc'[u] = pc[u]
    BY DEF TypeOK
  <2>2. QED BY <1>1, <2>1, PushKeepsFrames DEF Counted
<1>6. OneWindow'
  <2>1. \A u \in Task : \A i \in 1..Len(frames[u]) : frames[u][i].kind # "window"
    BY TaskAssumption DEF OneWindow
  <2>2. /\ Len(frames'[t]) = Len(frames[t]) + 1
        /\ \A i \in 1..Len(frames[t]) : frames'[t][i] = frames[t][i]
        /\ \A u \in Task \ {t} : frames'[u] = frames[u]
        /\ Len(frames[t]) \in Nat
    BY <1>1, Pushed
  <2>3. \A u \in Task : \A i \in 1..Len(frames'[u]) :
          frames'[u][i].kind = "window" => u = t /\ i = Len(frames[t]) + 1
    <3>1. SUFFICES ASSUME NEW u \in Task, NEW i \in 1..Len(frames'[u]),
                          frames'[u][i].kind = "window"
                   PROVE  u = t /\ i = Len(frames[t]) + 1
      OBVIOUS
    <3>2. CASE u # t
      BY <2>1, <2>2, <3>1, <3>2
    <3>3. CASE u = t /\ i \in 1..Len(frames[t])
      BY <2>1, <2>2, <3>1, <3>3
    <3>4. QED BY <2>2, <3>1, <3>2, <3>3
  <2>4. QED BY <1>1, <2>3 DEF OneWindow
<1>7. GroupsAlive'
  BY DEF GroupsAlive
<1>8. GateHeld' /\ ClosedIsQuiet'
  BY <1>1, TaskAssumption DEF GateHeld, ClosedIsQuiet, TypeOK
<1>9. QED BY <1>2, <1>4, <1>5, <1>6, <1>7, <1>8

\* A task has acquired the gate for a change.
LEMMA HoldStep ==
  ASSUME IInv, NEW t \in Task, NEW a \in {"mutate", "close"},
         gate = NoTask, pc[t] # "absent", Len(frames[t]) < MaxNest,
         HoldGate(t, a), queue' \in Seq(Task),
         UNCHANGED <<group, count, idle, leases>>
  PROVE  IInv'
<1> USE DEF IInv
<1>1. /\ mutator = NoTask
      /\ \A u \in Task : pc[u] \notin {"draining", "drained"}
  BY TaskAssumption DEF GateHeld, TypeOK
<1>2. CASE ~MutationRefused(a) /\ idle
  <2>1. leases = 0
    BY <1>2 DEF Counters
  <2>2. QED BY <1>1, <1>2, <2>1, OpenStep DEF HoldGate, Quiet
<1>3. CASE MutationRefused(a) \/ ~idle
  <2>1. UNCHANGED <<mutator, windowed, closed, frames>>
    BY <1>3 DEF HoldGate, Quiet
  <2>2. \/ /\ pc' = [pc EXCEPT ![t] = "running"]
           /\ ask' = [ask EXCEPT ![t] = "none"]
           /\ gate' = NoTask
        \/ /\ pc' = [pc EXCEPT ![t] = "draining"]
           /\ ask' = [ask EXCEPT ![t] = a]
           /\ gate' = t
           /\ leases > 0
           /\ ~MutationRefused(a)
    BY <1>3 DEF HoldGate, Quiet, Counters, TypeOK
  <2>3. pc' \in [Task -> PC] /\ ask' \in [Task -> Ask]
    BY <2>2 DEF TypeOK, PC, Ask
  <2>4. Counters'
    BY <2>1, SameBlocks, SameCounters
  <2>5. TypeOK'
    BY <2>1, <2>2, <2>3 DEF TypeOK
  <2>6. FramesOK'
    BY <2>1, <2>2 DEF FramesOK, TypeOK
  <2>7. OneWindow' /\ GroupsAlive'
    BY <2>1 DEF OneWindow, GroupsAlive
  <2>8. GateHeld'
    BY <1>1, <2>1, <2>2, TaskAssumption DEF GateHeld, TypeOK
  <2>9. ClosedIsQuiet'
    BY <1>1, <2>1, <2>2 DEF ClosedIsQuiet, MutationRefused, TypeOK
  <2>10. QED BY <2>4, <2>5, <2>6, <2>7, <2>8, <2>9
<1>4. QED BY <1>2, <1>3

\* The window closes and releases the gate: it was the only window, so its
\* task was the mutator and no other task is at the gate.
LEMMA WindowExitStep ==
  ASSUME IInv, NEW t \in Task, WindowExit(t)
  PROVE  IInv'
<1> USE DEF IInv
<1>1. /\ InBlock(t) /\ Top(t).kind = "window" /\ Pop(t)
      /\ windowed' = {} /\ mutator' = NoTask /\ gate' = NoTask
      /\ UNCHANGED <<pc, ask, group, count, queue, idle, leases, closed>>
  BY DEF WindowExit
<1>2. Counters'
  BY <1>1, PopUncounted, SameCounters DEF Counted
<1>3. /\ frames' \in [Task -> Seq(Frame)]
      /\ Len(frames'[t]) = Len(frames[t]) - 1
      /\ \A i \in 1..(Len(frames[t]) - 1) : frames'[t][i] = frames[t][i]
      /\ \A u \in Task \ {t} : frames'[u] = frames[u]
      /\ Len(frames[t]) \in Nat /\ Len(frames[t]) > 0
      /\ frames[t][Len(frames[t])].kind = "window"
  BY <1>1, Popped DEF InBlock, Top, Depth
<1>4. mutator = t
  BY <1>3 DEF OneWindow
<1>5. TypeOK'
  BY <1>1, <1>3 DEF TypeOK
<1>6. FramesOK'
  <2>1. \A u \in Task : pc'[u] # pc[u] =>
                         pc[u] = "draining" /\ pc'[u] = "drained"
    BY <1>1
  <2>2. QED BY <1>1, <2>1, PopKeepsFrames
<1>7. OneWindow'
  <2>1. \A u \in Task : \A i \in 1..Len(frames'[u]) :
          frames'[u][i].kind # "window"
    <3>1. SUFFICES ASSUME NEW u \in Task, NEW i \in 1..Len(frames'[u]),
                          frames'[u][i].kind = "window"
                   PROVE  FALSE
      OBVIOUS
    <3>2. CASE u # t
      <4>1. frames'[u] = frames[u]
        BY <1>3, <3>2
      <4>2. mutator = u
        BY <3>1, <4>1 DEF OneWindow
      <4>3. QED BY <1>4, <3>2, <4>2
    <3>3. CASE u = t
      <4>1. i \in 1..(Len(frames[t]) - 1) /\ frames[t][i].kind = "window"
        BY <1>3, <3>1, <3>3
      <4>2. QED BY <1>3, <4>1 DEF OneWindow
    <3>4. QED BY <3>2, <3>3
  <2>2. QED BY <2>1 DEF OneWindow
<1>8. GroupsAlive'
  BY <1>1 DEF GroupsAlive
<1>9. GateHeld' /\ ClosedIsQuiet'
  BY <1>1, <1>4, TaskAssumption DEF GateHeld, ClosedIsQuiet, TypeOK
<1>10. QED BY <1>2, <1>5, <1>6, <1>7, <1>8, <1>9

\* A task gets in line.
LEMMA EnqueueStep ==
  ASSUME IInv, NEW t \in Task, NEW a \in {"lease", "mutate", "close"},
         HasRoom(t), Enqueue(t, a),
         UNCHANGED <<frames, group, windowed, count, gate, idle, leases,
                     mutator, closed>>
  PROVE  IInv'
<1> USE DEF IInv, Enqueue
<1>1. Counters'
  BY SameBlocks, SameCounters
<1>2. TypeOK'
  <2>1. queue' \in Seq(Task)
    BY DEF TypeOK
  <2>2. pc' \in [Task -> PC] /\ ask' \in [Task -> Ask]
    BY DEF TypeOK, PC, Ask
  <2>3. QED BY <2>1, <2>2 DEF TypeOK
<1>3. FramesOK'
  BY DEF FramesOK, TypeOK, HasRoom
<1>4. OneWindow' /\ GroupsAlive'
  BY DEF OneWindow, GroupsAlive
<1>5. GateHeld' /\ ClosedIsQuiet'
  BY DEF GateHeld, ClosedIsQuiet, TypeOK
<1>6. QED BY <1>1, <1>2, <1>3, <1>4, <1>5

\* A lease or a change asks for the gate.
LEMMA AskStep ==
  ASSUME IInv, NEW t \in Task,
         LeaseAsk(t) \/ \E a \in {"mutate", "close"} : MutateAsk(t, a)
  PROVE  IInv'
<1> USE DEF IInv
<1>1. CASE LeaseAsk(t) /\ GateFree
  <2>1. /\ pc' = [pc EXCEPT ![t] = "running"]
        /\ ask' = [ask EXCEPT ![t] = "none"]
    BY <1>1 DEF LeaseAsk, HasRoom, waiting, GateHeld, TypeOK
  <2>2. queue' \in Seq(Task)
    BY <1>1 DEF LeaseAsk, waiting, TypeOK
  <2>3. QED BY <1>1, <2>1, <2>2, GroupStep DEF LeaseAsk, HasRoom, GateFree
<1>2. CASE LeaseAsk(t) /\ ~GateFree
  BY <1>2, EnqueueStep DEF LeaseAsk, calling
<1>3. ASSUME NEW a \in {"mutate", "close"}, MutateAsk(t, a), GateFree
      PROVE  IInv'
  <2>1. queue' \in Seq(Task)
    BY <1>3 DEF MutateAsk, TypeOK
  <2>2. QED BY <1>3, <2>1, HoldStep DEF MutateAsk, HasRoom, GateFree
<1>4. ASSUME NEW a \in {"mutate", "close"}, MutateAsk(t, a), ~GateFree
      PROVE  IInv'
  BY <1>4, EnqueueStep DEF MutateAsk
<1>5. QED BY <1>1, <1>2, <1>3, <1>4

\* The first in line gets the gate.
LEMMA GrantStep ==
  ASSUME IInv, NEW t \in Task, LeaseGranted(t) \/ MutateGranted(t)
  PROVE  IInv'
<1> USE DEF IInv
<1>1. gate = NoTask /\ queue' = Tail(queue) /\ queue # <<>>
  BY DEF LeaseGranted, MutateGranted, AtHead
<1>2. queue' \in Seq(Task)
  BY <1>1 DEF TypeOK
<1>3. pc[t] = "queued" /\ Len(frames[t]) < MaxNest
  <2>1. ask[t] # "none"
    BY DEF LeaseGranted, MutateGranted
  <2>2. pc[t] \notin {"draining", "drained", "absent", "running"}
    BY <1>1, <2>1, TaskAssumption DEF GateHeld
  <2>3. QED BY <2>2 DEF TypeOK, PC, FramesOK
<1>4. CASE LeaseGranted(t)
  BY <1>1, <1>2, <1>3, <1>4, GroupStep DEF LeaseGranted, LeaveQueue
<1>5. CASE MutateGranted(t)
  <2>1. ask[t] \in {"mutate", "close"} /\ HoldGate(t, ask[t])
    BY <1>5 DEF MutateGranted
  <2>2. PICK a \in {"mutate", "close"} : a = ask[t]
    BY <2>1
  <2>3. HoldGate(t, a)
    BY <2>1, <2>2
  <2>4. QED BY <1>1, <1>2, <1>3, <1>5, <2>3, HoldStep DEF MutateGranted
<1>6. QED BY <1>4, <1>5

\* The drain is over: the window opens.
LEMMA DrainedStep ==
  ASSUME IInv, NEW t \in Task, Drained(t)
  PROVE  IInv'
<1> USE DEF IInv
<1>1. pc[t] = "drained" /\ gate = t /\ mutator = NoTask /\ leases = 0
  BY DEF Drained, GateHeld
<1>2. \A u \in Task \ {t} : pc[u] \notin {"draining", "drained"}
  BY <1>1 DEF GateHeld
<1>3. PICK a \in {"mutate", "close"} : a = ask[t]
  BY <1>1 DEF GateHeld
<1>4. Len(frames[t]) < MaxNest
  BY <1>1 DEF FramesOK
<1>5. ~MutationRefused(a)
  BY <1>1, <1>3 DEF ClosedIsQuiet, MutationRefused
<1>6. OpenWindow(t, a)
  BY <1>3 DEF Drained
<1>7. /\ pc' = [pc EXCEPT ![t] = "running"]
      /\ ask' = [ask EXCEPT ![t] = "none"]
      /\ gate' = t
      /\ queue' \in Seq(Task)
      /\ UNCHANGED <<group, count, idle, leases>>
  BY <1>1 DEF Drained, LeaveQueue, TypeOK
<1>8. QED BY <1>1, <1>2, <1>4, <1>5, <1>6, <1>7, OpenStep

LEMMA Inductive == IInv /\ [Next]_vars => IInv'
<1> SUFFICES ASSUME IInv, [Next]_vars PROVE IInv'
  OBVIOUS
<1>1. CASE UNCHANGED vars
  <2>1. Counters'
    BY <1>1, SameBlocks, SameCounters DEF vars, IInv
  <2>2. TypeOK' /\ FramesOK' /\ GroupsAlive' /\ GateHeld' /\ OneWindow'
        /\ ClosedIsQuiet'
    BY <1>1 DEF vars, IInv, TypeOK, FramesOK, GroupsAlive, GateHeld, OneWindow,
                ClosedIsQuiet
  <2>3. QED BY <2>1, <2>2 DEF IInv
<1>2. ASSUME NEW t \in Task, Step(t)
      PROVE  IInv'
  BY <1>2, QuietStep, FreeStep, NestedStep, AskStep, GrantStep, ExitStep,
     DrainedStep, WindowExitStep DEF Step
<1>3. QED BY <1>1, <1>2 DEF Next

(***************************************************************************)
(* The theorems                                                            *)
(***************************************************************************)

\* The inductive invariant holds in every reachable state, for any number of
\* tasks and any depth of nested calls.
THEOREM Invariance == Spec => []IInv
<1>1. Init => IInv
  BY InitIInv
<1>2. IInv /\ [Next]_vars => IInv'
  BY Inductive
<1>3. QED BY <1>1, <1>2, PTL DEF Spec

\* Every variable keeps its type: no counter of calls goes below zero.
THEOREM TypeCorrect == Spec => []TypeOK
<1>1. IInv => TypeOK
  BY DEF IInv
<1>2. QED BY <1>1, Invariance, PTL

\* No counted call is in flight while a lifecycle change runs.
THEOREM Exclusion == Spec => []WindowExcludesCalls
<1>1. IInv => WindowExcludesCalls
  BY HeldFinite, FS_EmptySet
     DEF IInv, GateHeld, Counters, WindowExcludesCalls
<1>2. QED BY <1>1, Invariance, PTL

\* The counter of leases, the idle event and the drains agree with the calls
\* that are really in flight.
THEOREM Accounting == Spec => []CountsAgree
<1>1. IInv => CountsAgree
  BY HeldFinite, FS_EmptySet
     DEF IInv, GateHeld, Counters, CountsAgree, TypeOK
<1>2. QED BY <1>1, Invariance, PTL

\* The host never reopens, no call starts after close() and a change in line
\* at that time is refused.
THEOREM ClosedStaysClosed == Spec => ClosedIsFinal
<1> DEFINE P == closed => /\ closed'
                          /\ Held' \subseteq Held
                          /\ mutator' \notin {mutator, NoTask} =>
                               ask[mutator'] # "mutate"
<1>1. IInv /\ IInv' /\ [Next]_vars => [P]_vars
  <2>1. SUFFICES ASSUME IInv, IInv', NEW t \in Task, Step(t), closed
                 PROVE  /\ closed'
                        /\ Held' \subseteq Held
                        /\ mutator' \notin {mutator, NoTask} =>
                             ask[mutator'] # "mutate"
    BY DEF Next
  <2>2. closed'
    BY <2>1 DEF Step, Start, Spawn, Finish, LeaseFree, LeaseNested, LeaseAsk,
                LeaseGranted, LeaseExit, FreeExit, MutateAsk, MutateGranted,
                HoldGate, OpenWindow, Drained, DrainAborted, QueueCancelled,
                CloseInWindow, WindowExit
  <2>3. Held' = {}
    <3>1. leases' = 0 /\ leases' = Cardinality(Held')
      BY <2>1, <2>2 DEF IInv, ClosedIsQuiet, Counters
    <3>2. IsFiniteSet(Held')
      <4>1. IsFiniteSet(1..MaxNest)
        BY FS_Interval, NestAssumption
      <4>2. IsFiniteSet(Task \X (1..MaxNest))
        BY <4>1, FS_Product, TaskAssumption
      <4>3. Held' \subseteq Task \X (1..MaxNest)
        BY DEF Held
      <4>4. QED BY <4>2, <4>3, FS_Subset
    <3>3. QED BY <3>1, <3>2, FS_EmptySet
  <2>4. ASSUME mutator' \notin {mutator, NoTask}
        PROVE  ask[mutator'] # "mutate"
    <3>1. CASE Drained(t)
      BY <2>1, <3>1 DEF Drained, OpenWindow, IInv, ClosedIsQuiet, TypeOK
    <3>2. CASE MutateGranted(t)
      BY <2>1, <2>4, <3>2
         DEF MutateGranted, HoldGate, OpenWindow, MutationRefused
    <3>3. CASE \E a \in {"mutate", "close"} : MutateAsk(t, a)
      <4>1. pc[t] = "running" /\ ask[t] = "none"
        BY <2>1, <3>3 DEF MutateAsk, HasRoom, IInv, GateHeld
      <4>2. mutator' = t
        BY <2>4, <3>3 DEF MutateAsk, HoldGate, OpenWindow
      <4>3. QED BY <4>1, <4>2
    <3>4. CASE WindowExit(t)
      BY <2>4, <3>4 DEF WindowExit
    <3>5. CASE mutator' = mutator
      BY <2>4, <3>5
    <3>6. QED BY <2>1, <3>1, <3>2, <3>3, <3>4, <3>5
          DEF Step, Start, Spawn, Finish, LeaseFree, LeaseNested, LeaseAsk,
              LeaseGranted, LeaseExit, FreeExit, DrainAborted, QueueCancelled,
              CloseInWindow
  <2>5. QED BY <2>2, <2>3, <2>4
<1>2. QED BY <1>1, Invariance, PTL DEF Spec, ClosedIsFinal

\* A change opens its window on a host with no call in flight: a change of
\* CallGuard starts.
LEMMA OpenMaps ==
  ASSUME IInv, NEW t \in Task, NEW a \in {"mutate", "close"},
         mutator = NoTask, leases = 0, OpenWindow(t, a)
  PROVE  Guard!Next
<1>1. Held' = Held /\ Held = {}
  BY PushUncounted, HeldFinite, FS_EmptySet
     DEF IInv, OpenWindow, Counters
<1>2. mutator' = t /\ closed' \in {closed, TRUE}
  BY DEF OpenWindow, IInv, TypeOK
<1>3. Guard!Enter(t)
  BY <1>1, <1>2 DEF Guard!Enter
<1>4. QED BY <1>3 DEF Guard!Next

\* Taking the gate for a change is a step of CallGuard, or none.
LEMMA HoldMaps ==
  ASSUME IInv, NEW t \in Task, NEW a \in {"mutate", "close"},
         gate = NoTask, HoldGate(t, a)
  PROVE  Guard!Next \/ UNCHANGED Guard!vars
<1>1. mutator = NoTask
  BY TaskAssumption DEF IInv, GateHeld, TypeOK
<1>2. CASE ~MutationRefused(a) /\ idle
  <2>1. leases = 0
    BY <1>2 DEF IInv, Counters
  <2>2. QED BY <1>1, <1>2, <2>1, OpenMaps DEF HoldGate, Quiet
<1>3. CASE MutationRefused(a) \/ ~idle
  <2>1. UNCHANGED <<mutator, closed, frames>>
    BY <1>3 DEF HoldGate, Quiet
  <2>2. QED BY <2>1, SameBlocks DEF Guard!vars
<1>4. QED BY <1>2, <1>3

\* A counted lease that starts while nobody changes an open host is a call
\* of CallGuard that begins.
LEMMA BeginMaps ==
  ASSUME IInv, NEW t \in Task, NEW k \in Counted, NEW g \in Group,
         mutator = NoTask, ~closed, Len(frames[t]) < MaxNest, Push(t, k, g),
         UNCHANGED <<mutator, closed>>
  PROVE  Guard!Next
<1> DEFINE c == <<t, Len(frames[t]) + 1>>
<1>1. /\ c \in Task \X (1..MaxNest)
      /\ c \notin Held
      /\ Held' = Held \cup {c}
  BY PushCounted DEF IInv
<1>2. Guard!Begin(c)
  BY <1>1 DEF Guard!Begin
<1>3. QED BY <1>1, <1>2 DEF Guard!Next

\* The part of a lease under the gate is a call that begins, or nothing.
LEMMA PassMaps ==
  ASSUME IInv, NEW t \in Task, gate = NoTask, PassGate(t),
         Len(frames[t]) < MaxNest, UNCHANGED <<mutator, closed>>
  PROVE  Guard!Next \/ UNCHANGED Guard!vars
<1>1. mutator = NoTask
  BY TaskAssumption DEF IInv, GateHeld, TypeOK
<1>2. CASE closed
  BY <1>2, SameBlocks DEF PassGate, LeaseRefused, calling, Guard!vars
<1>3. CASE ~closed
  <2>1. PICK g \in Group : Push(t, "outer", g)
    BY <1>3 DEF PassGate, LeaseRefused, OpenGroup
  <2>2. QED BY <1>1, <1>3, <2>1, BeginMaps DEF Counted
<1>4. QED BY <1>2, <1>3

LEMMA StepMaps ==
  ASSUME IInv, NEW t \in Task, Step(t)
  PROVE  Guard!Next \/ UNCHANGED Guard!vars
<1> USE DEF IInv
<1>1. CASE \/ Start(t)
           \/ \E u \in Task : Spawn(t, u)
           \/ Finish(t)
           \/ DrainAborted(t)
           \/ QueueCancelled(t)
  <2>1. UNCHANGED <<frames, mutator, closed>>
    BY <1>1 DEF Start, Spawn, Finish, DrainAborted, QueueCancelled
  <2>2. QED BY <2>1, SameBlocks DEF Guard!vars
<1>2. CASE LeaseFree(t)
  <2>1. Held' = Held
    BY <1>2, PushUncounted DEF LeaseFree
  <2>2. QED BY <1>2, <2>1 DEF LeaseFree, Guard!vars
<1>3. CASE FreeExit(t)
  <2>1. Held' = Held
    BY <1>3, PopUncounted DEF FreeExit, Counted
  <2>2. QED BY <1>3, <2>1 DEF FreeExit, Guard!vars
<1>4. CASE LeaseNested(t)
  <2>1. PICK g \in Group : g = group[t] /\ count[g] > 0
    BY <1>4 DEF LeaseNested, JoinsGroup, TypeOK, GroupsAlive
  <2>2. mutator = NoTask /\ ~closed
    BY <2>1, AliveMeansLeased DEF GateHeld, ClosedIsQuiet
  <2>3. Push(t, "nested", g) /\ Len(frames[t]) < MaxNest
    BY <1>4, <2>1 DEF LeaseNested, HasRoom
  <2>4. "nested" \in Counted
    BY DEF Counted
  <2>5. QED BY <1>4, <2>2, <2>3, <2>4, BeginMaps DEF LeaseNested
<1>5. CASE LeaseAsk(t)
  <2>1. CASE GateFree
    BY <1>5, <2>1, PassMaps DEF LeaseAsk, HasRoom, GateFree
  <2>2. CASE ~GateFree
    BY <1>5, <2>2, SameBlocks DEF LeaseAsk, calling, Guard!vars
  <2>3. QED BY <2>1, <2>2
<1>6. CASE LeaseGranted(t)
  <2>1. Len(frames[t]) < MaxNest
    <3>1. gate = NoTask /\ ask[t] = "lease"
      BY <1>6 DEF LeaseGranted, AtHead
    <3>2. pc[t] \notin {"draining", "drained", "absent", "running"}
      BY <3>1, TaskAssumption DEF GateHeld
    <3>3. QED BY <3>2 DEF TypeOK, PC, FramesOK
  <2>2. QED BY <1>6, <2>1, PassMaps DEF LeaseGranted, AtHead
<1>7. CASE LeaseExit(t)
  <2>1. PICK c : c = <<t, Depth(t)>>
    OBVIOUS
  <2>2. /\ c \in Held
        /\ Held' = Held \ {c}
    BY <1>7, <2>1, PopCounted DEF LeaseExit
  <2>3. c \in Task \X (1..MaxNest)
    BY <2>2 DEF Held
  <2>4. Guard!End(c)
    BY <1>7, <2>2 DEF LeaseExit, Guard!End
  <2>5. QED BY <2>3, <2>4 DEF Guard!Next
<1>8. ASSUME NEW a \in {"mutate", "close"}, MutateAsk(t, a)
      PROVE  Guard!Next \/ UNCHANGED Guard!vars
  <2>1. CASE GateFree
    BY <1>8, <2>1, HoldMaps DEF MutateAsk, GateFree
  <2>2. CASE ~GateFree
    BY <1>8, <2>2, SameBlocks DEF MutateAsk, Guard!vars
  <2>3. QED BY <2>1, <2>2
<1>9. CASE MutateGranted(t)
  <2>1. PICK a \in {"mutate", "close"} : a = ask[t]
    BY <1>9 DEF MutateGranted
  <2>2. HoldGate(t, a) /\ gate = NoTask
    BY <1>9, <2>1 DEF MutateGranted, AtHead
  <2>3. QED BY <2>2, HoldMaps
<1>10. CASE Drained(t)
  <2>1. /\ mutator = NoTask /\ leases = 0
        /\ ask[t] \in {"mutate", "close"}
    BY <1>10 DEF Drained, GateHeld
  <2>2. PICK a \in {"mutate", "close"} : a = ask[t]
    BY <2>1
  <2>3. OpenWindow(t, a)
    BY <1>10, <2>2 DEF Drained
  <2>4. QED BY <2>1, <2>3, OpenMaps
<1>11. CASE CloseInWindow(t)
  <2>1. Held' = Held
    BY <1>11, SameBlocks DEF CloseInWindow
  <2>2. mutator # NoTask
    BY <1>11, TaskAssumption DEF CloseInWindow
  <2>3. Guard!Shut
    BY <1>11, <2>1, <2>2 DEF CloseInWindow, Guard!Shut
  <2>4. QED BY <2>3 DEF Guard!Next
<1>12. CASE WindowExit(t)
  <2>1. Held' = Held
    BY <1>12, PopUncounted DEF WindowExit, Counted
  <2>2. mutator = t
    <3>1. /\ Len(frames[t]) \in Nat /\ Len(frames[t]) > 0
          /\ frames[t][Len(frames[t])].kind = "window"
      BY <1>12 DEF WindowExit, InBlock, Top, Depth, TypeOK
    <3>2. QED BY <3>1 DEF OneWindow
  <2>3. Guard!Leave
    BY <1>12, <2>1, <2>2, TaskAssumption DEF WindowExit, Guard!Leave
  <2>4. QED BY <2>3 DEF Guard!Next
<1>13. QED
  BY <1>1, <1>2, <1>3, <1>4, <1>5, <1>6, <1>7, <1>8, <1>9, <1>10, <1>11, <1>12
     DEF Step

\* The gate, the counters and the context variables keep the promise of
\* CallGuard: calls inside calls go past the gate and are still excluded.
THEOREM Implementation == Spec => Refines
<1>1. Init => Guard!Init
  <2>1. SUFFICES ASSUME Init PROVE Guard!Init
    OBVIOUS
  <2>2. Held = {}
    BY <2>1 DEF Init, Held
  <2>3. QED BY <2>1, <2>2 DEF Init, Guard!Init
<1>2. IInv /\ [Next]_vars => [Guard!Next]_(Guard!vars)
  <2>1. CASE UNCHANGED vars
    BY <2>1, SameBlocks DEF vars, Guard!vars
  <2>2. ASSUME IInv, NEW t \in Task, Step(t)
        PROVE  Guard!Next \/ UNCHANGED Guard!vars
    BY <2>2, StepMaps
  <2>3. QED BY <2>1, <2>2 DEF Next
<1>3. QED BY <1>1, <1>2, Invariance, PTL DEF Spec, Refines, Guard!Spec

(***************************************************************************)
(* A task in a call never waits in line for another one.  What the context *)
(* variable says of a task has to agree with the blocks it is inside.      *)
(***************************************************************************)

\* The calls a task is in belong to the group its context variable names, and
\* only the first of them can have opened the group.
OwnGroup ==
  \A t \in Task : \A i \in 1..Len(frames[t]) :
    frames[t][i].kind \in Counted =>
      /\ frames[t][i].group = group[t]
      /\ frames[t][i].kind = "outer" =>
           \A j \in 1..(i - 1) : frames[t][j].kind \notin Counted

InCall(t) == \E i \in 1..Len(frames[t]) : frames[t][i].kind \in Counted
InLine(t) == pc[t] = "queued" /\ ask[t] = "lease"

CallInv == OwnGroup /\ \A t \in Task : InCall(t) => ~InLine(t)

\* Outside any group a task is in no call.
LEMMA NoGroupNoCall ==
  ASSUME IInv, CallInv, NEW t \in Task, group[t] = NoGroup
  PROVE  ~InCall(t)
BY GroupAssumption DEF IInv, FramesOK, CallInv, OwnGroup, InCall

\* Steps that enter and leave no block: a task may lose or get a group while
\* it is in no call, and only one that is in no call gets in line.
LEMMA SameCalls ==
  ASSUME CallInv, frames' = frames,
         \A u \in Task : group'[u] = group[u] \/ ~InCall(u),
         \A u \in Task : InLine(u)' => InLine(u) \/ ~InCall(u)
  PROVE  CallInv'
BY DEF CallInv, OwnGroup, InCall

\* Steps that enter a block.
LEMMA PushKeepsCalls ==
  ASSUME IInv, CallInv, NEW t \in Task,
         NEW k \in {"outer", "nested", "free", "window"},
         NEW g \in Group \cup {NoGroup}, Push(t, k, g), pc'[t] = "running",
         \A u \in Task \ {t} : pc'[u] = pc[u] /\ ask'[u] = ask[u]
                               /\ group'[u] = group[u],
         group'[t] = group[t] \/ ~InCall(t),
         k \in Counted => group'[t] = g,
         k = "outer" => ~InCall(t)
  PROVE  CallInv'
<1>1. /\ Len(frames'[t]) = Len(frames[t]) + 1
      /\ \A i \in 1..Len(frames[t]) : frames'[t][i] = frames[t][i]
      /\ frames'[t][Len(frames[t]) + 1].kind = k
      /\ frames'[t][Len(frames[t]) + 1].group = g
      /\ \A u \in Task \ {t} : frames'[u] = frames[u]
      /\ Len(frames[t]) \in Nat
  BY Pushed DEF IInv
<1>2. ASSUME NEW u \in Task \ {t}
      PROVE  InCall(u)' => ~InLine(u)'
  BY <1>1 DEF CallInv, InCall, InLine
<1>3. ~InLine(t)'
  BY DEF InLine
<1>4. ASSUME NEW i \in 1..(Len(frames[t]) + 1), frames'[t][i].kind \in Counted
      PROVE  /\ frames'[t][i].group = group'[t]
             /\ frames'[t][i].kind = "outer" =>
                  \A j \in 1..(i - 1) : frames'[t][j].kind \notin Counted
  <2>1. CASE i \in 1..Len(frames[t])
    <3>1. InCall(t) /\ frames'[t][i] = frames[t][i]
      BY <1>1, <1>4, <2>1 DEF InCall
    <3>2. \A j \in 1..(i - 1) : frames'[t][j] = frames[t][j]
      BY <1>1, <2>1
    <3> QED
      BY <1>4, <2>1, <3>1, <3>2 DEF CallInv, OwnGroup
  <2>2. CASE i = Len(frames[t]) + 1
    BY <1>1, <1>4, <2>2 DEF InCall
  <2> QED
    BY <1>1, <2>1, <2>2
<1>5. OwnGroup'
  BY <1>1, <1>4 DEF CallInv, OwnGroup
<1> QED
  BY <1>2, <1>3, <1>5 DEF CallInv

\* Steps that leave a block.
LEMMA PopKeepsCalls ==
  ASSUME IInv, CallInv, NEW t \in Task, InBlock(t), Pop(t), ask' = ask,
         \A u \in Task : pc'[u] = "queued" => pc[u] = "queued",
         \A u \in Task : group'[u] = group[u] \/ ~InCall(u)'
  PROVE  CallInv'
<1>1. /\ Len(frames'[t]) = Len(frames[t]) - 1
      /\ \A i \in 1..(Len(frames[t]) - 1) : frames'[t][i] = frames[t][i]
      /\ \A u \in Task \ {t} : frames'[u] = frames[u]
      /\ \A u \in Task : Len(frames[u]) \in Nat
  BY Popped DEF IInv, InBlock, Depth
<1>2. ASSUME NEW u \in Task
      PROVE  /\ InCall(u)' => InCall(u)
             /\ InLine(u)' => InLine(u)
    BY <1>1 DEF InCall, InLine
<1>3. ASSUME NEW u \in Task, NEW i \in 1..Len(frames'[u]),
             frames'[u][i].kind \in Counted
      PROVE  /\ frames'[u][i].group = group'[u]
             /\ frames'[u][i].kind = "outer" =>
                  \A j \in 1..(i - 1) : frames'[u][j].kind \notin Counted
  <2>1. i \in 1..Len(frames[u]) /\ \A j \in 1..i : frames'[u][j] = frames[u][j]
    BY <1>1
  <2>2. group'[u] = group[u]
    BY <1>3 DEF InCall
  <2>3. i \in 1..i /\ \A j \in 1..(i - 1) : j \in 1..i
    BY <1>1
  <2> QED
    BY <1>3, <2>1, <2>2, <2>3 DEF CallInv, OwnGroup
<1> QED
  BY <1>2, <1>3 DEF CallInv, OwnGroup

\* A group dies with its last call, and nobody is in it any more.
LEMMA ExitKeepsCalls ==
  ASSUME IInv, CallInv, NEW t \in Task, LeaseExit(t)
  PROVE  CallInv'
<1>1. PICK g, n : g = Top(t).group /\ n = Depth(t)
  OBVIOUS
<1>2. InBlock(t) /\ Top(t).kind \in Counted /\ Pop(t) /\ ask' = ask
  BY DEF LeaseExit
<1>3. /\ g \in Group
      /\ Cardinality(Members(g)') = Cardinality(Members(g)) - 1
  BY <1>1, <1>2, PopCounted DEF IInv
<1>4. count[g] = Cardinality(Members(g))
  BY <1>3 DEF IInv, Counters
<1>5. count[g] = 1 => Members(g)' = {}
  <2>1. IsFiniteSet(Members(g)')
    <3>1. IsFiniteSet(Task \X (1..MaxNest))
      <4>1. IsFiniteSet(1..MaxNest)
        BY FS_Interval, NestAssumption
      <4> QED
        BY <4>1, FS_Product, TaskAssumption
    <3>2. Members(g)' \subseteq Task \X (1..MaxNest)
      BY DEF Members
    <3> QED
      BY <3>1, <3>2, FS_Subset
  <2> QED
    BY <1>3, <1>4, <2>1, FS_EmptySet
<1>6. /\ Len(frames'[t]) = Len(frames[t]) - 1
      /\ \A i \in 1..(Len(frames[t]) - 1) : frames'[t][i] = frames[t][i]
      /\ \A u \in Task \ {t} : frames'[u] = frames[u]
      /\ \A u \in Task : Len(frames[u]) \in Nat /\ Len(frames[u]) <= MaxNest
      /\ Len(frames[t]) > 0
  BY <1>2, Popped DEF IInv, InBlock, Depth, FramesOK
<1>7. ASSUME NEW u \in Task, group'[u] # group[u]
      PROVE  ~InCall(u)'
  <2>1. SUFFICES ASSUME NEW i \in 1..Len(frames'[u]), frames'[u][i].kind \in Counted
                 PROVE  FALSE
    BY DEF InCall
  <2>2. /\ frames'[u][i] = frames[u][i] /\ i \in 1..Len(frames[u])
        /\ u = t => i \in 1..(Len(frames[t]) - 1)
    BY <1>6, <2>1
  <2>3. frames'[u][i].group = group[u]
    BY <2>1, <2>2 DEF CallInv, OwnGroup
  <2>4. (u = t /\ Top(t).kind = "outer") \/ (group[u] = g /\ count[g] = 1)
    BY <1>1, <1>7 DEF LeaseExit, Forgets
  <2>5. CASE u = t /\ Top(t).kind = "outer"
    <3>1. Len(frames[t]) \in 1..Len(frames[t]) /\ frames[t][Len(frames[t])].kind = "outer"
      BY <1>6, <2>5 DEF Top, Depth
    <3>2. \A j \in 1..(Len(frames[t]) - 1) : frames[t][j].kind \notin Counted
      BY <3>1 DEF CallInv, OwnGroup, Counted
    <3> QED
      BY <2>1, <2>2, <2>5, <3>2
  <2>6. CASE group[u] = g /\ count[g] = 1
    <3>1. i \in 1..MaxNest /\ i <= Len(frames'[u])
      BY <1>6, <2>1, <2>2, NestAssumption
    <3>2. <<u, i>> \in Members(g)'
      BY <2>1, <2>3, <2>6, <3>1 DEF Members
    <3> QED
      BY <1>5, <2>6, <3>2
  <2> QED
    BY <2>4, <2>5, <2>6
<1>8. \A u \in Task : pc'[u] = "queued" => pc[u] = "queued"
  BY DEF LeaseExit, IInv, TypeOK
<1> QED
  BY <1>2, <1>7, <1>8, PopKeepsCalls

LEMMA CallsKept ==
  ASSUME IInv, CallInv, NEW t \in Task, Step(t)
  PROVE  CallInv'
<1> DEFINE Others == \A u \in Task \ {t} : pc'[u] = pc[u] /\ ask'[u] = ask[u]
                                           /\ group'[u] = group[u]
<1>1. TypeOK /\ FramesOK
  BY DEF IInv
<1>2. CASE \/ Start(t)
           \/ \E u \in Task : Spawn(t, u)
           \/ Finish(t)
           \/ DrainAborted(t)
           \/ QueueCancelled(t)
           \/ CloseInWindow(t)
  <2>1. frames' = frames
    BY <1>2 DEF Start, Spawn, Finish, DrainAborted, QueueCancelled, CloseInWindow
  <2>2. \A u \in Task : frames[u] = <<>> => ~InCall(u)
    BY DEF InCall
  <2>3. \A u \in Task : group'[u] = group[u] \/ frames[u] = <<>>
    BY <1>1, <1>2 DEF TypeOK, FramesOK, Start, Spawn, Finish, DrainAborted,
       QueueCancelled, CloseInWindow
  <2>4. \A u \in Task : InLine(u)' => InLine(u)
    BY <1>1, <1>2 DEF TypeOK, InLine, Start, Spawn, Finish, DrainAborted,
       QueueCancelled, CloseInWindow, LeaveQueue
  <2> QED
    BY <2>1, <2>2, <2>3, <2>4, SameCalls
<1>3. CASE LeaseFree(t)
  <2>1. Push(t, "free", NoGroup) /\ pc'[t] = "running" /\ Others
        /\ group'[t] = group[t]
    BY <1>1, <1>3 DEF LeaseFree, HasRoom
  <2> QED
    BY <2>1, PushKeepsCalls DEF Counted
<1>4. CASE LeaseNested(t)
  <2>1. Push(t, "nested", group[t]) /\ pc'[t] = "running" /\ Others
        /\ group'[t] = group[t] /\ group[t] \in Group \cup {NoGroup}
    BY <1>1, <1>4 DEF LeaseNested, HasRoom, TypeOK
  <2> QED
    BY <2>1, PushKeepsCalls
<1>5. ASSUME PassGate(t), ~InCall(t), pc'[t] = "running",
             \A u \in Task \ {t} : pc'[u] = pc[u] /\ ask'[u] = ask[u]
      PROVE  CallInv'
  <2>1. CASE closed
    BY <1>5, <2>1, SameCalls DEF PassGate, LeaseRefused, calling, InLine
  <2>2. CASE ~closed
    <3>1. PICK g \in Group : Push(t, "outer", g) /\ group' = [group EXCEPT ![t] = g]
      BY <1>5, <2>2 DEF PassGate, LeaseRefused, OpenGroup
    <3>2. Others /\ group'[t] = g
      BY <1>1, <1>5, <3>1 DEF TypeOK
    <3> QED
      BY <1>5, <3>1, <3>2, PushKeepsCalls
  <2> QED
    BY <2>1, <2>2
<1>6. CASE LeaseAsk(t)
  <2>1. ~InCall(t)
    BY <1>6, NoGroupNoCall DEF LeaseAsk, JoinsGroup
  <2>2. CASE GateFree
    <3>1. PassGate(t) /\ pc' = pc /\ ask' = ask /\ pc[t] = "running"
      BY <1>6, <2>2 DEF LeaseAsk, waiting, HasRoom
    <3> QED
      BY <1>5, <2>1, <3>1
  <2>3. CASE ~GateFree
    BY <1>1, <1>6, <2>1, <2>3, SameCalls
       DEF LeaseAsk, Enqueue, calling, InLine, TypeOK
  <2> QED
    BY <2>2, <2>3
<1>7. CASE LeaseGranted(t)
  <2>1. pc[t] = "queued"
    <3>1. gate = NoTask /\ ask[t] = "lease"
      BY <1>7 DEF LeaseGranted, AtHead
    <3> QED
      BY <1>1, <3>1, TaskAssumption DEF IInv, GateHeld, TypeOK, PC
  <2>2. ~InCall(t)
    BY <1>7, <2>1 DEF CallInv, InLine, LeaseGranted
  <2>3. /\ PassGate(t) /\ pc'[t] = "running"
        /\ \A u \in Task \ {t} : pc'[u] = pc[u] /\ ask'[u] = ask[u]
    BY <1>1, <1>7 DEF LeaseGranted, LeaveQueue, TypeOK
  <2> QED
    BY <1>5, <2>2, <2>3
<1>8. CASE LeaseExit(t)
  BY <1>8, ExitKeepsCalls
<1>9. CASE FreeExit(t) \/ WindowExit(t)
  <2>1. InBlock(t) /\ Pop(t) /\ ask' = ask /\ pc' = pc /\ group' = group
    BY <1>9 DEF FreeExit, WindowExit
  <2> QED
    BY <2>1, PopKeepsCalls
<1>10. ASSUME NEW a, OpenWindow(t, a), pc' = [pc EXCEPT ![t] = "running"],
              ask' = [ask EXCEPT ![t] = "none"], group' = group
       PROVE  CallInv'
  <2>1. Push(t, "window", NoGroup) /\ pc'[t] = "running" /\ Others
        /\ group'[t] = group[t]
    BY <1>1, <1>10 DEF OpenWindow, TypeOK
  <2> QED
    BY <2>1, PushKeepsCalls DEF Counted
<1>11. ASSUME NEW a \in {"mutate", "close"}, HoldGate(t, a), group' = group
       PROVE  CallInv'
  <2>1. CASE ~MutationRefused(a) /\ idle
    BY <1>10, <1>11, <2>1 DEF HoldGate, Quiet
  <2>2. CASE MutationRefused(a) \/ ~idle
    <3>1. frames' = frames /\ \A u \in Task : InLine(u)' => InLine(u)
      BY <1>1, <1>11, <2>2 DEF HoldGate, Quiet, InLine, TypeOK
    <3> QED
      BY <1>11, <3>1, SameCalls
  <2> QED
    BY <2>1, <2>2
<1>12. ASSUME NEW a \in {"mutate", "close"}, MutateAsk(t, a)
       PROVE  CallInv'
  <2>1. CASE GateFree
    BY <1>11, <1>12, <2>1 DEF MutateAsk
  <2>2. CASE ~GateFree
    BY <1>1, <1>12, <2>2, SameCalls DEF MutateAsk, Enqueue, InLine, TypeOK
  <2> QED
    BY <2>1, <2>2
<1>13. CASE MutateGranted(t)
  BY <1>11, <1>13 DEF MutateGranted
<1>14. CASE Drained(t)
  BY <1>10, <1>14 DEF Drained, LeaveQueue
<1> QED
  BY <1>2, <1>3, <1>4, <1>6, <1>7, <1>8, <1>9, <1>12, <1>13, <1>14 DEF Step

\* A call made inside a call goes past the gate in every task that is in it,
\* so no task waits in line behind a drain that waits for the task itself.
THEOREM NoSelfWait == Spec => []NoCallBehindItself
<1>1. Init => CallInv
  BY DEF Init, CallInv, OwnGroup, InCall
<1>2. IInv /\ CallInv /\ [Next]_vars => CallInv'
  <2>1. ASSUME CallInv, UNCHANGED vars
        PROVE  CallInv'
    BY <2>1 DEF vars, CallInv, OwnGroup, InCall, InLine
  <2> QED
    BY <2>1, CallsKept DEF Next
<1>3. IInv /\ CallInv => NoCallBehindItself
  BY DEF IInv, FramesOK, CallInv, InCall, InLine, NoCallBehindItself, Held
<1> QED
  BY <1>1, <1>2, <1>3, Invariance, PTL DEF Spec
=============================================================================
