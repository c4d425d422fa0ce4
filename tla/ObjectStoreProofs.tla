-------------------------- MODULE ObjectStoreProofs --------------------------
(***************************************************************************)
(* What the store holds once its saves are over, for all operation graphs, *)
(* any number of saves at once and every order in which ops arrive: the    *)
(* undos and redos that its ops call for, and no other; its order and its  *)
(* terminal ops.                                                           *)
(*                                                                         *)
(* A pair of ops that must cascade is looked at twice: by the save of the  *)
(* op that depends, when it looks for invalidations, and by the save of    *)
(* the one that invalidates, when it looks for consequences.  Each looks   *)
(* after it stored its own op, so that the later one finds the other       *)
(* stored; from there on the undo is always somewhere on the stack of a    *)
(* save.  And a save that has something like that on its stack is never    *)
(* rejected.                                                               *)
(***************************************************************************)
EXTENDS ObjectStore, FiniteSetTheorems, WellFoundedInduction, TLAPS

(* The stack of a save: above an op that is stored, and looks for what to  *)
(* undo, or is itself an undo, there are only undos and redos.             *)
Cascading(f) == IsCasc(f.op) \/ f.pc \in {"causal", "conseq"}

IsSeq(s) == \E S : s \in Seq(S)

UndosAbove(s) ==
    \A i, j \in DOMAIN s : j < i /\ Cascading(s[i]) => IsCasc(s[j].op)

-----------------------------------------------------------------------------
(* Sequences.                                                              *)

LEMMA SeqFacts ==
    ASSUME NEW s, IsSeq(s)
    PROVE  /\ Len(s) \in Nat /\ DOMAIN s = 1 .. Len(s) /\ s \in Seq(Range(s))
           /\ (s = <<>> <=> Len(s) = 0)
<1>1. PICK S : s \in Seq(S)
  BY DEF IsSeq
<1>2. Len(s) \in Nat /\ DOMAIN s = 1 .. Len(s) /\ s \in [1 .. Len(s) -> S]
  BY <1>1
<1>3. s \in [1 .. Len(s) -> Range(s)]
  BY <1>2 DEF Range
<1> QED
  BY <1>1, <1>2, <1>3

LEMMA EmptyStack ==
    ASSUME NEW s, s = <<>>
    PROVE  IsSeq(s) /\ Range(s) = {} /\ UndosAbove(s)
<1>1. s \in Seq({}) /\ DOMAIN s = {}
  OBVIOUS
<1>2. IsSeq(s)
  BY <1>1 DEF IsSeq
<1>3. Range(s) = {} /\ UndosAbove(s)
  BY <1>1 DEF Range, UndosAbove
<1> QED
  BY <1>2, <1>3

LEMMA AppendFacts ==
    ASSUME NEW s, IsSeq(s), NEW e
    PROVE  /\ IsSeq(Append(s, e)) /\ Len(Append(s, e)) = Len(s) + 1
           /\ \A i \in 1 .. Len(s) : Append(s, e)[i] = s[i]
           /\ Append(s, e)[Len(s) + 1] = e
           /\ Range(Append(s, e)) = Range(s) \cup {e}
<1> DEFINE S == Range(s) \cup {e}
           r == Append(s, e)
<1>1. Len(s) \in Nat /\ DOMAIN s = 1 .. Len(s) /\ s \in Seq(S)
  BY SeqFacts
<1>2. /\ r \in Seq(S) /\ Len(r) = Len(s) + 1 /\ r[Len(s) + 1] = e
      /\ \A i \in 1 .. Len(s) : r[i] = s[i]
  BY <1>1
<1>3. DOMAIN r = 1 .. (Len(s) + 1)
  BY <1>1, <1>2
<1>4. Range(r) = Range(s) \cup {e}
  <2> HIDE DEF r, S
  <2> QED
    BY <1>1, <1>2, <1>3 DEF Range
<1> QED
  BY <1>2, <1>4 DEF IsSeq

LEMMA RemoveAtFacts ==
    ASSUME NEW s, IsSeq(s), NEW i \in DOMAIN s
    PROVE  IsSeq(RemoveAt(s, i)) /\ Range(RemoveAt(s, i)) \cup {s[i]} = Range(s)
<1> DEFINE S == Range(s)
           a == SubSeq(s, 1, i - 1)
           b == SubSeq(s, i + 1, Len(s))
           r == a \o b
<1>1. Len(s) \in Nat /\ DOMAIN s = 1 .. Len(s) /\ s \in Seq(S) /\ i \in 1 .. Len(s)
  BY SeqFacts
<1>2. /\ a \in Seq(S) /\ Len(a) = i - 1 /\ \A j \in 1 .. (i - 1) : a[j] = s[j]
      /\ b \in Seq(S) /\ Len(b) = Len(s) - i /\ \A j \in 1 .. (Len(s) - i) : b[j] = s[j + i]
  <2> HIDE DEF S
  <2>1. a \in Seq(S) /\ Len(a) = i - 1 /\ \A j \in 1 .. (i - 1) : a[j] = s[j]
    BY <1>1
  <2>2. b \in Seq(S) /\ Len(b) = Len(s) - i
    BY <1>1
  <2>3. \A j \in 1 .. (Len(s) - i) : b[j] = s[j + i]
    BY <1>1
  <2> QED
    BY <2>1, <2>2, <2>3
<1>3. /\ r \in Seq(S) /\ Len(r) = Len(s) - 1 /\ DOMAIN r = 1 .. (Len(s) - 1)
      /\ \A j \in 1 .. (i - 1) : r[j] = s[j]
      /\ \A j \in i .. (Len(s) - 1) : r[j] = s[j + 1]
  <2> HIDE DEF a, b, S
  <2>1. r \in Seq(S) /\ Len(r) = Len(s) - 1 /\ DOMAIN r = 1 .. (Len(s) - 1)
    <3>1. a \in Seq(S) /\ b \in Seq(S)
      BY <1>2
    <3>2. r \in Seq(S) /\ Len(r) = Len(a) + Len(b) /\ DOMAIN r = 1 .. Len(r)
      BY ONLY <3>1
    <3>3. Len(a) + Len(b) = Len(s) - 1
      BY <1>1, <1>2
    <3> QED
      BY <3>2, <3>3
  <2>2. ASSUME NEW j \in 1 .. (i - 1) PROVE r[j] = s[j]
    BY <1>1, <1>2
  <2>3. ASSUME NEW j \in i .. (Len(s) - 1) PROVE r[j] = s[j + 1]
    <3>1. j - (i - 1) \in 1 .. (Len(s) - i) /\ r[j] = b[j - (i - 1)]
      BY <1>1, <1>2
    <3>2. b[j - (i - 1)] = s[j - (i - 1) + i] /\ j - (i - 1) + i = j + 1
      BY <1>1, <1>2, <3>1
    <3> QED
      BY <3>1, <3>2
  <2> QED
    BY <2>1, <2>2, <2>3
<1>4. Range(r) \cup {s[i]} = Range(s)
  <2> HIDE DEF r, S
  <2>1. ASSUME NEW x \in Range(r) PROVE x \in Range(s)
    <3>1. PICK j \in 1 .. (Len(s) - 1) : r[j] = x
      BY <1>3 DEF Range
    <3>2. x = s[j] \/ x = s[j + 1]
      BY <1>1, <1>3, <3>1
    <3> QED
      BY <1>1, <3>1, <3>2 DEF Range
  <2>2. ASSUME NEW x \in Range(s), x # s[i] PROVE x \in Range(r)
    <3>1. PICK j \in 1 .. Len(s) : s[j] = x /\ j # i
      BY <1>1, <2>2 DEF Range
    <3>2. CASE j < i
      <4>1. j \in 1 .. (i - 1) /\ j \in DOMAIN r /\ r[j] = x
        BY <1>1, <1>3, <3>1, <3>2
      <4> QED
        BY <4>1 DEF Range
    <3>3. CASE j > i
      <4>1. j - 1 \in i .. (Len(s) - 1) /\ j - 1 \in DOMAIN r /\ r[j - 1] = x
        BY <1>1, <1>3, <3>1, <3>3
      <4> QED
        BY <4>1 DEF Range
    <3> QED
      BY <1>1, <3>1, <3>2, <3>3
  <2> QED
    BY <1>1, <2>1, <2>2 DEF Range
<1>5. RemoveAt(s, i) = r
  BY DEF RemoveAt
<1> QED
  BY <1>3, <1>4, <1>5 DEF IsSeq

(* A stack without its top.                                                *)
LEMMA PopFacts ==
    ASSUME NEW s, IsSeq(s), s # <<>>
    PROVE  /\ IsSeq(Tail(s)) /\ Range(s) = {Head(s)} \cup Range(Tail(s))
           /\ UndosAbove(s) =>
                 /\ UndosAbove(Tail(s))
                 /\ (\E g \in Range(Tail(s)) : Cascading(g)) => IsCasc(Head(s).op)
<1> DEFINE S == Range(s)
           r == Tail(s)
<1>1. Len(s) \in Nat /\ DOMAIN s = 1 .. Len(s) /\ s \in Seq(S) /\ Len(s) # 0
  BY SeqFacts
<1>2. /\ Head(s) = s[1] /\ r \in Seq(S) /\ Len(r) = Len(s) - 1
      /\ DOMAIN r = 1 .. (Len(s) - 1)
      /\ \A i \in 1 .. (Len(s) - 1) : r[i] = s[i + 1]
  BY <1>1
<1> HIDE DEF S, r
<1>3. Range(s) = {Head(s)} \cup Range(r)
  <2>1. ASSUME NEW x \in Range(s), x # s[1] PROVE x \in Range(r)
    <3>1. PICK i \in 1 .. Len(s) : s[i] = x /\ i # 1
      BY <1>1, <2>1 DEF Range
    <3>2. i - 1 \in DOMAIN r /\ r[i - 1] = x
      BY <1>1, <1>2, <3>1
    <3> QED
      BY <3>2 DEF Range
  <2>2. ASSUME NEW x \in Range(r) PROVE x \in Range(s)
    <3>1. PICK i \in 1 .. (Len(s) - 1) : r[i] = x
      BY <1>2, <2>2 DEF Range
    <3>2. i + 1 \in DOMAIN s /\ s[i + 1] = x
      BY <1>1, <1>2, <3>1
    <3> QED
      BY <3>2 DEF Range
  <2>3. s[1] \in Range(s)
    BY <1>1 DEF Range
  <2> QED
    BY <1>2, <2>1, <2>2, <2>3
<1>4. ASSUME UndosAbove(s)
      PROVE  /\ UndosAbove(r)
             /\ (\E g \in Range(r) : Cascading(g)) => IsCasc(Head(s).op)
  <2>1. ASSUME NEW i \in DOMAIN r, NEW j \in DOMAIN r, j < i, Cascading(r[i])
        PROVE  IsCasc(r[j].op)
    <3>1. i + 1 \in DOMAIN s /\ j + 1 \in DOMAIN s /\ j + 1 < i + 1
      BY <1>1, <1>2, <2>1
    <3>2. r[i] = s[i + 1] /\ r[j] = s[j + 1]
      BY <1>2, <2>1
    <3> QED
      BY <1>4, <2>1, <3>1, <3>2 DEF UndosAbove
  <2>2. ASSUME NEW g \in Range(r), Cascading(g)
        PROVE  IsCasc(Head(s).op)
    <3>1. PICK i \in 1 .. (Len(s) - 1) : r[i] = g
      BY <1>2, <2>2 DEF Range
    <3>2. i + 1 \in DOMAIN s /\ 1 \in DOMAIN s /\ 1 < i + 1 /\ s[i + 1] = g
      BY <1>1, <1>2, <3>1
    <3> QED
      BY <1>2, <1>4, <2>2, <3>2 DEF UndosAbove
  <2> QED
    BY <2>1, <2>2 DEF UndosAbove
<1> QED
  BY <1>2, <1>3, <1>4 DEF IsSeq, r

(* A stack with a frame on top of it.                                      *)
LEMMA PushFacts ==
    ASSUME NEW s, IsSeq(s), NEW f
    PROVE  /\ IsSeq(<<f>> \o s) /\ <<f>> \o s # <<>>
           /\ Range(<<f>> \o s) = {f} \cup Range(s)
           /\ UndosAbove(s) /\ ((\E g \in Range(s) : Cascading(g)) => IsCasc(f.op))
                => UndosAbove(<<f>> \o s)
           /\ \A h : <<h, f>> \o s = <<h>> \o (<<f>> \o s)
<1> DEFINE S == Range(s) \cup {f}
           r == <<f>> \o s
<1>1. Len(s) \in Nat /\ DOMAIN s = 1 .. Len(s) /\ s \in Seq(S)
  BY SeqFacts
<1>2. /\ r \in Seq(S) /\ Len(r) = Len(s) + 1 /\ DOMAIN r = 1 .. (Len(s) + 1)
      /\ r[1] = f /\ \A i \in 1 .. Len(s) : r[i + 1] = s[i]
  BY <1>1
<1>3. ASSUME NEW h PROVE <<h, f>> \o s = <<h>> \o r
  <2> DEFINE H == S \cup {h}
  <2>1. s \in Seq(H) /\ r \in Seq(H) /\ <<h>> \in Seq(H) /\ <<h, f>> \in Seq(H)
    BY <1>1, <1>2
  <2>2. <<h, f>> \o s \in Seq(H) /\ <<h>> \o r \in Seq(H)
    BY <2>1
  <2>3. Len(<<h, f>> \o s) = Len(s) + 2 /\ Len(<<h>> \o r) = Len(s) + 2
    BY <1>1, <1>2, <2>1
  <2>4. ASSUME NEW i \in 1 .. (Len(s) + 2)
        PROVE  (<<h, f>> \o s)[i] = (<<h>> \o r)[i]
    <3>1. CASE i = 1
      BY <1>1, <1>2, <2>1, <3>1
    <3>2. CASE i = 2
      BY <1>1, <1>2, <2>1, <3>2
    <3>3. CASE i > 2
      <4>1. (<<h, f>> \o s)[i] = s[i - 2]
        BY <1>1, <2>1, <3>3
      <4>2. (<<h>> \o r)[i] = r[i - 1]
        BY <1>1, <1>2, <2>1, <3>3
      <4>3. i - 2 \in 1 .. Len(s) /\ r[(i - 2) + 1] = s[i - 2]
        BY <1>1, <1>2, <3>3
      <4> QED
        BY <1>1, <4>1, <4>2, <4>3
    <3> QED
      BY <1>1, <3>1, <3>2, <3>3
  <2> HIDE DEF H, r
  <2> QED
    BY <1>1, <2>2, <2>3, <2>4
<1> HIDE DEF S, r
<1>4. Range(r) = {f} \cup Range(s)
  <2>1. ASSUME NEW x \in Range(r), x # f PROVE x \in Range(s)
    <3>1. PICK i \in 1 .. (Len(s) + 1) : r[i] = x /\ i # 1
      BY <1>2, <2>1 DEF Range
    <3>2. i - 1 \in 1 .. Len(s) /\ r[(i - 1) + 1] = s[i - 1] /\ (i - 1) + 1 = i
      BY <1>1, <1>2, <3>1
    <3> QED
      BY <1>1, <3>1, <3>2 DEF Range
  <2>2. ASSUME NEW x \in Range(s) PROVE x \in Range(r)
    <3>1. PICK i \in 1 .. Len(s) : s[i] = x
      BY <1>1, <2>2 DEF Range
    <3>2. i + 1 \in DOMAIN r /\ r[i + 1] = x
      BY <1>1, <1>2, <3>1
    <3> QED
      BY <3>2 DEF Range
  <2>3. f \in Range(r)
    BY <1>1, <1>2 DEF Range
  <2> QED
    BY <2>1, <2>2, <2>3
<1>5. ASSUME UndosAbove(s), (\E g \in Range(s) : Cascading(g)) => IsCasc(f.op)
      PROVE  UndosAbove(r)
  <2>1. ASSUME NEW i \in DOMAIN r, NEW j \in DOMAIN r, j < i, Cascading(r[i])
        PROVE  IsCasc(r[j].op)
    <3>1. i - 1 \in 1 .. Len(s) /\ r[(i - 1) + 1] = s[i - 1] /\ (i - 1) + 1 = i
      BY <1>1, <1>2, <2>1
    <3>2. CASE j = 1
      <4>1. s[i - 1] \in Range(s) /\ Cascading(s[i - 1])
        BY <1>1, <2>1, <3>1 DEF Range
      <4> QED
        BY <1>2, <1>5, <3>2, <4>1
    <3>3. CASE j # 1
      <4>1. j - 1 \in 1 .. Len(s) /\ r[(j - 1) + 1] = s[j - 1] /\ (j - 1) + 1 = j /\ j - 1 < i - 1
        BY <1>1, <1>2, <2>1, <3>1, <3>3
      <4> QED
        BY <1>1, <1>5, <2>1, <3>1, <4>1 DEF UndosAbove
    <3> QED
      BY <3>2, <3>3
  <2> QED
    BY <2>1 DEF UndosAbove
<1>6. r # <<>>
  BY <1>1, <1>2
<1> QED
  BY <1>2, <1>3, <1>4, <1>5, <1>6 DEF IsSeq, r

-----------------------------------------------------------------------------
(* Histories: with more layers there is more in them.  The store does not  *)
(* need to know that its layers are enough: an op that is outside of more  *)
(* of them is outside of fewer.                                            *)

(* A set of naturals up to some bound has a first one.                     *)
Before(S, h) == {x \in S : x < h}

LEMMA FirstUpTo ==
    ASSUME NEW n \in Nat, NEW S \in SUBSET (0 .. n), S # {}
    PROVE  \E x \in S : \A y \in S : x <= y
<1> DEFINE T == {Before(S, h) : h \in S}
           R == StrictSubsetOrdering(S)
<1>1. IsFiniteSet(S) /\ S \subseteq Nat
  <2>1. IsFiniteSet(0 .. n)
    BY FS_Interval
  <2>2. IsFiniteSet(S)
    BY <2>1, FS_Subset
  <2>3. S \subseteq Nat
    OBVIOUS
  <2> QED
    BY <2>2, <2>3
<1>2. IsWellFoundedOn(R, FiniteSubsetsOf(S))
  BY <1>1, FS_StrictSubsetOrderingWellFounded
<1>3. T \subseteq FiniteSubsetsOf(S) /\ T # {}
  <2>1. \A h \in S : Before(S, h) \in FiniteSubsetsOf(S)
    BY <1>1, FS_Subset DEF Before, FiniteSubsetsOf
  <2> QED
    BY <2>1
<1>4. PICK B \in T : \A C \in T : <<C, B>> \notin R
  <2> HIDE DEF T, R
  <2> QED
    BY <1>2, <1>3, WFMin
<1>5. PICK x \in S : B = Before(S, x)
  BY <1>4
<1>6. ASSUME NEW y \in S, y < x
      PROVE  FALSE
  <2>1. y \in Before(S, x) /\ y \notin Before(S, y)
    BY <1>1, <1>6 DEF Before
  <2>2. ASSUME NEW z \in Before(S, y) PROVE z \in Before(S, x)
    BY <1>1, <1>6 DEF Before
  <2>3. <<Before(S, y), B>> \in R
    BY <1>5, <2>1, <2>2 DEF StrictSubsetOrdering, Before
  <2> QED
    BY <1>4, <2>3
<1> QED
  BY <1>1, <1>6

(* The ops of a set, and those they follow; and layers, up to the n-th.    *)
PrevOpsIn(g, o) == IF IsBase(o) THEN g[o.name].prev ELSE {o.target}
WithPrevOps(g, B) == B \cup UNION {PrevOpsIn(g, o) : o \in B}
LayersUpTo(g, S, n, f) ==
    f = [k \in 0 .. n |-> IF k = 0 THEN S ELSE WithPrevOps(g, f[k - 1])]

LayersIn(g, S) ==
    CHOOSE f : f = [k \in Nat |-> IF k = 0 THEN S ELSE WithPrevOps(g, f[k - 1])]

LEMMA LayersOfThisGraph ==
    ASSUME NEW S
    PROVE  Layers(S) = LayersIn(graph, S) /\ Layers(S)' = LayersIn(graph', S)
BY DEF Layers, LayersIn, WithPrevOps, PrevOpsIn, PrevOps

LEMMA LayersCanBeMade ==
    ASSUME NEW g, NEW S, NEW n \in Nat
    PROVE  \E f : LayersUpTo(g, S, n, f)
<1> DEFINE T == {m \in 0 .. n : ~ \E f : LayersUpTo(g, S, m, f)}
<1> SUFFICES ASSUME T # {}
             PROVE  FALSE
  <2>1. n \in 0 .. n
    OBVIOUS
  <2> QED
    BY <2>1
<1>1. PICK m \in T : \A y \in T : m <= y
  <2> HIDE DEF T
  <2>1. T \in SUBSET (0 .. n)
    BY DEF T
  <2> QED
    BY <2>1, FirstUpTo
<1>2. CASE m = 0
  <2> DEFINE f == [k \in 0 .. 0 |-> S]
  <2>1. f = [k \in 0 .. 0 |-> IF k = 0 THEN S ELSE WithPrevOps(g, f[k - 1])]
    <3>1. \A k \in 0 .. 0 : k = 0
      OBVIOUS
    <3> QED
      BY <3>1
  <2> QED
    BY <1>1, <1>2, <2>1 DEF LayersUpTo
<1>3. CASE m # 0
  <2>1. m - 1 \in 0 .. n /\ m - 1 \notin T
    BY <1>1, <1>3
  <2>2. PICK f : LayersUpTo(g, S, m - 1, f)
    BY <2>1
  <2> DEFINE h == [k \in 0 .. m |-> IF k = m THEN WithPrevOps(g, f[m - 1]) ELSE f[k]]
  <2>3. ASSUME NEW k \in 0 .. m
        PROVE  h[k] = IF k = 0 THEN S ELSE WithPrevOps(g, h[k - 1])
    <3>1. CASE k = m
      <4>1. m - 1 \in 0 .. m /\ m - 1 # m
        BY <1>1, <1>3
      <4> QED
        BY <1>3, <3>1, <4>1
    <3>2. CASE k # m /\ k = 0
      <4>1. f[0] = S
        BY <1>3, <2>1, <2>2 DEF LayersUpTo
      <4> QED
        BY <3>2, <4>1
    <3>3. CASE k # m /\ k # 0
      <4>1. k \in 0 .. (m - 1) /\ k - 1 \in 0 .. m /\ k - 1 # m /\ k \in Nat /\ k - 1 \in 0 .. (m - 1)
        BY <1>1, <3>3
      <4>2. f[k] = WithPrevOps(g, f[k - 1])
        BY <2>2, <3>3, <4>1 DEF LayersUpTo
      <4> QED
        BY <3>3, <4>1, <4>2
    <3> QED
      BY <3>1, <3>2, <3>3
  <2>4. h = [k \in 0 .. m |-> IF k = 0 THEN S ELSE WithPrevOps(g, h[k - 1])]
    <3>1. h = [k \in 0 .. m |-> h[k]]
      OBVIOUS
    <3> HIDE DEF h
    <3> QED
      BY <2>3, <3>1
  <2>5. LayersUpTo(g, S, m, h)
    BY <2>4 DEF LayersUpTo
  <2> HIDE DEF h
  <2> QED
    BY <1>1, <2>5
<1> QED
  BY <1>2, <1>3

LEMMA LayersAgree ==
    ASSUME NEW g, NEW S, NEW m \in Nat, NEW n \in Nat, m <= n,
           NEW f, LayersUpTo(g, S, m, f), NEW h, LayersUpTo(g, S, n, h)
    PROVE  \A k \in 0 .. m : f[k] = h[k]
<1> DEFINE T == {k \in 0 .. m : f[k] # h[k]}
<1> SUFFICES ASSUME T # {}
             PROVE  FALSE
  OBVIOUS
<1>1. PICK k \in T : \A y \in T : k <= y
  <2> HIDE DEF T
  <2>1. T \in SUBSET (0 .. m)
    BY DEF T
  <2> QED
    BY <2>1, FirstUpTo
<1>2. k \in 0 .. m /\ k \in 0 .. n
  BY <1>1
<1>3. /\ f[k] = IF k = 0 THEN S ELSE WithPrevOps(g, f[k - 1])
      /\ h[k] = IF k = 0 THEN S ELSE WithPrevOps(g, h[k - 1])
  BY <1>2 DEF LayersUpTo
<1>4. k # 0 => f[k - 1] = h[k - 1]
  <2>1. k # 0 => k - 1 \in 0 .. m /\ ~ (k <= k - 1)
    BY <1>2
  <2> QED
    BY <1>1, <2>1
<1> QED
  BY <1>1, <1>3, <1>4

LEMMA LayersAreDefined ==
    ASSUME NEW g, NEW S
    PROVE  \A n \in Nat :
             LayersIn(g, S)[n + 1] = WithPrevOps(g, LayersIn(g, S)[n])
<1> DEFINE upTo(n) == CHOOSE f : LayersUpTo(g, S, n, f)
           all == [n \in Nat |-> upTo(n)[n]]
<1>1. ASSUME NEW n \in Nat PROVE LayersUpTo(g, S, n, upTo(n))
  BY LayersCanBeMade
<1>2. ASSUME NEW n \in Nat
      PROVE  all[n] = IF n = 0 THEN S ELSE WithPrevOps(g, all[n - 1])
  <2>1. LayersUpTo(g, S, n, upTo(n)) /\ n \in 0 .. n
    BY <1>1
  <2>2. upTo(n)[n] = IF n = 0 THEN S ELSE WithPrevOps(g, upTo(n)[n - 1])
    <3> HIDE DEF upTo
    <3> QED
      BY <2>1 DEF LayersUpTo
  <2>3. CASE n # 0
    <3>1. n - 1 \in Nat /\ n - 1 <= n /\ n - 1 \in 0 .. (n - 1)
      BY <2>3
    <3>2. LayersUpTo(g, S, n - 1, upTo(n - 1))
      BY <1>1, <3>1
    <3>3. upTo(n - 1)[n - 1] = upTo(n)[n - 1]
      <4> HIDE DEF upTo
      <4> QED
        BY <2>1, <3>1, <3>2, LayersAgree
    <3> HIDE DEF upTo
    <3> QED
      BY <2>2, <2>3, <3>1, <3>3
  <2> HIDE DEF upTo
  <2> QED
    BY <2>2, <2>3
<1>3. all = [k \in Nat |-> IF k = 0 THEN S ELSE WithPrevOps(g, all[k - 1])]
  <2>1. all = [k \in Nat |-> all[k]]
    OBVIOUS
  <2> HIDE DEF all
  <2> QED
    BY <1>2, <2>1
<1> HIDE DEF all
<1>4. LayersIn(g, S) = [k \in Nat |-> IF k = 0 THEN S ELSE WithPrevOps(g, LayersIn(g, S)[k - 1])]
  BY <1>3, Zenon DEF LayersIn
<1>5. ASSUME NEW n \in Nat
      PROVE  LayersIn(g, S)[n + 1] = WithPrevOps(g, LayersIn(g, S)[n])
  <2>1. n + 1 \in Nat /\ n + 1 # 0 /\ (n + 1) - 1 = n
    OBVIOUS
  <2>2. LayersIn(g, S)[n + 1] = WithPrevOps(g, LayersIn(g, S)[(n + 1) - 1])
    BY <1>4, <2>1
  <2> QED
    BY <2>1, <2>2
<1> QED
  BY <1>5

LEMMA LayersGrow ==
    ASSUME NEW g, NEW S, NEW m \in Nat, NEW n \in Nat, m <= n
    PROVE  LayersIn(g, S)[m] \subseteq LayersIn(g, S)[n]
<1> DEFINE T == {k \in 0 .. n : m <= k /\ ~ (LayersIn(g, S)[m] \subseteq LayersIn(g, S)[k])}
<1> SUFFICES ASSUME T # {}
             PROVE  FALSE
  OBVIOUS
<1>1. PICK k \in T : \A y \in T : k <= y
  <2> HIDE DEF T
  <2>1. T \in SUBSET (0 .. n)
    BY DEF T
  <2> QED
    BY <2>1, FirstUpTo
<1>2. k \in 0 .. n /\ m <= k /\ k # m
  BY <1>1
<1>3. k - 1 \in Nat /\ k - 1 \in 0 .. n /\ m <= k - 1 /\ (k - 1) + 1 = k /\ ~ (k <= k - 1)
  BY <1>2
<1>4. LayersIn(g, S)[m] \subseteq LayersIn(g, S)[k - 1]
  BY <1>1, <1>3
<1>5. LayersIn(g, S)[k] = WithPrevOps(g, LayersIn(g, S)[k - 1])
  BY <1>3, LayersAreDefined
<1> QED
  BY <1>1, <1>4, <1>5 DEF WithPrevOps

-----------------------------------------------------------------------------
(* What a step of a save does to the store.                                *)
GraphInv == graph \in Graphs /\ IsSeq(stored)

StoredMore == graph' = graph /\ IsSeq(stored') /\ Stored \subseteq Stored' /\ Len(stored) <= Len(stored')

LEMMA StoreOpStores ==
    ASSUME GraphInv, NEW t \in Tasks, StoreOp(t)
    PROVE  /\ StoredMore
           /\ \/ UNCHANGED <<stored, terminal>> /\ Reject(t) /\ ~ (PrevOps(Top(t).op) \subseteq Stored)
              \/ /\ PrevOps(Top(t).op) \subseteq Stored
                 /\ Stored' = Stored \cup {Top(t).op}
                 /\ terminal' = TerminalAfter(Top(t).op)
                 /\ Continue(t, [Top(t) EXCEPT !.pc = "causal", !.left = CausalOps(Top(t).op)])
                 /\ backend = "memory" =>
                      stored' = stored \/ stored' = Append(stored, Top(t).op)
<1> DEFINE o == Top(t).op
<1>1. IsSeq(stored) /\ graph' = graph
  BY DEF GraphInv, StoreOp, rigid
<1>2. CASE PrevOps(o) \subseteq Stored
  <2>1. stored' = IF backend = "memory" THEN MemoryIndex(o) ELSE IdbIndex(o)
    BY <1>2 DEF StoreOp
  <2>2. /\ terminal' = TerminalAfter(o)
        /\ Continue(t, [Top(t) EXCEPT !.pc = "causal", !.left = CausalOps(o)])
    BY <1>2 DEF StoreOp
  <2> HIDE DEF o
  <2>3. ASSUME stored' = Append(stored, o)
        PROVE  StoredMore /\ Stored' = Stored \cup {o}
    <3>1. /\ IsSeq(Append(stored, o)) /\ Len(Append(stored, o)) = Len(stored) + 1
          /\ Range(Append(stored, o)) = Range(stored) \cup {o} /\ Len(stored) \in Nat
      BY <1>1, AppendFacts, SeqFacts
    <3> QED
      BY <1>1, <2>3, <3>1 DEF StoredMore, Stored
  <2>4. ASSUME o \in Stored, stored' = stored
        PROVE  StoredMore /\ Stored' = Stored \cup {o}
    BY <1>1, <2>4, SeqFacts DEF StoredMore, Stored
  <2>5. ASSUME o \in Stored, stored' = IdbIndex(o)
        PROVE  StoredMore /\ Stored' = Stored \cup {o}
    <3> DEFINE i == CHOOSE j \in DOMAIN stored : stored[j] = o
               r == RemoveAt(stored, i)
    <3>1. i \in DOMAIN stored /\ stored[i] = o
      BY <2>5 DEF Stored, Range
    <3>2. stored' = Append(r, o)
      BY <2>5 DEF IdbIndex
    <3> HIDE DEF i
    <3>3. IsSeq(r) /\ Range(r) \cup {o} = Range(stored)
      BY <1>1, <3>1, RemoveAtFacts
    <3>4. Len(r) = Len(stored) - 1 /\ Len(stored) \in Nat
      <4>1. Len(stored) \in Nat /\ DOMAIN stored = 1 .. Len(stored) /\ stored \in Seq(Range(stored))
        BY <1>1, SeqFacts
      <4>2. Len(SubSeq(stored, 1, i - 1)) = i - 1 /\ Len(SubSeq(stored, i + 1, Len(stored))) = Len(stored) - i
        BY <3>1, <4>1
      <4>3. SubSeq(stored, 1, i - 1) \in Seq(Range(stored)) /\ SubSeq(stored, i + 1, Len(stored)) \in Seq(Range(stored))
        BY <3>1, <4>1
      <4>4. Len(r) = Len(SubSeq(stored, 1, i - 1)) + Len(SubSeq(stored, i + 1, Len(stored)))
        BY ONLY <4>3 DEF RemoveAt
      <4> QED
        BY <3>1, <4>1, <4>2, <4>4
    <3> HIDE DEF r
    <3>5. /\ IsSeq(Append(r, o)) /\ Len(Append(r, o)) = Len(r) + 1
          /\ Range(Append(r, o)) = Range(r) \cup {o}
      BY <3>3, AppendFacts
    <3>6. IsSeq(stored') /\ Len(stored') = Len(stored) /\ Range(stored') = Range(stored)
      BY <3>2, <3>3, <3>4, <3>5
    <3> QED
      BY <1>1, <2>5, <3>4, <3>6 DEF StoredMore, Stored
  <2>6. StoredMore /\ Stored' = Stored \cup {o}
    BY <2>1, <2>3, <2>4, <2>5 DEF MemoryIndex, IdbIndex
  <2>7. backend = "memory" => stored' = stored \/ stored' = Append(stored, o)
    BY <2>1 DEF MemoryIndex
  <2> QED
    BY <1>2, <2>2, <2>6, <2>7 DEF o
<1>3. CASE ~ (PrevOps(o) \subseteq Stored)
  BY <1>1, <1>3, SeqFacts DEF StoreOp, StoredMore, Stored
<1> QED
  BY <1>2, <1>3

(* The other steps store nothing.                                          *)
SameStore == UNCHANGED <<rigid, stored, terminal>>

LEMMA OnlyStoreOpStores ==
    ASSUME [Next]_vars, ~ \E t \in Tasks : StoreOp(t)
    PROVE  SameStore
BY DEF Next, Run, Save, Load, LoadInvalidations, LoadConsequences, SaveNext, EndSave, vars, SameStore

(* The order of the store and its terminal ops.                            *)
StoreInv == GraphInv /\ TerminalOpsCover /\ StoreOrderCausal

LEMMA StoreInvInit == Init => StoreInv
<1> SUFFICES ASSUME Init PROVE StoreInv
  OBVIOUS
<1>1. IsSeq(stored) /\ Stored = {} /\ DOMAIN stored = {}
  BY EmptyStack DEF Init, Stored, Range
<1> QED
  BY <1>1 DEF Init, StoreInv, GraphInv, TerminalOpsCover, StoreOrderCausal

LEMMA SameStoreKeeps ==
    ASSUME StoreInv, SameStore
    PROVE  StoreInv'
BY DEF StoreInv, SameStore, rigid, GraphInv, TerminalOpsCover, StoreOrderCausal, Stored, PrevOps, Range

LEMMA StoreOpKeeps ==
    ASSUME StoreInv, NEW t \in Tasks, StoreOp(t)
    PROVE  StoreInv'
<1> DEFINE o == Top(t).op
<1>1. GraphInv /\ graph' = graph /\ backend' = backend
  BY DEF StoreInv, StoreOp, rigid
<1>2. ASSUME NEW x PROVE PrevOps(x)' = PrevOps(x)
  BY <1>1 DEF PrevOps
<1>3. CASE UNCHANGED <<stored, terminal>>
  BY <1>1, <1>3, SameStoreKeeps DEF SameStore, StoreOp
<1>4. CASE ~ UNCHANGED <<stored, terminal>>
  <2>1. /\ StoredMore /\ Stored' = Stored \cup {o} /\ PrevOps(o) \subseteq Stored
        /\ terminal' = TerminalAfter(o)
        /\ backend = "memory" => stored' = stored \/ stored' = Append(stored, o)
    BY <1>1, <1>4, StoreOpStores
  <2> HIDE DEF o
  <2>2. GraphInv'
    BY <1>1, <2>1 DEF GraphInv, StoredMore
  <2>3. TerminalOpsCover'
    <3>1. ASSUME NEW x \in Stored', \A y \in Stored' : x \notin PrevOps(y)
          PROVE  x \in terminal'
      <4>1. x \notin PrevOps(o) /\ \A y \in Stored : x \notin PrevOps(y)
        BY <2>1, <3>1
      <4>2. x = o \/ x \in terminal
        BY <2>1, <4>1 DEF StoreInv, TerminalOpsCover
      <4> QED
        BY <2>1, <4>1, <4>2 DEF TerminalAfter, Followed
    <3> QED
      BY <1>2, <3>1 DEF TerminalOpsCover
  <2>4. StoreOrderCausal'
    <3>1. SUFFICES ASSUME backend = "memory", NEW i \in DOMAIN stored'
                   PROVE  PrevOps(stored'[i]) \subseteq {stored'[j] : j \in 1 .. (i - 1)}
      BY <1>1, <1>2 DEF StoreOrderCausal
    <3>2. CASE stored' = stored
      BY <3>1, <3>2 DEF StoreInv, StoreOrderCausal
    <3>3. CASE stored' = Append(stored, o)
      <4>1. /\ Len(stored) \in Nat /\ DOMAIN stored = 1 .. Len(stored)
            /\ DOMAIN stored' = 1 .. (Len(stored) + 1)
            /\ \A j \in 1 .. Len(stored) : stored'[j] = stored[j]
            /\ stored'[Len(stored) + 1] = o
        BY <1>1, <3>3, AppendFacts, SeqFacts DEF GraphInv
      <4>2. CASE i \in 1 .. Len(stored)
        <5>1. PrevOps(stored[i]) \subseteq {stored[j] : j \in 1 .. (i - 1)}
          BY <3>1, <4>1, <4>2 DEF StoreInv, StoreOrderCausal
        <5>2. \A j \in 1 .. (i - 1) : stored'[j] = stored[j]
          BY <4>1, <4>2
        <5>3. stored'[i] = stored[i]
          BY <4>1, <4>2
        <5> QED
          BY <5>1, <5>2, <5>3
      <4>3. CASE i = Len(stored) + 1
        <5>1. ASSUME NEW p \in PrevOps(o) PROVE \E j \in 1 .. (i - 1) : p = stored'[j]
          <6>1. PICK j \in 1 .. Len(stored) : stored[j] = p
            BY <2>1, <4>1 DEF Stored, Range
          <6> QED
            BY <4>1, <4>3, <6>1
        <5> QED
          BY <4>1, <4>3, <5>1
      <4> QED
        BY <3>1, <4>1, <4>2, <4>3
    <3> QED
      BY <2>1, <3>1, <3>2, <3>3
  <2> QED
    BY <2>2, <2>3, <2>4 DEF StoreInv
<1> QED
  BY <1>3, <1>4

LEMMA StoreInvariant == Spec => []StoreInv
<1>1. StoreInv /\ [Next]_vars => StoreInv'
  BY OnlyStoreOpStores, SameStoreKeeps, StoreOpKeeps
<1> QED
  BY <1>1, StoreInvInit, PTL DEF Spec

(* Every op of the store is in the history that its terminal ops reach,    *)
(* over both backends, and also when an op is stored twice.                *)
THEOREM TerminalOpsReachAll == Spec => []TerminalOpsCover
BY StoreInvariant, PTL DEF StoreInv

(* The memory backend keeps an op after those it was created on.           *)
THEOREM MemoryOrderIsCausal == Spec => []StoreOrderCausal
BY StoreInvariant, PTL DEF StoreInv

-----------------------------------------------------------------------------
(* The undos and redos.                                                    *)

(* An undo or a redo of stored ops, as the code makes them.                *)
GoodCascade(o) ==
    /\ IsCasc(o) /\ o = Create(o.target, o.cause)
    /\ o.target \in Stored /\ o.cause \in Stored
    /\ Validates(o)

GoodOp(o) == o \in BaseOps \/ GoodCascade(o)

MakeFrame(op, pc, todo, left) == [op |-> op, pc |-> pc, todo |-> todo, left |-> left]

(* What the frames of a save hold.                                         *)
GoodFrame(f) ==
    /\ f = MakeFrame(f.op, f.pc, f.todo, f.left)
    /\ GoodOp(f.op) /\ f.pc \in {"load", "deps", "causal", "conseq"}
    /\ f.pc = "deps" => f.todo \subseteq IF IsBase(f.op) THEN BaseOps ELSE Stored
    /\ f.pc \in {"causal", "conseq"} =>
          f.op \in Stored /\ \A o \in f.todo \ Stored : GoodCascade(o)
    /\ f.pc = "causal" => f.left \subseteq CausalOps(f.op)

(* The cascade from y to x is yet to be made by the frame, or being saved. *)
WillCascade(f, x, y) ==
    \/ f.pc = "causal" /\ f.op = x /\ TargetOps(y) \cap f.left # {}
    \/ f.pc = "causal" /\ f.op = y
    \/ f.pc \in {"causal", "conseq"} /\ Create(x, y) \in f.todo
    \/ f.op = Create(x, y)

GoodOps == \A o \in Stored : GoodOp(o)

Stacks == saving = [t \in Tasks |-> saving[t]] /\ \A t \in Tasks : IsSeq(saving[t])

GoodStacks ==
    \A t \in Tasks : UndosAbove(saving[t]) /\ \A f \in Range(saving[t]) : GoodFrame(f)

AllMade ==
    \A x, y \in Stored :
        MustCascade(x, y) => \/ Create(x, y) \in Stored
                             \/ \E t \in Tasks : \E f \in Range(saving[t]) : WillCascade(f, x, y)

CascadeInv == GraphInv /\ Stacks /\ GoodOps /\ GoodStacks /\ AllMade

-----------------------------------------------------------------------------
(* Ops.                                                                    *)

LEMMA BaseOpFacts ==
    ASSUME graph \in Graphs, NEW o \in BaseOps
    PROVE  /\ IsBase(o) /\ ~ IsCasc(o)
           /\ CausalOps(o) \subseteq BaseOps /\ TargetOps(o) \subseteq BaseOps
           /\ \A p \in TargetOps(o) : ~ IsInv(p) /\ ObjectOf(p) = ObjectOf(o)
           /\ ~ IsInv(o) => TargetOps(o) = {}
<1>1. PICK n \in DOMAIN graph : o = Base(n)
  BY DEF BaseOps
<1>2. IsBase(o) /\ ~ IsCasc(o) /\ o.name = n
  BY <1>1 DEF Base, IsBase, IsCasc
<1>3. /\ graph[n].causal \subseteq BaseOps
      /\ graph[n].inv \subseteq {Base(m) : m \in {k \in DOMAIN graph :
                                    graph[k].inv = {} /\ graph[k].object = graph[n].object}}
  BY GraphsAssumption DEF BaseOps
<1>4. CausalOps(o) = graph[n].causal /\ TargetOps(o) = graph[n].inv /\ ObjectOf(o) = graph[n].object
  BY <1>2 DEF CausalOps, TargetOps, ObjectOf
<1>5. ASSUME NEW p \in TargetOps(o)
      PROVE  p \in BaseOps /\ ~ IsInv(p) /\ ObjectOf(p) = ObjectOf(o)
  <2>1. PICK m \in DOMAIN graph : p = Base(m) /\ graph[m].inv = {} /\ graph[m].object = graph[n].object
    BY <1>3, <1>4
  <2>2. IsBase(p) /\ p.name = m
    BY <2>1 DEF Base, IsBase
  <2> QED
    BY <1>4, <2>1, <2>2 DEF IsInv, ObjectOf, BaseOps
<1>6. ~ IsInv(o) => TargetOps(o) = {}
  BY <1>2, <1>4 DEF IsInv
<1> QED
  BY <1>2, <1>3, <1>4, <1>5, <1>6

LEMMA CreateFacts ==
    ASSUME NEW t, NEW c
    PROVE  /\ IsCasc(Create(t, c)) /\ Create(t, c).target = t /\ Create(t, c).cause = c
           /\ Create(t, c).undo = (IsBase(t) \/ ~ t.undo)
           /\ ObjectOf(Create(t, c)) = ObjectOf(t)
           /\ PrevOps(Create(t, c)) = {t} /\ CausalOps(Create(t, c)) = {c}
           /\ TargetOps(Create(t, c)) = {t}
<1>1. /\ IsCasc(Create(t, c)) /\ Create(t, c).target = t /\ Create(t, c).cause = c
      /\ Create(t, c).undo = (IsBase(t) \/ ~ t.undo)
      /\ Create(t, c).final = IF IsBase(t) THEN t ELSE t.final
  BY DEF Create, IsCasc, IsBase
<1> QED
  BY <1>1 DEF ObjectOf, PrevOps, CausalOps, TargetOps, IsCasc

LEMMA CascadeFacts ==
    ASSUME NEW o, GoodCascade(o)
    PROVE  /\ IsCasc(o) /\ ~ IsBase(o) /\ ~ IsInv(o) /\ o \notin BaseOps
           /\ PrevOps(o) = {o.target} /\ CausalOps(o) = {o.cause} /\ TargetOps(o) = {o.target}
           /\ PrevOps(o) \subseteq Stored /\ Literals(o) \subseteq Stored
           /\ WellFormed(o)
<1>1. IsCasc(o) /\ ~ IsBase(o)
  BY DEF GoodCascade, IsCasc
<1>2. o \notin BaseOps
  BY <1>1 DEF BaseOps, Base, IsBase
<1> QED
  BY <1>1, <1>2 DEF GoodCascade, IsInv, PrevOps, CausalOps, TargetOps, Literals, WellFormed, Validates

(* What an op that is good and depends on a target that an InvalidateAfterOp *)
(* may have is not an undo.                                                *)
LEMMA InvTargetsAreNotCauses ==
    ASSUME graph \in Graphs, NEW x, GoodOp(x), NEW y, GoodOp(y), IsInv(y),
           TargetOps(y) \cap CausalOps(x) # {}
    PROVE  x \in BaseOps /\ y \in BaseOps
<1>1. y \in BaseOps
  BY CascadeFacts DEF GoodOp
<1>2. ASSUME GoodCascade(x) PROVE FALSE
  <2>1. x.cause \in TargetOps(y)
    BY <1>2, CascadeFacts
  <2>2. ~ IsInv(x.cause) /\ ~ IsCasc(x.cause)
    BY <1>1, <2>1, BaseOpFacts
  <2> QED
    BY <1>2, <2>2 DEF GoodCascade, Validates
<1> QED
  BY <1>1, <1>2 DEF GoodOp

LEMMA CreatedIsGood ==
    ASSUME graph \in Graphs, NEW x \in Stored, GoodOp(x), NEW y \in Stored, GoodOp(y),
           TargetOps(y) \cap CausalOps(x) # {},
           IsInv(y) \/ IsCasc(y), IsInv(y) => ObjectOf(x) = ObjectOf(y)
    PROVE  GoodCascade(Create(x, y))
<1> DEFINE o == Create(x, y)
<1>1. /\ IsCasc(o) /\ o.target = x /\ o.cause = y /\ o.undo = (IsBase(x) \/ ~ x.undo)
      /\ ObjectOf(o) = ObjectOf(x) /\ o = Create(o.target, o.cause)
  BY CreateFacts
<1> HIDE DEF o
<1>2. o.undo # (IsCasc(o.target) /\ o.target.undo)
  <2>1. CASE IsBase(x)
    BY <1>1, <2>1 DEF IsCasc
  <2>2. CASE ~ IsBase(x)
    <3>1. GoodCascade(x)
      BY <2>2, BaseOpFacts DEF GoodOp
    <3>2. x.undo \in BOOLEAN
      <4>1. x = Create(x.target, x.cause)
        BY <3>1 DEF GoodCascade
      <4>2. x.undo = (IsBase(x.target) \/ ~ x.target.undo)
        BY <4>1, CreateFacts
      <4> QED
        BY <4>2
    <3> QED
      BY <1>1, <2>2, <3>2 DEF IsCasc
  <2> QED
    BY <2>1, <2>2
<1>3. ASSUME IsInv(y)
      PROVE  o.undo /\ IsBase(o.target) /\ ObjectOf(o) = ObjectOf(o.cause)
  <2>1. x \in BaseOps
    BY <1>3, InvTargetsAreNotCauses
  <2>2. IsBase(x)
    BY <2>1, BaseOpFacts
  <2> QED
    BY <1>1, <1>3, <2>2
<1>4. Validates(o)
  BY <1>1, <1>2, <1>3 DEF Validates
<1> QED
  BY <1>1, <1>4 DEF GoodCascade, o

(* An op says the same in the next state.                                  *)
LEMMA SameOps ==
    ASSUME graph' = graph, NEW o
    PROVE  /\ PrevOps(o)' = PrevOps(o) /\ CausalOps(o)' = CausalOps(o)
           /\ TargetOps(o)' = TargetOps(o) /\ ObjectOf(o)' = ObjectOf(o)
           /\ IsInv(o)' = IsInv(o) /\ BaseOps' = BaseOps /\ Validates(o)' = Validates(o)
<1>1. /\ PrevOps(o)' = PrevOps(o) /\ CausalOps(o)' = CausalOps(o)
      /\ TargetOps(o)' = TargetOps(o) /\ ObjectOf(o)' = ObjectOf(o)
      /\ IsInv(o)' = IsInv(o) /\ BaseOps' = BaseOps
  BY DEF PrevOps, CausalOps, TargetOps, ObjectOf, IsInv, BaseOps
<1>2. Validates(o)' = Validates(o)
  BY DEF Validates, CausalOps, TargetOps, ObjectOf, IsInv
<1> QED
  BY <1>1, <1>2

LEMMA GoodStaysGood ==
    ASSUME StoredMore, NEW o
    PROVE  /\ GoodCascade(o) => GoodCascade(o)'
           /\ GoodOp(o) => GoodOp(o)'
           /\ GoodFrame(o) => GoodFrame(o)'
<1>1. graph' = graph /\ Stored \subseteq Stored'
  BY DEF StoredMore
<1>2. ASSUME NEW p PROVE GoodCascade(p) => GoodCascade(p)'
  <2>1. Validates(p)' = Validates(p)
    BY <1>1, SameOps
  <2> QED
    BY <1>1, <2>1 DEF GoodCascade
<1>3. ASSUME NEW p PROVE GoodOp(p) => GoodOp(p)'
  <2>1. BaseOps' = BaseOps
    BY <1>1, SameOps
  <2> QED
    BY <1>2, <2>1 DEF GoodOp
<1>4. GoodFrame(o) => GoodFrame(o)'
  <2>1. BaseOps' = BaseOps
    BY <1>1, SameOps
  <2>2. CausalOps(o.op)' = CausalOps(o.op)
    BY <1>1 DEF CausalOps
  <2>3. GoodOp(o.op) => GoodOp(o.op)'
    BY <1>3
  <2> QED
    BY <1>1, <1>2, <2>1, <2>2, <2>3 DEF GoodFrame
<1> QED
  BY <1>2, <1>3, <1>4

LEMMA PastIsInLayers ==
    ASSUME NEW y
    PROVE  /\ PrevClosure(PrevOps(y)) = LayersIn(graph, PrevOpsIn(graph, y))[Len(stored)]
           /\ PrevClosure(PrevOps(y))' = LayersIn(graph', PrevOpsIn(graph', y))[Len(stored')]
BY DEF PrevClosure, Layers, LayersIn, WithPrevOps, PrevOpsIn, PrevOps

(* What must cascade had to before.                                        *)
LEMMA MustCascadeSince ==
    ASSUME StoredMore, GraphInv, NEW x, NEW y, MustCascade(x, y)'
    PROVE  MustCascade(x, y)
<1>1. graph' = graph /\ Len(stored) \in Nat /\ Len(stored') \in Nat /\ Len(stored) <= Len(stored')
  BY SeqFacts DEF StoredMore, GraphInv
<1>2. PrevClosure(PrevOps(y)) \subseteq PrevClosure(PrevOps(y))'
  BY <1>1, PastIsInLayers, LayersGrow
<1>3. Outside(x, y)' => Outside(x, y)
  BY <1>2 DEF Outside
<1>4. /\ IsInv(y)' = IsInv(y) /\ TargetOps(y)' = TargetOps(y) /\ CausalOps(x)' = CausalOps(x)
      /\ ObjectOf(x)' = ObjectOf(x) /\ ObjectOf(y)' = ObjectOf(y)
  BY <1>1, SameOps
<1> QED
  BY <1>3, <1>4 DEF MustCascade

-----------------------------------------------------------------------------
(* One task goes on: its stack is q from now on.                           *)

LEMMA StepKeeps ==
    ASSUME CascadeInv, StoredMore, NEW t \in Tasks, NEW q,
           saving' = [saving EXCEPT ![t] = q], IsSeq(q), UndosAbove(q),
           \A f \in Range(q) : GoodFrame(f)', GoodOps',
           \A x, y \in Stored : \A f \in Range(saving[t]) :
               MustCascade(x, y) /\ WillCascade(f, x, y)
                 => Create(x, y) \in Stored' \/ \E g \in Range(q) : WillCascade(g, x, y),
           \A x, y \in Stored' :
               MustCascade(x, y)' /\ ~ (x \in Stored /\ y \in Stored)
                 => Create(x, y) \in Stored' \/ \E g \in Range(q) : WillCascade(g, x, y)
    PROVE  CascadeInv'
<1>1. /\ saving = [u \in Tasks |-> saving[u]] /\ saving'[t] = q
      /\ \A u \in Tasks \ {t} : saving'[u] = saving[u]
      /\ saving' = [u \in Tasks |-> saving'[u]]
  BY DEF CascadeInv, Stacks
<1>2. Stacks'
  BY <1>1 DEF CascadeInv, Stacks
<1>3. GraphInv'
  BY DEF CascadeInv, GraphInv, StoredMore
<1>4. GoodStacks'
  <2>1. ASSUME NEW u \in Tasks, u # t, NEW f \in Range(saving[u])
        PROVE  GoodFrame(f)'
    BY <2>1, GoodStaysGood DEF CascadeInv, GoodStacks
  <2> QED
    BY <1>1, <2>1 DEF CascadeInv, GoodStacks
<1>5. ASSUME NEW f, NEW x, NEW y PROVE WillCascade(f, x, y)' <=> WillCascade(f, x, y)
  <2>1. TargetOps(y)' = TargetOps(y)
    BY SameOps DEF StoredMore
  <2> QED
    BY <2>1 DEF WillCascade
<1>6. ASSUME NEW x \in Stored', NEW y \in Stored', MustCascade(x, y)'
      PROVE  \/ Create(x, y) \in Stored'
             \/ \E u \in Tasks : \E f \in Range(saving'[u]) : WillCascade(f, x, y)
  <2>1. CASE ~ (x \in Stored /\ y \in Stored)
    BY <1>1, <1>6, <2>1
  <2>2. CASE x \in Stored /\ y \in Stored
    <3>1. MustCascade(x, y)
      BY <1>6, MustCascadeSince DEF CascadeInv
    <3>2. CASE Create(x, y) \in Stored
      BY <3>2 DEF StoredMore
    <3>3. ASSUME NEW u \in Tasks, NEW f \in Range(saving[u]), WillCascade(f, x, y)
          PROVE  \/ Create(x, y) \in Stored'
                 \/ \E w \in Tasks : \E g \in Range(saving'[w]) : WillCascade(g, x, y)
      <4>1. CASE u = t
        <5>1. Create(x, y) \in Stored' \/ \E g \in Range(q) : WillCascade(g, x, y)
          BY <2>2, <3>1, <3>3, <4>1
        <5> QED
          BY <1>1, <5>1
      <4>2. CASE u # t
        BY <1>1, <3>3, <4>2
      <4> QED
        BY <4>1, <4>2
    <3> QED
      BY <2>2, <3>1, <3>2, <3>3 DEF CascadeInv, AllMade
  <2> QED
    BY <2>1, <2>2
<1>7. AllMade'
  BY <1>5, <1>6 DEF AllMade
<1> QED
  BY <1>2, <1>3, <1>4, <1>7 DEF CascadeInv

(* The same, when nothing is stored.                                       *)
LEMMA QuietStepKeeps ==
    ASSUME CascadeInv, SameStore, NEW t \in Tasks, NEW q,
           saving' = [saving EXCEPT ![t] = q], IsSeq(q), UndosAbove(q),
           \A f \in Range(q) : GoodFrame(f),
           \A x, y \in Stored : \A f \in Range(saving[t]) :
               MustCascade(x, y) /\ WillCascade(f, x, y)
                 => Create(x, y) \in Stored \/ \E g \in Range(q) : WillCascade(g, x, y)
    PROVE  CascadeInv'
<1>1. StoredMore /\ Stored' = Stored
  BY SeqFacts DEF CascadeInv, GraphInv, SameStore, rigid, StoredMore, Stored
<1>2. \A f \in Range(q) : GoodFrame(f)'
  BY <1>1, GoodStaysGood
<1>3. GoodOps'
  BY <1>1, GoodStaysGood DEF CascadeInv, GoodOps
<1> QED
  BY <1>1, <1>2, <1>3, StepKeeps

LEMMA TopFacts ==
    ASSUME CascadeInv, NEW t \in Tasks, ~ Idle(t)
    PROVE  /\ IsSeq(Tail(saving[t])) /\ UndosAbove(Tail(saving[t]))
           /\ Range(saving[t]) = {Top(t)} \cup Range(Tail(saving[t]))
           /\ (\E g \in Range(Tail(saving[t])) : Cascading(g)) => IsCasc(Top(t).op)
           /\ \A f \in Range(saving[t]) : GoodFrame(f)
           /\ GoodFrame(Top(t))
<1>1. IsSeq(saving[t]) /\ saving[t] # <<>> /\ UndosAbove(saving[t])
  BY DEF CascadeInv, Stacks, GoodStacks, Idle
<1>2. \A f \in Range(saving[t]) : GoodFrame(f)
  BY DEF CascadeInv, GoodStacks
<1> QED
  BY <1>1, <1>2, PopFacts DEF Top

LEMMA ContinueKeeps ==
    ASSUME CascadeInv, SameStore, NEW t \in Tasks, ~ Idle(t), NEW f, Continue(t, f),
           f.op = Top(t).op, GoodFrame(f),
           \A x, y \in Stored : MustCascade(x, y) /\ WillCascade(Top(t), x, y)
                => Create(x, y) \in Stored \/ WillCascade(f, x, y)
    PROVE  CascadeInv'
<1> DEFINE s == Tail(saving[t])
           q == <<f>> \o s
<1>1. /\ IsSeq(s) /\ UndosAbove(s) /\ Range(saving[t]) = {Top(t)} \cup Range(s)
      /\ (\E g \in Range(s) : Cascading(g)) => IsCasc(f.op)
      /\ \A g \in Range(saving[t]) : GoodFrame(g)
  BY TopFacts
<1>2. saving' = [saving EXCEPT ![t] = q]
  BY DEF Continue
<1> HIDE DEF s
<1>3. IsSeq(q) /\ Range(q) = {f} \cup Range(s) /\ UndosAbove(q)
  BY <1>1, PushFacts
<1> HIDE DEF q
<1>4. ASSUME NEW x \in Stored, NEW y \in Stored, NEW g \in Range(saving[t]),
             MustCascade(x, y), WillCascade(g, x, y)
      PROVE  Create(x, y) \in Stored \/ \E h \in Range(q) : WillCascade(h, x, y)
  BY <1>1, <1>3, <1>4
<1>5. \A g \in Range(q) : GoodFrame(g)
  BY <1>1, <1>3
<1> QED
  BY <1>2, <1>3, <1>4, <1>5, QuietStepKeeps

LEMMA ReturnKeeps ==
    ASSUME CascadeInv, SameStore, NEW t \in Tasks, ~ Idle(t), Return(t),
           \A x, y \in Stored : MustCascade(x, y) /\ WillCascade(Top(t), x, y)
                => Create(x, y) \in Stored
    PROVE  CascadeInv'
<1> DEFINE q == Tail(saving[t])
<1>1. /\ IsSeq(q) /\ UndosAbove(q) /\ Range(saving[t]) = {Top(t)} \cup Range(q)
      /\ \A g \in Range(saving[t]) : GoodFrame(g)
  BY TopFacts
<1>2. saving' = [saving EXCEPT ![t] = q]
  BY DEF Return
<1> HIDE DEF q
<1>3. ASSUME NEW x \in Stored, NEW y \in Stored, NEW g \in Range(saving[t]),
             MustCascade(x, y), WillCascade(g, x, y)
      PROVE  Create(x, y) \in Stored \/ \E h \in Range(q) : WillCascade(h, x, y)
  BY <1>1, <1>3
<1>4. \A g \in Range(q) : GoodFrame(g)
  BY <1>1
<1> QED
  BY <1>1, <1>2, <1>3, <1>4, QuietStepKeeps

(* A save is rejected only when its stack has nothing to cascade.          *)
LEMMA RejectKeeps ==
    ASSUME CascadeInv, SameStore, NEW t \in Tasks, ~ Idle(t), Reject(t), ~ Cascading(Top(t))
    PROVE  CascadeInv'
<1> DEFINE q == <<>>
<1>1. IsSeq(q) /\ UndosAbove(q) /\ Range(q) = {}
  BY EmptyStack
<1>2. saving' = [saving EXCEPT ![t] = q]
  BY DEF Reject
<1> HIDE DEF q
<1>3. ASSUME NEW g \in Range(saving[t]) PROVE ~ Cascading(g)
  BY TopFacts DEF Cascading
<1>4. ASSUME NEW x \in Stored, NEW y \in Stored, NEW g \in Range(saving[t]), WillCascade(g, x, y)
      PROVE  FALSE
  BY <1>3, <1>4, CreateFacts DEF Cascading, WillCascade
<1> QED
  BY <1>1, <1>2, <1>4, QuietStepKeeps

LEMMA CallKeeps ==
    ASSUME CascadeInv, SameStore, NEW t \in Tasks, ~ Idle(t), NEW f, NEW o, Call(t, f, o),
           f.op = Top(t).op, GoodFrame(f), GoodOp(o), Cascading(f) => IsCasc(o),
           \A x, y \in Stored : MustCascade(x, y) /\ WillCascade(Top(t), x, y)
                => WillCascade(f, x, y) \/ o = Create(x, y)
    PROVE  CascadeInv'
<1> DEFINE s == Tail(saving[t])
           r == <<f>> \o s
           q == <<Frame(o), f>> \o s
<1>1. /\ IsSeq(s) /\ UndosAbove(s) /\ Range(saving[t]) = {Top(t)} \cup Range(s)
      /\ (\E g \in Range(s) : Cascading(g)) => IsCasc(f.op)
      /\ \A g \in Range(saving[t]) : GoodFrame(g)
  BY TopFacts
<1>2. saving' = [saving EXCEPT ![t] = q]
  BY DEF Call
<1>3. Frame(o).op = o /\ Frame(o).pc = "load" /\ GoodFrame(Frame(o))
  BY DEF Frame, GoodFrame, MakeFrame
<1> HIDE DEF s
<1>4. IsSeq(r) /\ Range(r) = {f} \cup Range(s) /\ UndosAbove(r)
  BY <1>1, PushFacts
<1>5. q = <<Frame(o)>> \o r
  BY <1>1, PushFacts
<1>6. (\E g \in Range(r) : Cascading(g)) => IsCasc(Frame(o).op)
  BY <1>1, <1>3, <1>4 DEF Cascading
<1> HIDE DEF q, r
<1>7. IsSeq(q) /\ Range(q) = {Frame(o)} \cup Range(r) /\ UndosAbove(q)
  BY <1>4, <1>5, <1>6, PushFacts
<1>8. ASSUME NEW x \in Stored, NEW y \in Stored, NEW g \in Range(saving[t]),
             MustCascade(x, y), WillCascade(g, x, y)
      PROVE  Create(x, y) \in Stored \/ \E h \in Range(q) : WillCascade(h, x, y)
  <2>1. o = Create(x, y) => WillCascade(Frame(o), x, y)
    BY <1>3 DEF WillCascade
  <2> QED
    BY <1>1, <1>4, <1>7, <1>8, <2>1
<1>9. \A g \in Range(q) : GoodFrame(g)
  BY <1>1, <1>3, <1>4, <1>7
<1> QED
  BY <1>2, <1>7, <1>8, <1>9, QuietStepKeeps

-----------------------------------------------------------------------------
(* The actions.                                                            *)

(* An op depends on an op that an InvalidateAfterOp invalidates only if    *)
(* they are for the same object: the constructor of CascadedInvalidateOp   *)
(* throws otherwise, and what is left of the cascades is lost.             *)
InvalidationsAreLocal ==
    \A g \in Graphs : \A m, n \in DOMAIN g :
        g[n].inv \cap g[m].causal # {} => g[m].object = g[n].object

(* The frames that a task goes on with.                                    *)
LEMMA FrameToSave ==
    ASSUME NEW f, f = MakeFrame(f.op, f.pc, f.todo, f.left), NEW pc, NEW todo
    PROVE  [f EXCEPT !.pc = pc, !.todo = todo] = MakeFrame(f.op, pc, todo, f.left)
<1> DEFINE D == {"op", "pc", "todo", "left"}
           r == [f EXCEPT !.pc = pc, !.todo = todo]
<1>1. f = [op |-> f.op, pc |-> f.pc, todo |-> f.todo, left |-> f.left]
  BY DEF MakeFrame
<1>2. DOMAIN f = D /\ f = [x \in D |-> f[x]]
  BY ONLY <1>1
<1>3. r = [x \in D |-> IF x = "pc" THEN pc ELSE IF x = "todo" THEN todo ELSE f[x]]
  BY ONLY <1>2
<1> QED
  BY ONLY <1>3 DEF MakeFrame

LEMMA FrameStored ==
    ASSUME NEW f, f = MakeFrame(f.op, f.pc, f.todo, f.left), NEW pc, NEW left,
           NEW r, r = [f EXCEPT !.pc = pc, !.left = left]
    PROVE  r = MakeFrame(f.op, pc, f.todo, left)
<1> DEFINE D == {"op", "pc", "todo", "left"}
<1>1. f = [op |-> f.op, pc |-> f.pc, todo |-> f.todo, left |-> f.left]
  BY DEF MakeFrame
<1>2. DOMAIN f = D /\ f = [x \in D |-> f[x]]
  BY ONLY <1>1
<1>3. r = [x \in D |-> IF x = "pc" THEN pc ELSE IF x = "left" THEN left ELSE f[x]]
  BY ONLY <1>2, r = [f EXCEPT !.pc = pc, !.left = left]
<1> QED
  BY ONLY <1>3 DEF MakeFrame

LEMMA FrameLooked ==
    ASSUME NEW f, f = MakeFrame(f.op, f.pc, f.todo, f.left), NEW left, NEW todo
    PROVE  [f EXCEPT !.left = left, !.todo = todo] = MakeFrame(f.op, f.pc, todo, left)
<1> DEFINE D == {"op", "pc", "todo", "left"}
           r == [f EXCEPT !.left = left, !.todo = todo]
<1>1. f = [op |-> f.op, pc |-> f.pc, todo |-> f.todo, left |-> f.left]
  BY DEF MakeFrame
<1>2. DOMAIN f = D /\ f = [x \in D |-> f[x]]
  BY ONLY <1>1
<1>3. r = [x \in D |-> IF x = "left" THEN left ELSE IF x = "todo" THEN todo ELSE f[x]]
  BY ONLY <1>2
<1> QED
  BY ONLY <1>3 DEF MakeFrame

LEMMA FrameCalled ==
    ASSUME NEW f, f = MakeFrame(f.op, f.pc, f.todo, f.left), NEW o
    PROVE  [f EXCEPT !.todo = @ \ {o}] = MakeFrame(f.op, f.pc, f.todo \ {o}, f.left)
<1> DEFINE D == {"op", "pc", "todo", "left"}
           r == [f EXCEPT !.todo = @ \ {o}]
<1>1. f = [op |-> f.op, pc |-> f.pc, todo |-> f.todo, left |-> f.left]
  BY DEF MakeFrame
<1>2. DOMAIN f = D /\ f = [x \in D |-> f[x]]
  BY ONLY <1>1
<1>3. r = [x \in D |-> IF x = "todo" THEN f.todo \ {o} ELSE f[x]]
  BY ONLY <1>2
<1> QED
  BY ONLY <1>3 DEF MakeFrame

LEMMA FrameParts ==
    ASSUME NEW op, NEW pc, NEW todo, NEW left, NEW f, f = MakeFrame(op, pc, todo, left)
    PROVE  f.op = op /\ f.pc = pc /\ f.todo = todo /\ f.left = left
BY DEF MakeFrame

LEMMA SaveKeeps ==
    ASSUME CascadeInv, NEW t \in Tasks, NEW o \in Arriving, Save(t, o)
    PROVE  CascadeInv'
<1>1. SameStore /\ saving[t] = <<>> /\ saving' = [saving EXCEPT ![t] = <<Frame(o)>>]
  BY DEF Save, Idle, SameStore
<1>2. GoodOp(o)
  <2>1. CASE o \in BaseOps
    BY <2>1 DEF GoodOp
  <2>2. CASE o \in Cascades(Stored)
    <3>1. PICK x \in Stored, y \in Stored : o = Create(x, y) /\ MustCascade(x, y)
      BY <2>2 DEF Cascades
    <3>2. GoodOp(x) /\ GoodOp(y) /\ graph \in Graphs
      BY DEF CascadeInv, GoodOps, GraphInv
    <3>3. GoodCascade(Create(x, y))
      BY <3>1, <3>2, CreatedIsGood DEF MustCascade
    <3> QED
      BY <3>1, <3>3 DEF GoodOp
  <2> QED
    BY <2>1, <2>2 DEF Arriving
<1> DEFINE q == <<Frame(o)>>
           s == <<>>
<1>3. q = <<Frame(o)>> \o s
  OBVIOUS
<1>4. IsSeq(s) /\ UndosAbove(s) /\ Range(s) = {}
  BY EmptyStack
<1>5. saving[t] = s /\ saving' = [saving EXCEPT ![t] = q]
  BY <1>1
<1> HIDE DEF q, s
<1>6. IsSeq(q) /\ Range(q) = {Frame(o)} /\ UndosAbove(q)
  BY <1>3, <1>4, PushFacts
<1>7. GoodFrame(Frame(o))
  BY <1>2 DEF Frame, GoodFrame, MakeFrame
<1> QED
  BY <1>1, <1>4, <1>5, <1>6, <1>7, QuietStepKeeps

LEMMA LoadKeeps ==
    ASSUME CascadeInv, NEW t \in Tasks, Load(t)
    PROVE  CascadeInv'
<1> DEFINE f == Top(t)
<1>1. SameStore /\ ~ Idle(t) /\ f.pc = "load"
  BY DEF Load, SameStore
<1>2. GoodFrame(f) /\ GoodOp(f.op) /\ f = MakeFrame(f.op, f.pc, f.todo, f.left)
  BY <1>1, TopFacts DEF GoodFrame
<1>3. ASSUME NEW x, NEW y, WillCascade(f, x, y)
      PROVE  f.op = Create(x, y)
  BY <1>1, <1>3 DEF WillCascade
<1>4. CASE f.op \in Stored
  <2>1. Return(t)
    BY <1>4 DEF Load
  <2> QED
    BY <1>1, <1>3, <1>4, <2>1, ReturnKeeps
<1>5. CASE f.op \notin Stored
  <2> DEFINE h == [f EXCEPT !.pc = "deps", !.todo = Literals(f.op)]
  <2>1. Continue(t, h)
    BY <1>5 DEF Load
  <2> HIDE DEF f
  <2>2. h = MakeFrame(f.op, "deps", Literals(f.op), f.left)
    BY <1>2, FrameToSave
  <2> HIDE DEF h
  <2>3. h.op = f.op /\ h.pc = "deps" /\ h.todo = Literals(f.op) /\ h.left = f.left
    BY <2>2, FrameParts
  <2>4. Literals(f.op) \subseteq IF IsBase(f.op) THEN BaseOps ELSE Stored
    <3>1. CASE f.op \in BaseOps
      BY <3>1, BaseOpFacts DEF CascadeInv, GraphInv, Literals
    <3>2. CASE GoodCascade(f.op)
      BY <3>2, CascadeFacts
    <3> QED
      BY <1>2, <3>1, <3>2 DEF GoodOp
  <2>5. GoodFrame(h)
    BY <1>2, <2>2, <2>3, <2>4 DEF GoodFrame
  <2>6. ASSUME NEW x, NEW y, WillCascade(f, x, y) PROVE WillCascade(h, x, y)
    BY <1>3, <2>3, <2>6 DEF WillCascade
  <2> QED
    BY <1>1, <2>1, <2>3, <2>5, <2>6, ContinueKeeps DEF f
<1> QED
  BY <1>4, <1>5

LEMMA StoreOpKeepsCascades ==
    ASSUME CascadeInv, NEW t \in Tasks, StoreOp(t)
    PROVE  CascadeInv'
<1>0. PICK f, o : f = Top(t) /\ o = f.op
  OBVIOUS
<1>1. ~ Idle(t) /\ f.pc = "deps" /\ f.todo \subseteq Stored /\ GraphInv /\ UNCHANGED rigid
  BY <1>0 DEF StoreOp, Pending, CascadeInv
<1>2. GoodFrame(f) /\ GoodOp(o) /\ f = MakeFrame(o, f.pc, f.todo, f.left)
  BY <1>0, <1>1, TopFacts DEF GoodFrame
<1>3. CASE UNCHANGED <<stored, terminal>> /\ Reject(t) /\ ~ (PrevOps(o) \subseteq Stored)
  <2>1. o \in BaseOps
    BY <1>2, <1>3, CascadeFacts DEF GoodOp
  <2>2. ~ Cascading(f)
    BY <1>0, <1>1, <2>1, BaseOpFacts DEF Cascading, GraphInv
  <2>3. SameStore
    BY <1>1, <1>3 DEF SameStore
  <2> QED
    BY <1>0, <1>1, <1>3, <2>2, <2>3, RejectKeeps
<1>4. ASSUME Stored' = Stored \cup {o}, StoredMore,
             Continue(t, [f EXCEPT !.pc = "causal", !.left = CausalOps(o)])
      PROVE  CascadeInv'
  <2>0. PICK h, s, q : /\ h = [f EXCEPT !.pc = "causal", !.left = CausalOps(o)]
                       /\ s = Tail(saving[t]) /\ q = <<h>> \o s
    OBVIOUS
  <2>1. saving' = [saving EXCEPT ![t] = q]
    BY <1>4, <2>0 DEF Continue
  <2>2. /\ IsSeq(s) /\ UndosAbove(s) /\ Range(saving[t]) = {f} \cup Range(s)
        /\ (\E g \in Range(s) : Cascading(g)) => IsCasc(o)
        /\ \A g \in Range(saving[t]) : GoodFrame(g)
    BY <1>0, <1>1, <2>0, TopFacts
  <2>3. h = MakeFrame(o, "causal", f.todo, CausalOps(o))
    <3>1. f = MakeFrame(f.op, f.pc, f.todo, f.left)
      BY <1>0, <1>2
    <3> DEFINE left == CausalOps(o)
    <3> HIDE DEF left
    <3>2. h = [f EXCEPT !.pc = "causal", !.left = left]
      BY ONLY <2>0 DEF left
    <3>3. h = MakeFrame(f.op, "causal", f.todo, left)
      BY ONLY <3>1, <3>2, FrameStored
    <3>4. f.op = o
      BY ONLY <1>2, FrameParts
    <3> QED
      BY ONLY <3>3, <3>4 DEF left
  <2>4. h.op = o /\ h.pc = "causal" /\ h.todo = f.todo /\ h.left = CausalOps(o)
    BY <2>3, FrameParts
  <2>5. GoodFrame(h)'
    <3>1. GoodOp(o)' /\ CausalOps(o)' = CausalOps(o)
      BY <1>2, <1>4, GoodStaysGood, SameOps DEF StoredMore
    <3>2. h.op \in Stored' /\ h.todo \ Stored' = {}
      BY <1>1, <1>4, <2>4
    <3> QED
      BY <2>3, <2>4, <3>1, <3>2 DEF GoodFrame
  <2>6. IsSeq(q) /\ Range(q) = {h} \cup Range(s) /\ UndosAbove(q)
    BY <2>0, <2>2, <2>4, PushFacts
  <2>7. \A g \in Range(q) : GoodFrame(g)'
    BY <1>4, <2>2, <2>5, <2>6, GoodStaysGood
  <2>8. GoodOps'
    <3>1. ASSUME NEW p \in Stored PROVE GoodOp(p)'
      BY <1>4, GoodStaysGood DEF CascadeInv, GoodOps
    <3>2. GoodOp(o)'
      BY <1>2, <1>4, GoodStaysGood
    <3> QED
      BY <1>4, <3>1, <3>2 DEF GoodOps
  <2>9. ASSUME NEW x \in Stored, NEW y \in Stored, NEW g \in Range(saving[t]), WillCascade(g, x, y)
        PROVE  Create(x, y) \in Stored' \/ \E k \in Range(q) : WillCascade(k, x, y)
    <3>1. CASE g = f
      BY <1>0, <1>1, <1>4, <2>9, <3>1 DEF WillCascade
    <3>2. CASE g \in Range(s)
      BY <2>6, <2>9, <3>2
    <3> QED
      BY <2>2, <3>1, <3>2
  <2>10. ASSUME NEW x \in Stored', NEW y \in Stored', MustCascade(x, y)',
                ~ (x \in Stored /\ y \in Stored)
         PROVE  \E k \in Range(q) : WillCascade(k, x, y)
    <3>1. TargetOps(y) \cap CausalOps(x) # {}
      BY <1>4, <2>10, SameOps DEF MustCascade, StoredMore
    <3>2. x = o \/ y = o
      BY <1>4, <2>10
    <3>3. WillCascade(h, x, y)
      BY <2>4, <3>1, <3>2 DEF WillCascade
    <3> QED
      BY <2>6, <3>3
  <2> QED
    BY <1>4, <2>1, <2>6, <2>7, <2>8, <2>9, <2>10, StepKeeps
<1> QED
  BY <1>0, <1>1, <1>3, <1>4, StoreOpStores

LEMMA LoadInvalidationsKeeps ==
    ASSUME CascadeInv, NEW t \in Tasks, LoadInvalidations(t)
    PROVE  CascadeInv'
<1>0. PICK f : f = Top(t)
  OBVIOUS
<1>1. SameStore /\ ~ Idle(t) /\ f.pc = "causal" /\ f.todo \subseteq Stored
  BY <1>0 DEF LoadInvalidations, SameStore, Pending
<1>2. /\ GoodFrame(f) /\ f = MakeFrame(f.op, f.pc, f.todo, f.left)
      /\ f.op \in Stored /\ f.left \subseteq CausalOps(f.op)
  BY <1>0, <1>1, TopFacts DEF GoodFrame
<1>3. PICK c \in f.left :
        Continue(t, [f EXCEPT !.left = CausalOpsAfter(f, c),
                              !.todo = {Create(f.op, y) : y \in {z \in Invalidations(c) :
                                          IsInv(z) => ObjectOf(z) = ObjectOf(f.op)}}])
  BY <1>0 DEF LoadInvalidations
<1>4. PICK found : found = {z \in Invalidations(c) : IsInv(z) => ObjectOf(z) = ObjectOf(f.op)}
  OBVIOUS
<1>5. PICK todo : todo = {Create(f.op, y) : y \in found}
  OBVIOUS
<1>6. PICK h : h = [f EXCEPT !.left = f.left \ {c}, !.todo = todo]
  OBVIOUS
<1>7. Continue(t, h)
  BY <1>3, <1>4, <1>5, <1>6 DEF CausalOpsAfter
<1>8. h = MakeFrame(f.op, f.pc, todo, f.left \ {c})
  BY <1>2, <1>6, FrameLooked
<1>9. h.op = f.op /\ h.pc = f.pc /\ h.todo = todo /\ h.left = f.left \ {c}
  BY <1>8, FrameParts
<1>10. ASSUME NEW y \in found
       PROVE  GoodCascade(Create(f.op, y))
  <2>1. /\ y \in Stored /\ (IsInv(y) \/ IsCasc(y)) /\ c \in TargetOps(y)
        /\ IsInv(y) => ObjectOf(f.op) = ObjectOf(y)
    BY <1>4, <1>10 DEF Invalidations
  <2>2. TargetOps(y) \cap CausalOps(f.op) # {}
    BY <1>2, <2>1
  <2>3. GoodOp(y) /\ GoodOp(f.op) /\ graph \in Graphs
    BY <1>2, <2>1 DEF CascadeInv, GoodOps, GraphInv
  <2> QED
    BY <1>2, <2>1, <2>2, <2>3, CreatedIsGood
<1>11. GoodFrame(h)
  <2>1. \A o \in h.todo \ Stored : GoodCascade(o)
    BY <1>5, <1>9, <1>10
  <2> QED
    BY <1>1, <1>2, <1>8, <1>9, <2>1 DEF GoodFrame
<1>12. ASSUME NEW x \in Stored, NEW y \in Stored, MustCascade(x, y), WillCascade(f, x, y)
       PROVE  Create(x, y) \in Stored \/ WillCascade(h, x, y)
  <2>1. CASE f.op = x /\ TargetOps(y) \cap f.left # {}
    <3>1. CASE c \in TargetOps(y)
      <4>1. y \in found
        BY <1>4, <1>12, <2>1, <3>1 DEF MustCascade, Invalidations
      <4> QED
        BY <1>1, <1>5, <1>9, <2>1, <4>1 DEF WillCascade
    <3>2. CASE c \notin TargetOps(y)
      BY <1>1, <1>9, <2>1, <3>2 DEF WillCascade
    <3> QED
      BY <3>1, <3>2
  <2>2. CASE f.op = y \/ f.op = Create(x, y)
    BY <1>1, <1>9, <2>2 DEF WillCascade
  <2>3. CASE Create(x, y) \in f.todo
    BY <1>1, <2>3
  <2> QED
    BY <1>12, <2>1, <2>2, <2>3 DEF WillCascade
<1> QED
  BY <1>0, <1>1, <1>7, <1>9, <1>11, <1>12, ContinueKeeps

LEMMA LoadConsequencesKeeps ==
    ASSUME InvalidationsAreLocal, CascadeInv, NEW t \in Tasks, LoadConsequences(t)
    PROVE  CascadeInv'
<1>0. PICK f, found, hit : /\ f = Top(t)
                           /\ found = UNION {Consequences(c) : c \in TargetOps(f.op)}
                           /\ hit = {x \in found : IsInv(f.op) => x \notin Spared(f.op)}
  OBVIOUS
<1>1. SameStore /\ ~ Idle(t) /\ f.pc = "causal" /\ f.todo \subseteq Stored /\ f.left = {}
  BY <1>0 DEF LoadConsequences, SameStore, Pending
<1>2. /\ GoodFrame(f) /\ f = MakeFrame(f.op, f.pc, f.todo, f.left)
      /\ f.op \in Stored /\ GoodOp(f.op)
  BY <1>0, <1>1, TopFacts DEF GoodFrame
<1>3. ASSUME NEW x \in Stored, NEW y \in Stored, MustCascade(x, y), WillCascade(f, x, y)
      PROVE  Create(x, y) \in Stored \/ (f.op = y /\ x \in hit)
  <2>1. CASE f.op = y
    <3>1. x \in found
      BY <1>0, <1>3, <2>1 DEF MustCascade, Consequences
    <3>2. x \in hit
      BY <1>0, <1>3, <2>1, <3>1 DEF MustCascade, Outside, Spared
    <3> QED
      BY <2>1, <3>2
  <2>2. CASE f.op # y
    BY <1>1, <1>2, <1>3, <2>2 DEF WillCascade
  <2> QED
    BY <2>1, <2>2
<1>4. CASE hit = {}
  <2>1. Return(t)
    BY <1>0, <1>4 DEF LoadConsequences
  <2> QED
    BY <1>0, <1>1, <1>3, <1>4, <2>1, ReturnKeeps
<1>5. CASE hit # {}
  <2>0. PICK todo, h : todo = {Create(x, f.op) : x \in hit} /\ h = [f EXCEPT !.pc = "conseq", !.todo = todo]
    OBVIOUS
  <2>1. Continue(t, h)
    BY <1>0, <1>5, <2>0 DEF LoadConsequences
  <2>2. h = MakeFrame(f.op, "conseq", todo, f.left)
    BY <1>2, <2>0, FrameToSave
  <2>3. h.op = f.op /\ h.pc = "conseq" /\ h.todo = todo /\ h.left = f.left
    BY <2>2, FrameParts
  <2>4. ASSUME NEW x \in hit
        PROVE  GoodCascade(Create(x, f.op))
    <3>1. x \in Stored /\ TargetOps(f.op) \cap CausalOps(x) # {}
      BY <1>0, <2>4 DEF Consequences
    <3>2. GoodOp(x) /\ graph \in Graphs
      BY <3>1 DEF CascadeInv, GoodOps, GraphInv
    <3>3. IsInv(f.op) \/ IsCasc(f.op)
      BY <1>2, <3>1, <3>2, BaseOpFacts, CascadeFacts DEF GoodOp
    <3>4. ASSUME IsInv(f.op) PROVE ObjectOf(x) = ObjectOf(f.op)
      <4>1. x \in BaseOps /\ f.op \in BaseOps
        BY <1>2, <3>1, <3>2, <3>4, InvTargetsAreNotCauses
      <4>2. PICK m \in DOMAIN graph, n \in DOMAIN graph : x = Base(m) /\ f.op = Base(n)
        BY <4>1 DEF BaseOps
      <4>3. IsBase(x) /\ x.name = m /\ IsBase(f.op) /\ f.op.name = n
        BY <4>2 DEF Base, IsBase
      <4>4. graph[n].inv \cap graph[m].causal # {}
        BY <3>1, <4>3 DEF TargetOps, CausalOps
      <4> QED
        BY <3>2, <4>3, <4>4 DEF InvalidationsAreLocal, ObjectOf
    <3> QED
      BY <1>2, <3>1, <3>2, <3>3, <3>4, CreatedIsGood
  <2>5. GoodFrame(h)
    <3>1. \A o \in h.todo \ Stored : GoodCascade(o)
      BY <2>0, <2>3, <2>4
    <3> QED
      BY <1>2, <2>2, <2>3, <3>1 DEF GoodFrame
  <2>6. ASSUME NEW x \in Stored, NEW y \in Stored, MustCascade(x, y), WillCascade(f, x, y)
        PROVE  Create(x, y) \in Stored \/ WillCascade(h, x, y)
    BY <1>3, <2>0, <2>3, <2>6 DEF WillCascade
  <2> QED
    BY <1>0, <1>1, <2>1, <2>3, <2>5, <2>6, ContinueKeeps
<1> QED
  BY <1>4, <1>5

(* Whatever a save has yet to save is an op that can be made: nothing is   *)
(* lost when the constructor of CascadedInvalidateOp refuses.              *)
LEMMA SaveNextKeeps ==
    ASSUME CascadeInv, NEW t \in Tasks, SaveNext(t)
    PROVE  CascadeInv'
<1>0. PICK f : f = Top(t)
  OBVIOUS
<1>1. SameStore /\ ~ Idle(t) /\ f.pc # "load"
  BY <1>0 DEF SaveNext, SameStore
<1>2. /\ GoodFrame(f) /\ f = MakeFrame(f.op, f.pc, f.todo, f.left) /\ GoodOp(f.op)
      /\ f.pc \in {"deps", "causal", "conseq"} /\ graph \in Graphs
  BY <1>0, <1>1, TopFacts DEF GoodFrame, CascadeInv, GraphInv
<1>3. PICK o \in f.todo \ Stored :
        IF WellFormed(o) THEN Call(t, [f EXCEPT !.todo = @ \ {o}], o) ELSE Reject(t)
  BY <1>0 DEF SaveNext, Pending
<1>4. GoodOp(o) /\ WellFormed(o) /\ (Cascading(f) => IsCasc(o))
  <2>1. CASE f.pc = "deps"
    <3>1. IsBase(f.op) /\ o \in BaseOps
      BY <1>2, <1>3, <2>1 DEF GoodFrame
    <3>2. ~ IsCasc(o)
      BY <1>2, <3>1, BaseOpFacts
    <3> QED
      BY <2>1, <3>1, <3>2 DEF GoodOp, WellFormed, Cascading, IsCasc
  <2>2. CASE f.pc \in {"causal", "conseq"}
    <3>1. GoodCascade(o)
      BY <1>2, <1>3, <2>2 DEF GoodFrame
    <3> QED
      BY <3>1, CascadeFacts DEF GoodOp
  <2> QED
    BY <1>2, <2>1, <2>2
<1>5. PICK h : h = [f EXCEPT !.todo = @ \ {o}]
  OBVIOUS
<1>6. Call(t, h, o)
  BY <1>3, <1>4, <1>5
<1>7. h = MakeFrame(f.op, f.pc, f.todo \ {o}, f.left)
  BY <1>2, <1>5, FrameCalled
<1>8. h.op = f.op /\ h.pc = f.pc /\ h.todo = f.todo \ {o} /\ h.left = f.left
  BY <1>7, FrameParts
<1>9. GoodFrame(h)
  BY <1>2, <1>7, <1>8 DEF GoodFrame
<1>10. Cascading(h) => IsCasc(o)
  BY <1>4, <1>8 DEF Cascading
<1>11. ASSUME NEW x, NEW y, WillCascade(f, x, y)
       PROVE  WillCascade(h, x, y) \/ o = Create(x, y)
  BY <1>8, <1>11 DEF WillCascade
<1> QED
  BY <1>0, <1>1, <1>4, <1>6, <1>8, <1>9, <1>10, <1>11, CallKeeps

LEMMA EndSaveKeeps ==
    ASSUME CascadeInv, NEW t \in Tasks, EndSave(t)
    PROVE  CascadeInv'
<1>0. PICK f : f = Top(t)
  OBVIOUS
<1>1. SameStore /\ ~ Idle(t) /\ f.pc = "conseq" /\ f.todo \subseteq Stored /\ Return(t)
  BY <1>0 DEF EndSave, SameStore, Pending
<1>2. f.op \in Stored
  BY <1>0, <1>1, TopFacts DEF GoodFrame
<1>3. ASSUME NEW x, NEW y, WillCascade(f, x, y) PROVE Create(x, y) \in Stored
  BY <1>1, <1>2, <1>3 DEF WillCascade
<1> QED
  BY <1>0, <1>1, <1>3, ReturnKeeps

LEMMA StutterKeepsCascades ==
    ASSUME CascadeInv, UNCHANGED vars
    PROVE  CascadeInv'
<1>1. SameStore /\ saving' = saving /\ StoredMore /\ Stored' = Stored
  BY SeqFacts DEF vars, SameStore, CascadeInv, GraphInv, rigid, StoredMore, Stored
<1>2. GraphInv' /\ Stacks'
  BY <1>1 DEF CascadeInv, GraphInv, Stacks, StoredMore
<1>3. GoodOps' /\ GoodStacks'
  BY <1>1, GoodStaysGood DEF CascadeInv, GoodOps, GoodStacks
<1>4. AllMade'
  <2>1. ASSUME NEW f, NEW x, NEW y PROVE WillCascade(f, x, y)' <=> WillCascade(f, x, y)
    <3>1. TargetOps(y)' = TargetOps(y)
      BY <1>1, SameOps DEF StoredMore
    <3> QED
      BY <3>1 DEF WillCascade
  <2>2. ASSUME NEW x, NEW y, MustCascade(x, y)' PROVE MustCascade(x, y)
    BY <1>1, <2>2, MustCascadeSince DEF CascadeInv
  <2> QED
    BY <1>1, <2>1, <2>2 DEF CascadeInv, AllMade
<1> QED
  BY <1>2, <1>3, <1>4 DEF CascadeInv

LEMMA CascadeInvInit == Init => CascadeInv
<1> SUFFICES ASSUME Init PROVE CascadeInv
  OBVIOUS
<1>1. IsSeq(stored) /\ Stored = {}
  BY EmptyStack DEF Init, Stored
<1>2. \A t \in Tasks : saving[t] = <<>>
  BY DEF Init
<1>3. saving = [t \in Tasks |-> saving[t]]
  BY DEF Init
<1>4. \A t \in Tasks : IsSeq(saving[t]) /\ Range(saving[t]) = {} /\ UndosAbove(saving[t])
  BY <1>2, EmptyStack
<1> QED
  BY <1>1, <1>3, <1>4 DEF Init, CascadeInv, GraphInv, Stacks, GoodOps, GoodStacks, AllMade

LEMMA CascadeInvNext ==
    ASSUME InvalidationsAreLocal, CascadeInv, [Next]_vars
    PROVE  CascadeInv'
<1>1. CASE UNCHANGED vars
  BY <1>1, StutterKeepsCascades
<1>2. ASSUME NEW t \in Tasks, NEW o \in Arriving, Save(t, o)
      PROVE  CascadeInv'
  BY <1>2, SaveKeeps
<1>3. ASSUME NEW t \in Tasks, Run(t)
      PROVE  CascadeInv'
  BY <1>3, LoadKeeps, StoreOpKeepsCascades, LoadInvalidationsKeeps, LoadConsequencesKeeps,
     SaveNextKeeps, EndSaveKeeps DEF Run
<1> QED
  BY <1>1, <1>2, <1>3 DEF Next

LEMMA CascadeInvImplies == CascadeInv => CascadesExact
<1> SUFFICES ASSUME CascadeInv PROVE CascadesExact
  OBVIOUS
<1>1. ASSUME Quiet, NEW x \in Stored, NEW y \in Stored, MustCascade(x, y)
      PROVE  Create(x, y) \in Stored
  <2>1. \A t \in Tasks : Range(saving[t]) = {}
    BY <1>1, EmptyStack DEF Quiet, Idle
  <2> QED
    BY <1>1, <2>1 DEF CascadeInv, AllMade
<1>2. ASSUME NEW o \in Stored, IsCasc(o)
      PROVE  Validates(o)
  <2>1. GoodOp(o) /\ graph \in Graphs
    BY DEF CascadeInv, GoodOps, GraphInv
  <2>2. o \notin BaseOps
    BY <1>2, <2>1, BaseOpFacts
  <2> QED
    BY <2>1, <2>2 DEF GoodOp, GoodCascade
<1> QED
  BY <1>1, <1>2 DEF CascadesExact, Cascades

(* Once the saves are over, every undo and redo that the stored ops call   *)
(* for is stored, and every one that is stored is accepted by the other    *)
(* replicas: for all graphs whose dependencies on invalidated ops stay     *)
(* within one object, any number of saves, over either backend.            *)
THEOREM CascadesAreExact ==
    ASSUME InvalidationsAreLocal
    PROVE  Spec => []CascadesExact
<1>1. CascadeInv /\ [Next]_vars => CascadeInv'
  BY CascadeInvNext
<1> QED
  BY <1>1, CascadeInvInit, CascadeInvImplies, PTL DEF Spec
=============================================================================
