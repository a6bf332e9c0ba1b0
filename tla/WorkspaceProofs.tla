-------------------------- MODULE WorkspaceProofs ---------------------------
(***************************************************************************)
(* Proofs about Workspace, for any scenes, jobs, lines and terminals: what *)
(* the tabs show, that no pane is lost, and the order of a snippet's lines.*)
(*                                                                         *)
(* The tabs' part of the invariant (TabInv) is that the store is sound: no *)
(* id and no pane is in it twice, a grid holds each of its tab's panes in  *)
(* one cell and its sizes fill it, both sides of a split have a tab, and   *)
(* the focus is on one its side shows. No pane of a tab was killed or      *)
(* handed over, and unless keys and exits come under an open menu, a pane  *)
(* that left was one of the two and not both. What a menu, a drag and a    *)
(* divider remember of the tabs they began on is part of it too.           *)
(*                                                                         *)
(* The snippets' part (SnippetInv) is that each terminal was given a job's *)
(* lines in order, none of them twice and none the job has not reached;    *)
(* and that with calm snippets a terminal has one job, nothing typed ahead *)
(* and no command running when it is the job's turn.                       *)
(*                                                                         *)
(* Lemmas about the operators come first: sequences, the strip and its two *)
(* sides, the store, the grid, the sizes. Then one lemma for each step.    *)
(***************************************************************************)
EXTENDS Workspace, SequenceTheorems, WellFoundedInduction, TLAPS

(* A set of numbers has a least one.                                       *)
LEMMA LeastNumber ==
  ASSUME NEW T, T \subseteq Nat, T # {}
  PROVE  \E n \in T : \A m \in T : n <= m
<1>1. IsWellFoundedOn(OpToRel(<, Nat), Nat)
  BY NatLessThanWellFounded
<1>2. \E x \in T : \A y \in T : ~ (<<y, x>> \in OpToRel(<, Nat))
  BY <1>1, WFMin
<1>3. \E x \in T : \A y \in T : ~ (y < x)
  BY <1>2 DEF OpToRel
<1>4. QED
  BY <1>3

(* What Keep puts together element by element.                             *)
LEMMA KeepExists ==
  ASSUME NEW s, Len(s) \in Nat, NEW T
  PROVE  \E f : f = [i \in 0 .. Len(s) |->
                       IF i = 0 THEN <<>>
                       ELSE IF s[i] \in T THEN Append(f[i - 1], s[i]) ELSE f[i - 1]]
<1> DEFINE Upto(n, f) == f = [i \in 0 .. n |->
                       IF i = 0 THEN <<>>
                       ELSE IF s[i] \in T THEN Append(f[i - 1], s[i]) ELSE f[i - 1]]
           Bad == {n \in Nat : ~ \E f : Upto(n, f)}
<1>1. \E f : Upto(0, f)
  <2>1. Upto(0, [i \in 0 .. 0 |-> <<>>])
    OBVIOUS
  <2>2. QED
    BY <2>1
<1>2. ASSUME NEW n \in Nat, NEW f, Upto(n, f) PROVE \E g : Upto(n + 1, g)
  <2> DEFINE g == [i \in 0 .. (n + 1) |->
                     IF i <= n THEN f[i]
                     ELSE IF s[i] \in T THEN Append(f[n], s[i]) ELSE f[n]]
  <2>1. \A i \in 0 .. n : g[i] = f[i]
    OBVIOUS
  <2>2. \A i \in 0 .. n : f[i] = IF i = 0 THEN <<>>
                                 ELSE IF s[i] \in T THEN Append(f[i - 1], s[i]) ELSE f[i - 1]
    BY <1>2
  <2>3. \A i \in 0 .. (n + 1) : i # 0 => i - 1 \in 0 .. n
    OBVIOUS
  <2>4. \A i \in 0 .. (n + 1) :
          g[i] = IF i = 0 THEN <<>> ELSE IF s[i] \in T THEN Append(g[i - 1], s[i]) ELSE g[i - 1]
    <3>1. ASSUME NEW i \in 0 .. (n + 1)
          PROVE  g[i] = IF i = 0 THEN <<>>
                        ELSE IF s[i] \in T THEN Append(g[i - 1], s[i]) ELSE g[i - 1]
      <4>1. CASE i \in 0 .. n
        BY <2>1, <2>2, <2>3, <4>1
      <4>2. CASE i = n + 1
        <5>1. g[i] = IF s[i] \in T THEN Append(f[n], s[i]) ELSE f[n]
          BY <4>2
        <5>2. g[i - 1] = f[n] /\ i # 0
          BY <2>1, <4>2
        <5> HIDE DEF g
        <5>3. QED
          BY <5>1, <5>2
      <4>3. QED
        BY <4>1, <4>2
    <3>2. QED
      BY <3>1
  <2>5. g = [i \in 0 .. (n + 1) |-> g[i]]
    OBVIOUS
  <2> HIDE DEF g
  <2>6. Upto(n + 1, g)
    BY <2>4, <2>5
  <2>7. QED
    BY <2>6
<1> HIDE DEF Upto
<1>3. Bad = {}
  <2>1. SUFFICES ASSUME Bad # {} PROVE FALSE
    OBVIOUS
  <2>2. PICK n \in Bad : \A m \in Bad : n <= m
    BY <2>1, LeastNumber
  <2>3. n # 0
    BY <1>1, <2>2
  <2>4. n - 1 \in Nat /\ n - 1 \notin Bad
    BY <2>2, <2>3
  <2>5. PICK f : Upto(n - 1, f)
    BY <2>4
  <2>6. \E g : Upto((n - 1) + 1, g)
    BY <1>2, <2>4, <2>5
  <2>7. (n - 1) + 1 = n
    BY <2>2
  <2>8. QED
    BY <2>2, <2>6, <2>7
<1>4. QED
  BY <1>3 DEF Upto

(* seq.filter gives the elements that pass the test, none twice that was   *)
(* there once, and no more of them than there were.                        *)
LEMMA KeepFacts ==
  ASSUME NEW S, NEW s \in Seq(S), NEW T
  PROVE  /\ Keep(s, T) \in Seq(S)
         /\ ToSet(Keep(s, T)) = ToSet(s) \cap T
         /\ Len(Keep(s, T)) <= Len(s)
         /\ (\A i, j \in DOMAIN s : s[i] = s[j] /\ s[i] \in T => i = j)
              => \A i, j \in DOMAIN Keep(s, T) : Keep(s, T)[i] = Keep(s, T)[j] => i = j
<1> DEFINE body(f) == [i \in 0 .. Len(s) |->
                       IF i = 0 THEN <<>>
                       ELSE IF s[i] \in T THEN Append(f[i - 1], s[i]) ELSE f[i - 1]]
           kept == CHOOSE f : f = body(f)
<1>0. Len(s) \in Nat /\ DOMAIN s = 1 .. Len(s) /\ \A i \in 1 .. Len(s) : s[i] \in S
  OBVIOUS
<1>1. kept = body(kept)
  <2>1. \E f : f = body(f)
    BY <1>0, KeepExists
  <2> HIDE DEF body
  <2>2. QED
    BY <2>1
<1>2. Keep(s, T) = kept[Len(s)]
  BY DEF Keep
<1> HIDE DEF kept
<1>3. /\ kept[0] = <<>>
      /\ \A i \in 1 .. Len(s) :
           kept[i] = IF s[i] \in T THEN Append(kept[i - 1], s[i]) ELSE kept[i - 1]
  <2>1. \A i \in 0 .. Len(s) : kept[i] = IF i = 0 THEN <<>>
                       ELSE IF s[i] \in T THEN Append(kept[i - 1], s[i]) ELSE kept[i - 1]
    BY <1>1
  <2>2. QED
    BY <1>0, <2>1
<1> HIDE DEF body
<1> DEFINE Good(n) == 
       /\ kept[n] \in Seq(S) /\ Len(kept[n]) <= n
       /\ \A k \in 1 .. Len(kept[n]) : \E i \in 1 .. n : s[i] = kept[n][k] /\ s[i] \in T
       /\ \A i \in 1 .. n : s[i] \in T => \E k \in 1 .. Len(kept[n]) : kept[n][k] = s[i]
       /\ (\A i, j \in DOMAIN s : s[i] = s[j] /\ s[i] \in T => i = j)
              => \A i, j \in 1 .. Len(kept[n]) : kept[n][i] = kept[n][j] => i = j
<1>4. Good(0)
  BY <1>3
<1>5. ASSUME NEW n \in 1 .. Len(s), Good(n - 1) PROVE Good(n)
  <2>1. CASE s[n] \notin T
    <3>1. kept[n] = kept[n - 1]
      BY <1>3, <2>1
    <3>2. \A i \in 1 .. n : i \in 1 .. (n - 1) \/ i = n
      OBVIOUS
    <3>3. \A i \in 1 .. (n - 1) : i \in 1 .. n
      OBVIOUS
    <3>4. Len(kept[n - 1]) <= n /\ kept[n - 1] \in Seq(S)
      BY <1>5
    <3>5. \A k \in 1 .. Len(kept[n]) : \E i \in 1 .. n : s[i] = kept[n][k] /\ s[i] \in T
      BY <1>5, <3>1, <3>3
    <3>6. \A i \in 1 .. n : s[i] \in T => \E k \in 1 .. Len(kept[n]) : kept[n][k] = s[i]
      BY <1>5, <2>1, <3>1, <3>2
    <3>7. (\A i, j \in DOMAIN s : s[i] = s[j] /\ s[i] \in T => i = j)
              => \A i, j \in 1 .. Len(kept[n]) : kept[n][i] = kept[n][j] => i = j
      BY <1>5, <3>1
    <3>8. QED
      BY <3>1, <3>4, <3>5, <3>6, <3>7
  <2>2. CASE s[n] \in T
    <3> DEFINE b == kept[n - 1]
    <3>1. kept[n] = Append(b, s[n]) /\ b \in Seq(S) /\ s[n] \in S
      BY <1>0, <1>3, <1>5, <2>2
    <3>2. /\ kept[n] \in Seq(S) /\ Len(kept[n]) = Len(b) + 1 /\ Len(b) \in Nat
          /\ \A k \in 1 .. Len(b) : kept[n][k] = b[k]
          /\ kept[n][Len(b) + 1] = s[n]
      BY <3>1, AppendProperties
    <3>3. /\ \A i \in 1 .. n : i \in 1 .. (n - 1) \/ i = n
          /\ \A i \in 1 .. (n - 1) : i \in 1 .. n /\ i # n /\ i \in DOMAIN s /\ n \in DOMAIN s
          /\ n \in 1 .. n
      BY <1>0
    <3>4. /\ Len(b) <= n - 1
          /\ \A k \in 1 .. Len(b) : \E i \in 1 .. (n - 1) : s[i] = b[k] /\ s[i] \in T
          /\ \A i \in 1 .. (n - 1) : s[i] \in T => \E k \in 1 .. Len(b) : b[k] = s[i]
          /\ (\A i, j \in DOMAIN s : s[i] = s[j] /\ s[i] \in T => i = j)
              => \A i, j \in 1 .. Len(b) : b[i] = b[j] => i = j
      BY <1>5
    <3> HIDE DEF b
    <3>5. /\ \A k \in 1 .. Len(kept[n]) : k \in 1 .. Len(b) \/ k = Len(b) + 1
          /\ \A k \in 1 .. Len(b) : k \in 1 .. Len(kept[n])
          /\ Len(b) + 1 \in 1 .. Len(kept[n])
      BY <3>2
    <3>6. Len(kept[n]) <= n
      BY <3>2, <3>4
    <3>7. \A k \in 1 .. Len(kept[n]) : \E i \in 1 .. n : s[i] = kept[n][k] /\ s[i] \in T
      <4>1. ASSUME NEW k \in 1 .. Len(kept[n])
            PROVE  \E i \in 1 .. n : s[i] = kept[n][k] /\ s[i] \in T
        <5>1. CASE k = Len(b) + 1
          BY <2>2, <3>2, <3>3, <5>1
        <5>2. CASE k \in 1 .. Len(b)
          <6>1. PICK i \in 1 .. (n - 1) : s[i] = b[k] /\ s[i] \in T
            BY <3>4, <5>2
          <6>2. kept[n][k] = b[k] /\ i \in 1 .. n
            BY <3>2, <3>3, <5>2, <6>1
          <6>3. QED
            BY <6>1, <6>2
        <5>3. QED
          BY <3>5, <5>1, <5>2
      <4>2. QED
        BY <4>1
    <3>8. \A i \in 1 .. n : s[i] \in T => \E k \in 1 .. Len(kept[n]) : kept[n][k] = s[i]
      BY <3>2, <3>3, <3>4, <3>5
    <3>9. ASSUME \A i, j \in DOMAIN s : s[i] = s[j] /\ s[i] \in T => i = j,
                 NEW i \in 1 .. Len(kept[n]), NEW j \in 1 .. Len(kept[n]), kept[n][i] = kept[n][j]
          PROVE  i = j
      <4>1. ASSUME NEW k \in 1 .. Len(b), b[k] = s[n] PROVE FALSE
        <5>1. PICK m \in 1 .. (n - 1) : s[m] = b[k] /\ s[m] \in T
          BY <3>4
        <5>2. m \in DOMAIN s /\ n \in DOMAIN s /\ m # n
          BY <3>3
        <5>3. QED
          BY <3>9, <4>1, <5>1, <5>2
      <4>2. CASE i \in 1 .. Len(b) /\ j \in 1 .. Len(b)
        <5>1. b[i] = b[j]
          BY <3>2, <3>9, <4>2
        <5>2. QED
          BY <3>4, <3>9, <4>2, <5>1
      <4>3. CASE i = Len(b) + 1 /\ j \in 1 .. Len(b)
        BY <3>2, <3>9, <4>1, <4>3
      <4>4. CASE i \in 1 .. Len(b) /\ j = Len(b) + 1
        BY <3>2, <3>9, <4>1, <4>4
      <4>5. QED
        BY <3>5, <3>9, <4>2, <4>3, <4>4
    <3>10. QED
      BY <3>2, <3>6, <3>7, <3>8, <3>9
  <2>3. QED
    BY <2>1, <2>2
<1> HIDE DEF Good
<1>6. Good(Len(s))
  <2> DEFINE Bad == {n \in 0 .. Len(s) : ~ Good(n)}
  <2>1. SUFFICES ASSUME Bad # {} PROVE FALSE
    BY <1>0
  <2>2. PICK n \in Bad : \A m \in Bad : n <= m
    <3>1. Bad \subseteq Nat
      BY <1>0
    <3> HIDE DEF Bad
    <3>2. QED
      BY <2>1, <3>1, LeastNumber
  <2>3. n \in 1 .. Len(s)
    <3>1. n # 0
      BY <1>4, <2>2
    <3>2. QED
      BY <1>0, <2>2, <3>1
  <2>4. n - 1 \in 0 .. Len(s) /\ n - 1 \notin Bad
    BY <1>0, <2>2, <2>3
  <2>5. Good(n)
    BY <1>5, <2>3, <2>4
  <2>6. QED
    BY <2>2, <2>5
<1>7. /\ kept[Len(s)] \in Seq(S) /\ Len(kept[Len(s)]) <= Len(s)
      /\ \A k \in 1 .. Len(kept[Len(s)]) : \E i \in 1 .. Len(s) : s[i] = kept[Len(s)][k] /\ s[i] \in T
      /\ \A i \in 1 .. Len(s) : s[i] \in T => \E k \in 1 .. Len(kept[Len(s)]) : kept[Len(s)][k] = s[i]
      /\ (\A i, j \in DOMAIN s : s[i] = s[j] /\ s[i] \in T => i = j)
              => \A i, j \in 1 .. Len(kept[Len(s)]) : kept[Len(s)][i] = kept[Len(s)][j] => i = j
  BY <1>6 DEF Good
<1> DEFINE r == Keep(s, T)
<1>8. /\ r \in Seq(S) /\ Len(r) <= Len(s)
      /\ \A k \in 1 .. Len(r) : \E i \in 1 .. Len(s) : s[i] = r[k] /\ s[i] \in T
      /\ \A i \in 1 .. Len(s) : s[i] \in T => \E k \in 1 .. Len(r) : r[k] = s[i]
      /\ (\A i, j \in DOMAIN s : s[i] = s[j] /\ s[i] \in T => i = j)
              => \A i, j \in 1 .. Len(r) : r[i] = r[j] => i = j
  BY <1>2, <1>7
<1> HIDE DEF r
<1>9. DOMAIN r = 1 .. Len(r)
  BY <1>8
<1>10. ToSet(r) = ToSet(s) \cap T
  <2>1. \A x : x \in ToSet(r) <=> \E k \in 1 .. Len(r) : r[k] = x
    BY <1>9 DEF ToSet
  <2>2. \A x : x \in ToSet(s) <=> \E i \in 1 .. Len(s) : s[i] = x
    BY <1>0 DEF ToSet
  <2>3. \A x : x \in ToSet(r) <=> x \in ToSet(s) /\ x \in T
    <3>1. ASSUME NEW x, x \in ToSet(r) PROVE x \in ToSet(s) /\ x \in T
      BY <1>8, <2>1, <2>2, <3>1
    <3>2. ASSUME NEW x, x \in ToSet(s), x \in T PROVE x \in ToSet(r)
      BY <1>8, <2>1, <2>2, <3>2
    <3>3. QED
      BY <3>1, <3>2
  <2>4. QED
    BY <2>3
<1>11. QED
  BY <1>8, <1>9, <1>10 DEF r

-----------------------------------------------------------------------------
(* Sequences.                                                              *)

LEMMA MinIs ==
  ASSUME NEW I, I \subseteq Nat, I # {}
  PROVE  Min(I) \in I
<1>1. \E n \in I : \A m \in I : n <= m
  BY LeastNumber
<1>2. QED
  BY <1>1 DEF Min

\* A finite set of numbers has a greatest one.
LEMMA GreatestNumber ==
  ASSUME NEW n \in Nat, NEW I, I \subseteq 1 .. n, I # {}
  PROVE  \E i \in I : \A j \in I : j <= i
<1> DEFINE J == {n - i : i \in I}
<1>1. J \subseteq Nat /\ J # {}
  <2>1. \A i \in I : n - i \in Nat
    OBVIOUS
  <2>2. QED
    BY <2>1
<1>2. PICK k \in J : \A m \in J : k <= m
  BY <1>1, LeastNumber
<1>3. PICK i \in I : k = n - i
  BY <1>2
<1>4. \A j \in I : n - i <= n - j
  BY <1>2, <1>3
<1>5. QED
  BY <1>4

(* Who is a member of a sequence.                                          *)
LEMMA Members ==
  ASSUME NEW S, NEW s \in Seq(S)
  PROVE  /\ DOMAIN s = 1 .. Len(s) /\ Len(s) \in Nat
         /\ \A x : x \in ToSet(s) <=> \E i \in 1 .. Len(s) : s[i] = x
         /\ ToSet(s) \subseteq S
<1>1. QED
  BY DEF ToSet

(* The place of a tab in the strip.                                        *)
LEMMA PosOfFacts ==
  ASSUME NEW S, NEW tabs \in Seq(S), NEW id
  PROVE  /\ id \in TabIds(tabs) => /\ PosOf(tabs, id) \in 1 .. Len(tabs)
                                   /\ tabs[PosOf(tabs, id)].id = id
                                   /\ TabOf(tabs, id) = tabs[PosOf(tabs, id)]
                                   /\ TabOf(tabs, id) \in ToSet(tabs)
         /\ id \notin TabIds(tabs) => PosOf(tabs, id) = 0
<1> DEFINE I == {i \in 1 .. Len(tabs) : tabs[i].id = id}
<1>1. PosOf(tabs, id) = IF I # {} THEN Min(I) ELSE 0
  BY DEF PosOf, SelectInSeq
<1>2. I \subseteq Nat
  OBVIOUS
<1>3. id \in TabIds(tabs) <=> I # {}
  BY Members DEF TabIds
<1>4. I # {} => Min(I) \in I
  BY <1>2, MinIs
<1>5. QED
  BY <1>1, <1>3, <1>4, Members DEF TabOf

(* An element put into a sequence.                                         *)
LEMMA InsertAtFacts ==
  ASSUME NEW S, NEW s \in Seq(S), NEW e \in S, NEW k \in 1 .. (Len(s) + 1)
  PROVE  /\ InsertAt(s, k, e) \in Seq(S)
         /\ Len(InsertAt(s, k, e)) = Len(s) + 1
         /\ \A i \in 1 .. (Len(s) + 1) :
              InsertAt(s, k, e)[i] = IF i < k THEN s[i] ELSE IF i = k THEN e ELSE s[i - 1]
<1>1. Len(s) \in Nat /\ \A i \in 1 .. Len(s) : s[i] \in S
  OBVIOUS
<1> DEFINE a == SubSeq(s, 1, k - 1)
           b == SubSeq(s, k, Len(s))
<1>2. a \in Seq(S) /\ Len(a) = k - 1 /\ \A i \in 1 .. (k - 1) : a[i] = s[i]
  BY <1>1, SubSeqProperties
<1>3. b \in Seq(S) /\ Len(b) = Len(s) - k + 1 /\ \A i \in 1 .. (Len(s) - k + 1) : b[i] = s[k + i - 1]
  BY <1>1, SubSeqProperties
<1>4. InsertAt(s, k, e) = (a \o <<e>>) \o b
  BY DEF InsertAt
<1> HIDE DEF a, b
<1>5. /\ a \o <<e>> \in Seq(S) /\ Len(a \o <<e>>) = k
      /\ \A i \in 1 .. k : (a \o <<e>>)[i] = IF i < k THEN s[i] ELSE e
  BY <1>1, <1>2
<1> DEFINE c == a \o <<e>>
<1> HIDE DEF c
<1>6. c \in Seq(S) /\ Len(c) = k /\ \A i \in 1 .. k : c[i] = IF i < k THEN s[i] ELSE e
  BY <1>5 DEF c
<1>7. InsertAt(s, k, e) = c \o b
  BY <1>4 DEF c
<1>8. /\ c \o b \in Seq(S) /\ Len(c \o b) = Len(s) + 1
      /\ \A i \in 1 .. (Len(c) + Len(b)) : (c \o b)[i] = IF i <= Len(c) THEN c[i] ELSE b[i - Len(c)]
  <2>1. c \in Seq(S) /\ b \in Seq(S)
    BY <1>3, <1>6
  <2>2. /\ c \o b \in Seq(S) /\ Len(c \o b) = Len(c) + Len(b)
        /\ \A i \in 1 .. Len(c) + Len(b) : (c \o b)[i] = IF i <= Len(c) THEN c[i] ELSE b[i - Len(c)]
    BY <2>1, ConcatProperties
  <2>3. Len(c) + Len(b) = Len(s) + 1
    BY <1>1, <1>3, <1>6
  <2>4. QED
    BY <2>2, <2>3
<1>9. ASSUME NEW i \in 1 .. (Len(s) + 1)
      PROVE  (c \o b)[i] = IF i < k THEN s[i] ELSE IF i = k THEN e ELSE s[i - 1]
  <2>1. i \in 1 .. (Len(c) + Len(b))
    BY <1>1, <1>3, <1>6
  <2>2. CASE i <= k
    BY <1>6, <1>8, <2>1, <2>2
  <2>3. CASE i > k
    <3>1. (c \o b)[i] = b[i - k]
      BY <1>1, <1>6, <1>8, <2>1, <2>3
    <3>2. i - k \in 1 .. (Len(s) - k + 1) /\ k + (i - k) - 1 = i - 1
      BY <1>1, <2>3
    <3>3. b[i - k] = s[i - 1]
      BY <1>3, <3>2
    <3>4. QED
      BY <1>1, <2>3, <3>1, <3>3
  <2>4. i <= k \/ i > k
    BY <1>1
  <2>5. QED
    BY <2>2, <2>3, <2>4
<1>10. QED
  BY <1>7, <1>8, <1>9

(* An element taken out of a sequence.                                     *)
LEMMA RemoveAtFacts ==
  ASSUME NEW S, NEW s \in Seq(S), NEW k \in 1 .. Len(s)
  PROVE  /\ RemoveAt(s, k) \in Seq(S)
         /\ Len(RemoveAt(s, k)) = Len(s) - 1
         /\ \A i \in 1 .. (Len(s) - 1) : RemoveAt(s, k)[i] = IF i < k THEN s[i] ELSE s[i + 1]
<1>1. Len(s) \in Nat /\ \A i \in 1 .. Len(s) : s[i] \in S
  OBVIOUS
<1> DEFINE a == SubSeq(s, 1, k - 1)
           b == SubSeq(s, k + 1, Len(s))
<1>2. a \in Seq(S) /\ Len(a) = k - 1 /\ \A i \in 1 .. (k - 1) : a[i] = s[i]
  BY <1>1, SubSeqProperties
<1>3. b \in Seq(S) /\ Len(b) = Len(s) - k /\ \A i \in 1 .. (Len(s) - k) : b[i] = s[k + i]
  <2>1. /\ b \in Seq(S) /\ Len(b) = IF k + 1 <= Len(s) THEN Len(s) - (k + 1) + 1 ELSE 0
        /\ \A i \in 1 .. Len(s) - (k + 1) + 1 : b[i] = s[(k + 1) + i - 1]
    BY <1>1, SubSeqProperties
  <2> HIDE DEF b
  <2>2. Len(b) = Len(s) - k
    BY <1>1, <2>1
  <2>3. ASSUME NEW i \in 1 .. (Len(s) - k) PROVE b[i] = s[k + i]
    <3>1. i \in 1 .. Len(s) - (k + 1) + 1 /\ (k + 1) + i - 1 = k + i
      BY <1>1
    <3>2. QED
      BY <2>1, <3>1
  <2>4. QED
    BY <2>1, <2>2, <2>3
<1>4. RemoveAt(s, k) = a \o b
  BY DEF RemoveAt
<1> HIDE DEF a, b
<1>5. /\ a \o b \in Seq(S) /\ Len(a \o b) = Len(s) - 1
      /\ \A i \in 1 .. (Len(a) + Len(b)) : (a \o b)[i] = IF i <= Len(a) THEN a[i] ELSE b[i - Len(a)]
  BY <1>1, <1>2, <1>3, ConcatProperties
<1>6. ASSUME NEW i \in 1 .. (Len(s) - 1)
      PROVE  (a \o b)[i] = IF i < k THEN s[i] ELSE s[i + 1]
  <2>1. i \in 1 .. (Len(a) + Len(b))
    BY <1>1, <1>2, <1>3
  <2>2. CASE i < k
    BY <1>2, <1>5, <2>1, <2>2
  <2>3. CASE i >= k
    <3>1. (a \o b)[i] = b[i - (k - 1)]
      BY <1>1, <1>2, <1>5, <2>1, <2>3
    <3>2. i - (k - 1) \in 1 .. (Len(s) - k) /\ k + (i - (k - 1)) = i + 1
      BY <1>1, <2>3
    <3>3. b[i - (k - 1)] = s[i + 1]
      BY <1>3, <3>2
    <3>4. QED
      BY <1>1, <2>3, <3>1, <3>3
  <2>4. i < k \/ i >= k
    BY <1>1
  <2>5. QED
    BY <2>2, <2>3, <2>4
<1>7. QED
  BY <1>4, <1>5, <1>6

-----------------------------------------------------------------------------
(* The strip.                                                              *)

Tab(m) == [id : 1 .. m, layout : Seq(Seq(1 .. m)), panes : Seq(1 .. m), active : 1 .. m,
           group : Groups, rowFr : Seq(1 .. Whole), colFr : Seq(Seq(1 .. Whole))]

(* The sizes a tab has stored fill it, whatever its grid is now.           *)
Stored(t) ==
  /\ t.rowFr = <<>> \/ Fills(t.rowFr)
  /\ \A r \in 1 .. Len(t.colFr) : Fills(t.colFr[r])

Sound(t) == ShowsItsPanes(t) /\ Holds(t, MaxRows, MaxCols, MaxPanes) /\ Stored(t)

(* The tabs of a window, when m panes were ever made.                      *)
Strip(tabs, m) ==
  /\ tabs \in Seq(Tab(m))
  /\ \A i, j \in 1 .. Len(tabs) : tabs[i].id = tabs[j].id => i = j
  /\ \A i, j \in 1 .. Len(tabs) :
       \A p : p \in ToSet(tabs[i].panes) /\ p \in ToSet(tabs[j].panes) => i = j
  /\ \A i \in 1 .. Len(tabs) : Sound(tabs[i])

InSide(t, g) == [t EXCEPT !.group = g]

(* The tabs `new` are tabs of `tabs`, but for their groups.                *)
Regrouped(new, tabs) ==
  \A i \in 1 .. Len(new) : \E j \in 1 .. Len(tabs) :
     /\ new[i] = InSide(tabs[j], new[i].group)
     /\ new[i].id = tabs[j].id /\ new[i].panes = tabs[j].panes /\ new[i].layout = tabs[j].layout

(* The group of a tab is nothing its grid depends on.                      *)
LEMMA InSideFacts ==
  ASSUME NEW m \in Nat, NEW t \in Tab(m), NEW g \in Groups
  PROVE  /\ InSide(t, g) \in Tab(m)
         /\ InSide(t, g).group = g
         /\ InSide(t, g).id = t.id
         /\ InSide(t, g).panes = t.panes
         /\ InSide(t, g).layout = t.layout
         /\ InSide(t, t.group) = t
         /\ InSide(t, g) = InSide(t, InSide(t, g).group)
         /\ Sound(t) => Sound(InSide(t, g))
<1>1. /\ InSide(t, g) \in Tab(m) /\ InSide(t, g).group = g /\ InSide(t, g).id = t.id
      /\ InSide(t, g).panes = t.panes /\ InSide(t, g).layout = t.layout
      /\ InSide(t, g).active = t.active /\ InSide(t, g).rowFr = t.rowFr
      /\ InSide(t, g).colFr = t.colFr
  BY DEF InSide, Tab
<1>2. InSide(t, t.group) = t
  BY DEF InSide, Tab
<1>3. InSide(t, g) = InSide(t, InSide(t, g).group)
  BY <1>1
<1> DEFINE u == InSide(t, g)
<1> HIDE DEF u
<1>4. u.panes = t.panes /\ u.layout = t.layout /\ u.active = t.active /\ u.rowFr = t.rowFr
      /\ u.colFr = t.colFr
  BY <1>1 DEF u
<1>5. Sound(t) => Sound(u)
  BY <1>4 DEF Sound, ShowsItsPanes, Holds, Stored
<1>6. QED
  BY <1>1, <1>2, <1>3, <1>5 DEF u

(* Tabs of a strip, each once and in any groups, are a strip.              *)
LEMMA StripFrom ==
  ASSUME NEW m \in Nat, NEW tabs, Strip(tabs, m),
         NEW new, new \in Seq(Tab(m)), Regrouped(new, tabs),
         \A i, j \in 1 .. Len(new) : new[i].id = new[j].id => i = j
  PROVE  Strip(new, m)
<1>1. ASSUME NEW i \in 1 .. Len(new), NEW j \in 1 .. Len(new), NEW p,
             p \in ToSet(new[i].panes), p \in ToSet(new[j].panes)
      PROVE  i = j
  <2>1. PICK a \in 1 .. Len(tabs) : new[i].id = tabs[a].id /\ new[i].panes = tabs[a].panes
    BY DEF Regrouped
  <2>2. PICK b \in 1 .. Len(tabs) : new[j].id = tabs[b].id /\ new[j].panes = tabs[b].panes
    BY DEF Regrouped
  <2>3. a = b
    BY <1>1, <2>1, <2>2 DEF Strip
  <2>4. QED
    BY <2>1, <2>2, <2>3
<1>2. ASSUME NEW i \in 1 .. Len(new) PROVE Sound(new[i])
  <2>1. PICK a \in 1 .. Len(tabs) : new[i] = InSide(tabs[a], new[i].group)
    BY DEF Regrouped
  <2>2. tabs[a] \in Tab(m) /\ Sound(tabs[a])
    BY DEF Strip
  <2>3. new[i] \in Tab(m)
    OBVIOUS
  <2>4. new[i].group \in Groups
    BY <2>3 DEF Tab
  <2>5. QED
    BY <2>1, <2>2, <2>4, InSideFacts
<1>3. QED
  BY <1>1, <1>2 DEF Strip

(* Reading a strip by the ids of its tabs.                                 *)
LEMMA StripFacts ==
  ASSUME NEW m \in Nat, NEW tabs, Strip(tabs, m)
  PROVE  /\ tabs \in Seq(Tab(m)) /\ Len(tabs) \in Nat /\ DOMAIN tabs = 1 .. Len(tabs)
         /\ \A i \in 1 .. Len(tabs) : /\ tabs[i] \in Tab(m) /\ tabs[i].id \in TabIds(tabs)
                                      /\ tabs[i].group \in Groups
                                      /\ tabs[i].id \in 1 .. m
                                      /\ PosOf(tabs, tabs[i].id) = i
                                      /\ TabOf(tabs, tabs[i].id) = tabs[i]
                                      /\ GroupOf(tabs, tabs[i].id) = tabs[i].group
         /\ \A id : id \in TabIds(tabs) <=> \E i \in 1 .. Len(tabs) : tabs[i].id = id
         /\ \A p : p \in PanesOf(tabs) <=> \E i \in 1 .. Len(tabs) : p \in ToSet(tabs[i].panes)
         /\ IsTabSplit(tabs) <=> \E i \in 1 .. Len(tabs) : tabs[i].group = 1
         /\ TabIds(tabs) \subseteq 1 .. m
         /\ tabs = <<>> <=> Len(tabs) = 0
<1>1. tabs \in Seq(Tab(m)) /\ Len(tabs) \in Nat /\ DOMAIN tabs = 1 .. Len(tabs)
  BY DEF Strip
<1>2. \A x : x \in ToSet(tabs) <=> \E i \in 1 .. Len(tabs) : tabs[i] = x
  BY <1>1, Members
<1>3. \A id : id \in TabIds(tabs) <=> \E i \in 1 .. Len(tabs) : tabs[i].id = id
  BY <1>2 DEF TabIds
<1>4. \A p : p \in PanesOf(tabs) <=> \E i \in 1 .. Len(tabs) : p \in ToSet(tabs[i].panes)
  BY <1>2 DEF PanesOf
<1>5. IsTabSplit(tabs) <=> \E i \in 1 .. Len(tabs) : tabs[i].group = 1
  BY <1>2 DEF IsTabSplit
<1>6. ASSUME NEW i \in 1 .. Len(tabs)
      PROVE  /\ tabs[i] \in Tab(m) /\ tabs[i].id \in TabIds(tabs) /\ tabs[i].group \in Groups
             /\ tabs[i].id \in 1 .. m
             /\ PosOf(tabs, tabs[i].id) = i /\ TabOf(tabs, tabs[i].id) = tabs[i]
             /\ GroupOf(tabs, tabs[i].id) = tabs[i].group
  <2>1. tabs[i] \in Tab(m) /\ tabs[i].id \in TabIds(tabs)
    BY <1>1, <1>3
  <2>2. /\ PosOf(tabs, tabs[i].id) \in 1 .. Len(tabs)
        /\ tabs[PosOf(tabs, tabs[i].id)].id = tabs[i].id
        /\ TabOf(tabs, tabs[i].id) = tabs[PosOf(tabs, tabs[i].id)]
    BY <1>1, <2>1, PosOfFacts
  <2>3. PosOf(tabs, tabs[i].id) = i
    BY <2>2 DEF Strip
  <2>4. tabs[i].group \in Groups /\ tabs[i].id \in 1 .. m
    BY <2>1 DEF Tab
  <2>5. QED
    BY <2>1, <2>2, <2>3, <2>4 DEF GroupOf
<1>7. TabIds(tabs) \subseteq 1 .. m
  BY <1>3, <1>6
<1>8. tabs = <<>> <=> Len(tabs) = 0
  BY <1>1
<1>9. QED
  BY <1>1, <1>3, <1>4, <1>5, <1>6, <1>7, <1>8

(* What a change of groups and a removal leave of the panes.               *)
LEMMA RegroupedPanes ==
  ASSUME NEW m \in Nat, NEW tabs, Strip(tabs, m), NEW new, Strip(new, m), Regrouped(new, tabs)
  PROVE  /\ TabIds(new) \subseteq TabIds(tabs) /\ PanesOf(new) \subseteq PanesOf(tabs)
         /\ \A i \in 1 .. Len(tabs) :
              /\ tabs[i].id \in TabIds(new) => ToSet(tabs[i].panes) \subseteq PanesOf(new)
              /\ tabs[i].id \notin TabIds(new) => ToSet(tabs[i].panes) \cap PanesOf(new) = {}
         /\ TabIds(new) = TabIds(tabs) => PanesOf(new) = PanesOf(tabs)
<1>1. /\ \A id : id \in TabIds(tabs) <=> \E i \in 1 .. Len(tabs) : tabs[i].id = id
      /\ \A p : p \in PanesOf(tabs) <=> \E i \in 1 .. Len(tabs) : p \in ToSet(tabs[i].panes)
      /\ \A id : id \in TabIds(new) <=> \E i \in 1 .. Len(new) : new[i].id = id
      /\ \A p : p \in PanesOf(new) <=> \E i \in 1 .. Len(new) : p \in ToSet(new[i].panes)
  BY StripFacts
<1>2. \A i \in 1 .. Len(new) : \E j \in 1 .. Len(tabs) :
        new[i].id = tabs[j].id /\ new[i].panes = tabs[j].panes
  BY DEF Regrouped
<1>3. \A i, j \in 1 .. Len(tabs) : tabs[i].id = tabs[j].id => i = j
  BY DEF Strip
<1>4. \A i, j \in 1 .. Len(tabs) :
        \A p : p \in ToSet(tabs[i].panes) /\ p \in ToSet(tabs[j].panes) => i = j
  BY DEF Strip
<1>5. TabIds(new) \subseteq TabIds(tabs)
  BY <1>1, <1>2
<1>6. PanesOf(new) \subseteq PanesOf(tabs)
  BY <1>1, <1>2
<1>7. ASSUME NEW i \in 1 .. Len(tabs), tabs[i].id \in TabIds(new)
      PROVE  ToSet(tabs[i].panes) \subseteq PanesOf(new)
  <2>1. PICK k \in 1 .. Len(new) : new[k].id = tabs[i].id
    BY <1>1, <1>7
  <2>2. PICK j \in 1 .. Len(tabs) : new[k].id = tabs[j].id /\ new[k].panes = tabs[j].panes
    BY <1>2
  <2>3. i = j
    BY <1>3, <2>1, <2>2
  <2>4. QED
    BY <1>1, <2>2, <2>3
<1>8. ASSUME NEW i \in 1 .. Len(tabs), tabs[i].id \notin TabIds(new), NEW p,
             p \in ToSet(tabs[i].panes), p \in PanesOf(new)
      PROVE  FALSE
  <2>1. PICK k \in 1 .. Len(new) : p \in ToSet(new[k].panes)
    BY <1>1, <1>8
  <2>2. PICK j \in 1 .. Len(tabs) : new[k].id = tabs[j].id /\ new[k].panes = tabs[j].panes
    BY <1>2
  <2>3. i = j
    BY <1>4, <1>8, <2>1, <2>2
  <2>4. QED
    BY <1>1, <1>8, <2>2, <2>3
<1>9. ASSUME TabIds(new) = TabIds(tabs), NEW p, p \in PanesOf(tabs) PROVE p \in PanesOf(new)
  <2>1. PICK i \in 1 .. Len(tabs) : p \in ToSet(tabs[i].panes)
    BY <1>1, <1>9
  <2>2. tabs[i].id \in TabIds(new)
    BY <1>1, <1>9
  <2>3. QED
    BY <1>7, <2>1, <2>2
<1>10. QED
  BY <1>5, <1>6, <1>7, <1>8, <1>9

-----------------------------------------------------------------------------
(* The two sides of a split.                                               *)

BothSides(tabs) == \A g \in Groups : \E i \in 1 .. Len(tabs) : tabs[i].group = g
Sides(tabs) == IsTabSplit(tabs) => BothSides(tabs)

\* The tabs of a side.
LEMMA InGroupFacts ==
  ASSUME NEW m \in Nat, NEW tabs, Strip(tabs, m), NEW g \in Groups
  PROVE  /\ InGroup(tabs, g) \in Seq(Tab(m))
         /\ \A id : id \in TabIds(InGroup(tabs, g)) <=>
                      \E i \in 1 .. Len(tabs) : tabs[i].id = id /\ tabs[i].group = g
         /\ InGroup(tabs, g) # <<>> <=> \E i \in 1 .. Len(tabs) : tabs[i].group = g
<1> DEFINE T == {t \in ToSet(tabs) : t.group = g}
           r == InGroup(tabs, g)
<1>1. tabs \in Seq(Tab(m))
  BY DEF Strip
<1>2. r = Keep(tabs, T)
  BY DEF InGroup
<1>3. r \in Seq(Tab(m)) /\ ToSet(r) = ToSet(tabs) \cap T
  BY <1>1, <1>2, KeepFacts
<1> HIDE DEF r
<1>4. \A x : x \in ToSet(tabs) <=> \E i \in 1 .. Len(tabs) : tabs[i] = x
  BY <1>1, Members
<1>5. \A x : x \in ToSet(r) <=> \E k \in 1 .. Len(r) : r[k] = x
  BY <1>3, Members
<1>6. \A id : id \in TabIds(r) <=> \E i \in 1 .. Len(tabs) : tabs[i].id = id /\ tabs[i].group = g
  BY <1>3, <1>4 DEF TabIds
<1>7. r # <<>> <=> \E x : x \in ToSet(r)
  <2>1. r # <<>> <=> Len(r) # 0
    BY <1>3
  <2>2. Len(r) # 0 <=> \E k : k \in 1 .. Len(r)
    <3>1. Len(r) \in Nat
      BY <1>3
    <3>2. Len(r) # 0 => 1 \in 1 .. Len(r)
      BY <3>1
    <3>3. QED
      BY <3>1, <3>2
  <2>3. QED
    BY <1>5, <2>1, <2>2
<1>8. r # <<>> <=> \E i \in 1 .. Len(tabs) : tabs[i].group = g
  BY <1>3, <1>4, <1>7
<1>9. QED
  BY <1>3, <1>6, <1>8 DEF r

(* A split whose one side is empty is no split any more.                   *)
LEMMA CollapseFacts ==
  ASSUME NEW m \in Nat, NEW tabs, Strip(tabs, m)
  PROVE  LET r == CollapseIfEmpty(tabs)
         IN  /\ Strip(r, m) /\ Sides(r) /\ Len(r) = Len(tabs) /\ Regrouped(r, tabs)
             /\ TabIds(r) = TabIds(tabs)
             /\ BothSides(tabs) => r = tabs
             /\ ~ BothSides(tabs) => /\ \A i \in 1 .. Len(tabs) : r[i].group = 0
                                     /\ ~ IsTabSplit(r)
             /\ \A i \in 1 .. Len(tabs) : r[i] = InSide(tabs[i], r[i].group) /\ r[i].id = tabs[i].id
<1> DEFINE r == CollapseIfEmpty(tabs)
           z == [i \in DOMAIN tabs |-> [tabs[i] EXCEPT !.group = 0]]
<1>1. /\ tabs \in Seq(Tab(m)) /\ Len(tabs) \in Nat /\ DOMAIN tabs = 1 .. Len(tabs)
      /\ \A i \in 1 .. Len(tabs) : tabs[i] \in Tab(m) /\ tabs[i].group \in Groups
  BY StripFacts
<1>2. (\A g \in Groups : InGroup(tabs, g) # <<>>) <=> BothSides(tabs)
  BY InGroupFacts DEF BothSides
<1>3. CASE BothSides(tabs)
  <2>1. r = tabs
    BY <1>2, <1>3 DEF CollapseIfEmpty
  <2>2. \A i \in 1 .. Len(tabs) : tabs[i] = InSide(tabs[i], tabs[i].group)
    BY <1>1, InSideFacts
  <2>3. Regrouped(tabs, tabs)
    BY <2>2 DEF Regrouped
  <2> HIDE DEF r
  <2>4. QED
    BY <1>3, <2>1, <2>2, <2>3 DEF Sides, r
<1>4. CASE ~ BothSides(tabs)
  <2>1. r = z
    BY <1>2, <1>4 DEF CollapseIfEmpty
  <2>2. 0 \in Groups
    BY DEF Groups
  <2>3. \A i \in 1 .. Len(tabs) : z[i] = InSide(tabs[i], 0)
    BY <1>1 DEF InSide
  <2>4. \A i \in 1 .. Len(tabs) :
           /\ z[i] \in Tab(m) /\ z[i].group = 0 /\ z[i].id = tabs[i].id
           /\ z[i].panes = tabs[i].panes /\ z[i].layout = tabs[i].layout
           /\ z[i] = InSide(tabs[i], z[i].group)
    <3> HIDE DEF z
    <3>1. ASSUME NEW i \in 1 .. Len(tabs)
          PROVE  /\ z[i] \in Tab(m) /\ z[i].group = 0 /\ z[i].id = tabs[i].id
                 /\ z[i].panes = tabs[i].panes /\ z[i].layout = tabs[i].layout
                 /\ z[i] = InSide(tabs[i], z[i].group)
      BY <1>1, <2>2, <2>3, InSideFacts
    <3>2. QED
      BY <3>1
  <2>5. DOMAIN z = 1 .. Len(tabs)
    BY <1>1
  <2>6. z = [i \in 1 .. Len(tabs) |-> z[i]]
    BY <2>5
  <2> HIDE DEF z
  <2>7. z \in Seq(Tab(m)) /\ Len(z) = Len(tabs)
    <3>1. z \in [1 .. Len(tabs) -> Tab(m)]
      BY <2>4, <2>6
    <3>2. QED
      BY <1>1, <3>1
  <2>8. Regrouped(z, tabs)
    BY <2>4, <2>7 DEF Regrouped
  <2>9. Strip(z, m)
    <3>1. \A i, j \in 1 .. Len(z) : z[i].id = z[j].id => i = j
      BY <2>4, <2>7 DEF Strip
    <3>2. QED
      BY <2>7, <2>8, <3>1, StripFrom
  <2>10. ~ IsTabSplit(z)
    <3>1. IsTabSplit(z) <=> \E i \in 1 .. Len(z) : z[i].group = 1
      BY <2>9, StripFacts
    <3>2. QED
      BY <2>4, <2>7, <3>1
  <2>11. TabIds(z) = TabIds(tabs)
    <3>1. \A id : id \in TabIds(z) <=> \E i \in 1 .. Len(z) : z[i].id = id
      BY <2>9, StripFacts
    <3>2. \A id : id \in TabIds(tabs) <=> \E i \in 1 .. Len(tabs) : tabs[i].id = id
      BY StripFacts
    <3>3. \A id : id \in TabIds(tabs) <=> id \in TabIds(z)
      BY <2>4, <2>7, <3>1, <3>2
    <3>4. QED
      BY <3>3
  <2>12. QED
    BY <1>4, <2>1, <2>4, <2>7, <2>8, <2>9, <2>10, <2>11 DEF Sides
<1>5. QED
  BY <1>3, <1>4

(* The tab that takes the place of one that left.                          *)
LEMMA SurvivorFacts ==
  ASSUME NEW m \in Nat, NEW before, Strip(before, m), NEW group \in Seq(Tab(m)), NEW wanted
  PROVE  /\ group = <<>> => Survivor(before, group, wanted) = NoTab
         /\ group # <<>> => Survivor(before, group, wanted) \in TabIds(group)
         /\ wanted \in TabIds(group) => Survivor(before, group, wanted) = wanted
<1> DEFINE left == {i \in 1 .. (PosOf(before, wanted) - 1) : before[i].id \in TabIds(group)}
<1>1. \A id : id \in TabIds(group) <=> \E k \in 1 .. Len(group) : group[k].id = id
  BY Members DEF TabIds
<1>2. group # <<>> => Len(group) \in Nat /\ 1 \in 1 .. Len(group)
  OBVIOUS
<1>3. group # <<>> => group[1].id \in TabIds(group)
  BY <1>1, <1>2
<1>4. wanted \in TabIds(group) => group # <<>>
  BY <1>1
<1>5. left # {} => \E i \in left : \A j \in left : j <= i
  <2>1. PosOf(before, wanted) \in Nat
    <3>1. before \in Seq(Tab(m)) /\ Len(before) \in Nat
      BY StripFacts
    <3>2. PosOf(before, wanted) \in 1 .. Len(before) \/ PosOf(before, wanted) = 0
      BY <3>1, PosOfFacts
    <3>3. QED
      BY <3>1, <3>2
  <2>2. CASE PosOf(before, wanted) = 0
    <3>1. left = {}
      BY <2>2
    <3>2. QED
      BY <3>1
  <2>3. CASE PosOf(before, wanted) # 0
    <3>1. PosOf(before, wanted) - 1 \in Nat
      BY <2>1, <2>3
    <3>2. left \subseteq 1 .. (PosOf(before, wanted) - 1)
      OBVIOUS
    <3> HIDE DEF left
    <3>3. QED
      BY <3>1, <3>2, GreatestNumber
  <2>4. QED
    BY <2>2, <2>3
<1> DEFINE top == CHOOSE i \in left : \A j \in left : j <= i
<1>6. left # {} => top \in left
  BY <1>5
<1>7. left # {} => before[top].id \in TabIds(group)
  BY <1>6
<1>8. CASE group = <<>>
  BY <1>1, <1>4, <1>8 DEF Survivor
<1>9. CASE group # <<>> /\ wanted \in TabIds(group)
  BY <1>9 DEF Survivor
<1>10. CASE group # <<>> /\ wanted \notin TabIds(group) /\ left # {}
  <2>1. Survivor(before, group, wanted) = before[top].id
    BY <1>10 DEF Survivor
  <2>2. QED
    BY <1>7, <1>10, <2>1
<1>11. CASE group # <<>> /\ wanted \notin TabIds(group) /\ left = {}
  <2>1. Survivor(before, group, wanted) = group[1].id
    BY <1>11 DEF Survivor
  <2>2. QED
    BY <1>3, <1>11, <2>1
<1>12. QED
  BY <1>8, <1>9, <1>10, <1>11

-----------------------------------------------------------------------------
(* The store: its focus is on an open tab its side shows, and a split has  *)
(* two sides, each (Named) with a tab of its own to show.                  *)

Store(m) == [tabs : Seq(Tab(m)), activeTabId : 0 .. m, groupActive : [Groups -> 0 .. m]]

Focus(s) ==
  IF s.tabs = <<>> THEN s.activeTabId = NoTab
  ELSE \E i \in 1 .. Len(s.tabs) :
         /\ s.tabs[i].id = s.activeTabId
         /\ IsTabSplit(s.tabs) => s.groupActive[s.tabs[i].group] = s.activeTabId

Named(s) ==
  IsTabSplit(s.tabs) =>
    \A g \in Groups : \E i \in 1 .. Len(s.tabs) : s.tabs[i].group = g /\ s.tabs[i].id = s.groupActive[g]

StoreOK(s, m) == s \in Store(m) /\ Strip(s.tabs, m) /\ Sides(s.tabs) /\ Focus(s)

(* afterRemoval, whatever is removed.                                      *)
LEMMA AfterRemovalKeeps ==
  ASSUME NEW m \in Nat, NEW prev, StoreOK(prev, m), NEW remaining, Strip(remaining, m),
         \A i \in 1 .. Len(remaining) : \E j \in 1 .. Len(prev.tabs) : remaining[i] = prev.tabs[j]
  PROVE  LET s == AfterRemoval(prev, remaining)
         IN  StoreOK(s, m) /\ Named(s) /\ s.tabs = CollapseIfEmpty(remaining)
<1> DEFINE tabs == CollapseIfEmpty(remaining)
           pick(g, wanted) == Survivor(prev.tabs, InGroup(tabs, g), wanted)
           shown == [g \in Groups |-> pick(g, prev.groupActive[g])]
           side == IF prev.activeTabId \in TabIds(prev.tabs)
                   THEN GroupOf(prev.tabs, prev.activeTabId) ELSE 0
           next == pick(side, prev.activeTabId)
           firstOf(a, b) == IF a # NoTab THEN a ELSE b
           focus == IF prev.activeTabId \in TabIds(tabs) THEN prev.activeTabId
                    ELSE firstOf(next, firstOf(shown[0], shown[1]))
           s == AfterRemoval(prev, remaining)
<1>1. s = [tabs |-> tabs, activeTabId |-> focus, groupActive |-> shown]
  BY DEF AfterRemoval
<1>2. /\ Strip(tabs, m) /\ Sides(tabs) /\ Len(tabs) = Len(remaining)
      /\ BothSides(remaining) => tabs = remaining
      /\ ~ BothSides(remaining) => ~ IsTabSplit(tabs)
      /\ \A i \in 1 .. Len(remaining) : tabs[i].id = remaining[i].id
  BY CollapseFacts
<1>3. 0 \in Groups /\ 1 \in Groups /\ \A g \in Groups : g = 0 \/ g = 1
  BY DEF Groups
<1>4. /\ Strip(prev.tabs, m) /\ Focus(prev)
      /\ prev.groupActive \in [Groups -> 0 .. m] /\ prev.activeTabId \in 0 .. m
  BY DEF StoreOK, Store
<1> HIDE DEF tabs, s
<1>5. /\ tabs \in Seq(Tab(m)) /\ Len(tabs) \in Nat
      /\ \A i \in 1 .. Len(tabs) : /\ tabs[i].id \in TabIds(tabs) /\ tabs[i].group \in Groups
                                   /\ tabs[i].id \in 1 .. m
      /\ \A id : id \in TabIds(tabs) <=> \E i \in 1 .. Len(tabs) : tabs[i].id = id
      /\ TabIds(tabs) \subseteq 1 .. m
      /\ IsTabSplit(tabs) <=> \E i \in 1 .. Len(tabs) : tabs[i].group = 1
      /\ tabs = <<>> <=> Len(tabs) = 0
  BY <1>2, StripFacts
<1>6. \A g \in Groups :
        /\ InGroup(tabs, g) \in Seq(Tab(m))
        /\ \A id : id \in TabIds(InGroup(tabs, g)) <=>
                     \E i \in 1 .. Len(tabs) : tabs[i].id = id /\ tabs[i].group = g
        /\ InGroup(tabs, g) # <<>> <=> \E i \in 1 .. Len(tabs) : tabs[i].group = g
  BY <1>2, InGroupFacts
<1>7. \A g \in Groups : \A wanted :
        /\ InGroup(tabs, g) = <<>> => pick(g, wanted) = NoTab
        /\ InGroup(tabs, g) # <<>> => pick(g, wanted) \in TabIds(InGroup(tabs, g))
        /\ wanted \in TabIds(InGroup(tabs, g)) => pick(g, wanted) = wanted
  BY <1>4, <1>6, SurvivorFacts
<1>8. side \in Groups
  <2>1. CASE prev.activeTabId \in TabIds(prev.tabs)
    <3>1. PICK a \in 1 .. Len(prev.tabs) : prev.tabs[a].id = prev.activeTabId
      BY <1>4, <2>1, StripFacts
    <3>2. GroupOf(prev.tabs, prev.tabs[a].id) = prev.tabs[a].group /\ prev.tabs[a].group \in Groups
      BY <1>4, StripFacts
    <3>3. QED
      BY <2>1, <3>1, <3>2
  <2>2. CASE prev.activeTabId \notin TabIds(prev.tabs)
    BY <1>3, <2>2
  <2>3. QED
    BY <2>1, <2>2
<1> HIDE DEF pick
<1>9. \A g \in Groups : \A wanted : pick(g, wanted) \in 0 .. m /\ (pick(g, wanted) # NoTab => pick(g, wanted) \in TabIds(tabs))
  <2>1. ASSUME NEW g \in Groups, NEW wanted
        PROVE  pick(g, wanted) \in 0 .. m /\ (pick(g, wanted) # NoTab => pick(g, wanted) \in TabIds(tabs))
    <3>1. CASE InGroup(tabs, g) = <<>>
      BY <1>7, <3>1 DEF NoTab
    <3>2. CASE InGroup(tabs, g) # <<>>
      <4>1. pick(g, wanted) \in TabIds(InGroup(tabs, g))
        BY <1>7, <3>2
      <4>2. pick(g, wanted) \in TabIds(tabs)
        BY <1>5, <1>6, <4>1
      <4>3. QED
        BY <1>5, <4>2
    <3>3. QED
      BY <3>1, <3>2
  <2>2. QED
    BY <2>1
<1>10. shown \in [Groups -> 0 .. m] /\ \A g \in Groups : shown[g] = pick(g, prev.groupActive[g])
  BY <1>9
<1> HIDE DEF shown
<1>11. next \in 0 .. m /\ (next # NoTab => next \in TabIds(tabs))
  BY <1>8, <1>9
<1>12. focus \in 0 .. m
  BY <1>3, <1>4, <1>10, <1>11
<1>13. s \in Store(m) /\ s.tabs = tabs /\ s.activeTabId = focus /\ s.groupActive = shown
  BY <1>1, <1>5, <1>10, <1>12 DEF Store
<1>0. s.tabs = CollapseIfEmpty(remaining)
  BY <1>13 DEF tabs
<1>14. IsTabSplit(tabs) =>
         \A g \in Groups : \E i \in 1 .. Len(tabs) : tabs[i].group = g /\ tabs[i].id = shown[g]
  <2>1. ASSUME IsTabSplit(tabs), NEW g \in Groups
        PROVE  \E i \in 1 .. Len(tabs) : tabs[i].group = g /\ tabs[i].id = shown[g]
    <3>1. InGroup(tabs, g) # <<>>
      BY <1>2, <1>6, <2>1 DEF Sides, BothSides
    <3>2. shown[g] \in TabIds(InGroup(tabs, g))
      BY <1>7, <1>10, <3>1
    <3>3. QED
      BY <1>6, <3>2
  <2>2. QED
    BY <2>1
<1>15. CASE tabs = <<>>
  <2>1. \A g \in Groups : InGroup(tabs, g) = <<>>
    BY <1>5, <1>6, <1>15
  <2>2. next = NoTab /\ shown[0] = NoTab /\ shown[1] = NoTab
    BY <1>3, <1>7, <1>8, <1>10, <2>1
  <2>3. focus = NoTab
    <3>1. prev.activeTabId \notin TabIds(tabs)
      BY <1>5, <1>15
    <3>2. QED
      BY <2>2, <3>1
  <2>4. Focus(s)
    BY <1>13, <1>15, <2>3 DEF Focus
  <2>5. QED
    BY <1>0, <1>2, <1>13, <1>14, <2>4 DEF StoreOK, Named, s
<1>16. CASE tabs # <<>>
  <2>1. 1 \in 1 .. Len(tabs) /\ 1 \in 1 .. Len(remaining)
    BY <1>2, <1>5, <1>16
  <2>2. prev.tabs # <<>>
    BY <2>1
  <2>3. PICK a \in 1 .. Len(prev.tabs) :
          /\ prev.tabs[a].id = prev.activeTabId
          /\ IsTabSplit(prev.tabs) => prev.groupActive[prev.tabs[a].group] = prev.activeTabId
    BY <1>4, <2>2 DEF Focus
  <2>4. /\ prev.activeTabId \in TabIds(prev.tabs)
        /\ GroupOf(prev.tabs, prev.activeTabId) = prev.tabs[a].group
        /\ prev.tabs[a].group \in Groups
    BY <1>4, <2>3, StripFacts
  <2>5. side = prev.tabs[a].group
    BY <2>4
  <2> HIDE DEF side
  <2>6. ASSUME IsTabSplit(tabs)
        PROVE  /\ tabs = remaining
               /\ prev.groupActive[side] = prev.activeTabId
    <3>1. tabs = remaining
      BY <1>2, <2>6
    <3>2. PICK i \in 1 .. Len(tabs) : tabs[i].group = 1
      BY <1>5, <2>6
    <3>3. PICK j \in 1 .. Len(prev.tabs) : tabs[i] = prev.tabs[j]
      BY <3>1
    <3>4. prev.tabs[j].group = 1
      BY <3>2, <3>3
    <3>5. IsTabSplit(prev.tabs)
      BY <1>4, <3>4, StripFacts
    <3>6. QED
      BY <2>3, <2>5, <3>1, <3>5
  <2>7. CASE prev.activeTabId \in TabIds(tabs)
    <3>1. focus = prev.activeTabId
      BY <2>7
    <3>2. PICK i \in 1 .. Len(tabs) : tabs[i].id = prev.activeTabId
      BY <1>5, <2>7
    <3>3. ASSUME IsTabSplit(tabs) PROVE shown[tabs[i].group] = prev.activeTabId
      <4>1. tabs = remaining /\ prev.groupActive[side] = prev.activeTabId
        BY <2>6, <3>3
      <4>2. PICK j \in 1 .. Len(prev.tabs) : tabs[i] = prev.tabs[j]
        BY <4>1
      <4>3. j = a
        BY <1>4, <2>3, <3>2, <4>2 DEF Strip
      <4>4. tabs[i].group = side /\ side \in Groups
        BY <2>4, <2>5, <4>2, <4>3
      <4>5. prev.activeTabId \in TabIds(InGroup(tabs, side))
        BY <1>6, <3>2, <4>4
      <4>6. shown[side] = prev.activeTabId
        BY <1>7, <1>10, <4>1, <4>4, <4>5
      <4>7. QED
        BY <4>4, <4>6
    <3>4. Focus(s)
      BY <1>13, <1>16, <3>1, <3>2, <3>3 DEF Focus
    <3>5. QED
      BY <1>0, <1>2, <1>13, <1>14, <3>4 DEF StoreOK, Named, s
  <2>8. CASE prev.activeTabId \notin TabIds(tabs) /\ IsTabSplit(tabs)
    <3>1. side \in Groups
      BY <2>4, <2>5
    <3>2. InGroup(tabs, side) # <<>>
      BY <1>2, <1>6, <2>8, <3>1 DEF Sides, BothSides
    <3>3. next \in TabIds(InGroup(tabs, side))
      BY <1>7, <3>1, <3>2
    <3>4. PICK i \in 1 .. Len(tabs) : tabs[i].id = next /\ tabs[i].group = side
      BY <1>6, <3>1, <3>3
    <3>5. next # NoTab
      BY <1>5, <3>4 DEF NoTab
    <3>6. focus = next
      BY <2>8, <3>5
    <3>7. shown[side] = next
      BY <1>10, <2>6, <2>8, <3>1
    <3>8. Focus(s)
      BY <1>13, <1>16, <3>4, <3>6, <3>7 DEF Focus
    <3>9. QED
      BY <1>0, <1>2, <1>13, <1>14, <3>8 DEF StoreOK, Named, s
  <2>9. CASE prev.activeTabId \notin TabIds(tabs) /\ ~ IsTabSplit(tabs)
    <3>1. tabs[1].group = 0
      BY <1>3, <1>5, <2>1, <2>9
    <3>2. InGroup(tabs, 0) # <<>>
      BY <1>3, <1>6, <2>1, <3>1
    <3>3. shown[0] \in TabIds(InGroup(tabs, 0))
      BY <1>3, <1>7, <1>10, <3>2
    <3>4. shown[0] \in TabIds(tabs) /\ shown[0] # NoTab
      <4>0. \A id : id \in TabIds(InGroup(tabs, 0)) =>
                      \E i \in 1 .. Len(tabs) : tabs[i].id = id /\ tabs[i].group = 0
        BY <1>3, <1>6
      <4>1. PICK i \in 1 .. Len(tabs) : tabs[i].id = shown[0]
        BY <3>3, <4>0
      <4>2. tabs[i].id \in TabIds(tabs) /\ tabs[i].id \in 1 .. m
        BY <1>5
      <4>3. QED
        BY <4>1, <4>2 DEF NoTab
    <3>5. focus \in TabIds(tabs)
      BY <1>11, <2>9, <3>4
    <3>6. Focus(s)
      BY <1>5, <1>13, <1>16, <2>9, <3>5 DEF Focus
    <3>7. QED
      BY <1>0, <1>2, <1>13, <1>14, <3>6 DEF StoreOK, Named, s
  <2>10. QED
    BY <2>7, <2>8, <2>9
<1>17. QED
  BY <1>15, <1>16

(* Some of the tabs, each once.                                            *)
PartOf(some, tabs) ==
  /\ \A i \in 1 .. Len(some) : \E j \in 1 .. Len(tabs) : some[i] = tabs[j]
  /\ \A i, j \in 1 .. Len(some) : some[i] = some[j] => i = j

(* What stays of a strip is a strip.                                       *)
LEMMA PartKeeps ==
  ASSUME NEW m \in Nat, NEW prev, StoreOK(prev, m), NEW remaining \in Seq(Tab(m)),
         PartOf(remaining, prev.tabs)
  PROVE  LET s == AfterRemoval(prev, remaining)
         IN  /\ StoreOK(s, m) /\ Named(s) /\ Regrouped(s.tabs, prev.tabs)
             /\ TabIds(s.tabs) = TabIds(remaining)
<1> DEFINE s == AfterRemoval(prev, remaining)
<1>0. /\ \A i \in 1 .. Len(remaining) : \E j \in 1 .. Len(prev.tabs) : remaining[i] = prev.tabs[j]
      /\ \A i, j \in 1 .. Len(remaining) : remaining[i] = remaining[j] => i = j
  BY DEF PartOf
<1>1. Strip(prev.tabs, m)
  BY DEF StoreOK
<1>2. \A j \in 1 .. Len(prev.tabs) : /\ prev.tabs[j] \in Tab(m) /\ prev.tabs[j].group \in Groups
                                     /\ prev.tabs[j] = InSide(prev.tabs[j], prev.tabs[j].group)
  BY <1>1, StripFacts, InSideFacts
<1>3. Regrouped(remaining, prev.tabs)
  <2>1. ASSUME NEW i \in 1 .. Len(remaining)
        PROVE  \E j \in 1 .. Len(prev.tabs) :
                 /\ remaining[i] = InSide(prev.tabs[j], remaining[i].group)
                 /\ remaining[i].id = prev.tabs[j].id /\ remaining[i].panes = prev.tabs[j].panes
                 /\ remaining[i].layout = prev.tabs[j].layout
    <3>1. PICK j \in 1 .. Len(prev.tabs) : remaining[i] = prev.tabs[j]
      BY <1>0
    <3>2. QED
      BY <1>2, <3>1
  <2>2. QED
    BY <2>1 DEF Regrouped
<1>4. \A i, j \in 1 .. Len(remaining) : remaining[i].id = remaining[j].id => i = j
  <2>1. ASSUME NEW i \in 1 .. Len(remaining), NEW j \in 1 .. Len(remaining),
               remaining[i].id = remaining[j].id
        PROVE  i = j
    <3>1. PICK a \in 1 .. Len(prev.tabs) : remaining[i] = prev.tabs[a]
      BY <1>0
    <3>2. PICK b \in 1 .. Len(prev.tabs) : remaining[j] = prev.tabs[b]
      BY <1>0
    <3>3. a = b
      BY <1>1, <2>1, <3>1, <3>2 DEF Strip
    <3>4. QED
      BY <1>0, <3>1, <3>2, <3>3
  <2>2. QED
    BY <2>1
<1>5. Strip(remaining, m)
  BY <1>1, <1>3, <1>4, StripFrom
<1>6. StoreOK(s, m) /\ Named(s) /\ s.tabs = CollapseIfEmpty(remaining)
  BY <1>0, <1>5, AfterRemovalKeeps
<1>7. /\ Regrouped(s.tabs, remaining) /\ TabIds(s.tabs) = TabIds(remaining)
  BY <1>5, <1>6, CollapseFacts
<1> HIDE DEF s
<1>9. Regrouped(s.tabs, prev.tabs)
  <2>1. ASSUME NEW i \in 1 .. Len(s.tabs)
        PROVE  \E j \in 1 .. Len(prev.tabs) :
                 /\ s.tabs[i] = InSide(prev.tabs[j], s.tabs[i].group)
                 /\ s.tabs[i].id = prev.tabs[j].id /\ s.tabs[i].panes = prev.tabs[j].panes
                 /\ s.tabs[i].layout = prev.tabs[j].layout
    <3>1. PICK k \in 1 .. Len(remaining) :
            /\ s.tabs[i] = InSide(remaining[k], s.tabs[i].group)
            /\ s.tabs[i].id = remaining[k].id /\ s.tabs[i].panes = remaining[k].panes
            /\ s.tabs[i].layout = remaining[k].layout
      BY <1>7 DEF Regrouped
    <3>2. PICK j \in 1 .. Len(prev.tabs) : remaining[k] = prev.tabs[j]
      BY <1>0
    <3>3. QED
      BY <3>1, <3>2
  <2>2. QED
    BY <2>1 DEF Regrouped
<1>10. QED
  BY <1>6, <1>7, <1>9 DEF s

(* Tabs are closed, or go to another window.                               *)
LEMMA WithoutKeeps ==
  ASSUME NEW m \in Nat, NEW prev, StoreOK(prev, m), NEW ids
  PROVE  LET s == Without(prev, ids)
         IN  /\ StoreOK(s, m) /\ Named(s) /\ Regrouped(s.tabs, prev.tabs)
             /\ TabIds(s.tabs) = TabIds(prev.tabs) \ ids
<1> DEFINE T == {t \in ToSet(prev.tabs) : t.id \notin ids}
           r == Keep(prev.tabs, T)
           s == Without(prev, ids)
<1>1. Strip(prev.tabs, m) /\ prev.tabs \in Seq(Tab(m)) /\ Len(prev.tabs) \in Nat
      /\ DOMAIN prev.tabs = 1 .. Len(prev.tabs)
  BY StripFacts DEF StoreOK
<1>2. \A i, j \in DOMAIN prev.tabs : prev.tabs[i] = prev.tabs[j] /\ prev.tabs[i] \in T => i = j
  BY <1>1 DEF Strip
<1> HIDE DEF T
<1>3. /\ r \in Seq(Tab(m)) /\ ToSet(r) = ToSet(prev.tabs) \cap T
      /\ \A i, j \in DOMAIN r : r[i] = r[j] => i = j
  BY <1>1, <1>2, KeepFacts
<1>4. s = AfterRemoval(prev, r)
  BY DEF Without, T
<1> HIDE DEF r, s
<1>5. DOMAIN r = 1 .. Len(r) /\ \A x : x \in ToSet(r) <=> \E i \in 1 .. Len(r) : r[i] = x
  BY <1>3, Members
<1>6. \A x : x \in ToSet(prev.tabs) <=> \E i \in 1 .. Len(prev.tabs) : prev.tabs[i] = x
  BY <1>1, Members
<1>7. \A i \in 1 .. Len(r) : \E j \in 1 .. Len(prev.tabs) : r[i] = prev.tabs[j]
  BY <1>3, <1>5, <1>6
<1>8. \A i, j \in 1 .. Len(r) : r[i] = r[j] => i = j
  BY <1>3, <1>5
<1>9. StoreOK(s, m) /\ Named(s) /\ Regrouped(s.tabs, prev.tabs) /\ TabIds(s.tabs) = TabIds(r)
  <2>1. r \in Seq(Tab(m)) /\ PartOf(r, prev.tabs)
    BY <1>3, <1>7, <1>8 DEF PartOf
  <2>2. QED
    BY <1>4, <2>1, PartKeeps
<1>10. \A id : id \in TabIds(prev.tabs) <=> \E i \in 1 .. Len(prev.tabs) : prev.tabs[i].id = id
  BY <1>1, StripFacts
<1>14. \A id : id \in TabIds(r) <=> \E i \in 1 .. Len(r) : r[i].id = id
  BY <1>5 DEF TabIds
<1>11. ASSUME NEW id PROVE id \in TabIds(s.tabs) <=> id \in TabIds(prev.tabs) /\ id \notin ids
  <2>1. ASSUME id \in TabIds(s.tabs) PROVE id \in TabIds(prev.tabs) /\ id \notin ids
    <3>1. PICK i \in 1 .. Len(r) : r[i].id = id
      BY <1>9, <1>14, <2>1
    <3>2. r[i] \in ToSet(prev.tabs) /\ r[i].id \notin ids
      BY <1>3, <1>5 DEF T
    <3>3. QED
      BY <1>6, <1>10, <3>1, <3>2
  <2>2. ASSUME id \in TabIds(prev.tabs), id \notin ids PROVE id \in TabIds(s.tabs)
    <3>1. PICK i \in 1 .. Len(prev.tabs) : prev.tabs[i].id = id
      BY <1>10, <2>2
    <3>2. prev.tabs[i] \in ToSet(prev.tabs) /\ prev.tabs[i] \in T
      BY <1>6, <2>2, <3>1 DEF T
    <3>3. PICK k \in 1 .. Len(r) : r[k] = prev.tabs[i]
      BY <1>3, <1>5, <3>2
    <3>4. QED
      BY <1>9, <1>14, <3>1, <3>3
  <2>3. QED
    BY <2>1, <2>2
<1>12. TabIds(s.tabs) = TabIds(prev.tabs) \ ids
  BY <1>11
<1>13. QED
  BY <1>9, <1>12 DEF s

(* closeTabsToRight, also of a tab that is gone.                           *)
LEMMA CloseRightKeeps ==
  ASSUME NEW m \in Nat, NEW prev, StoreOK(prev, m), NEW id
  PROVE  LET s == CloseTabsToRight(prev, id)
         IN  StoreOK(s, m) /\ Named(s) /\ Regrouped(s.tabs, prev.tabs)
<1> DEFINE k == PosOf(prev.tabs, id)
           r == SubSeq(prev.tabs, 1, k)
<1>1. Strip(prev.tabs, m) /\ prev.tabs \in Seq(Tab(m)) /\ Len(prev.tabs) \in Nat
  BY StripFacts DEF StoreOK
<1>2. k \in 0 .. Len(prev.tabs)
  <2>1. k \in 1 .. Len(prev.tabs) \/ k = 0
    BY <1>1, PosOfFacts
  <2> HIDE DEF k
  <2>2. QED
    BY <1>1, <2>1
<1>3. CloseTabsToRight(prev, id) = AfterRemoval(prev, r)
  BY DEF CloseTabsToRight
<1> HIDE DEF k
<1>4. r \in Seq(Tab(m)) /\ Len(r) = k /\ \A i \in 1 .. k : r[i] = prev.tabs[i]
  BY <1>1, <1>2, SubSeqProperties
<1> HIDE DEF r
<1>5. \A i \in 1 .. Len(r) : i \in 1 .. Len(prev.tabs) /\ r[i] = prev.tabs[i]
  BY <1>1, <1>2, <1>4
<1>6. \A i, j \in 1 .. Len(r) : r[i] = r[j] => i = j
  BY <1>1, <1>5 DEF Strip
<1>7. PartOf(r, prev.tabs)
  BY <1>5, <1>6 DEF PartOf
<1>8. QED
  BY <1>3, <1>4, <1>7, PartKeeps

(* A tab is chosen.                                                        *)
LEMMA SetActiveKeeps ==
  ASSUME NEW m \in Nat, NEW prev, StoreOK(prev, m), NEW id
  PROVE  LET s == SetActiveTab(prev, id)
         IN  /\ StoreOK(s, m) /\ (Named(prev) => Named(s)) /\ s.tabs = prev.tabs
             /\ id \in TabIds(prev.tabs) => s.activeTabId = id
<1> DEFINE s == SetActiveTab(prev, id)
<1>1. CASE id \notin TabIds(prev.tabs)
  <2>1. s = prev
    BY <1>1 DEF SetActiveTab
  <2>2. QED
    BY <1>1, <2>1
<1>2. CASE id \in TabIds(prev.tabs)
  <2>1. prev \in Store(m) /\ Strip(prev.tabs, m)
    BY DEF StoreOK
  <2>2. PICK i \in 1 .. Len(prev.tabs) : prev.tabs[i].id = id
    BY <1>2, <2>1, StripFacts
  <2>3. /\ GroupOf(prev.tabs, id) = prev.tabs[i].group /\ prev.tabs[i].group \in Groups /\ id \in 1 .. m
        /\ prev.tabs # <<>>
    BY <2>1, <2>2, StripFacts
  <2>4. s = [prev EXCEPT !.activeTabId = id, !.groupActive[prev.tabs[i].group] = id]
    BY <1>2, <2>3 DEF SetActiveTab
  <2>5. /\ s \in Store(m) /\ s.tabs = prev.tabs /\ s.activeTabId = id
        /\ s.groupActive = [prev.groupActive EXCEPT ![prev.tabs[i].group] = id]
    <3>1. /\ prev.tabs \in Seq(Tab(m)) /\ prev.groupActive \in [Groups -> 0 .. m]
          /\ prev = [tabs |-> prev.tabs, activeTabId |-> prev.activeTabId, groupActive |-> prev.groupActive]
      BY <2>1 DEF Store
    <3>2. [prev.groupActive EXCEPT ![prev.tabs[i].group] = id] \in [Groups -> 0 .. m]
      BY <2>3, <3>1
    <3>3. s = [tabs |-> prev.tabs, activeTabId |-> id,
               groupActive |-> [prev.groupActive EXCEPT ![prev.tabs[i].group] = id]]
      BY <2>4, <3>1
    <3>4. id \in 0 .. m
      BY <2>3
    <3> HIDE DEF s
    <3>5. QED
      BY <3>1, <3>2, <3>3, <3>4 DEF Store
  <2>6. prev.groupActive \in [Groups -> 0 .. m]
    BY <2>1 DEF Store
  <2> HIDE DEF s
  <2>7. /\ s.groupActive[prev.tabs[i].group] = id
        /\ \A g \in Groups : g # prev.tabs[i].group => s.groupActive[g] = prev.groupActive[g]
    BY <2>3, <2>5, <2>6
  <2>8. Focus(s)
    BY <2>2, <2>3, <2>5, <2>7 DEF Focus
  <2>9. Named(prev) => Named(s)
    <3>1. ASSUME Named(prev), IsTabSplit(s.tabs), NEW g \in Groups
          PROVE  \E k \in 1 .. Len(s.tabs) : s.tabs[k].group = g /\ s.tabs[k].id = s.groupActive[g]
      <4>1. CASE g = prev.tabs[i].group
        BY <2>2, <2>5, <2>7, <4>1
      <4>2. CASE g # prev.tabs[i].group
        BY <2>5, <2>7, <3>1, <4>2 DEF Named
      <4>3. QED
        BY <4>1, <4>2
    <3>2. QED
      BY <3>1 DEF Named
  <2>10. StoreOK(s, m)
    BY <2>1, <2>5, <2>8 DEF StoreOK
  <2>11. QED
    BY <2>5, <2>9, <2>10 DEF s
<1>3. QED
  BY <1>1, <1>2

-----------------------------------------------------------------------------
(* A window gets another tab.                                              *)

(* Panes that are made later change nothing.                               *)
LEMMA LaterKeeps ==
  ASSUME NEW m \in Nat, NEW n \in Nat, m <= n
  PROVE  /\ Tab(m) \subseteq Tab(n)
         /\ \A tabs : Strip(tabs, m) => Strip(tabs, n)
         /\ \A s : StoreOK(s, m) => StoreOK(s, n)
<1>1. 1 .. m \subseteq 1 .. n /\ 0 .. m \subseteq 0 .. n
  OBVIOUS
<1>2. Seq(1 .. m) \subseteq Seq(1 .. n)
  BY <1>1
<1>3. Seq(Seq(1 .. m)) \subseteq Seq(Seq(1 .. n))
  <2>1. ASSUME NEW A, NEW B, A \subseteq B PROVE Seq(A) \subseteq Seq(B)
    BY <2>1
  <2>2. QED
    BY <1>2, <2>1
<1>4. Tab(m) \subseteq Tab(n)
  <2> DEFINE S1 == Seq(1 .. m) S2 == Seq(1 .. n) L1 == Seq(Seq(1 .. m)) L2 == Seq(Seq(1 .. n))
             F1 == Seq(1 .. Whole) F2 == Seq(Seq(1 .. Whole))
  <2>1. S1 \subseteq S2 /\ L1 \subseteq L2
    BY <1>2, <1>3
  <2>2. /\ Tab(m) = [id : 1 .. m, layout : L1, panes : S1, active : 1 .. m,
                     group : Groups, rowFr : F1, colFr : F2]
        /\ Tab(n) = [id : 1 .. n, layout : L2, panes : S2, active : 1 .. n,
                     group : Groups, rowFr : F1, colFr : F2]
    BY DEF Tab
  <2> HIDE DEF S1, S2, L1, L2, F1, F2
  <2>3. QED
    BY <1>1, <2>1, <2>2
<1>5. ASSUME NEW tabs, Strip(tabs, m) PROVE Strip(tabs, n)
  <2>1. tabs \in Seq(Tab(n))
    <3>1. tabs \in Seq(Tab(m))
      BY <1>5 DEF Strip
    <3>2. QED
      BY <1>4, <3>1
  <2>2. QED
    BY <1>5, <2>1 DEF Strip
<1>6. ASSUME NEW s, StoreOK(s, m) PROVE StoreOK(s, n)
  <2>1. s \in Store(m) /\ Strip(s.tabs, m)
    BY <1>6 DEF StoreOK
  <2>2. Strip(s.tabs, n)
    BY <1>5, <2>1
  <2>3. s.tabs \in Seq(Tab(n))
    BY <2>2 DEF Strip
  <2>4. s \in Store(n)
    <3>1. /\ s = [tabs |-> s.tabs, activeTabId |-> s.activeTabId, groupActive |-> s.groupActive]
          /\ s.activeTabId \in 0 .. m /\ s.groupActive \in [Groups -> 0 .. m]
      BY <2>1 DEF Store
    <3>2. s.activeTabId \in 0 .. n /\ s.groupActive \in [Groups -> 0 .. n]
      BY <1>1, <3>1
    <3>3. QED
      BY <2>3, <3>1, <3>2 DEF Store
  <2>5. QED
    BY <1>6, <2>2, <2>4 DEF StoreOK
<1>7. QED
  BY <1>4, <1>5, <1>6

(* t is put at place k.                                                    *)
Inserted(new, tabs, k, t) ==
  /\ Len(new) = Len(tabs) + 1
  /\ \A i \in 1 .. (Len(tabs) + 1) :
       new[i] = IF i < k THEN tabs[i] ELSE IF i = k THEN t ELSE tabs[i - 1]

\* InsertAt puts one element in.
LEMMA PutIn ==
  ASSUME NEW S, NEW s \in Seq(S), NEW e \in S, NEW k \in 1 .. (Len(s) + 1)
  PROVE  InsertAt(s, k, e) \in Seq(S) /\ Inserted(InsertAt(s, k, e), s, k, e)
<1>1. QED
  BY InsertAtFacts DEF Inserted

(* Besides the tabs there were, there is t.                                *)
Joined(new, tabs, t) ==
  /\ \A i \in 1 .. Len(new) : new[i] = t \/ \E j \in 1 .. Len(tabs) : new[i] = tabs[j]
  /\ \A j \in 1 .. Len(tabs) : \E i \in 1 .. Len(new) : new[i] = tabs[j]
  /\ \E i \in 1 .. Len(new) : new[i] = t

(* A tab of new panes can be put anywhere in a strip.                      *)
LEMMA InsertedKeeps ==
  ASSUME NEW m \in Nat, NEW n \in Nat, m <= n, NEW tabs, Strip(tabs, m),
         NEW t \in Tab(n), Sound(t), t.id \notin 1 .. m, ToSet(t.panes) \cap 1 .. m = {},
         NEW k \in 1 .. (Len(tabs) + 1), NEW new \in Seq(Tab(n)), Inserted(new, tabs, k, t)
  PROVE  Strip(new, n) /\ Joined(new, tabs, t)
<1>1. /\ Len(tabs) \in Nat /\ Len(new) = Len(tabs) + 1
      /\ \A i \in 1 .. (Len(tabs) + 1) :
           new[i] = IF i < k THEN tabs[i] ELSE IF i = k THEN t ELSE tabs[i - 1]
      /\ \A i \in 1 .. Len(tabs) : tabs[i] \in Tab(m) /\ tabs[i].id \in 1 .. m
      /\ \A i, j \in 1 .. Len(tabs) : tabs[i].id = tabs[j].id => i = j
  BY StripFacts DEF Inserted, Strip
<1> DEFINE at(i) == IF i < k THEN i ELSE i - 1
<1>2. \A i \in 1 .. Len(new) : i # k => at(i) \in 1 .. Len(tabs) /\ new[i] = tabs[at(i)]
  BY <1>1
<1>3. new[k] = t /\ k \in 1 .. Len(new)
  BY <1>1
<1>4. \A i, j \in 1 .. Len(new) : i # k /\ j # k /\ at(i) = at(j) => i = j
  BY <1>1
<1>5. Joined(new, tabs, t)
  <2>1. \A i \in 1 .. Len(new) : new[i] = t \/ \E j \in 1 .. Len(tabs) : new[i] = tabs[j]
    BY <1>2, <1>3
  <2>2. ASSUME NEW j \in 1 .. Len(tabs) PROVE \E i \in 1 .. Len(new) : new[i] = tabs[j]
    <3>1. CASE j < k
      <4>1. j \in 1 .. Len(new) /\ new[j] = tabs[j]
        BY <1>1, <3>1
      <4>2. QED
        BY <4>1
    <3>2. CASE j >= k
      <4>1. j + 1 \in 1 .. Len(new) /\ new[j + 1] = tabs[j]
        BY <1>1, <3>2
      <4>2. QED
        BY <4>1
    <3>3. QED
      BY <1>1, <3>1, <3>2
  <2>3. QED
    BY <1>3, <2>1, <2>2 DEF Joined
<1> HIDE DEF at
<1>6. ASSUME NEW i \in 1 .. Len(new), NEW j \in 1 .. Len(new), new[i].id = new[j].id PROVE i = j
  <2>1. CASE i # k /\ j # k
    <3>1. /\ at(i) \in 1 .. Len(tabs) /\ new[i] = tabs[at(i)]
          /\ at(j) \in 1 .. Len(tabs) /\ new[j] = tabs[at(j)]
      BY <1>2, <2>1
    <3>2. at(i) = at(j)
      <4> DEFINE e == at(i)
                 f == at(j)
      <4>1. e \in 1 .. Len(tabs) /\ f \in 1 .. Len(tabs) /\ tabs[e].id = tabs[f].id
        BY <1>6, <3>1
      <4> HIDE DEF e, f
      <4>2. e = f
        BY <1>1, <4>1
      <4>3. QED
        BY <4>2 DEF e, f
    <3>3. QED
      BY <1>4, <2>1, <3>2
  <2>2. CASE i = k /\ j # k
    BY <1>1, <1>2, <1>3, <1>6, <2>2
  <2>3. CASE i # k /\ j = k
    BY <1>1, <1>2, <1>3, <1>6, <2>3
  <2>4. QED
    BY <2>1, <2>2, <2>3
<1>7. ASSUME NEW a \in 1 .. Len(tabs), NEW p, p \in ToSet(tabs[a].panes) PROVE p \in 1 .. m
  <2>1. tabs[a].panes \in Seq(1 .. m)
    BY <1>1 DEF Tab
  <2>2. QED
    BY <1>7, <2>1, Members
<1>8. ASSUME NEW i \in 1 .. Len(new), NEW j \in 1 .. Len(new), NEW p,
             p \in ToSet(new[i].panes), p \in ToSet(new[j].panes)
      PROVE  i = j
  <2>1. CASE i # k /\ j # k
    <3>1. p \in ToSet(tabs[at(i)].panes) /\ p \in ToSet(tabs[at(j)].panes)
      BY <1>2, <1>8, <2>1
    <3>2. at(i) = at(j)
      BY <1>2, <2>1, <3>1 DEF Strip
    <3>3. QED
      BY <1>4, <2>1, <3>2
  <2>2. CASE i = k /\ j # k
    BY <1>2, <1>3, <1>7, <1>8, <2>2
  <2>3. CASE i # k /\ j = k
    BY <1>2, <1>3, <1>7, <1>8, <2>3
  <2>4. QED
    BY <2>1, <2>2, <2>3
<1>9. \A i \in 1 .. Len(new) : Sound(new[i])
  BY <1>2, <1>3 DEF Strip
<1>10. QED
  BY <1>5, <1>6, <1>8, <1>9 DEF Strip

(* What the strip says of its tabs when one joins.                         *)
LEMMA JoinedFacts ==
  ASSUME NEW m \in Nat, NEW n \in Nat, m <= n, NEW tabs, Strip(tabs, m), NEW t \in Tab(n),
         NEW new, Strip(new, n), Joined(new, tabs, t)
  PROVE  /\ TabIds(new) = TabIds(tabs) \cup {t.id}
         /\ PanesOf(new) = PanesOf(tabs) \cup ToSet(t.panes)
         /\ IsTabSplit(new) <=> IsTabSplit(tabs) \/ t.group = 1
         /\ t.group = 0 \/ IsTabSplit(tabs) => (Sides(tabs) => Sides(new))
<1>1. /\ \A i \in 1 .. Len(new) : new[i] = t \/ \E j \in 1 .. Len(tabs) : new[i] = tabs[j]
      /\ \A j \in 1 .. Len(tabs) : \E i \in 1 .. Len(new) : new[i] = tabs[j]
      /\ \E i \in 1 .. Len(new) : new[i] = t
  BY DEF Joined
<1> DEFINE Reads(seq) ==
       /\ \A id : id \in TabIds(seq) <=> \E i \in 1 .. Len(seq) : seq[i].id = id
       /\ \A p : p \in PanesOf(seq) <=> \E i \in 1 .. Len(seq) : p \in ToSet(seq[i].panes)
       /\ IsTabSplit(seq) <=> \E i \in 1 .. Len(seq) : seq[i].group = 1
<1>0. ASSUME NEW k \in Nat, NEW seq, Strip(seq, k) PROVE Reads(seq)
  <2>1. \A id : id \in TabIds(seq) <=> \E i \in 1 .. Len(seq) : seq[i].id = id
    BY <1>0, StripFacts
  <2>2. \A p : p \in PanesOf(seq) <=> \E i \in 1 .. Len(seq) : p \in ToSet(seq[i].panes)
    BY <1>0, StripFacts
  <2>3. IsTabSplit(seq) <=> \E i \in 1 .. Len(seq) : seq[i].group = 1
    BY <1>0, StripFacts
  <2>4. QED
    BY <2>1, <2>2, <2>3
<1> HIDE DEF Reads
<1>2. Reads(tabs) /\ Reads(new)
  BY <1>0
<1>3. /\ \A id : id \in TabIds(tabs) <=> \E i \in 1 .. Len(tabs) : tabs[i].id = id
      /\ \A p : p \in PanesOf(tabs) <=> \E i \in 1 .. Len(tabs) : p \in ToSet(tabs[i].panes)
      /\ IsTabSplit(tabs) <=> \E i \in 1 .. Len(tabs) : tabs[i].group = 1
      /\ \A id : id \in TabIds(new) <=> \E i \in 1 .. Len(new) : new[i].id = id
      /\ \A p : p \in PanesOf(new) <=> \E i \in 1 .. Len(new) : p \in ToSet(new[i].panes)
      /\ IsTabSplit(new) <=> \E i \in 1 .. Len(new) : new[i].group = 1
  BY <1>2 DEF Reads
<1>4. TabIds(new) = TabIds(tabs) \cup {t.id}
  <2>1. \A id : id \in TabIds(new) <=> id \in TabIds(tabs) \/ id = t.id
    BY <1>1, <1>3
  <2>2. QED
    BY <2>1
<1>5. PanesOf(new) = PanesOf(tabs) \cup ToSet(t.panes)
  <2>1. ASSUME NEW p, p \in PanesOf(new) PROVE p \in PanesOf(tabs) \/ p \in ToSet(t.panes)
    <3>1. PICK i \in 1 .. Len(new) : p \in ToSet(new[i].panes)
      BY <1>3, <2>1
    <3>2. QED
      BY <1>1, <1>3, <3>1
  <2>2. ASSUME NEW p, p \in PanesOf(tabs) PROVE p \in PanesOf(new)
    <3>1. PICK j \in 1 .. Len(tabs) : p \in ToSet(tabs[j].panes)
      BY <1>3, <2>2
    <3>2. PICK i \in 1 .. Len(new) : new[i] = tabs[j]
      BY <1>1
    <3>3. QED
      BY <1>3, <3>1, <3>2
  <2>3. ASSUME NEW p, p \in ToSet(t.panes) PROVE p \in PanesOf(new)
    <3>1. PICK i \in 1 .. Len(new) : new[i] = t
      BY <1>1
    <3>2. QED
      BY <1>3, <2>3, <3>1
  <2>4. QED
    BY <2>1, <2>2, <2>3
<1>6. IsTabSplit(new) <=> IsTabSplit(tabs) \/ t.group = 1
  <2>1. ASSUME IsTabSplit(new) PROVE IsTabSplit(tabs) \/ t.group = 1
    <3>1. PICK i \in 1 .. Len(new) : new[i].group = 1
      BY <1>3, <2>1
    <3>2. QED
      BY <1>1, <1>3, <3>1
  <2>2. ASSUME IsTabSplit(tabs) PROVE IsTabSplit(new)
    <3>1. PICK j \in 1 .. Len(tabs) : tabs[j].group = 1
      BY <1>3, <2>2
    <3>2. PICK i \in 1 .. Len(new) : new[i] = tabs[j]
      BY <1>1
    <3>3. QED
      BY <1>3, <3>1, <3>2
  <2>3. ASSUME t.group = 1 PROVE IsTabSplit(new)
    <3>1. PICK i \in 1 .. Len(new) : new[i] = t
      BY <1>1
    <3>2. QED
      BY <1>3, <2>3, <3>1
  <2>4. QED
    BY <2>1, <2>2, <2>3
<1>7. ASSUME t.group = 0 \/ IsTabSplit(tabs), Sides(tabs) PROVE Sides(new)
  <2>1. t.group \in Groups
    BY DEF Tab
  <2>2. IsTabSplit(new) => IsTabSplit(tabs)
    BY <1>6, <1>7
  <2>3. BothSides(tabs) => BothSides(new)
    BY <1>1 DEF BothSides
  <2>4. QED
    BY <1>7, <2>2, <2>3 DEF Sides
<1>8. QED
  BY <1>4, <1>5, <1>6, <1>7

(* A tab joins the strip and is chosen.                                    *)
LEMMA JoinKeeps ==
  ASSUME NEW m \in Nat, NEW n \in Nat, m <= n, NEW prev, StoreOK(prev, m),
         NEW t \in Tab(n), t.group = 0 \/ IsTabSplit(prev.tabs),
         NEW new, Strip(new, n), Joined(new, prev.tabs, t), NEW s,
         s = [tabs |-> new, activeTabId |-> t.id,
              groupActive |-> [prev.groupActive EXCEPT ![t.group] = t.id]]
  PROVE  StoreOK(s, n) /\ (Named(prev) => Named(s))
<1>1. prev \in Store(m) /\ Strip(prev.tabs, m) /\ Sides(prev.tabs)
  BY DEF StoreOK
<1>2. s.tabs = new /\ s.activeTabId = t.id
      /\ s.groupActive = [prev.groupActive EXCEPT ![t.group] = t.id]
  OBVIOUS
<1>3. t.group \in Groups /\ t.id \in 1 .. n
  BY DEF Tab
<1>4. prev.groupActive \in [Groups -> 0 .. m]
  BY <1>1 DEF Store
<1>5. prev.groupActive \in [Groups -> 0 .. n]
  <2>1. 0 .. m \subseteq 0 .. n
    OBVIOUS
  <2>2. QED
    BY <1>4, <2>1
<1>6. /\ s.groupActive \in [Groups -> 0 .. n] /\ s.groupActive[t.group] = t.id
      /\ \A g \in Groups : g # t.group => s.groupActive[g] = prev.groupActive[g]
  BY <1>2, <1>3, <1>5
<1>7. s \in Store(n)
  <2>1. new \in Seq(Tab(n)) /\ t.id \in 0 .. n
    BY <1>3 DEF Strip
  <2>2. s = [tabs |-> new, activeTabId |-> t.id, groupActive |-> s.groupActive]
    OBVIOUS
  <2>3. QED
    BY <1>6, <2>1, <2>2 DEF Store
<1>8. Sides(new) /\ (IsTabSplit(new) => IsTabSplit(prev.tabs))
  BY <1>1, <1>3, JoinedFacts
<1>9. PICK i \in 1 .. Len(new) : new[i] = t
  BY DEF Joined
<1>10. new # <<>>
  BY <1>9, StripFacts
<1>11. Focus(s)
  BY <1>2, <1>6, <1>9, <1>10 DEF Focus
<1>12. ASSUME Named(prev), IsTabSplit(new), NEW g \in Groups
       PROVE  \E k \in 1 .. Len(new) : new[k].group = g /\ new[k].id = s.groupActive[g]
  <2>1. CASE g = t.group
    BY <1>6, <1>9, <2>1
  <2>2. CASE g # t.group
    <3>1. PICK j \in 1 .. Len(prev.tabs) :
            prev.tabs[j].group = g /\ prev.tabs[j].id = prev.groupActive[g]
      BY <1>8, <1>12 DEF Named
    <3>2. PICK k \in 1 .. Len(new) : new[k] = prev.tabs[j]
      BY DEF Joined
    <3>3. QED
      BY <1>6, <2>2, <3>1, <3>2
  <2>3. QED
    BY <2>1, <2>2
<1>13. QED
  BY <1>2, <1>7, <1>8, <1>11, <1>12 DEF StoreOK, Named

(* A tab with one pane, or with two side by side.                          *)
LEMMA FreshTab ==
  ASSUME NEW n \in Nat, NEW p \in 1 .. n, NEW g \in Groups
  PROVE  LET t == [id |-> p, layout |-> << <<p>> >>, panes |-> <<p>>, active |-> p, group |-> g,
                   rowFr |-> <<>>, colFr |-> <<>>]
         IN  t \in Tab(n) /\ Sound(t) /\ ToSet(t.panes) = {p}
<1> DEFINE t == [id |-> p, layout |-> << <<p>> >>, panes |-> <<p>>, active |-> p, group |-> g,
                 rowFr |-> <<>>, colFr |-> <<>>]
<1>1. <<p>> \in Seq(1 .. n) /\ << <<p>> >> \in Seq(Seq(1 .. n))
  OBVIOUS
<1>2. <<>> \in Seq(1 .. Whole) /\ <<>> \in Seq(Seq(1 .. Whole))
  OBVIOUS
<1>3. t \in Tab(n)
  BY <1>1, <1>2 DEF Tab
<1>4. ToSet(<<p>>) = {p}
  BY DEF ToSet
<1>5. ShowsItsPanes(t)
  <2>1. t.layout = << <<p>> >> /\ t.panes = <<p>> /\ t.active = p
    OBVIOUS
  <2> HIDE DEF t
  <2>2. DOMAIN t.layout = {1} /\ t.layout[1] = <<p>> /\ DOMAIN t.panes = {1} /\ DOMAIN <<p>> = {1}
    BY <2>1
  <2>3. UNION {ToSet(t.layout[r]) : r \in DOMAIN t.layout} = ToSet(t.panes)
    BY <2>1, <2>2
  <2>4. t.layout[1] # <<>>
    BY <2>2
  <2>5. QED
    BY <1>4, <2>1, <2>2, <2>3, <2>4 DEF ShowsItsPanes
<1>6. Holds(t, MaxRows, MaxCols, MaxPanes)
  <2>1. Len(t.layout) = 1 /\ DOMAIN t.layout = {1} /\ t.layout[1] = <<p>> /\ t.panes = <<p>>
    OBVIOUS
  <2> HIDE DEF t
  <2>2. Len(<<p>>) = 1
    OBVIOUS
  <2>3. QED
    BY <2>1, <2>2 DEF Holds, MaxRows, MaxCols, MaxPanes
<1>7. Stored(t)
  <2>1. t.rowFr = <<>> /\ t.colFr = <<>> /\ Len(<<>>) = 0
    OBVIOUS
  <2> HIDE DEF t
  <2>2. 1 .. Len(t.colFr) = {}
    BY <2>1
  <2>3. QED
    BY <2>1, <2>2 DEF Stored
<1>8. QED
  BY <1>3, <1>4, <1>5, <1>6, <1>7 DEF Sound

\* The tab that another window tore off is sound.
LEMMA TornTab ==
  ASSUME NEW n \in Nat, NEW p \in 1 .. n, NEW q \in 1 .. n, p # q
  PROVE  LET t == [id |-> p, layout |-> << <<p, q>> >>, panes |-> <<p, q>>, active |-> p, group |-> 0,
                   rowFr |-> <<>>, colFr |-> <<>>]
         IN  t \in Tab(n) /\ Sound(t) /\ ToSet(t.panes) = {p, q}
<1> DEFINE t == [id |-> p, layout |-> << <<p, q>> >>, panes |-> <<p, q>>, active |-> p, group |-> 0,
                 rowFr |-> <<>>, colFr |-> <<>>]
<1>1. <<p, q>> \in Seq(1 .. n) /\ << <<p, q>> >> \in Seq(Seq(1 .. n))
  OBVIOUS
<1>2. <<>> \in Seq(1 .. Whole) /\ <<>> \in Seq(Seq(1 .. Whole))
  OBVIOUS
<1>3. t \in Tab(n)
  BY <1>1, <1>2 DEF Tab, Groups
<1>4. ToSet(<<p, q>>) = {p, q}
  BY DEF ToSet
<1>5. ShowsItsPanes(t)
  <2>1. t.layout = << <<p, q>> >> /\ t.panes = <<p, q>> /\ t.active = p
    OBVIOUS
  <2> HIDE DEF t
  <2>2. /\ DOMAIN t.layout = {1} /\ t.layout[1] = <<p, q>> /\ DOMAIN t.panes = {1, 2}
        /\ DOMAIN <<p, q>> = {1, 2}
    BY <2>1
  <2>3. UNION {ToSet(t.layout[r]) : r \in DOMAIN t.layout} = ToSet(t.panes)
    BY <2>1, <2>2
  <2>4. t.layout[1] # <<>>
    BY <2>2
  <2>5. \A i, j \in DOMAIN <<p, q>> : <<p, q>>[i] = <<p, q>>[j] => i = j
    OBVIOUS
  <2> DEFINE cells == <<p, q>>
  <2> HIDE DEF cells
  <2>6. /\ \A i, j \in DOMAIN cells : cells[i] = cells[j] => i = j
        /\ DOMAIN t.layout = {1} /\ t.layout[1] = cells /\ t.panes = cells /\ t.active \in ToSet(cells)
    BY <1>4, <2>1, <2>2, <2>5 DEF cells
  <2>7. QED
    BY <2>3, <2>4, <2>6 DEF ShowsItsPanes
<1>6. Holds(t, MaxRows, MaxCols, MaxPanes)
  <2>1. Len(t.layout) = 1 /\ DOMAIN t.layout = {1} /\ t.layout[1] = <<p, q>> /\ t.panes = <<p, q>>
    OBVIOUS
  <2> HIDE DEF t
  <2>2. Len(<<p, q>>) = 2
    OBVIOUS
  <2>3. \A r \in DOMAIN t.layout : Len(t.layout[r]) = 2
    BY <2>1, <2>2
  <2>4. Len(t.layout) = 1 /\ Len(t.panes) = 2
    BY <2>1, <2>2
  <2>5. 1 <= MaxRows /\ 2 <= MaxCols /\ 2 <= MaxPanes
    BY DEF MaxRows, MaxCols, MaxPanes
  <2>6. \A r \in DOMAIN t.layout : Len(t.layout[r]) <= MaxCols
    BY <2>3, <2>5
  <2>7. Len(t.layout) <= MaxRows /\ Len(t.panes) <= MaxPanes
    BY <2>4, <2>5
  <2>8. QED
    BY <2>6, <2>7 DEF Holds
<1>7. Stored(t)
  <2>1. t.rowFr = <<>> /\ t.colFr = <<>> /\ Len(<<>>) = 0
    OBVIOUS
  <2> HIDE DEF t
  <2>2. 1 .. Len(t.colFr) = {}
    BY <2>1
  <2>3. QED
    BY <2>1, <2>2 DEF Stored
<1>8. QED
  BY <1>3, <1>4, <1>5, <1>6, <1>7 DEF Sound

(* A new tab, beside another or at the end.                                *)
LEMMA NewTabKeeps ==
  ASSUME NEW m \in Nat, NEW prev, StoreOK(prev, m), NEW g \in Groups, NEW after,
         g = 0 \/ IsTabSplit(prev.tabs)
  PROVE  LET s == NewTab(prev, m + 1, g, after)
         IN  /\ StoreOK(s, m + 1) /\ (Named(prev) => Named(s))
             /\ \E t \in Tab(m + 1) : /\ Joined(s.tabs, prev.tabs, t) /\ t.id = m + 1
                                      /\ ToSet(t.panes) = {m + 1} /\ t.group = g
<1> DEFINE n == m + 1
           t == [id |-> n, layout |-> << <<n>> >>, panes |-> <<n>>, active |-> n, group |-> g,
                 rowFr |-> <<>>, colFr |-> <<>>]
           at == PosOf(prev.tabs, after)
           new == IF at = 0 THEN Append(prev.tabs, t) ELSE InsertAt(prev.tabs, at + 1, t)
           s == NewTab(prev, n, g, after)
<1>1. n \in Nat /\ m <= n /\ n \in 1 .. n
  OBVIOUS
<1>2. t \in Tab(n) /\ Sound(t) /\ ToSet(t.panes) = {n}
  BY <1>1, FreshTab
<1>3. t.id = n /\ t.group = g
  OBVIOUS
<1>4. s = [tabs |-> new, activeTabId |-> n, groupActive |-> [prev.groupActive EXCEPT ![g] = n]]
  BY DEF NewTab
<1>14. 1 .. n = 1 .. m \cup {n} /\ n \notin 1 .. m
  OBVIOUS
<1> HIDE DEF t, s, n
<1>5. Strip(prev.tabs, m) /\ Len(prev.tabs) \in Nat /\ prev.tabs \in Seq(Tab(m))
  BY StripFacts DEF StoreOK
<1>6. prev.tabs \in Seq(Tab(n))
  BY <1>1, <1>5, LaterKeeps
<1>7. at = 0 \/ at \in 1 .. Len(prev.tabs)
  BY <1>5, PosOfFacts
<1> HIDE DEF at
<1>8. \E k \in 1 .. (Len(prev.tabs) + 1) : new \in Seq(Tab(n)) /\ Inserted(new, prev.tabs, k, t)
  <2>1. CASE at = 0
    <3>1. new = Append(prev.tabs, t)
      BY <2>1
    <3> HIDE DEF new
    <3>2. /\ new \in Seq(Tab(n)) /\ Len(new) = Len(prev.tabs) + 1
          /\ \A i \in 1 .. Len(prev.tabs) : new[i] = prev.tabs[i]
          /\ new[Len(prev.tabs) + 1] = t
      BY <1>2, <1>6, <3>1, AppendProperties
    <3>3. Len(prev.tabs) + 1 \in 1 .. (Len(prev.tabs) + 1)
      BY <1>5
    <3>4. \A i \in 1 .. (Len(prev.tabs) + 1) :
            new[i] = IF i < Len(prev.tabs) + 1 THEN prev.tabs[i]
                     ELSE IF i = Len(prev.tabs) + 1 THEN t ELSE prev.tabs[i - 1]
      BY <1>5, <3>2
    <3>5. QED
      BY <3>2, <3>3, <3>4 DEF Inserted
  <2>2. CASE at \in 1 .. Len(prev.tabs)
    <3>1. new = InsertAt(prev.tabs, at + 1, t)
      BY <2>2
    <3>2. at + 1 \in 1 .. (Len(prev.tabs) + 1)
      BY <1>5, <2>2
    <3> HIDE DEF new
    <3> DEFINE k == at + 1
    <3>3. new = InsertAt(prev.tabs, k, t) /\ k \in 1 .. (Len(prev.tabs) + 1)
      BY <3>1, <3>2
    <3> HIDE DEF k
    <3>4. new \in Seq(Tab(n)) /\ Inserted(new, prev.tabs, k, t)
      BY <1>2, <1>6, <3>3, PutIn
    <3>5. QED
      BY <3>3, <3>4
  <2>3. QED
    BY <1>7, <2>1, <2>2
<1> HIDE DEF new
<1>9. t.id \notin 1 .. m /\ ToSet(t.panes) \cap 1 .. m = {}
  BY <1>2, <1>3, <1>14
<1>10. Strip(new, n) /\ Joined(new, prev.tabs, t)
  BY <1>1, <1>2, <1>5, <1>8, <1>9, InsertedKeeps
<1>11. StoreOK(s, n) /\ (Named(prev) => Named(s))
  <2>1. t.group = 0 \/ IsTabSplit(prev.tabs)
    BY <1>3
  <2>2. s = [tabs |-> new, activeTabId |-> t.id,
             groupActive |-> [prev.groupActive EXCEPT ![t.group] = t.id]]
    BY <1>3, <1>4
  <2>3. QED
    BY <1>1, <1>2, <1>10, <2>1, <2>2, JoinKeeps
<1>12. s.tabs = new
  BY <1>4
<1>13. QED
  BY <1>2, <1>3, <1>10, <1>11, <1>12 DEF s, n

(* The tab of another window.                                              *)
LEMMA AdoptKeeps ==
  ASSUME NEW m \in Nat, NEW prev, StoreOK(prev, m), NEW t \in Tab(m + 2), Sound(t),
         t.group = 0, t.id = m + 1, ToSet(t.panes) = {m + 1, m + 2}
  PROVE  LET s == AdoptTab(prev, t)
         IN  StoreOK(s, m + 2) /\ (Named(prev) => Named(s)) /\ Joined(s.tabs, prev.tabs, t)
<1> DEFINE n == m + 2
           new == Append(prev.tabs, t)
           s == AdoptTab(prev, t)
<1>1. n \in Nat /\ m <= n
  OBVIOUS
<1>2. InSide(t, 0) = t
  BY <1>1, InSideFacts DEF Groups
<1>3. s = [tabs |-> new, activeTabId |-> t.id, groupActive |-> [prev.groupActive EXCEPT ![t.group] = t.id]]
  BY <1>2 DEF AdoptTab, InSide
<1> HIDE DEF s
<1>5. Strip(prev.tabs, m) /\ Len(prev.tabs) \in Nat /\ prev.tabs \in Seq(Tab(m))
  BY StripFacts DEF StoreOK
<1>6. prev.tabs \in Seq(Tab(n))
  BY <1>1, <1>5, LaterKeeps
<1>7. /\ new \in Seq(Tab(n)) /\ Len(new) = Len(prev.tabs) + 1
      /\ \A i \in 1 .. Len(prev.tabs) : new[i] = prev.tabs[i]
      /\ new[Len(prev.tabs) + 1] = t
  BY <1>6, AppendProperties
<1> HIDE DEF new
<1>8. Inserted(new, prev.tabs, Len(prev.tabs) + 1, t)
  <2>1. \A i \in 1 .. (Len(prev.tabs) + 1) :
          new[i] = IF i < Len(prev.tabs) + 1 THEN prev.tabs[i]
                   ELSE IF i = Len(prev.tabs) + 1 THEN t ELSE prev.tabs[i - 1]
    BY <1>5, <1>7
  <2>2. QED
    BY <1>7, <2>1 DEF Inserted
<1>9. t.id \notin 1 .. m /\ ToSet(t.panes) \cap 1 .. m = {} /\ Len(prev.tabs) + 1 \in 1 .. (Len(prev.tabs) + 1)
  BY <1>5
<1>10. Strip(new, n) /\ Joined(new, prev.tabs, t)
  BY <1>1, <1>5, <1>7, <1>8, <1>9, InsertedKeeps
<1>11. StoreOK(s, n) /\ (Named(prev) => Named(s))
  BY <1>1, <1>3, <1>10, JoinKeeps
<1>12. s.tabs = new
  BY <1>3
<1>13. QED
  BY <1>10, <1>11, <1>12 DEF s

-----------------------------------------------------------------------------
(* Tabs change their places and their sides.                               *)

LEMMA Same ==
  ASSUME NEW m \in Nat, NEW tabs, Strip(tabs, m)
  PROVE  Regrouped(tabs, tabs)
<1>1. \A i \in 1 .. Len(tabs) : tabs[i] = InSide(tabs[i], tabs[i].group)
  BY StripFacts, InSideFacts
<1>2. QED
  BY <1>1 DEF Regrouped

\* Tabs regrouped twice are regrouped.
LEMMA Twice ==
  ASSUME NEW m \in Nat, NEW a, Strip(a, m), NEW b, Strip(b, m), NEW c, Regrouped(b, a), Regrouped(c, b)
  PROVE  Regrouped(c, a)
<1>1. ASSUME NEW i \in 1 .. Len(c)
      PROVE  \E j \in 1 .. Len(a) :
               /\ c[i] = InSide(a[j], c[i].group)
               /\ c[i].id = a[j].id /\ c[i].panes = a[j].panes /\ c[i].layout = a[j].layout
  <2>1. PICK k \in 1 .. Len(b) :
          /\ c[i] = InSide(b[k], c[i].group)
          /\ c[i].id = b[k].id /\ c[i].panes = b[k].panes /\ c[i].layout = b[k].layout
    BY DEF Regrouped
  <2>2. PICK j \in 1 .. Len(a) :
          /\ b[k] = InSide(a[j], b[k].group)
          /\ b[k].id = a[j].id /\ b[k].panes = a[j].panes /\ b[k].layout = a[j].layout
    BY DEF Regrouped
  <2>3. a[j] \in Tab(m)
    BY StripFacts
  <2>4. InSide(InSide(a[j], b[k].group), c[i].group) = InSide(a[j], c[i].group)
    BY <2>3 DEF InSide, Tab
  <2>5. c[i] = InSide(a[j], c[i].group)
    BY <2>1, <2>2, <2>4
  <2>6. QED
    BY <2>1, <2>2, <2>5
<1>2. QED
  BY <1>1 DEF Regrouped

(* The tab at place i is now at place j, on side g.                        *)
Placed(u, tabs, i, j, g) ==
  /\ Len(u) = Len(tabs)
  /\ \A k \in 1 .. Len(tabs) :
       u[k] = IF k = j THEN InSide(tabs[i], g)
              ELSE LET l == IF k < j THEN k ELSE k - 1
                   IN  tabs[IF l < i THEN l ELSE l + 1]

\* Taking a tab out and putting it in elsewhere moves that tab only.
LEMMA PlaceTab ==
  ASSUME NEW m \in Nat, NEW tabs \in Seq(Tab(m)), NEW i \in 1 .. Len(tabs), NEW j \in 1 .. Len(tabs),
         NEW g \in Groups
  PROVE  LET u == InsertAt(RemoveAt(tabs, i), j, InSide(tabs[i], g))
         IN  u \in Seq(Tab(m)) /\ Placed(u, tabs, i, j, g)
<1> DEFINE v == RemoveAt(tabs, i)
           t == InSide(tabs[i], g)
           u == InsertAt(v, j, t)
<1>1. Len(tabs) \in Nat /\ tabs[i] \in Tab(m)
  OBVIOUS
<1>2. t \in Tab(m)
  BY <1>1, InSideFacts
<1>3. /\ v \in Seq(Tab(m)) /\ Len(v) = Len(tabs) - 1
      /\ \A l \in 1 .. (Len(tabs) - 1) : v[l] = IF l < i THEN tabs[l] ELSE tabs[l + 1]
  BY RemoveAtFacts
<1> HIDE DEF v
<1>4. j \in 1 .. (Len(v) + 1)
  BY <1>1, <1>3
<1>5. u \in Seq(Tab(m)) /\ Inserted(u, v, j, t)
  BY <1>2, <1>3, <1>4, PutIn
<1> HIDE DEF u
<1>6. /\ Len(u) = Len(tabs)
      /\ \A k \in 1 .. Len(tabs) : u[k] = IF k < j THEN v[k] ELSE IF k = j THEN t ELSE v[k - 1]
  <2>1. Len(v) + 1 = Len(tabs)
    BY <1>1, <1>3
  <2>2. QED
    BY <1>5, <2>1 DEF Inserted
<1> HIDE DEF t
<1>7. ASSUME NEW k \in 1 .. Len(tabs)
      PROVE  u[k] = IF k = j THEN t
                    ELSE LET l == IF k < j THEN k ELSE k - 1
                         IN  tabs[IF l < i THEN l ELSE l + 1]
  <2>1. CASE k = j
    BY <1>1, <1>6, <2>1
  <2>2. CASE k < j
    <3>1. k \in 1 .. (Len(tabs) - 1) /\ k # j
      BY <1>1, <2>2
    <3>2. u[k] = v[k]
      BY <1>6, <2>2
    <3>3. QED
      BY <1>3, <2>2, <3>1, <3>2
  <2>3. CASE k > j
    <3>1. k - 1 \in 1 .. (Len(tabs) - 1) /\ k # j /\ ~ (k < j)
      BY <1>1, <2>3
    <3>2. u[k] = v[k - 1]
      BY <1>6, <3>1
    <3>3. QED
      BY <1>3, <3>1, <3>2
  <2>4. k = j \/ k < j \/ k > j
    BY <1>1
  <2>5. QED
    BY <2>1, <2>2, <2>3, <2>4
<1>8. QED
  BY <1>5, <1>6, <1>7 DEF Placed, u, t, v

\* A strip with one tab moved is a strip.
LEMMA PlacedKeeps ==
  ASSUME NEW m \in Nat, NEW tabs, Strip(tabs, m), NEW i \in 1 .. Len(tabs), NEW j \in 1 .. Len(tabs),
         NEW g \in Groups, NEW u \in Seq(Tab(m)), Placed(u, tabs, i, j, g)
  PROVE  /\ Strip(u, m) /\ Regrouped(u, tabs) /\ TabIds(u) = TabIds(tabs) /\ Len(u) = Len(tabs)
         /\ u[j].id = tabs[i].id /\ u[j].group = g
         /\ \A k \in 1 .. Len(u) : k # j => \E a \in 1 .. Len(tabs) : a # i /\ u[k] = tabs[a]
         /\ \A a \in 1 .. Len(tabs) : a # i => \E k \in 1 .. Len(u) : k # j /\ u[k] = tabs[a]
<1>1. /\ Len(tabs) \in Nat /\ Len(u) = Len(tabs)
      /\ \A a \in 1 .. Len(tabs) : tabs[a] \in Tab(m) /\ tabs[a] = InSide(tabs[a], tabs[a].group)
      /\ \A a, b \in 1 .. Len(tabs) : tabs[a].id = tabs[b].id => a = b
  BY StripFacts, InSideFacts DEF Strip, Placed
<1> DEFINE src(k) == LET l == IF k < j THEN k ELSE k - 1 IN IF l < i THEN l ELSE l + 1
           dst(a) == LET l == IF a < i THEN a ELSE a - 1 IN IF l < j THEN l ELSE l + 1
<1>2. \A k \in 1 .. Len(u) : k # j => u[k] = tabs[src(k)] /\ src(k) \in 1 .. Len(tabs) /\ src(k) # i
  <2>1. \A k \in 1 .. Len(u) : k # j => u[k] = tabs[src(k)]
    BY <1>1 DEF Placed
  <2>2. \A k \in 1 .. Len(u) : k # j => src(k) \in 1 .. Len(tabs) /\ src(k) # i
    BY <1>1
  <2>3. QED
    BY <2>1, <2>2
<1>3. \A k, l \in 1 .. Len(u) : k # j /\ l # j /\ src(k) = src(l) => k = l
  BY <1>1
<1>4. \A a \in 1 .. Len(tabs) : a # i => dst(a) \in 1 .. Len(u) /\ dst(a) # j /\ src(dst(a)) = a
  BY <1>1
<1>5. u[j] = InSide(tabs[i], g) /\ j \in 1 .. Len(u)
  BY <1>1 DEF Placed
<1> HIDE DEF src, dst
<1>6. /\ u[j].id = tabs[i].id /\ u[j].group = g /\ u[j].panes = tabs[i].panes
      /\ u[j].layout = tabs[i].layout
  BY <1>1, <1>5, InSideFacts
<1>7. \A k \in 1 .. Len(u) : k # j => \E a \in 1 .. Len(tabs) : a # i /\ u[k] = tabs[a]
  BY <1>2
<1>8. \A a \in 1 .. Len(tabs) : a # i => \E k \in 1 .. Len(u) : k # j /\ u[k] = tabs[a]
  BY <1>2, <1>4
<1>9. Regrouped(u, tabs)
  <2>1. ASSUME NEW k \in 1 .. Len(u)
        PROVE  \E a \in 1 .. Len(tabs) :
                 /\ u[k] = InSide(tabs[a], u[k].group)
                 /\ u[k].id = tabs[a].id /\ u[k].panes = tabs[a].panes /\ u[k].layout = tabs[a].layout
    <3>1. CASE k = j
      BY <1>5, <1>6, <3>1
    <3>2. CASE k # j
      <4>1. PICK a \in 1 .. Len(tabs) : u[k] = tabs[a]
        BY <1>7, <3>2
      <4>2. u[k] = InSide(tabs[a], u[k].group)
        BY <1>1, <4>1
      <4>3. QED
        BY <4>1, <4>2
    <3>3. QED
      BY <3>1, <3>2
  <2>2. QED
    BY <2>1 DEF Regrouped
<1>10. ASSUME NEW k \in 1 .. Len(u), NEW l \in 1 .. Len(u), u[k].id = u[l].id PROVE k = l
  <2>1. CASE k # j /\ l # j
    BY <1>1, <1>2, <1>3, <1>10, <2>1
  <2>2. CASE k = j /\ l # j
    BY <1>1, <1>2, <1>6, <1>10, <2>2
  <2>3. CASE k # j /\ l = j
    BY <1>1, <1>2, <1>6, <1>10, <2>3
  <2>4. QED
    BY <2>1, <2>2, <2>3
<1>11. Strip(u, m)
  BY <1>9, <1>10, StripFrom
<1>12. TabIds(u) = TabIds(tabs)
  <2>1. TabIds(u) \subseteq TabIds(tabs)
    BY <1>9, <1>11, RegroupedPanes
  <2>2. ASSUME NEW id, id \in TabIds(tabs) PROVE id \in TabIds(u)
    <3>1. PICK a \in 1 .. Len(tabs) : tabs[a].id = id
      BY <2>2, StripFacts
    <3>2. \E k \in 1 .. Len(u) : u[k].id = id
      <4>1. CASE a = i
        BY <1>5, <1>6, <3>1, <4>1
      <4>2. CASE a # i
        BY <1>8, <3>1, <4>2
      <4>3. QED
        BY <4>1, <4>2
    <3>3. QED
      BY <1>11, <3>2, StripFacts
  <2>3. QED
    BY <2>1, <2>2
<1>13. QED
  BY <1>1, <1>6, <1>7, <1>8, <1>9, <1>11, <1>12

(* The store keeps its tabs, in any order and on any sides.                *)
SameTabs(s, prev) == Regrouped(s.tabs, prev.tabs) /\ TabIds(s.tabs) = TabIds(prev.tabs)

(* The tabs are regrouped, and `chosen` is the focus and what its side     *)
(* shows.                                                                  *)
LEMMA ChosenKeeps ==
  ASSUME NEW m \in Nat, NEW tabs, Strip(tabs, m), Sides(tabs), NEW k \in 1 .. Len(tabs),
         NEW shows \in [Groups -> 0 .. m], IsTabSplit(tabs) => shows[tabs[k].group] = tabs[k].id
  PROVE  StoreOK([tabs |-> tabs, activeTabId |-> tabs[k].id, groupActive |-> shows], m)
<1> DEFINE s == [tabs |-> tabs, activeTabId |-> tabs[k].id, groupActive |-> shows]
<1>1. s.tabs = tabs /\ s.activeTabId = tabs[k].id /\ s.groupActive = shows
  OBVIOUS
<1>2. tabs \in Seq(Tab(m)) /\ tabs[k].id \in 1 .. m /\ tabs # <<>>
  BY StripFacts
<1>3. s \in Store(m)
  <2>1. tabs[k].id \in 0 .. m
    BY <1>2
  <2>2. QED
    BY <1>2, <2>1 DEF Store
<1> HIDE DEF s
<1>4. Focus(s)
  BY <1>1, <1>2 DEF Focus
<1>5. StoreOK(s, m)
  BY <1>1, <1>3, <1>4 DEF StoreOK
<1>6. QED
  BY <1>5 DEF s

\* reorderTab keeps the store sound.
LEMMA ReorderKeeps ==
  ASSUME NEW m \in Nat, NEW prev, StoreOK(prev, m), NEW from, NEW to
  PROVE  LET s == ReorderTab(prev, from, to)
         IN  /\ StoreOK(s, m) /\ SameTabs(s, prev)
             /\ Named(prev) /\ (from \in TabIds(prev.tabs) /\ to \in TabIds(prev.tabs)
                                  => GroupOf(prev.tabs, from) = GroupOf(prev.tabs, to))
                  => Named(s)
<1> DEFINE i == PosOf(prev.tabs, from)
           j == PosOf(prev.tabs, to)
           g == GroupOf(prev.tabs, to)
           tab == [prev.tabs[i] EXCEPT !.group = g]
           u == InsertAt(RemoveAt(prev.tabs, i), j, tab)
           next == CollapseIfEmpty(u)
           shows == IF IsTabSplit(next) THEN [prev.groupActive EXCEPT ![g] = from]
                    ELSE [h \in Groups |-> IF h = 0 THEN from ELSE NoTab]
           s == ReorderTab(prev, from, to)
<1>1. /\ Strip(prev.tabs, m) /\ Sides(prev.tabs) /\ prev.groupActive \in [Groups -> 0 .. m]
      /\ prev.tabs \in Seq(Tab(m)) /\ Len(prev.tabs) \in Nat
  <2>1. Strip(prev.tabs, m) /\ Sides(prev.tabs) /\ prev \in Store(m)
    BY DEF StoreOK
  <2>2. QED
    BY <2>1, StripFacts DEF Store
<1>2. s = IF i = 0 \/ j = 0 THEN prev
          ELSE [tabs |-> next, activeTabId |-> from, groupActive |-> shows]
  BY DEF ReorderTab
<1> HIDE DEF s
<1>3. CASE i = 0 \/ j = 0
  <2>1. s = prev
    BY <1>2, <1>3
  <2>2. SameTabs(s, prev)
    BY <1>1, <2>1, Same DEF SameTabs
  <2>3. QED
    BY <2>1, <2>2 DEF s
<1>4. CASE i # 0 /\ j # 0
  <2>1. from \in TabIds(prev.tabs) /\ to \in TabIds(prev.tabs)
    BY <1>1, <1>4, PosOfFacts
  <2>2. i \in 1 .. Len(prev.tabs) /\ j \in 1 .. Len(prev.tabs) /\ prev.tabs[i].id = from
        /\ prev.tabs[j].id = to
    BY <1>1, <2>1, PosOfFacts
  <2>3. g = prev.tabs[j].group /\ g \in Groups /\ GroupOf(prev.tabs, from) = prev.tabs[i].group
        /\ from \in 1 .. m
    BY <1>1, <2>2, StripFacts
  <2> HIDE DEF i, j, g
  <2>4. u \in Seq(Tab(m)) /\ Placed(u, prev.tabs, i, j, g)
    BY <1>1, <2>2, <2>3, PlaceTab DEF InSide
  <2> HIDE DEF u
  <2>5. /\ Strip(u, m) /\ Regrouped(u, prev.tabs) /\ TabIds(u) = TabIds(prev.tabs)
        /\ Len(u) = Len(prev.tabs) /\ u[j].id = from /\ u[j].group = g
        /\ \A k \in 1 .. Len(u) : k # j => \E a \in 1 .. Len(prev.tabs) : a # i /\ u[k] = prev.tabs[a]
        /\ \A a \in 1 .. Len(prev.tabs) : a # i => \E k \in 1 .. Len(u) : k # j /\ u[k] = prev.tabs[a]
    <3>1. prev.tabs[i].id = from
      BY <2>2
    <3> DEFINE old == prev.tabs
    <3>2. Strip(old, m) /\ i \in 1 .. Len(old) /\ j \in 1 .. Len(old) /\ Placed(u, old, i, j, g)
          /\ old[i].id = from
      BY <1>1, <2>2, <2>4
    <3> HIDE DEF old
    <3>3. /\ Strip(u, m) /\ Regrouped(u, old) /\ TabIds(u) = TabIds(old)
          /\ Len(u) = Len(old) /\ u[j].id = from /\ u[j].group = g
          /\ \A k \in 1 .. Len(u) : k # j => \E a \in 1 .. Len(old) : a # i /\ u[k] = old[a]
          /\ \A a \in 1 .. Len(old) : a # i => \E k \in 1 .. Len(u) : k # j /\ u[k] = old[a]
      BY <2>3, <2>4, <3>2, PlacedKeeps
    <3>4. QED
      BY <3>3 DEF old
  <2>6. /\ Strip(next, m) /\ Sides(next) /\ Len(next) = Len(u) /\ Regrouped(next, u)
        /\ TabIds(next) = TabIds(u) /\ (BothSides(u) => next = u)
        /\ (~ BothSides(u) => ~ IsTabSplit(next))
        /\ \A k \in 1 .. Len(u) : next[k].id = u[k].id
    BY <2>5, CollapseFacts
  <2> HIDE DEF next
  <2>7. j \in 1 .. Len(next) /\ next[j].id = from
    BY <2>2, <2>5, <2>6
  <2>8. shows \in [Groups -> 0 .. m] /\ (IsTabSplit(next) => shows = [prev.groupActive EXCEPT ![g] = from])
    <3>1. from \in 0 .. m /\ NoTab \in 0 .. m
      BY <2>3 DEF NoTab
    <3>2. QED
      BY <1>1, <2>3, <3>1
  <2> HIDE DEF shows
  <2>9. ASSUME IsTabSplit(next)
        PROVE  /\ next = u /\ next[j].group = g /\ shows[g] = from
               /\ \A h \in Groups : h # g => shows[h] = prev.groupActive[h]
    <3>1. next = u
      BY <2>6, <2>9
    <3>2. QED
      BY <1>1, <2>3, <2>5, <2>8, <2>9, <3>1
  <2>10. s = [tabs |-> next, activeTabId |-> next[j].id, groupActive |-> shows]
    BY <1>2, <1>4, <2>7
  <2>11. StoreOK(s, m)
    <3>1. IsTabSplit(next) => shows[next[j].group] = next[j].id
      BY <2>7, <2>9
    <3>2. QED
      BY <2>6, <2>7, <2>8, <2>10, <3>1, ChosenKeeps
  <2>12. SameTabs(s, prev)
    <3>1. Regrouped(next, prev.tabs)
      BY <1>1, <2>5, <2>6, Twice
    <3>2. s.tabs = next
      BY <2>10
    <3>3. QED
      BY <2>5, <2>6, <3>1, <3>2 DEF SameTabs
  <2>13. ASSUME Named(prev), GroupOf(prev.tabs, from) = GroupOf(prev.tabs, to), IsTabSplit(s.tabs),
                NEW h \in Groups
         PROVE  \E k \in 1 .. Len(s.tabs) : s.tabs[k].group = h /\ s.tabs[k].id = s.groupActive[h]
    <3>1. s.tabs = next /\ s.groupActive = shows
      BY <2>10
    <3>2. IsTabSplit(next)
      BY <2>13, <3>1
    <3>3. prev.tabs[i].group = g
      BY <2>3, <2>13 DEF g
    <3>4. IsTabSplit(prev.tabs)
      <4>1. PICK k \in 1 .. Len(next) : next[k].group = 1
        BY <2>6, <3>2, StripFacts
      <4>2. \E a \in 1 .. Len(prev.tabs) : prev.tabs[a].group = 1
        <5>1. CASE k = j
          <6>1. prev.tabs[i].group = 1
            BY <2>9, <3>2, <3>3, <4>1, <5>1
          <6>2. QED
            BY <2>2, <6>1
        <5>2. CASE k # j
          <6>1. k \in 1 .. Len(u) /\ u[k].group = 1
            BY <2>6, <2>9, <3>2, <4>1
          <6>2. PICK a \in 1 .. Len(prev.tabs) : u[k] = prev.tabs[a]
            BY <2>5, <5>2, <6>1
          <6>3. QED
            BY <6>1, <6>2
        <5>3. QED
          BY <5>1, <5>2
      <4>3. QED
        BY <1>1, <4>2, StripFacts
    <3>5. CASE h = g
      BY <2>7, <2>9, <3>1, <3>2, <3>5
    <3>6. CASE h # g
      <4>1. PICK a \in 1 .. Len(prev.tabs) :
              prev.tabs[a].group = h /\ prev.tabs[a].id = prev.groupActive[h]
        BY <2>13, <3>4 DEF Named
      <4>2. a # i
        BY <3>3, <3>6, <4>1
      <4>3. PICK k \in 1 .. Len(u) : u[k] = prev.tabs[a]
        BY <2>5, <4>2
      <4>4. QED
        BY <2>9, <3>1, <3>2, <3>6, <4>1, <4>3
    <3>7. QED
      BY <3>5, <3>6
  <2>14. QED
    BY <2>1, <2>11, <2>12, <2>13 DEF Named, s
<1>5. QED
  BY <1>3, <1>4

\* moveTabToGroup keeps the store sound.
LEMMA MoveKeeps ==
  ASSUME NEW m \in Nat, NEW prev, StoreOK(prev, m), NEW id, NEW to \in Groups
  PROVE  LET s == MoveTabToGroup(prev, id, to)
         IN  StoreOK(s, m) /\ SameTabs(s, prev) /\ (Named(prev) => Named(s))
<1> DEFINE from == GroupOf(prev.tabs, id)
           i == PosOf(prev.tabs, id)
           u == [prev.tabs EXCEPT ![i].group = to]
           next == CollapseIfEmpty(u)
           landed == GroupOf(next, id)
           wanted == IF prev.groupActive[from] \in TabIds(InGroup(next, from))
                     THEN prev.groupActive[from] ELSE id
           left == Survivor(prev.tabs, InGroup(next, from), wanted)
           shows == IF IsTabSplit(next)
                    THEN [prev.groupActive EXCEPT ![from] = left, ![landed] = id]
                    ELSE [g \in Groups |-> IF g = 0 THEN id ELSE NoTab]
           s == MoveTabToGroup(prev, id, to)
<1>1. /\ Strip(prev.tabs, m) /\ Sides(prev.tabs) /\ prev.groupActive \in [Groups -> 0 .. m]
      /\ prev.tabs \in Seq(Tab(m)) /\ Len(prev.tabs) \in Nat /\ DOMAIN prev.tabs = 1 .. Len(prev.tabs)
  <2>1. Strip(prev.tabs, m) /\ Sides(prev.tabs) /\ prev \in Store(m)
    BY DEF StoreOK
  <2>2. QED
    BY <2>1, StripFacts DEF Store
<1>2. s = IF ~ MayMove(prev, id, to) THEN prev
          ELSE [tabs |-> next, activeTabId |-> id, groupActive |-> shows]
  BY DEF MoveTabToGroup
<1> HIDE DEF s
<1>3. CASE ~ MayMove(prev, id, to)
  <2>1. s = prev
    BY <1>2, <1>3
  <2>2. SameTabs(s, prev)
    BY <1>1, <2>1, Same DEF SameTabs
  <2>3. QED
    BY <2>1, <2>2 DEF s
<1>4. CASE MayMove(prev, id, to)
  <2>1. id \in TabIds(prev.tabs) /\ from # to
    BY <1>4 DEF MayMove
  <2>2. i \in 1 .. Len(prev.tabs) /\ prev.tabs[i].id = id
    BY <1>1, <2>1, PosOfFacts
  <2>3. /\ from = prev.tabs[i].group /\ from \in Groups /\ id \in 1 .. m
        /\ \A k \in 1 .. Len(prev.tabs) : prev.tabs[k] \in Tab(m)
    BY <1>1, <2>2, StripFacts
  <2> HIDE DEF i, from
  <2>4. /\ DOMAIN u = 1 .. Len(prev.tabs)
        /\ \A k \in 1 .. Len(prev.tabs) : u[k] = IF k = i THEN InSide(prev.tabs[i], to) ELSE prev.tabs[k]
    <3>1. u = [prev.tabs EXCEPT ![i] = InSide(prev.tabs[i], to)]
      BY DEF InSide
    <3> HIDE DEF u
    <3>2. QED
      BY <1>1, <2>2, <3>1
  <2>5. u = [k \in 1 .. Len(prev.tabs) |-> u[k]]
    BY <2>4
  <2> HIDE DEF u
  <2>6. u \in Seq(Tab(m)) /\ Placed(u, prev.tabs, i, i, to)
    <3>1. \A k \in 1 .. Len(prev.tabs) : u[k] \in Tab(m)
      BY <2>2, <2>3, <2>4, InSideFacts
    <3>2. u \in [1 .. Len(prev.tabs) -> Tab(m)]
      BY <2>5, <3>1
    <3>3. u \in Seq(Tab(m)) /\ Len(u) = Len(prev.tabs)
      BY <1>1, <3>2
    <3>4. ASSUME NEW k \in 1 .. Len(prev.tabs), k # i
          PROVE  LET l == IF k < i THEN k ELSE k - 1 IN (IF l < i THEN l ELSE l + 1) = k
      BY <1>1, <2>2, <3>4
    <3>5. \A k \in 1 .. Len(prev.tabs) :
            u[k] = IF k = i THEN InSide(prev.tabs[i], to)
                   ELSE LET l == IF k < i THEN k ELSE k - 1
                        IN  prev.tabs[IF l < i THEN l ELSE l + 1]
      BY <2>4, <3>4
    <3>6. QED
      BY <3>3, <3>5 DEF Placed
  <2>7. /\ Strip(u, m) /\ Regrouped(u, prev.tabs) /\ TabIds(u) = TabIds(prev.tabs)
        /\ Len(u) = Len(prev.tabs) /\ u[i].id = id /\ u[i].group = to
    <3>1. /\ Strip(u, m) /\ Regrouped(u, prev.tabs) /\ TabIds(u) = TabIds(prev.tabs)
          /\ Len(u) = Len(prev.tabs) /\ u[i].id = prev.tabs[i].id /\ u[i].group = to
      BY <1>1, <2>2, <2>6, PlacedKeeps
    <3>2. QED
      BY <2>2, <3>1
  <2>8. /\ Strip(next, m) /\ Sides(next) /\ Len(next) = Len(u) /\ Regrouped(next, u)
        /\ TabIds(next) = TabIds(u) /\ (BothSides(u) => next = u)
        /\ (~ BothSides(u) => ~ IsTabSplit(next))
        /\ \A k \in 1 .. Len(u) : next[k].id = u[k].id
    BY <2>7, CollapseFacts
  <2> HIDE DEF next
  <2>9. i \in 1 .. Len(next) /\ next[i].id = id
    BY <2>2, <2>7, <2>8
  <2>10. landed = next[i].group /\ landed \in Groups
    BY <2>8, <2>9, StripFacts
  <2>11. /\ InGroup(next, from) \in Seq(Tab(m))
         /\ \A x : x \in TabIds(InGroup(next, from)) <=>
                      \E k \in 1 .. Len(next) : next[k].id = x /\ next[k].group = from
         /\ InGroup(next, from) # <<>> <=> \E k \in 1 .. Len(next) : next[k].group = from
    <3>1. Strip(next, m) /\ from \in Groups
      BY <2>3, <2>8
    <3>2. QED
      BY <3>1, InGroupFacts
  <2>12. /\ InGroup(next, from) = <<>> => left = NoTab
         /\ InGroup(next, from) # <<>> => left \in TabIds(InGroup(next, from))
    <3> HIDE DEF wanted
    <3>1. QED
      BY <1>1, <2>11, SurvivorFacts
  <2>13. left \in 0 .. m
    <3>1. CASE InGroup(next, from) = <<>>
      BY <2>12, <3>1 DEF NoTab
    <3>2. CASE InGroup(next, from) # <<>>
      <4>1. PICK k \in 1 .. Len(next) : next[k].id = left
        BY <2>11, <2>12, <3>2
      <4>2. next[k].id \in 1 .. m
        BY <2>8, StripFacts
      <4>3. QED
        BY <4>1, <4>2
    <3>3. QED
      BY <3>1, <3>2
  <2> HIDE DEF left, landed
  <2>14. /\ shows \in [Groups -> 0 .. m]
         /\ IsTabSplit(next) => shows = [prev.groupActive EXCEPT ![from] = left, ![landed] = id]
    <3>1. id \in 0 .. m /\ NoTab \in 0 .. m
      BY <2>3 DEF NoTab
    <3>2. QED
      BY <1>1, <2>3, <2>10, <2>13, <3>1
  <2> HIDE DEF shows
  <2>15. ASSUME IsTabSplit(next)
         PROVE  /\ landed = to /\ shows[to] = id /\ shows[from] = left
                /\ \E k \in 1 .. Len(next) : next[k].id = left /\ next[k].group = from
    <3>1. next = u /\ BothSides(u)
      BY <2>8, <2>15
    <3>2. landed = to
      BY <2>7, <2>10, <3>1
    <3>3. InGroup(next, from) # <<>>
      BY <2>3, <2>11, <3>1 DEF BothSides
    <3>4. \E k \in 1 .. Len(next) : next[k].id = left /\ next[k].group = from
      BY <2>11, <2>12, <3>3
    <3>5. shows[to] = id /\ shows[from] = left
      BY <1>1, <2>1, <2>3, <2>14, <2>15, <3>2
    <3>6. QED
      BY <3>2, <3>4, <3>5
  <2>16. s = [tabs |-> next, activeTabId |-> next[i].id, groupActive |-> shows]
    BY <1>2, <1>4, <2>9
  <2>17. StoreOK(s, m)
    <3>1. IsTabSplit(next) => shows[next[i].group] = next[i].id
      BY <2>9, <2>10, <2>15
    <3>2. QED
      BY <2>8, <2>9, <2>14, <2>16, <3>1, ChosenKeeps
  <2>18. SameTabs(s, prev)
    <3>1. Regrouped(next, prev.tabs)
      BY <1>1, <2>7, <2>8, Twice
    <3>2. s.tabs = next
      BY <2>16
    <3>3. QED
      BY <2>7, <2>8, <3>1, <3>2 DEF SameTabs
  <2>19. ASSUME IsTabSplit(s.tabs), NEW h \in Groups
         PROVE  \E k \in 1 .. Len(s.tabs) : s.tabs[k].group = h /\ s.tabs[k].id = s.groupActive[h]
    <3>1. s.tabs = next /\ s.groupActive = shows
      BY <2>16
    <3>2. h = to \/ h = from
      BY <2>1, <2>3 DEF Groups
    <3>3. QED
      BY <2>9, <2>10, <2>15, <2>19, <3>1, <3>2
  <2>20. QED
    BY <2>17, <2>18, <2>19 DEF Named, s
<1>5. QED
  BY <1>3, <1>4

\* unsplitTabs keeps the store sound.
LEMMA UnsplitKeeps ==
  ASSUME NEW m \in Nat, NEW prev, StoreOK(prev, m)
  PROVE  LET s == UnsplitTabs(prev)
         IN  StoreOK(s, m) /\ SameTabs(s, prev) /\ Named(s)
<1> DEFINE z == [i \in DOMAIN prev.tabs |-> [prev.tabs[i] EXCEPT !.group = 0]]
           shows == [g \in Groups |-> IF g = 1 THEN NoTab
                                      ELSE IF prev.activeTabId # NoTab THEN prev.activeTabId
                                           ELSE prev.groupActive[0]]
           s == UnsplitTabs(prev)
<1>1. /\ Strip(prev.tabs, m) /\ Focus(prev) /\ prev.groupActive \in [Groups -> 0 .. m]
      /\ prev.activeTabId \in 0 .. m /\ prev.tabs \in Seq(Tab(m)) /\ Len(prev.tabs) \in Nat
      /\ prev = [tabs |-> prev.tabs, activeTabId |-> prev.activeTabId, groupActive |-> prev.groupActive]
      /\ DOMAIN prev.tabs = 1 .. Len(prev.tabs)
      /\ \A i \in 1 .. Len(prev.tabs) : prev.tabs[i] \in Tab(m)
  <2>1. Strip(prev.tabs, m) /\ Focus(prev) /\ prev \in Store(m)
    BY DEF StoreOK
  <2>2. QED
    BY <2>1, StripFacts DEF Store
<1>2. s = [tabs |-> z, activeTabId |-> prev.activeTabId, groupActive |-> shows]
  <2>1. s = [prev EXCEPT !.tabs = z, !.groupActive = shows]
    BY DEF UnsplitTabs
  <2> HIDE DEF z, shows, s
  <2>2. QED
    BY <1>1, <2>1
<1> HIDE DEF s
<1>3. 0 \in Groups
  BY DEF Groups
<1>4. \A i \in 1 .. Len(prev.tabs) : z[i] = InSide(prev.tabs[i], 0)
  BY <1>1 DEF InSide
<1>5. DOMAIN z = 1 .. Len(prev.tabs)
  BY <1>1
<1>6. z = [i \in 1 .. Len(prev.tabs) |-> z[i]]
  BY <1>5
<1> HIDE DEF z
<1>7. \A i \in 1 .. Len(prev.tabs) :
         /\ z[i] \in Tab(m) /\ z[i].group = 0 /\ z[i].id = prev.tabs[i].id
         /\ z[i].panes = prev.tabs[i].panes /\ z[i].layout = prev.tabs[i].layout
         /\ z[i] = InSide(prev.tabs[i], z[i].group)
  <2>1. ASSUME NEW i \in 1 .. Len(prev.tabs)
        PROVE  /\ z[i] \in Tab(m) /\ z[i].group = 0 /\ z[i].id = prev.tabs[i].id
               /\ z[i].panes = prev.tabs[i].panes /\ z[i].layout = prev.tabs[i].layout
               /\ z[i] = InSide(prev.tabs[i], z[i].group)
    BY <1>1, <1>3, <1>4, InSideFacts
  <2>2. QED
    BY <2>1
<1>8. z \in Seq(Tab(m)) /\ Len(z) = Len(prev.tabs)
  <2>1. z \in [1 .. Len(prev.tabs) -> Tab(m)]
    BY <1>6, <1>7
  <2>2. QED
    BY <1>1, <2>1
<1>9. Regrouped(z, prev.tabs)
  BY <1>7, <1>8 DEF Regrouped
<1>10. Strip(z, m)
  <2>1. \A i, j \in 1 .. Len(z) : z[i].id = z[j].id => i = j
    BY <1>1, <1>7, <1>8 DEF Strip
  <2>2. QED
    BY <1>1, <1>8, <1>9, <2>1, StripFrom
<1>11. ~ IsTabSplit(z)
  <2>1. IsTabSplit(z) <=> \E i \in 1 .. Len(z) : z[i].group = 1
    BY <1>10, StripFacts
  <2>2. QED
    BY <1>7, <1>8, <2>1
<1>12. TabIds(z) = TabIds(prev.tabs)
  <2>1. \A id : id \in TabIds(z) <=> \E i \in 1 .. Len(z) : z[i].id = id
    BY <1>10, StripFacts
  <2>2. \A id : id \in TabIds(prev.tabs) <=> \E i \in 1 .. Len(prev.tabs) : prev.tabs[i].id = id
    BY <1>1, StripFacts
  <2>3. \A id : id \in TabIds(z) <=> id \in TabIds(prev.tabs)
    BY <1>7, <1>8, <2>1, <2>2
  <2>4. QED
    BY <2>3
<1>13. shows \in [Groups -> 0 .. m]
  <2>1. NoTab \in 0 .. m
    BY DEF NoTab
  <2>2. QED
    BY <1>1, <1>3, <2>1
<1> HIDE DEF shows
<1>14. s.tabs = z /\ s.activeTabId = prev.activeTabId /\ s.groupActive = shows
  BY <1>2
<1>15. s \in Store(m)
  BY <1>1, <1>2, <1>8, <1>13 DEF Store
<1>16. Focus(s)
  <2>1. z = <<>> <=> prev.tabs = <<>>
    BY <1>1, <1>8
  <2>2. QED
    BY <1>1, <1>7, <1>8, <1>11, <1>14, <2>1 DEF Focus
<1>17. StoreOK(s, m) /\ Named(s)
  BY <1>10, <1>11, <1>14, <1>15, <1>16 DEF StoreOK, Sides, Named
<1>18. SameTabs(s, prev)
  BY <1>9, <1>12, <1>14 DEF SameTabs
<1>19. QED
  BY <1>17, <1>18 DEF s

-----------------------------------------------------------------------------
(* One tab changes, in its place.                                          *)

Changed(new, tabs, i, t) ==
  /\ Len(new) = Len(tabs)
  /\ \A k \in 1 .. Len(tabs) : new[k] = IF k = i THEN t ELSE tabs[k]

\* A strip with one tab replaced by one of its name and side.
LEMMA ChangedStrip ==
  ASSUME NEW m \in Nat, NEW n \in Nat, m <= n, NEW tabs, Strip(tabs, m), NEW i \in 1 .. Len(tabs),
         NEW t \in Tab(n), Sound(t), t.id = tabs[i].id, t.group = tabs[i].group,
         \A p \in ToSet(t.panes) : p \in ToSet(tabs[i].panes) \/ p \notin 1 .. m,
         NEW new \in Seq(Tab(n)), Changed(new, tabs, i, t)
  PROVE  /\ Strip(new, n) /\ TabIds(new) = TabIds(tabs) /\ (IsTabSplit(new) <=> IsTabSplit(tabs))
         /\ Sides(tabs) => Sides(new)
         /\ \A k \in 1 .. Len(tabs) : new[k].id = tabs[k].id /\ new[k].group = tabs[k].group
         /\ PanesOf(new) = (PanesOf(tabs) \ ToSet(tabs[i].panes)) \cup ToSet(t.panes)
<1>1. /\ Len(tabs) \in Nat /\ Len(new) = Len(tabs)
      /\ \A k \in 1 .. Len(tabs) : new[k] = IF k = i THEN t ELSE tabs[k]
      /\ \A k \in 1 .. Len(tabs) : tabs[k] \in Tab(m)
      /\ \A k, l \in 1 .. Len(tabs) : tabs[k].id = tabs[l].id => k = l
      /\ \A k \in 1 .. Len(tabs) : Sound(tabs[k])
      /\ \A k, l \in 1 .. Len(tabs) :
           \A p : p \in ToSet(tabs[k].panes) /\ p \in ToSet(tabs[l].panes) => k = l
  BY StripFacts DEF Changed, Strip
<1>2. \A k \in 1 .. Len(tabs) : new[k].id = tabs[k].id /\ new[k].group = tabs[k].group
  BY <1>1
<1>3. new[i] = t /\ \A k \in 1 .. Len(tabs) : k # i => new[k] = tabs[k]
  BY <1>1
<1>4. ASSUME NEW a \in 1 .. Len(tabs), NEW p, p \in ToSet(tabs[a].panes) PROVE p \in 1 .. m
  <2>1. tabs[a].panes \in Seq(1 .. m)
    BY <1>1 DEF Tab
  <2>2. QED
    BY <1>4, <2>1, Members
<1>5. ASSUME NEW k \in 1 .. Len(tabs), NEW l \in 1 .. Len(tabs), NEW p,
             p \in ToSet(new[k].panes), p \in ToSet(new[l].panes)
      PROVE  k = l
  <2>1. \A a \in 1 .. Len(tabs) : p \in ToSet(new[a].panes) /\ a # i => p \in ToSet(tabs[a].panes) /\ p \in 1 .. m
    BY <1>3, <1>4
  <2>2. p \in ToSet(new[i].panes) /\ p \in 1 .. m => p \in ToSet(tabs[i].panes)
    BY <1>3
  <2>3. CASE k # i /\ l # i
    BY <1>1, <1>5, <2>1, <2>3
  <2>4. CASE k = i /\ l # i
    BY <1>1, <1>5, <2>1, <2>2, <2>4
  <2>5. CASE k # i /\ l = i
    BY <1>1, <1>5, <2>1, <2>2, <2>5
  <2>6. QED
    BY <2>3, <2>4, <2>5
<1>6. \A k \in 1 .. Len(tabs) : Sound(new[k])
  BY <1>1
<1>7. \A k, l \in 1 .. Len(tabs) : new[k].id = new[l].id => k = l
  BY <1>1, <1>2
<1>8. Strip(new, n)
  BY <1>1, <1>5, <1>6, <1>7 DEF Strip
<1>9. TabIds(new) = TabIds(tabs)
  <2>1. \A id : id \in TabIds(new) <=> \E k \in 1 .. Len(new) : new[k].id = id
    BY <1>8, StripFacts
  <2>2. \A id : id \in TabIds(tabs) <=> \E k \in 1 .. Len(tabs) : tabs[k].id = id
    BY StripFacts
  <2>3. \A id : id \in TabIds(new) <=> id \in TabIds(tabs)
    BY <1>1, <1>2, <2>1, <2>2
  <2>4. QED
    BY <2>3
<1>10. IsTabSplit(new) <=> IsTabSplit(tabs)
  <2>1. IsTabSplit(new) <=> \E k \in 1 .. Len(new) : new[k].group = 1
    BY <1>8, StripFacts
  <2>2. IsTabSplit(tabs) <=> \E k \in 1 .. Len(tabs) : tabs[k].group = 1
    BY StripFacts
  <2>3. QED
    BY <1>1, <1>2, <2>1, <2>2
<1>11. Sides(tabs) => Sides(new)
  BY <1>1, <1>2, <1>10 DEF Sides, BothSides
<1>12. PanesOf(new) = (PanesOf(tabs) \ ToSet(tabs[i].panes)) \cup ToSet(t.panes)
  <2>1. \A p : p \in PanesOf(new) <=> \E k \in 1 .. Len(new) : p \in ToSet(new[k].panes)
    BY <1>8, StripFacts
  <2>2. \A p : p \in PanesOf(tabs) <=> \E k \in 1 .. Len(tabs) : p \in ToSet(tabs[k].panes)
    BY StripFacts
  <2>3. ASSUME NEW p, p \in PanesOf(new)
        PROVE  (p \in PanesOf(tabs) /\ p \notin ToSet(tabs[i].panes)) \/ p \in ToSet(t.panes)
    <3>1. PICK k \in 1 .. Len(new) : p \in ToSet(new[k].panes)
      BY <2>1, <2>3
    <3>2. CASE k = i
      BY <1>3, <3>1, <3>2
    <3>3. CASE k # i
      <4>1. k \in 1 .. Len(tabs) /\ p \in ToSet(tabs[k].panes)
        BY <1>1, <1>3, <3>1, <3>3
      <4>2. QED
        BY <1>1, <2>2, <3>3, <4>1
    <3>4. QED
      BY <3>2, <3>3
  <2>4. ASSUME NEW p, p \in PanesOf(tabs), p \notin ToSet(tabs[i].panes) PROVE p \in PanesOf(new)
    <3>1. PICK k \in 1 .. Len(tabs) : p \in ToSet(tabs[k].panes)
      BY <2>2, <2>4
    <3>2. new[k] = tabs[k] /\ k \in 1 .. Len(new)
      BY <1>1, <1>3, <2>4, <3>1
    <3>3. QED
      BY <2>1, <3>1, <3>2
  <2>5. ASSUME NEW p, p \in ToSet(t.panes) PROVE p \in PanesOf(new)
    BY <1>1, <1>3, <2>1, <2>5
  <2>6. QED
    BY <2>3, <2>4, <2>5
<1>13. QED
  BY <1>2, <1>8, <1>9, <1>10, <1>11, <1>12

(* The store s with tab i replaced by t keeps what prev has: its ids, its   *)
(* sides, and the panes of all other tabs.                                 *)
Replaced(s, prev, i, t, n) ==
  /\ StoreOK(s, n) /\ (Named(prev) => Named(s)) /\ Changed(s.tabs, prev.tabs, i, t)
  /\ TabIds(s.tabs) = TabIds(prev.tabs) /\ (IsTabSplit(s.tabs) <=> IsTabSplit(prev.tabs))
  /\ PanesOf(s.tabs) = (PanesOf(prev.tabs) \ ToSet(prev.tabs[i].panes)) \cup ToSet(t.panes)

\* The store with one tab replaced.
LEMMA ChangeKeeps ==
  ASSUME NEW m \in Nat, NEW n \in Nat, m <= n, NEW prev, StoreOK(prev, m),
         NEW i \in 1 .. Len(prev.tabs),
         NEW t \in Tab(n), Sound(t), t.id = prev.tabs[i].id, t.group = prev.tabs[i].group,
         \A p \in ToSet(t.panes) : p \in ToSet(prev.tabs[i].panes) \/ p \notin 1 .. m
  PROVE  Replaced([prev EXCEPT !.tabs[i] = t], prev, i, t, n)
<1> DEFINE new == [prev.tabs EXCEPT ![i] = t]
           s == [prev EXCEPT !.tabs[i] = t]
<1>1. /\ Strip(prev.tabs, m) /\ Sides(prev.tabs) /\ Focus(prev)
      /\ prev.groupActive \in [Groups -> 0 .. m]
      /\ prev.activeTabId \in 0 .. m /\ prev.tabs \in Seq(Tab(m)) /\ Len(prev.tabs) \in Nat
      /\ prev = [tabs |-> prev.tabs, activeTabId |-> prev.activeTabId, groupActive |-> prev.groupActive]
  <2>1. Strip(prev.tabs, m) /\ Sides(prev.tabs) /\ Focus(prev) /\ prev \in Store(m)
    BY DEF StoreOK
  <2>2. QED
    BY <2>1, StripFacts DEF Store
<1>2. s = [tabs |-> new, activeTabId |-> prev.activeTabId, groupActive |-> prev.groupActive]
  <2>1. s = [prev EXCEPT !.tabs = new]
    OBVIOUS
  <2> HIDE DEF s, new
  <2>2. QED
    BY <1>1, <2>1
<1>3. s.tabs = new /\ s.activeTabId = prev.activeTabId /\ s.groupActive = prev.groupActive
  BY <1>2
<1>4. prev.tabs \in Seq(Tab(n)) /\ 0 .. m \subseteq 0 .. n
  BY <1>1, LaterKeeps
<1>5. new \in Seq(Tab(n)) /\ Changed(new, prev.tabs, i, t)
  <2>1. new \in Seq(Tab(n)) /\ Len(new) = Len(prev.tabs)
    BY <1>4
  <2>2. \A k \in 1 .. Len(prev.tabs) : new[k] = IF k = i THEN t ELSE prev.tabs[k]
    BY <1>4
  <2>3. QED
    BY <2>1, <2>2 DEF Changed
<1> HIDE DEF new, s
<1>6. /\ Strip(new, n) /\ TabIds(new) = TabIds(prev.tabs) /\ (IsTabSplit(new) <=> IsTabSplit(prev.tabs))
      /\ Sides(new)
      /\ \A k \in 1 .. Len(prev.tabs) : new[k].id = prev.tabs[k].id /\ new[k].group = prev.tabs[k].group
      /\ PanesOf(new) = (PanesOf(prev.tabs) \ ToSet(prev.tabs[i].panes)) \cup ToSet(t.panes)
  <2> DEFINE old == prev.tabs
  <2>1. /\ Strip(old, m) /\ i \in 1 .. Len(old) /\ t.id = old[i].id /\ t.group = old[i].group
        /\ \A p \in ToSet(t.panes) : p \in ToSet(old[i].panes) \/ p \notin 1 .. m
        /\ Changed(new, old, i, t) /\ Sides(old)
    BY <1>1, <1>5
  <2> HIDE DEF old
  <2>2. /\ Strip(new, n) /\ TabIds(new) = TabIds(old) /\ (IsTabSplit(new) <=> IsTabSplit(old))
        /\ Sides(new)
        /\ \A k \in 1 .. Len(old) : new[k].id = old[k].id /\ new[k].group = old[k].group
        /\ PanesOf(new) = (PanesOf(old) \ ToSet(old[i].panes)) \cup ToSet(t.panes)
    BY <1>5, <2>1, ChangedStrip
  <2>3. QED
    BY <2>2 DEF old
<1>7. Len(new) = Len(prev.tabs)
  BY <1>5 DEF Changed
<1>8. s \in Store(n)
  BY <1>1, <1>2, <1>4, <1>5 DEF Store
<1>9. Focus(s)
  <2>1. new = <<>> <=> prev.tabs = <<>>
    BY <1>1, <1>5, <1>7
  <2>2. QED
    BY <1>1, <1>3, <1>6, <1>7, <2>1 DEF Focus
<1>10. Named(prev) => Named(s)
  BY <1>3, <1>6, <1>7 DEF Named
<1>11. StoreOK(s, n)
  BY <1>3, <1>6, <1>8, <1>9 DEF StoreOK
<1>12. Replaced(s, prev, i, t, n)
  BY <1>3, <1>5, <1>6, <1>10, <1>11 DEF Replaced
<1>13. QED
  BY <1>12 DEF s

-----------------------------------------------------------------------------
(* The grid.                                                               *)

Cells(layout) == UNION {ToSet(layout[r]) : r \in DOMAIN layout}

(* No pane is in two cells, and no row is empty.                           *)
Grid(layout) ==
  /\ \A r, s \in DOMAIN layout : \A c \in DOMAIN layout[r], d \in DOMAIN layout[s] :
        layout[r][c] = layout[s][d] => r = s /\ c = d
  /\ \A r \in DOMAIN layout : layout[r] # <<>>

\* The rows of a grid, and the panes in its cells.
LEMMA RowsOf ==
  ASSUME NEW S, NEW layout \in Seq(Seq(S))
  PROVE  /\ DOMAIN layout = 1 .. Len(layout) /\ Len(layout) \in Nat
         /\ \A r \in 1 .. Len(layout) : /\ layout[r] \in Seq(S) /\ Len(layout[r]) \in Nat
                                        /\ DOMAIN layout[r] = 1 .. Len(layout[r])
         /\ \A p : p \in Cells(layout) <=>
                     \E r \in 1 .. Len(layout) : \E c \in 1 .. Len(layout[r]) : layout[r][c] = p
<1>1. DOMAIN layout = 1 .. Len(layout) /\ Len(layout) \in Nat
  OBVIOUS
<1>2. \A r \in 1 .. Len(layout) : layout[r] \in Seq(S)
  OBVIOUS
<1>3. \A r \in 1 .. Len(layout) :
        /\ Len(layout[r]) \in Nat /\ DOMAIN layout[r] = 1 .. Len(layout[r])
        /\ \A p : p \in ToSet(layout[r]) <=> \E c \in 1 .. Len(layout[r]) : layout[r][c] = p
  BY <1>2, Members
<1>4. \A p : p \in Cells(layout) <=> \E r \in 1 .. Len(layout) : p \in ToSet(layout[r])
  BY <1>1 DEF Cells
<1>5. QED
  BY <1>1, <1>2, <1>3, <1>4

Rows(layout, S) ==
  /\ DOMAIN layout = 1 .. Len(layout) /\ Len(layout) \in Nat
  /\ \A r \in 1 .. Len(layout) : /\ layout[r] \in Seq(S) /\ Len(layout[r]) \in Nat
                                 /\ DOMAIN layout[r] = 1 .. Len(layout[r])
  /\ \A p : p \in Cells(layout) <=>
              \E r \in 1 .. Len(layout) : \E c \in 1 .. Len(layout[r]) : layout[r][c] = p

\* The same, as one name.
LEMMA RowsAre ==
  ASSUME NEW S, NEW layout \in Seq(Seq(S))
  PROVE  Rows(layout, S)
<1>1. QED
  BY RowsOf DEF Rows

\* A grid, by the numbers of its rows and columns.
LEMMA GridIs ==
  ASSUME NEW S, NEW layout \in Seq(Seq(S))
  PROVE  Grid(layout) <=>
           /\ \A r, s \in 1 .. Len(layout) : \A c \in 1 .. Len(layout[r]), d \in 1 .. Len(layout[s]) :
                layout[r][c] = layout[s][d] => r = s /\ c = d
           /\ \A r \in 1 .. Len(layout) : layout[r] # <<>>
<1>1. DOMAIN layout = 1 .. Len(layout)
  OBVIOUS
<1>2. \A r \in 1 .. Len(layout) : DOMAIN layout[r] = 1 .. Len(layout[r])
  BY RowsOf
<1>3. (\A r, s \in DOMAIN layout : \A c \in DOMAIN layout[r], d \in DOMAIN layout[s] :
         layout[r][c] = layout[s][d] => r = s /\ c = d)
      <=> \A r, s \in 1 .. Len(layout) : \A c \in 1 .. Len(layout[r]), d \in 1 .. Len(layout[s]) :
            layout[r][c] = layout[s][d] => r = s /\ c = d
  <2>1. ASSUME \A r, s \in DOMAIN layout : \A c \in DOMAIN layout[r], d \in DOMAIN layout[s] :
                 layout[r][c] = layout[s][d] => r = s /\ c = d,
               NEW r \in 1 .. Len(layout), NEW s \in 1 .. Len(layout),
               NEW c \in 1 .. Len(layout[r]), NEW d \in 1 .. Len(layout[s]), layout[r][c] = layout[s][d]
        PROVE  r = s /\ c = d
    <3>1. r \in DOMAIN layout /\ s \in DOMAIN layout /\ c \in DOMAIN layout[r] /\ d \in DOMAIN layout[s]
      BY <1>1, <1>2
    <3>2. QED
      BY <2>1, <3>1
  <2>2. ASSUME \A r, s \in 1 .. Len(layout) : \A c \in 1 .. Len(layout[r]), d \in 1 .. Len(layout[s]) :
                 layout[r][c] = layout[s][d] => r = s /\ c = d,
               NEW r \in DOMAIN layout, NEW s \in DOMAIN layout,
               NEW c \in DOMAIN layout[r], NEW d \in DOMAIN layout[s], layout[r][c] = layout[s][d]
        PROVE  r = s /\ c = d
    <3>1. r \in 1 .. Len(layout) /\ s \in 1 .. Len(layout)
      BY <1>1
    <3>2. c \in 1 .. Len(layout[r]) /\ d \in 1 .. Len(layout[s])
      BY <1>2, <3>1
    <3>3. QED
      BY <2>2, <3>1, <3>2
  <2>3. QED
    BY <2>1, <2>2
<1>4. QED
  BY <1>1, <1>3 DEF Grid

(* What seq.filter gives of a sequence whose elements are all different.   *)
Once(s, T) == \A i, j \in DOMAIN s : s[i] = s[j] /\ s[i] \in T => i = j

KeptOf(r, s, T, S) ==
  /\ r \in Seq(S) /\ ToSet(r) = ToSet(s) \cap T /\ Len(r) <= Len(s)
  /\ \A i, j \in DOMAIN r : r[i] = r[j] => i = j

\* What is kept of a sequence without repetition has none.
LEMMA KeptOnce ==
  ASSUME NEW S, NEW s \in Seq(S), NEW T, Once(s, T)
  PROVE  KeptOf(Keep(s, T), s, T, S)
<1>1. QED
  BY KeepFacts DEF Once, KeptOf

\* removePane: the grid without one pane, and without the row it leaves empty.
LEMMA RemovedGrid ==
  ASSUME NEW S, NEW layout \in Seq(Seq(S)), Grid(layout), NEW pane
  PROVE  LET new == RemovePane(layout, pane)
         IN  /\ new \in Seq(Seq(S)) /\ Grid(new) /\ Cells(new) = Cells(layout) \ {pane}
             /\ Len(new) <= Len(layout)
             /\ \A k \in DOMAIN new : \E r \in DOMAIN layout : Len(new[k]) <= Len(layout[r])
<1> DEFINE rest == [r \in DOMAIN layout |-> Except(layout[r], pane)]
           T == ToSet(rest) \ {<<>>}
           new == RemovePane(layout, pane)
<1>1. /\ DOMAIN layout = 1 .. Len(layout) /\ Len(layout) \in Nat
      /\ \A r \in 1 .. Len(layout) : /\ layout[r] \in Seq(S) /\ Len(layout[r]) \in Nat
                                     /\ DOMAIN layout[r] = 1 .. Len(layout[r])
      /\ \A p : p \in Cells(layout) <=>
                  \E r \in 1 .. Len(layout) : \E c \in 1 .. Len(layout[r]) : layout[r][c] = p
  BY RowsOf
<1>2. \A r, s \in 1 .. Len(layout) : \A c \in 1 .. Len(layout[r]), d \in 1 .. Len(layout[s]) :
        layout[r][c] = layout[s][d] => r = s /\ c = d
  BY GridIs
<1>3. ASSUME NEW r \in 1 .. Len(layout)
      PROVE  /\ rest[r] \in Seq(S) /\ Len(rest[r]) <= Len(layout[r])
             /\ DOMAIN rest[r] = 1 .. Len(rest[r])
             /\ ToSet(rest[r]) = ToSet(layout[r]) \ {pane}
             /\ \A c, d \in 1 .. Len(rest[r]) : rest[r][c] = rest[r][d] => c = d
  <2> DEFINE row == layout[r]
             Q == ToSet(row) \ {pane}
  <2>1. row \in Seq(S) /\ DOMAIN row = 1 .. Len(row)
    BY <1>1
  <2>2. rest[r] = Keep(row, Q)
    BY <1>1 DEF Except
  <2>3. Once(row, Q)
    BY <1>1, <1>2 DEF Once
  <2>4. ToSet(row) \cap Q = ToSet(row) \ {pane}
    OBVIOUS
  <2> HIDE DEF row, Q, rest
  <2>5. /\ rest[r] \in Seq(S) /\ Len(rest[r]) <= Len(row) /\ ToSet(rest[r]) = ToSet(row) \cap Q
        /\ \A c, d \in DOMAIN rest[r] : rest[r][c] = rest[r][d] => c = d
    <3>1. KeptOf(rest[r], row, Q, S)
      BY <2>1, <2>2, <2>3, KeptOnce
    <3>2. QED
      BY <3>1 DEF KeptOf
  <2>6. DOMAIN rest[r] = 1 .. Len(rest[r])
    BY <2>5
  <2>7. QED
    BY <2>4, <2>5, <2>6 DEF row
<1>4. DOMAIN rest = 1 .. Len(layout)
  BY <1>1
<1>5. new = Keep(rest, T)
  BY DEF RemovePane, Except
<1> HIDE DEF rest, new
<1>6. \A r \in 1 .. Len(layout) :
        \A p : p \in ToSet(rest[r]) <=> \E c \in 1 .. Len(rest[r]) : rest[r][c] = p
  BY <1>3, Members
<1>7. \A r \in 1 .. Len(layout) :
        \A p : p \in ToSet(layout[r]) <=> \E c \in 1 .. Len(layout[r]) : layout[r][c] = p
  BY <1>1, Members
<1>8. ASSUME NEW r \in 1 .. Len(layout), NEW s \in 1 .. Len(layout), NEW p,
             p \in ToSet(rest[r]), p \in ToSet(rest[s])
      PROVE  r = s
  <2>1. p \in ToSet(layout[r]) /\ p \in ToSet(layout[s])
    BY <1>3, <1>8
  <2>2. PICK c \in 1 .. Len(layout[r]) : layout[r][c] = p
    BY <1>7, <2>1
  <2>3. PICK d \in 1 .. Len(layout[s]) : layout[s][d] = p
    BY <1>7, <2>1
  <2>4. QED
    BY <1>2, <2>2, <2>3
<1>9. rest \in Seq(Seq(S)) /\ Len(rest) = Len(layout)
  <2> DEFINE R == Seq(S)
  <2>1. rest \in [1 .. Len(layout) -> R]
    <3>1. rest = [r \in 1 .. Len(layout) |-> rest[r]]
      BY <1>1 DEF rest
    <3>2. QED
      BY <1>3, <3>1
  <2> HIDE DEF R
  <2>2. rest \in Seq(R) /\ Len(rest) = Len(layout)
    <3>1. Len(layout) \in Nat
      BY <1>1
    <3>2. QED
      BY <2>1, <3>1
  <2>3. QED
    BY <2>2 DEF R
<1>10. \A i, j \in DOMAIN rest : rest[i] = rest[j] /\ rest[i] \in T => i = j
  <2>1. ASSUME NEW i \in 1 .. Len(layout), NEW j \in 1 .. Len(layout), rest[i] = rest[j], rest[i] # <<>>
        PROVE  i = j
    <3>1. Len(rest[i]) \in Nat /\ Len(rest[i]) # 0
      BY <1>3, <2>1
    <3>2. 1 \in 1 .. Len(rest[i])
      BY <3>1
    <3>3. rest[i][1] \in ToSet(rest[i])
      BY <1>6, <3>2
    <3>4. QED
      BY <1>8, <2>1, <3>3
  <2>2. QED
    BY <1>4, <2>1
<1>11. /\ new \in Seq(Seq(S)) /\ ToSet(new) = ToSet(rest) \cap T /\ Len(new) <= Len(rest)
       /\ \A i, j \in DOMAIN new : new[i] = new[j] => i = j
  <2> HIDE DEF T
  <2>1. QED
    BY <1>5, <1>9, <1>10, KeepFacts
<1>12. /\ DOMAIN new = 1 .. Len(new) /\ Len(new) \in Nat
       /\ \A r \in 1 .. Len(new) : /\ new[r] \in Seq(S) /\ Len(new[r]) \in Nat
                                   /\ DOMAIN new[r] = 1 .. Len(new[r])
       /\ \A p : p \in Cells(new) <=>
                   \E r \in 1 .. Len(new) : \E c \in 1 .. Len(new[r]) : new[r][c] = p
  BY <1>11, RowsOf
<1>13. \A x : x \in ToSet(new) <=> \E k \in 1 .. Len(new) : new[k] = x
  BY <1>11, Members
<1>14. \A x : x \in ToSet(rest) <=> \E r \in 1 .. Len(layout) : rest[r] = x
  BY <1>9, Members
<1>15. \A k \in 1 .. Len(new) : new[k] # <<>> /\ \E r \in 1 .. Len(layout) : new[k] = rest[r]
  BY <1>11, <1>13, <1>14
<1>16. \A r \in 1 .. Len(layout) : rest[r] # <<>> => \E k \in 1 .. Len(new) : new[k] = rest[r]
  BY <1>11, <1>13, <1>14
<1>17. ASSUME NEW r \in 1 .. Len(new), NEW s \in 1 .. Len(new), NEW c \in 1 .. Len(new[r]),
              NEW d \in 1 .. Len(new[s]), new[r][c] = new[s][d]
       PROVE  r = s /\ c = d
  <2>1. PICK a \in 1 .. Len(layout) : new[r] = rest[a]
    BY <1>15
  <2>2. PICK b \in 1 .. Len(layout) : new[s] = rest[b]
    BY <1>15
  <2>3. new[r][c] \in ToSet(rest[a]) /\ new[s][d] \in ToSet(rest[b])
    BY <1>6, <2>1, <2>2
  <2>4. a = b
    BY <1>8, <1>17, <2>3
  <2>5. r = s
    BY <1>11, <1>12, <2>1, <2>2, <2>4
  <2>6. c = d
    BY <1>3, <1>17, <2>1, <2>5
  <2>7. QED
    BY <2>5, <2>6
<1>18. Grid(new)
  BY <1>11, <1>15, <1>17, GridIs
<1>19. Cells(new) = Cells(layout) \ {pane}
  <2>1. ASSUME NEW p, p \in Cells(new) PROVE p \in Cells(layout) /\ p # pane
    <3>1. PICK r \in 1 .. Len(new) : \E c \in 1 .. Len(new[r]) : new[r][c] = p
      BY <1>12, <2>1
    <3>2. PICK a \in 1 .. Len(layout) : new[r] = rest[a]
      BY <1>15
    <3>3. p \in ToSet(rest[a])
      BY <1>6, <3>1, <3>2
    <3>4. p \in ToSet(layout[a]) /\ p # pane
      BY <1>3, <3>3
    <3>5. QED
      BY <1>1, <1>7, <3>4
  <2>2. ASSUME NEW p, p \in Cells(layout), p # pane PROVE p \in Cells(new)
    <3>1. PICK a \in 1 .. Len(layout) : \E c \in 1 .. Len(layout[a]) : layout[a][c] = p
      BY <1>1, <2>2
    <3>2. p \in ToSet(rest[a])
      BY <1>3, <1>7, <2>2, <3>1
    <3>3. PICK c \in 1 .. Len(rest[a]) : rest[a][c] = p
      BY <1>6, <3>2
    <3>4. rest[a] # <<>>
      <4>1. Len(rest[a]) # 0
        BY <3>3
      <4>2. QED
        BY <4>1
    <3>5. PICK k \in 1 .. Len(new) : new[k] = rest[a]
      BY <1>16, <3>4
    <3>6. QED
      BY <1>12, <3>3, <3>5
  <2>3. QED
    BY <2>1, <2>2
<1>20. \A k \in DOMAIN new : \E r \in DOMAIN layout : Len(new[k]) <= Len(layout[r])
  <2>1. ASSUME NEW k \in 1 .. Len(new) PROVE \E r \in 1 .. Len(layout) : Len(new[k]) <= Len(layout[r])
    <3>1. PICK r \in 1 .. Len(layout) : new[k] = rest[r]
      BY <1>15
    <3>2. Len(rest[r]) <= Len(layout[r])
      BY <1>3
    <3>3. QED
      BY <3>1, <3>2
  <2>2. QED
    BY <1>1, <1>12, <2>1
<1>21. QED
  BY <1>9, <1>11, <1>18, <1>19, <1>20 DEF new

(* The first place that passes a test.                                     *)
First(row, pane) == SelectInSeq(row, LAMBDA p : p = pane)

\* The row of a pane, and its column.
LEMMA SelectFacts ==
  ASSUME NEW S, NEW layout \in Seq(Seq(S)), NEW pane
  PROVE  /\ pane \in Cells(layout) => /\ RowOf(layout, pane) \in 1 .. Len(layout)
                                      /\ pane \in ToSet(layout[RowOf(layout, pane)])
         /\ \A row \in Seq(S) : pane \in ToSet(row) =>
              First(row, pane) \in 1 .. Len(row) /\ row[First(row, pane)] = pane
<1>1. ASSUME pane \in Cells(layout)
      PROVE  /\ RowOf(layout, pane) \in 1 .. Len(layout)
             /\ pane \in ToSet(layout[RowOf(layout, pane)])
  <2> DEFINE I == {i \in 1 .. Len(layout) : pane \in ToSet(layout[i])}
  <2>1. RowOf(layout, pane) = IF I # {} THEN Min(I) ELSE 0
    BY DEF RowOf, SelectInSeq
  <2>2. I \subseteq Nat
    OBVIOUS
  <2>3. I # {}
    BY <1>1 DEF Cells
  <2>4. Min(I) \in I
    BY <2>2, <2>3, MinIs
  <2>5. QED
    BY <2>1, <2>3, <2>4
<1>2. ASSUME NEW row \in Seq(S), pane \in ToSet(row)
      PROVE  First(row, pane) \in 1 .. Len(row) /\ row[First(row, pane)] = pane
  <2> DEFINE I == {i \in 1 .. Len(row) : row[i] = pane}
  <2>1. First(row, pane) = IF I # {} THEN Min(I) ELSE 0
    BY DEF SelectInSeq, First
  <2>2. I \subseteq Nat
    OBVIOUS
  <2>3. I # {}
    BY <1>2, Members
  <2>4. Min(I) \in I
    BY <2>2, <2>3, MinIs
  <2>5. QED
    BY <2>1, <2>3, <2>4
<1>3. QED
  BY <1>1, <1>2

(* The grid has one more pane: in a row it had, or in a row of its own.    *)
Wider(new, layout, S, r, pane) ==
  /\ new \in Seq(Seq(S)) /\ Grid(new) /\ Cells(new) = Cells(layout) \cup {pane}
  /\ Len(new) = Len(layout) /\ Len(new[r]) = Len(layout[r]) + 1
  /\ \A a \in 1 .. Len(layout) : a # r => new[a] = layout[a]

Deeper(new, layout, S, pane) ==
  /\ new \in Seq(Seq(S)) /\ Grid(new) /\ Cells(new) = Cells(layout) \cup {pane}
  /\ Len(new) = Len(layout) + 1
  /\ \A a \in 1 .. Len(new) : Len(new[a]) = 1 \/ \E b \in 1 .. Len(layout) : new[a] = layout[b]

(* insertPane to the side: the row gets another cell.                      *)
LEMMA WidenedGrid ==
  ASSUME NEW S, NEW layout \in Seq(Seq(S)), Grid(layout), NEW pane \in S, pane \notin Cells(layout),
         NEW r \in 1 .. Len(layout), NEW k \in 1 .. (Len(layout[r]) + 1)
  PROVE  Wider([layout EXCEPT ![r] = InsertAt(@, k, pane)], layout, S, r, pane)
<1> DEFINE row == InsertAt(layout[r], k, pane)
           new == [layout EXCEPT ![r] = InsertAt(@, k, pane)]
           R == Seq(S)
<1>1. /\ DOMAIN layout = 1 .. Len(layout) /\ Len(layout) \in Nat
      /\ \A a \in 1 .. Len(layout) : /\ layout[a] \in Seq(S) /\ Len(layout[a]) \in Nat
                                     /\ DOMAIN layout[a] = 1 .. Len(layout[a])
      /\ \A p : p \in Cells(layout) <=>
                  \E a \in 1 .. Len(layout) : \E c \in 1 .. Len(layout[a]) : layout[a][c] = p
  BY RowsOf
<1>2. /\ \A a, b \in 1 .. Len(layout) : \A c \in 1 .. Len(layout[a]), d \in 1 .. Len(layout[b]) :
           layout[a][c] = layout[b][d] => a = b /\ c = d
      /\ \A a \in 1 .. Len(layout) : layout[a] # <<>>
  BY GridIs
<1>3. row \in Seq(S) /\ Inserted(row, layout[r], k, pane)
  <2> DEFINE old == layout[r]
  <2>1. old \in Seq(S) /\ k \in 1 .. (Len(old) + 1)
    BY <1>1
  <2> HIDE DEF old
  <2>2. InsertAt(old, k, pane) \in Seq(S) /\ Inserted(InsertAt(old, k, pane), old, k, pane)
    BY <2>1, PutIn
  <2>3. QED
    BY <2>2 DEF old
<1>4. new = [layout EXCEPT ![r] = row]
  OBVIOUS
<1> HIDE DEF row, new
<1>5. new \in Seq(Seq(S)) /\ Len(new) = Len(layout) /\ new[r] = row
      /\ \A a \in 1 .. Len(layout) : a # r => new[a] = layout[a]
  <2> HIDE DEF R
  <2>1. layout \in Seq(R) /\ row \in R
    BY <1>3 DEF R
  <2>2. new \in Seq(R) /\ Len(new) = Len(layout) /\ new[r] = row
        /\ \A a \in 1 .. Len(layout) : a # r => new[a] = layout[a]
    BY <1>4, <2>1
  <2>3. QED
    BY <2>2 DEF R
<1> DEFINE n == Len(layout[r])
<1>6. n \in Nat /\ Len(row) = n + 1
      /\ \A c \in 1 .. (n + 1) : row[c] = IF c < k THEN layout[r][c] ELSE IF c = k THEN pane ELSE layout[r][c - 1]
  BY <1>1, <1>3 DEF Inserted
<1>7. k \in 1 .. (n + 1)
  OBVIOUS
<1> HIDE DEF n
<1> DEFINE at(c) == IF c < k THEN c ELSE c - 1
<1>8. \A c \in 1 .. (n + 1) : c # k => at(c) \in 1 .. n /\ row[c] = layout[r][at(c)]
  BY <1>6, <1>7
<1>9. \A c, d \in 1 .. (n + 1) : c # k /\ d # k /\ at(c) = at(d) => c = d
  BY <1>6, <1>7
<1>10. row[k] = pane
  BY <1>6, <1>7
<1>11. \A c \in 1 .. n : \E d \in 1 .. (n + 1) : row[d] = layout[r][c]
  <2>1. ASSUME NEW c \in 1 .. n PROVE \E d \in 1 .. (n + 1) : row[d] = layout[r][c]
    <3>1. CASE c < k
      <4>1. c \in 1 .. (n + 1) /\ row[c] = layout[r][c]
        BY <1>6, <3>1
      <4>2. QED
        BY <4>1
    <3>2. CASE c >= k
      <4>1. c + 1 \in 1 .. (n + 1) /\ row[c + 1] = layout[r][c]
        BY <1>6, <1>7, <3>2
      <4>2. QED
        BY <4>1
    <3>3. c < k \/ c >= k
      <4>1. c \in Int /\ k \in Int
        BY <1>7
      <4>2. QED
        BY <4>1
    <3>4. QED
      BY <3>1, <3>2, <3>3
  <2>2. QED
    BY <2>1
<1> HIDE DEF at
<1>12. n = Len(layout[r])
  BY DEF n
<1>13. /\ DOMAIN new = 1 .. Len(new) /\ Len(new) \in Nat
       /\ \A a \in 1 .. Len(new) : /\ new[a] \in Seq(S) /\ Len(new[a]) \in Nat
                                   /\ DOMAIN new[a] = 1 .. Len(new[a])
       /\ \A p : p \in Cells(new) <=>
                   \E a \in 1 .. Len(new) : \E c \in 1 .. Len(new[a]) : new[a][c] = p
  <2>1. Rows(new, S)
    BY <1>5, RowsAre
  <2>2. QED
    BY <2>1 DEF Rows
<1>14. \A a \in 1 .. Len(layout) : \A c \in 1 .. Len(layout[a]) : layout[a][c] # pane
  BY <1>1
<1>15. ASSUME NEW a \in 1 .. Len(new), NEW b \in 1 .. Len(new), NEW c \in 1 .. Len(new[a]),
              NEW d \in 1 .. Len(new[b]), new[a][c] = new[b][d]
       PROVE  a = b /\ c = d
  <2>1. a \in 1 .. Len(layout) /\ b \in 1 .. Len(layout)
    BY <1>5
  <2>2. CASE a # r /\ b # r
    <3>1. new[a] = layout[a] /\ new[b] = layout[b]
      BY <1>5, <2>1, <2>2
    <3>2. c \in 1 .. Len(layout[a]) /\ d \in 1 .. Len(layout[b]) /\ layout[a][c] = layout[b][d]
      BY <1>15, <3>1
    <3>3. QED
      <4>1. \A x \in 1 .. Len(layout[a]), y \in 1 .. Len(layout[b]) :
              layout[a][x] = layout[b][y] => a = b /\ x = y
        BY <1>2, <2>1
      <4>2. QED
        BY <3>2, <4>1
  <2>3. CASE a = r /\ b = r
    <3>1. c \in 1 .. (n + 1) /\ d \in 1 .. (n + 1) /\ row[c] = row[d]
      BY <1>5, <1>6, <1>15, <2>3
    <3>2. CASE c # k /\ d # k
      <4>1. layout[r][at(c)] = layout[r][at(d)] /\ at(c) \in 1 .. n /\ at(d) \in 1 .. n
        BY <1>8, <3>1, <3>2
      <4>2. at(c) = at(d)
        BY <1>2, <1>12, <4>1
      <4>3. QED
        BY <1>9, <2>3, <3>1, <3>2, <4>2
    <3>3. CASE c = k /\ d # k
      BY <1>8, <1>10, <1>12, <1>14, <3>1, <3>3
    <3>4. CASE c # k /\ d = k
      BY <1>8, <1>10, <1>12, <1>14, <3>1, <3>4
    <3>5. QED
      BY <2>3, <3>2, <3>3, <3>4
  <2>4. CASE a = r /\ b # r
    <3>1. c \in 1 .. (n + 1) /\ d \in 1 .. Len(layout[b]) /\ row[c] = layout[b][d]
      BY <1>5, <1>6, <1>15, <2>1, <2>4
    <3>2. c # k
      BY <1>10, <1>14, <2>1, <3>1
    <3>3. layout[r][at(c)] = layout[b][d] /\ at(c) \in 1 .. Len(layout[r])
      BY <1>8, <1>12, <3>1, <3>2
    <3>4. QED
      BY <1>2, <2>1, <2>4, <3>1, <3>3
  <2>5. CASE a # r /\ b = r
    <3>1. d \in 1 .. (n + 1) /\ c \in 1 .. Len(layout[a]) /\ row[d] = layout[a][c]
      BY <1>5, <1>6, <1>15, <2>1, <2>5
    <3>2. d # k
      BY <1>10, <1>14, <2>1, <3>1
    <3>3. layout[r][at(d)] = layout[a][c] /\ at(d) \in 1 .. Len(layout[r])
      BY <1>8, <1>12, <3>1, <3>2
    <3>4. QED
      BY <1>2, <2>1, <2>5, <3>1, <3>3
  <2>6. QED
    BY <2>2, <2>3, <2>4, <2>5
<1>16. \A a \in 1 .. Len(new) : new[a] # <<>>
  <2>1. row # <<>>
    BY <1>6
  <2>2. QED
    BY <1>2, <1>5, <2>1
<1>17. Grid(new)
  BY <1>5, <1>15, <1>16, GridIs
<1>18. Cells(new) = Cells(layout) \cup {pane}
  <2>1. ASSUME NEW p, p \in Cells(new) PROVE p \in Cells(layout) \/ p = pane
    <3>0. PICK a \in 1 .. Len(new) : \E c \in 1 .. Len(new[a]) : new[a][c] = p
      BY <1>13, <2>1
    <3>1. PICK c \in 1 .. Len(new[a]) : new[a][c] = p
      BY <3>0
    <3>2. CASE a # r
      BY <1>1, <1>5, <3>1, <3>2
    <3>3. CASE a = r
      <4>1. c \in 1 .. (n + 1) /\ row[c] = p
        BY <1>5, <1>6, <3>1, <3>3
      <4>2. c = k \/ (at(c) \in 1 .. Len(layout[r]) /\ layout[r][at(c)] = p)
        BY <1>8, <1>12, <4>1
      <4>3. QED
        BY <1>1, <1>10, <4>1, <4>2
    <3>4. QED
      BY <3>2, <3>3
  <2>2. ASSUME NEW p, p \in Cells(layout) PROVE p \in Cells(new)
    <3>0. PICK a \in 1 .. Len(layout) : \E c \in 1 .. Len(layout[a]) : layout[a][c] = p
      BY <1>1, <2>2
    <3>1. PICK c \in 1 .. Len(layout[a]) : layout[a][c] = p
      BY <3>0
    <3>2. CASE a # r
      BY <1>5, <1>13, <3>1, <3>2
    <3>3. CASE a = r
      <4>1. PICK d \in 1 .. (n + 1) : row[d] = p
        BY <1>11, <1>12, <3>1, <3>3
      <4>2. r \in 1 .. Len(new) /\ d \in 1 .. Len(new[r]) /\ new[r][d] = p
        BY <1>5, <1>6, <4>1
      <4>3. QED
        BY <1>13, <4>2
    <3>4. QED
      BY <3>2, <3>3
  <2>3. pane \in Cells(new)
    <3>1. r \in 1 .. Len(new) /\ k \in 1 .. Len(new[r]) /\ new[r][k] = pane
      BY <1>5, <1>6, <1>7, <1>10
    <3>2. QED
      BY <1>13, <3>1
  <2>4. QED
    BY <2>1, <2>2, <2>3
<1>19. QED
  BY <1>5, <1>6, <1>12, <1>17, <1>18 DEF new, Wider

(* insertPane below: there is another row, of one cell.                    *)
LEMMA DeepenedGrid ==
  ASSUME NEW S, NEW layout \in Seq(Seq(S)), Grid(layout), NEW pane \in S, pane \notin Cells(layout),
         NEW k \in 1 .. (Len(layout) + 1)
  PROVE  Deeper(InsertAt(layout, k, <<pane>>), layout, S, pane)
<1> DEFINE row == <<pane>>
           new == InsertAt(layout, k, row)
           R == Seq(S)
           n == Len(layout)
<1>1. /\ DOMAIN layout = 1 .. Len(layout) /\ Len(layout) \in Nat
      /\ \A a \in 1 .. Len(layout) : /\ layout[a] \in Seq(S) /\ Len(layout[a]) \in Nat
                                     /\ DOMAIN layout[a] = 1 .. Len(layout[a])
      /\ \A p : p \in Cells(layout) <=>
                  \E a \in 1 .. Len(layout) : \E c \in 1 .. Len(layout[a]) : layout[a][c] = p
  BY RowsOf
<1>2. /\ \A a, b \in 1 .. Len(layout) : \A c \in 1 .. Len(layout[a]), d \in 1 .. Len(layout[b]) :
           layout[a][c] = layout[b][d] => a = b /\ c = d
      /\ \A a \in 1 .. Len(layout) : layout[a] # <<>>
  BY GridIs
<1>3. row \in Seq(S) /\ Len(row) = 1 /\ row[1] = pane /\ row # <<>>
  OBVIOUS
<1> HIDE DEF row
<1>4. new \in Seq(Seq(S)) /\ Inserted(new, layout, k, row)
  <2> HIDE DEF R
  <2>1. layout \in Seq(R) /\ row \in R
    BY <1>3 DEF R
  <2>2. new \in Seq(R) /\ Inserted(new, layout, k, row)
    BY <2>1, PutIn
  <2>3. QED
    BY <2>2 DEF R
<1> HIDE DEF new
<1>5. n \in Nat /\ Len(new) = n + 1
      /\ \A a \in 1 .. (n + 1) : new[a] = IF a < k THEN layout[a] ELSE IF a = k THEN row ELSE layout[a - 1]
  BY <1>1, <1>4 DEF Inserted
<1>6. k \in 1 .. (n + 1) /\ n = Len(layout)
  OBVIOUS
<1> HIDE DEF n
<1> DEFINE at(a) == IF a < k THEN a ELSE a - 1
<1>7. \A a \in 1 .. (n + 1) : a # k => at(a) \in 1 .. n /\ new[a] = layout[at(a)]
  BY <1>5, <1>6
<1>8. \A a, b \in 1 .. (n + 1) : a # k /\ b # k /\ at(a) = at(b) => a = b
  BY <1>5, <1>6
<1>9. new[k] = row
  BY <1>5, <1>6
<1>10. \A a \in 1 .. n : \E b \in 1 .. (n + 1) : new[b] = layout[a]
  <2>1. ASSUME NEW a \in 1 .. n PROVE \E b \in 1 .. (n + 1) : new[b] = layout[a]
    <3>1. CASE a < k
      <4>1. a \in 1 .. (n + 1) /\ new[a] = layout[a]
        BY <1>5, <3>1
      <4>2. QED
        BY <4>1
    <3>2. CASE a >= k
      <4>1. a + 1 \in 1 .. (n + 1) /\ new[a + 1] = layout[a]
        BY <1>5, <1>6, <3>2
      <4>2. QED
        BY <4>1
    <3>3. a < k \/ a >= k
      <4>1. a \in Int /\ k \in Int
        BY <1>6
      <4>2. QED
        BY <4>1
    <3>4. QED
      BY <3>1, <3>2, <3>3
  <2>2. QED
    BY <2>1
<1> HIDE DEF at
<1>11. /\ DOMAIN new = 1 .. Len(new) /\ Len(new) \in Nat
       /\ \A p : p \in Cells(new) <=>
                   \E a \in 1 .. Len(new) : \E c \in 1 .. Len(new[a]) : new[a][c] = p
  <2>1. Rows(new, S)
    BY <1>4, RowsAre
  <2>2. QED
    BY <2>1 DEF Rows
<1>12. \A a \in 1 .. n : \A c \in 1 .. Len(layout[a]) : layout[a][c] # pane
  BY <1>1, <1>6
<1>13. \A c \in 1 .. Len(new[k]) : c = 1 /\ new[k][c] = pane
  <2>1. Len(new[k]) = 1 /\ new[k][1] = pane
    BY <1>3, <1>9
  <2>2. QED
    BY <2>1
<1>14. ASSUME NEW a \in 1 .. Len(new), NEW b \in 1 .. Len(new), NEW c \in 1 .. Len(new[a]),
              NEW d \in 1 .. Len(new[b]), new[a][c] = new[b][d]
       PROVE  a = b /\ c = d
  <2>1. a \in 1 .. (n + 1) /\ b \in 1 .. (n + 1)
    BY <1>5
  <2>2. CASE a # k /\ b # k
    <3>1. /\ new[a] = layout[at(a)] /\ new[b] = layout[at(b)]
          /\ at(a) \in 1 .. Len(layout) /\ at(b) \in 1 .. Len(layout)
      BY <1>6, <1>7, <2>1, <2>2
    <3>2. /\ c \in 1 .. Len(layout[at(a)]) /\ d \in 1 .. Len(layout[at(b)])
          /\ layout[at(a)][c] = layout[at(b)][d]
      BY <1>14, <3>1
    <3>3. at(a) = at(b) /\ c = d
      <4> DEFINE e == at(a) f == at(b)
      <4>1. /\ e \in 1 .. Len(layout) /\ f \in 1 .. Len(layout)
            /\ c \in 1 .. Len(layout[e]) /\ d \in 1 .. Len(layout[f]) /\ layout[e][c] = layout[f][d]
        BY <3>1, <3>2
      <4> HIDE DEF e, f
      <4>2. \A x \in 1 .. Len(layout[e]), y \in 1 .. Len(layout[f]) :
              layout[e][x] = layout[f][y] => e = f /\ x = y
        BY <1>2, <4>1
      <4>3. e = f /\ c = d
        BY <4>1, <4>2
      <4>4. QED
        BY <4>3 DEF e, f
    <3>4. QED
      BY <1>8, <2>1, <2>2, <3>3
  <2>3. CASE a = k /\ b = k
    BY <1>13, <2>3
  <2>4. CASE a = k /\ b # k
    <3>1. new[b] = layout[at(b)] /\ at(b) \in 1 .. n
      BY <1>7, <2>1, <2>4
    <3>2. new[b][d] # pane
      BY <1>12, <3>1
    <3>3. QED
      BY <1>13, <1>14, <2>4, <3>2
  <2>5. CASE a # k /\ b = k
    <3>1. new[a] = layout[at(a)] /\ at(a) \in 1 .. n
      BY <1>7, <2>1, <2>5
    <3>2. new[a][c] # pane
      BY <1>12, <3>1
    <3>3. QED
      BY <1>13, <1>14, <2>5, <3>2
  <2>6. QED
    BY <2>2, <2>3, <2>4, <2>5
<1>15. \A a \in 1 .. Len(new) :
         new[a] # <<>> /\ (Len(new[a]) = 1 \/ \E b \in 1 .. Len(layout) : new[a] = layout[b])
  <2>1. ASSUME NEW a \in 1 .. Len(new)
        PROVE  new[a] # <<>> /\ (Len(new[a]) = 1 \/ \E b \in 1 .. Len(layout) : new[a] = layout[b])
    <3>1. CASE a = k
      BY <1>3, <1>9, <3>1
    <3>2. CASE a # k
      <4>1. new[a] = layout[at(a)] /\ at(a) \in 1 .. Len(layout)
        BY <1>5, <1>6, <1>7, <3>2
      <4>2. QED
        BY <1>2, <4>1
    <3>3. QED
      BY <3>1, <3>2
  <2>2. QED
    BY <2>1
<1>16. Grid(new)
  BY <1>4, <1>14, <1>15, GridIs
<1>17. Cells(new) = Cells(layout) \cup {pane}
  <2>1. ASSUME NEW p, p \in Cells(new) PROVE p \in Cells(layout) \/ p = pane
    <3>1. PICK a \in 1 .. Len(new) : \E c \in 1 .. Len(new[a]) : new[a][c] = p
      BY <1>11, <2>1
    <3>2. CASE a # k
      <4>1. new[a] = layout[at(a)] /\ at(a) \in 1 .. Len(layout)
        BY <1>5, <1>6, <1>7, <3>2
      <4>2. QED
        BY <1>1, <3>1, <4>1
    <3>3. CASE a = k
      BY <1>13, <3>1, <3>3
    <3>4. QED
      BY <3>2, <3>3
  <2>2. ASSUME NEW p, p \in Cells(layout) PROVE p \in Cells(new)
    <3>1. PICK a \in 1 .. Len(layout) : \E c \in 1 .. Len(layout[a]) : layout[a][c] = p
      BY <1>1, <2>2
    <3>2. PICK b \in 1 .. Len(new) : new[b] = layout[a]
      BY <1>5, <1>6, <1>10
    <3>3. QED
      BY <1>11, <3>1, <3>2
  <2>3. pane \in Cells(new)
    <3>1. k \in 1 .. Len(new) /\ 1 \in 1 .. Len(new[k]) /\ new[k][1] = pane
      BY <1>3, <1>5, <1>6, <1>9
    <3>2. QED
      BY <1>11, <3>1
  <2>4. QED
    BY <2>1, <2>2, <2>3
<1>18. QED
  BY <1>4, <1>5, <1>6, <1>15, <1>16, <1>17 DEF new, row, Deeper

(* insertPane: beside a pane of the grid, if there is room.                *)
TookIn(new, layout, pane, cols, S) ==
    /\ new \in Seq(Seq(S)) /\ Grid(new) /\ Cells(new) = Cells(layout) \cup {pane}
    /\ Len(new) <= MaxRows
    /\ \A a \in DOMAIN new : \/ Len(new[a]) <= cols
                             \/ \E b \in DOMAIN layout : new[a] = layout[b]

\* insertPane: the new pane is in one cell, or the grid is full and stays as it is.
LEMMA InsertPaneKeeps ==
  ASSUME NEW S, NEW layout \in Seq(Seq(S)), Grid(layout), NEW pane \in S, pane \notin Cells(layout),
         NEW beside \in Cells(layout), NEW dir, NEW cols \in 1 .. MaxCols, Len(layout) <= MaxRows,
         \A a \in 1 .. Len(layout) : Len(layout[a]) <= MaxCols,
         InsertPane(layout, beside, pane, dir, cols) # layout
  PROVE  TookIn(InsertPane(layout, beside, pane, dir, cols), layout, pane, cols, S)
<1> DEFINE r == RowOf(layout, beside)
           full == IF dir = "h" THEN Len(layout[r]) >= cols ELSE Len(layout) >= MaxRows
           c == SelectInSeq(layout[r], LAMBDA p : p = beside)
           new == InsertPane(layout, beside, pane, dir, cols)
<1>1. /\ DOMAIN layout = 1 .. Len(layout) /\ Len(layout) \in Nat
      /\ \A a \in 1 .. Len(layout) : /\ layout[a] \in Seq(S) /\ Len(layout[a]) \in Nat
                                     /\ DOMAIN layout[a] = 1 .. Len(layout[a])
  BY RowsOf
<1>2. r \in 1 .. Len(layout) /\ beside \in ToSet(layout[r])
  BY SelectFacts
<1>3. r # 0
  BY <1>1, <1>2
<1>4. new = IF full THEN layout
            ELSE IF dir = "h" THEN [layout EXCEPT ![r] = InsertAt(@, c + 1, pane)]
            ELSE InsertAt(layout, r + 1, <<pane>>)
  BY <1>3 DEF InsertPane
<1>5. ~ full
  BY <1>4
<1> HIDE DEF r, new
<1>6. cols \in Nat /\ MaxCols \in Nat /\ MaxRows \in Nat
  BY DEF MaxCols, MaxRows
<1>7. CASE dir = "h"
  <2> DEFINE row == layout[r]
  <2>1. row \in Seq(S) /\ Len(row) \in Nat /\ beside \in ToSet(row)
    BY <1>1, <1>2
  <2>2. c \in 1 .. Len(layout[r])
    <3>1. c = First(row, beside)
      BY DEF First
    <3> HIDE DEF row, c
    <3>2. First(row, beside) \in 1 .. Len(row)
      BY <2>1, SelectFacts
    <3>3. QED
      BY <3>1, <3>2 DEF row
  <2> DEFINE k == c + 1
  <2>3. k \in 1 .. (Len(layout[r]) + 1)
    BY <2>1, <2>2
  <2>4. new = [layout EXCEPT ![r] = InsertAt(@, k, pane)]
    BY <1>4, <1>5, <1>7
  <2>5. Len(layout[r]) < cols
    BY <1>5, <1>6, <1>7, <2>1
  <2> HIDE DEF k, c, row
  <2>6. /\ new \in Seq(Seq(S)) /\ Grid(new) /\ Cells(new) = Cells(layout) \cup {pane}
        /\ Len(new) = Len(layout) /\ Len(new[r]) = Len(layout[r]) + 1
        /\ \A a \in 1 .. Len(layout) : a # r => new[a] = layout[a]
    <3>1. Wider(new, layout, S, r, pane)
      BY <1>2, <2>3, <2>4, WidenedGrid
    <3>2. QED
      BY <3>1 DEF Wider
  <2>7. DOMAIN new = 1 .. Len(layout)
    BY <2>6
  <2>8. ASSUME NEW a \in DOMAIN new
        PROVE  Len(new[a]) <= cols \/ \E b \in DOMAIN layout : new[a] = layout[b]
    <3>1. CASE a = r
      BY <1>1, <1>2, <1>6, <2>5, <2>6, <3>1
    <3>2. CASE a # r
      BY <1>1, <2>6, <2>7, <3>2
    <3>3. QED
      BY <3>1, <3>2
  <2>9. QED
    BY <2>6, <2>8 DEF new, TookIn
<1>8. CASE dir # "h"
  <2> DEFINE k == r + 1
  <2>1. k \in 1 .. (Len(layout) + 1)
    BY <1>1, <1>2
  <2>2. new = InsertAt(layout, k, <<pane>>)
    BY <1>4, <1>5, <1>8
  <2>3. Len(layout) < MaxRows
    BY <1>1, <1>5, <1>6, <1>8
  <2> HIDE DEF k
  <2>4. /\ new \in Seq(Seq(S)) /\ Grid(new) /\ Cells(new) = Cells(layout) \cup {pane}
        /\ Len(new) = Len(layout) + 1
        /\ \A a \in 1 .. Len(new) : Len(new[a]) = 1 \/ \E b \in 1 .. Len(layout) : new[a] = layout[b]
    <3>1. Deeper(new, layout, S, pane)
      BY <2>1, <2>2, DeepenedGrid
    <3>2. QED
      BY <3>1 DEF Deeper
  <2>5. DOMAIN new = 1 .. Len(new) /\ 1 <= cols /\ Len(new) <= MaxRows
    BY <1>1, <1>6, <2>3, <2>4
  <2>6. \A a \in DOMAIN new : Len(new[a]) <= cols \/ \E b \in DOMAIN layout : new[a] = layout[b]
    BY <1>1, <2>4, <2>5
  <2>7. QED
    BY <2>4, <2>5, <2>6 DEF new, TookIn
<1>9. QED
  BY <1>7, <1>8

(* A tab with another grid.                                                *)
With(t, layout, panes, active) == [t EXCEPT !.panes = panes, !.active = active, !.layout = layout]

Distinct(seq) == \A i, j \in DOMAIN seq : seq[i] = seq[j] => i = j

\* A sound tab, by its grid and its list of panes.
LEMMA SoundIs ==
  ASSUME NEW t
  PROVE  Sound(t) <=> /\ Cells(t.layout) = ToSet(t.panes) /\ Grid(t.layout) /\ Distinct(t.panes)
                      /\ t.active \in ToSet(t.panes) /\ Holds(t, MaxRows, MaxCols, MaxPanes) /\ Stored(t)
<1>1. ShowsItsPanes(t) <=> /\ Cells(t.layout) = ToSet(t.panes) /\ Grid(t.layout) /\ Distinct(t.panes)
                           /\ t.active \in ToSet(t.panes)
  BY DEF ShowsItsPanes, Cells, Grid, Distinct
<1>2. QED
  BY <1>1 DEF Sound

Agree(layout, panes, active, n) ==
    /\ layout \in Seq(Seq(1 .. n)) /\ panes \in Seq(1 .. n) /\ active \in 1 .. n
    /\ Cells(layout) = ToSet(panes) /\ Grid(layout) /\ Distinct(panes) /\ active \in ToSet(panes)
    /\ Len(layout) <= MaxRows /\ Len(panes) <= MaxPanes
    /\ \A r \in DOMAIN layout : Len(layout[r]) <= MaxCols

\* u is t with this grid and these panes.
Became(u, t, layout, panes, n) ==
    /\ u \in Tab(n) /\ Sound(u) /\ u.id = t.id /\ u.group = t.group
    /\ u.panes = panes /\ u.layout = layout

\* A tab with another grid and list that agree is sound.
LEMMA WithKeeps ==
  ASSUME NEW m \in Nat, NEW n \in Nat, m <= n, NEW t \in Tab(m), Sound(t),
         NEW layout, NEW panes, NEW active, Agree(layout, panes, active, n)
  PROVE  Became(With(t, layout, panes, active), t, layout, panes, n)
<1> DEFINE u == With(t, layout, panes, active)
<1>0. /\ layout \in Seq(Seq(1 .. n)) /\ panes \in Seq(1 .. n) /\ active \in 1 .. n
      /\ Cells(layout) = ToSet(panes) /\ Grid(layout) /\ Distinct(panes) /\ active \in ToSet(panes)
      /\ Len(layout) <= MaxRows /\ Len(panes) <= MaxPanes
      /\ \A r \in DOMAIN layout : Len(layout[r]) <= MaxCols
  BY DEF Agree
<1>1. t \in Tab(n)
  BY LaterKeeps
<1>2. /\ u.layout = layout /\ u.panes = panes /\ u.active = active /\ u.id = t.id /\ u.group = t.group
      /\ u.rowFr = t.rowFr /\ u.colFr = t.colFr /\ u \in Tab(n)
  BY <1>0, <1>1 DEF With, Tab
<1> HIDE DEF u
<1>3. Stored(u)
  BY <1>2 DEF Sound, Stored
<1>4. Holds(u, MaxRows, MaxCols, MaxPanes)
  BY <1>0, <1>2 DEF Holds
<1>5. Sound(u)
  BY <1>0, <1>2, <1>3, <1>4, SoundIs
<1>6. QED
  BY <1>2, <1>5 DEF u, Became

(* removePane, of a tab that has another.                                  *)
LEMMA PaneGone ==
  ASSUME NEW m \in Nat, NEW t \in Tab(m), Sound(t), NEW pane \in ToSet(t.panes), Len(t.panes) # 1
  PROVE  LET u == WithoutPane(t, pane)
         IN  /\ u \in Tab(m) /\ Sound(u) /\ u.id = t.id /\ u.group = t.group
             /\ ToSet(u.panes) = ToSet(t.panes) \ {pane} /\ Len(u.panes) <= Len(t.panes)
<1> DEFINE rest == Except(t.panes, pane)
           grid == RemovePane(t.layout, pane)
           active == IF t.active = pane THEN rest[1] ELSE t.active
           u == WithoutPane(t, pane)
<1>1. /\ t.panes \in Seq(1 .. m) /\ t.layout \in Seq(Seq(1 .. m)) /\ t.active \in 1 .. m
      /\ t = [id |-> t.id, layout |-> t.layout, panes |-> t.panes, active |-> t.active,
              group |-> t.group, rowFr |-> t.rowFr, colFr |-> t.colFr]
  BY DEF Tab
<1>2. /\ Cells(t.layout) = ToSet(t.panes) /\ Grid(t.layout) /\ Distinct(t.panes)
      /\ t.active \in ToSet(t.panes)
  BY SoundIs
<1>3. /\ Len(t.layout) <= MaxRows /\ Len(t.panes) <= MaxPanes
      /\ \A r \in DOMAIN t.layout : Len(t.layout[r]) <= MaxCols
  BY DEF Sound, Holds
<1>4. u = With(t, grid, rest, active)
  BY <1>1 DEF WithoutPane, With
<1>5. /\ grid \in Seq(Seq(1 .. m)) /\ Grid(grid) /\ Cells(grid) = Cells(t.layout) \ {pane}
      /\ Len(grid) <= Len(t.layout)
      /\ \A k \in DOMAIN grid : \E r \in DOMAIN t.layout : Len(grid[k]) <= Len(t.layout[r])
  BY <1>1, <1>2, RemovedGrid
<1> HIDE DEF grid, u
<1>6. /\ rest \in Seq(1 .. m) /\ ToSet(rest) = ToSet(t.panes) \ {pane}
      /\ Len(rest) <= Len(t.panes) /\ Distinct(rest)
  <2> DEFINE T == ToSet(t.panes) \ {pane}
  <2>1. Once(t.panes, T)
    BY <1>2 DEF Distinct, Once
  <2>2. rest = Keep(t.panes, T)
    BY DEF Except
  <2>3. ToSet(t.panes) \cap T = ToSet(t.panes) \ {pane}
    OBVIOUS
  <2> HIDE DEF T, rest
  <2>4. KeptOf(rest, t.panes, T, 1 .. m)
    BY <1>1, <2>1, <2>2, KeptOnce
  <2>5. QED
    BY <2>3, <2>4 DEF KeptOf, Distinct
<1> HIDE DEF rest
<1>7. rest[1] \in ToSet(rest)
  <2>1. /\ \A x : x \in ToSet(t.panes) <=> \E i \in 1 .. Len(t.panes) : t.panes[i] = x
        /\ Len(t.panes) \in Nat /\ DOMAIN t.panes = 1 .. Len(t.panes)
    BY <1>1, Members
  <2>2. PICK i \in 1 .. Len(t.panes) : t.panes[i] = pane
    BY <2>1
  <2>3. PICK j \in 1 .. Len(t.panes) : j # i
    <3> DEFINE k == Len(t.panes)
    <3>0. k \in Nat /\ k # 1 /\ i \in 1 .. k
      BY <2>1, <2>2
    <3> HIDE DEF k
    <3>1. 1 \in 1 .. k /\ 2 \in 1 .. k
      BY <3>0
    <3>2. QED
      BY <3>1 DEF k
  <2>4. t.panes[j] # pane
    BY <1>2, <2>1, <2>2, <2>3 DEF Distinct
  <2>5. t.panes[j] \in ToSet(rest)
    BY <1>6, <2>1, <2>4
  <2>6. \A x : x \in ToSet(rest) <=> \E k \in 1 .. Len(rest) : rest[k] = x
    BY <1>6, Members
  <2>7. Len(rest) \in Nat /\ \E k : k \in 1 .. Len(rest)
    <3>1. PICK k \in 1 .. Len(rest) : rest[k] = t.panes[j]
      BY <2>5, <2>6
    <3>2. Len(rest) \in Nat
      BY <1>6
    <3>3. QED
      BY <3>1, <3>2
  <2>8. 1 \in 1 .. Len(rest)
    BY <2>7
  <2>9. QED
    BY <2>6, <2>8
<1>8. active \in ToSet(rest)
  BY <1>2, <1>6, <1>7
<1>9. active \in 1 .. m
  BY <1>6, <1>8, Members
<1> HIDE DEF active
<1>10. Len(rest) <= MaxPanes /\ Len(grid) <= MaxRows
  <2>1. Len(rest) \in Nat /\ Len(t.panes) \in Nat /\ Len(grid) \in Nat /\ Len(t.layout) \in Nat
    BY <1>1, <1>5, <1>6
  <2>2. QED
    BY <1>3, <1>5, <1>6, <2>1 DEF MaxPanes, MaxRows
<1>11. \A k \in DOMAIN grid : Len(grid[k]) <= MaxCols
  <2>1. ASSUME NEW k \in DOMAIN grid PROVE Len(grid[k]) <= MaxCols
    <3>1. PICK r \in DOMAIN t.layout : Len(grid[k]) <= Len(t.layout[r])
      BY <1>5
    <3>2. Len(t.layout[r]) <= MaxCols /\ Len(t.layout[r]) \in Nat
      BY <1>1, <1>3, RowsOf
    <3>3. Len(grid[k]) \in Nat
      BY <1>5, RowsOf
    <3>4. QED
      BY <3>1, <3>2, <3>3 DEF MaxCols
  <2>2. QED
    BY <2>1
<1>12. /\ u \in Tab(m) /\ Sound(u) /\ u.id = t.id /\ u.group = t.group /\ u.panes = rest
  <2>1. m <= m /\ Cells(grid) = ToSet(rest)
    BY <1>2, <1>5, <1>6
  <2>2. Agree(grid, rest, active, m)
    BY <1>5, <1>6, <1>8, <1>9, <1>10, <1>11, <2>1 DEF Agree
  <2>3. Became(With(t, grid, rest, active), t, grid, rest, m)
    BY <2>1, <2>2, WithKeeps
  <2>4. QED
    BY <1>4, <2>3 DEF Became
<1>13. QED
  BY <1>6, <1>12 DEF u

(* splitPane, where the grid takes another pane.                           *)
LEMMA PaneCame ==
  ASSUME NEW m \in Nat, NEW t \in Tab(m), Sound(t), NEW dir, NEW cols \in 2 .. MaxCols,
         NEW cap \in Nat, cap <= MaxPanes, Len(t.panes) < cap,
         InsertPane(t.layout, t.active, m + 1, dir, cols) # t.layout
  PROVE  LET u == With(t, InsertPane(t.layout, t.active, m + 1, dir, cols), Append(t.panes, m + 1), m + 1)
         IN  /\ u \in Tab(m + 1) /\ Sound(u) /\ u.id = t.id /\ u.group = t.group
             /\ ToSet(u.panes) = ToSet(t.panes) \cup {m + 1} /\ Len(u.panes) <= cap
             /\ Fits2x2(t) /\ cols = 2 => Fits2x2(u)
<1> DEFINE n == m + 1
           layout == t.layout
           grid == InsertPane(layout, t.active, n, dir, cols)
           panes == Append(t.panes, n)
           u == With(t, grid, panes, n)
<1>1. n \in Nat /\ m <= n /\ n \in 1 .. n /\ n \notin 1 .. m /\ 1 .. m \subseteq 1 .. n
  OBVIOUS
<1>2. /\ t.panes \in Seq(1 .. m) /\ t.layout \in Seq(Seq(1 .. m)) /\ Len(t.panes) \in Nat
      /\ ToSet(t.panes) \subseteq 1 .. m
      /\ \A x : x \in ToSet(t.panes) <=> \E i \in 1 .. Len(t.panes) : t.panes[i] = x
  BY Members DEF Tab
<1>3. t \in Tab(n)
  BY <1>1, LaterKeeps
<1>4. t.panes \in Seq(1 .. n) /\ t.layout \in Seq(Seq(1 .. n))
  BY <1>3 DEF Tab
<1>5. /\ Cells(t.layout) = ToSet(t.panes) /\ Grid(t.layout) /\ Distinct(t.panes)
      /\ t.active \in ToSet(t.panes)
  BY SoundIs
<1>6. /\ Len(t.layout) <= MaxRows /\ \A r \in DOMAIN t.layout : Len(t.layout[r]) <= MaxCols
  BY DEF Sound, Holds
<1> HIDE DEF n
<1>7. n \notin ToSet(t.panes)
  BY <1>1, <1>2
<1>8. /\ panes \in Seq(1 .. n) /\ Len(panes) = Len(t.panes) + 1
      /\ \A i \in 1 .. Len(t.panes) : panes[i] = t.panes[i]
      /\ panes[Len(t.panes) + 1] = n
  BY <1>1, <1>4, AppendProperties
<1> HIDE DEF panes
<1>9. /\ DOMAIN panes = 1 .. Len(panes)
      /\ \A i \in 1 .. Len(panes) : i \in 1 .. Len(t.panes) \/ i = Len(t.panes) + 1
      /\ \A i \in 1 .. Len(t.panes) : i \in 1 .. Len(panes)
      /\ Len(t.panes) + 1 \in 1 .. Len(panes)
  BY <1>2, <1>8
<1>10. ToSet(panes) = ToSet(t.panes) \cup {n}
  <2>1. \A x : x \in ToSet(panes) <=> \E i \in 1 .. Len(panes) : panes[i] = x
    BY <1>8, Members
  <2>2. ASSUME NEW x, x \in ToSet(panes) PROVE x \in ToSet(t.panes) \/ x = n
    BY <1>2, <1>8, <1>9, <2>1, <2>2
  <2>3. ASSUME NEW x, x \in ToSet(t.panes) PROVE x \in ToSet(panes)
    <3>1. PICK i \in 1 .. Len(t.panes) : t.panes[i] = x
      BY <1>2, <2>3
    <3>2. QED
      BY <1>8, <1>9, <2>1, <3>1
  <2>4. n \in ToSet(panes)
    BY <1>8, <1>9, <2>1
  <2>5. QED
    BY <2>2, <2>3, <2>4
<1>11. Distinct(panes)
  <2>1. ASSUME NEW i \in 1 .. Len(panes), NEW j \in 1 .. Len(panes), panes[i] = panes[j] PROVE i = j
    <3>1. \A k \in 1 .. Len(t.panes) : panes[k] \in ToSet(t.panes) /\ panes[k] # n
      BY <1>2, <1>7, <1>8
    <3>2. CASE i = Len(t.panes) + 1 \/ j = Len(t.panes) + 1
      BY <1>8, <1>9, <2>1, <3>1, <3>2
    <3>3. CASE i \in 1 .. Len(t.panes) /\ j \in 1 .. Len(t.panes)
      <4>1. t.panes[i] = t.panes[j] /\ DOMAIN t.panes = 1 .. Len(t.panes)
        BY <1>2, <1>8, <2>1, <3>3
      <4>2. QED
        BY <1>5, <3>3, <4>1 DEF Distinct
    <3>4. QED
      BY <1>9, <3>2, <3>3
  <2>2. QED
    BY <1>9, <2>1 DEF Distinct
<1>12. cols \in 1 .. MaxCols
  BY DEF MaxCols
<1>13. /\ grid \in Seq(Seq(1 .. n)) /\ Grid(grid) /\ Cells(grid) = Cells(layout) \cup {n}
       /\ Len(grid) <= MaxRows
       /\ \A a \in DOMAIN grid : Len(grid[a]) <= cols \/ \E b \in DOMAIN layout : grid[a] = layout[b]
  <2>1. layout \in Seq(Seq(1 .. n)) /\ Grid(layout) /\ n \notin Cells(layout) /\ t.active \in Cells(layout)
        /\ Len(layout) <= MaxRows /\ grid # layout
    BY <1>4, <1>5, <1>6, <1>7 DEF n
  <2>2. \A a \in 1 .. Len(layout) : Len(layout[a]) <= MaxCols
    BY <1>4, <1>6
  <2> DEFINE S == 1 .. n
  <2>3. n \in S /\ layout \in Seq(Seq(S))
    BY <1>1, <2>1
  <2>4. t.active \in Cells(layout) /\ Grid(layout) /\ n \notin Cells(layout) /\ Len(layout) <= MaxRows
        /\ InsertPane(layout, t.active, n, dir, cols) # layout
    BY <2>1
  <2> HIDE DEF layout, grid, S
  <2>5. TookIn(InsertPane(layout, t.active, n, dir, cols), layout, n, cols, S)
    BY <1>12, <2>2, <2>3, <2>4, InsertPaneKeeps
  <2>6. QED
    BY <2>5 DEF TookIn, grid, S
<1> HIDE DEF grid
<1>14. \A a \in DOMAIN grid : Len(grid[a]) <= MaxCols
  <2>1. ASSUME NEW a \in DOMAIN grid PROVE Len(grid[a]) <= MaxCols
    <3>1. Len(grid[a]) \in Nat
      BY <1>13, RowsOf
    <3>2. CASE Len(grid[a]) <= cols
      BY <1>12, <3>1, <3>2 DEF MaxCols
    <3>3. CASE \E b \in DOMAIN layout : grid[a] = layout[b]
      BY <1>6, <3>3
    <3>4. QED
      BY <1>13, <3>2, <3>3
  <2>2. QED
    BY <2>1
<1>15. Len(panes) <= cap /\ Len(panes) <= MaxPanes
  BY <1>2, <1>8 DEF MaxPanes
<1>16. u \in Tab(n) /\ Sound(u) /\ u.id = t.id /\ u.group = t.group /\ u.panes = panes /\ u.layout = grid
  <2>1. Cells(grid) = ToSet(panes) /\ n \in ToSet(panes)
    BY <1>5, <1>10, <1>13
  <2>2. Agree(grid, panes, n, n)
    BY <1>1, <1>8, <1>11, <1>13, <1>14, <1>15, <2>1 DEF Agree
  <2>3. Became(With(t, grid, panes, n), t, grid, panes, n)
    BY <1>1, <2>2, WithKeeps
  <2>4. QED
    BY <2>3 DEF Became
<1> HIDE DEF u
<1>17. ASSUME Fits2x2(t), cols = 2 PROVE Fits2x2(u)
  <2>1. \A a \in DOMAIN grid : Len(grid[a]) <= 2
    BY <1>13, <1>17 DEF Fits2x2
  <2>2. Len(grid) <= 2
    BY <1>13 DEF MaxRows
  <2>3. QED
    BY <1>16, <2>1, <2>2 DEF Fits2x2
<1>18. QED
  BY <1>10, <1>15, <1>16, <1>17 DEF u, n, grid, panes

(***************************************************************************)
(* What a step does to the store, in the terms of the properties: `prev`   *)
(* had m panes ever made and `s` has n; the new panes are the fresh ones.  *)
(***************************************************************************)
NoneGrows(new, old) ==
  \A i \in 1 .. Len(new), j \in 1 .. Len(old) :
     new[i].id = old[j].id => Len(new[i].panes) <= Len(old[j].panes)

Budget(new, old) ==
  \A s \in ToSet(old), t \in ToSet(new) :
     s.id = t.id /\ IsTabSplit(old) /\ Len(t.panes) > Len(s.panes)
         => Len(t.panes) <= 4 /\ (Fits2x2(s) => Fits2x2(t))

Fresh(m, n) == (m + 1) .. n

Good(s, prev, m, n) ==
  /\ StoreOK(s, n)
  /\ Budget(s.tabs, prev.tabs)
  /\ PanesOf(s.tabs) \subseteq PanesOf(prev.tabs) \cup Fresh(m, n)
  /\ Fresh(m, n) \subseteq PanesOf(s.tabs)

StillNamed(s, prev) == Named(prev) => Named(s)

(* Where no tab gets more panes the budget of a split is kept.             *)
LEMMA NoneGrowsKeeps ==
  ASSUME NEW m \in Nat, NEW n \in Nat, NEW old, Strip(old, m), NEW new, Strip(new, n), NoneGrows(new, old)
  PROVE  Budget(new, old)
<1>1. /\ \A x : x \in ToSet(old) <=> \E i \in 1 .. Len(old) : old[i] = x
      /\ \A i \in 1 .. Len(old) : old[i].panes \in Seq(1 .. m)
  <2>1. old \in Seq(Tab(m))
    BY DEF Strip
  <2>2. \A t \in Tab(m) : t.panes \in Seq(1 .. m)
    BY DEF Tab
  <2>3. \A i \in 1 .. Len(old) : old[i] \in Tab(m)
    BY <2>1
  <2>4. QED
    BY <2>1, <2>2, <2>3, Members
<1>2. /\ \A x : x \in ToSet(new) <=> \E i \in 1 .. Len(new) : new[i] = x
      /\ \A i \in 1 .. Len(new) : new[i].panes \in Seq(1 .. n)
  <2>1. new \in Seq(Tab(n))
    BY DEF Strip
  <2>2. \A t \in Tab(n) : t.panes \in Seq(1 .. n)
    BY DEF Tab
  <2>3. \A i \in 1 .. Len(new) : new[i] \in Tab(n)
    BY <2>1
  <2>4. QED
    BY <2>1, <2>2, <2>3, Members
<1>3. ASSUME NEW s \in ToSet(old), NEW t \in ToSet(new), s.id = t.id, Len(t.panes) > Len(s.panes)
      PROVE  FALSE
  <2>1. PICK j \in 1 .. Len(old) : old[j] = s
    BY <1>1
  <2>2. PICK i \in 1 .. Len(new) : new[i] = t
    BY <1>2
  <2>3. Len(t.panes) <= Len(s.panes)
    BY <1>3, <2>1, <2>2 DEF NoneGrows
  <2>4. Len(t.panes) \in Nat /\ Len(s.panes) \in Nat
    <3>1. t.panes \in Seq(1 .. n)
      BY <1>2, <2>2
    <3>2. s.panes \in Seq(1 .. m)
      BY <1>1, <2>1
    <3>3. QED
      BY <3>1, <3>2
  <2>5. QED
    BY <1>3, <2>3, <2>4
<1>4. QED
  BY <1>3 DEF Budget

(* A step that closes or regroups tabs.                                    *)
LEMMA RegroupedIsGood ==
  ASSUME NEW m \in Nat, NEW prev, StoreOK(prev, m), NEW s, StoreOK(s, m), Regrouped(s.tabs, prev.tabs)
  PROVE  Good(s, prev, m, m)
<1> DEFINE old == prev.tabs
           new == s.tabs
<1>1. Strip(old, m) /\ Strip(new, m) /\ Regrouped(new, old)
  BY DEF StoreOK
<1>2. Fresh(m, m) = {}
  BY DEF Fresh
<1> HIDE DEF old, new
<1>3. PanesOf(new) \subseteq PanesOf(old)
  BY <1>1, RegroupedPanes
<1>4. NoneGrows(new, old)
  <2>1. ASSUME NEW i \in 1 .. Len(new), NEW j \in 1 .. Len(old), new[i].id = old[j].id
        PROVE  Len(new[i].panes) <= Len(old[j].panes)
    <3>1. PICK k \in 1 .. Len(old) : new[i].id = old[k].id /\ new[i].panes = old[k].panes
      BY <1>1 DEF Regrouped
    <3>2. k = j
      BY <1>1, <2>1, <3>1 DEF Strip
    <3>3. Len(old[j].panes) \in Nat
      <4>1. old[j] \in Tab(m)
        BY <1>1, StripFacts
      <4>2. QED
        BY <4>1 DEF Tab
    <3>4. QED
      BY <3>1, <3>2, <3>3
  <2>2. QED
    BY <2>1 DEF NoneGrows
<1>5. Budget(new, old)
  BY <1>1, <1>4, NoneGrowsKeeps
<1>6. QED
  BY <1>2, <1>3, <1>5 DEF Good, old, new

\* How many panes a tab has.
LEMMA PanesCount ==
  ASSUME NEW m, NEW t \in Tab(m)
  PROVE  Len(t.panes) \in Nat
<1>1. QED
  BY DEF Tab

(* A step that adds a tab of fresh panes.                                  *)
LEMMA JoinedIsGood ==
  ASSUME NEW m \in Nat, NEW n \in Nat, m < n, NEW prev, StoreOK(prev, m), NEW s, StoreOK(s, n),
         NEW t \in Tab(n), Joined(s.tabs, prev.tabs, t), t.id = m + 1, ToSet(t.panes) = Fresh(m, n)
  PROVE  Good(s, prev, m, n) /\ NoneGrows(s.tabs, prev.tabs)
         /\ TabIds(prev.tabs) \subseteq TabIds(s.tabs)
         /\ (IsTabSplit(prev.tabs) => IsTabSplit(s.tabs))
<1> DEFINE old == prev.tabs
           new == s.tabs
<1>1. Strip(old, m) /\ Strip(new, n) /\ Joined(new, old, t) /\ m <= n
  BY DEF StoreOK
<1> HIDE DEF old, new
<1>2. /\ TabIds(new) = TabIds(old) \cup {t.id} /\ PanesOf(new) = PanesOf(old) \cup ToSet(t.panes)
      /\ IsTabSplit(new) <=> IsTabSplit(old) \/ t.group = 1
  BY <1>1, JoinedFacts
<1>3. NoneGrows(new, old)
  <2>1. ASSUME NEW i \in 1 .. Len(new), NEW j \in 1 .. Len(old), new[i].id = old[j].id
        PROVE  Len(new[i].panes) <= Len(old[j].panes)
    <3>1. old[j] \in Tab(m) /\ old[j].id \in 1 .. m
      BY <1>1, StripFacts
    <3>2. new[i] # t
      BY <2>1, <3>1
    <3>3. PICK k \in 1 .. Len(old) : new[i] = old[k]
      BY <1>1, <3>2 DEF Joined
    <3>4. k = j
      BY <1>1, <2>1, <3>3 DEF Strip
    <3>5. Len(old[j].panes) \in Nat
      BY <3>1, PanesCount
    <3>6. QED
      BY <3>3, <3>4, <3>5
  <2>2. QED
    BY <2>1 DEF NoneGrows
<1>4. Budget(new, old)
  BY <1>1, <1>3, NoneGrowsKeeps
<1>5. QED
  BY <1>2, <1>3, <1>4 DEF Good, old, new

\* A change of order, side or focus is a good step.
LEMMA SameTabsIsGood ==
  ASSUME NEW m \in Nat, NEW prev, StoreOK(prev, m), NEW s, StoreOK(s, m), SameTabs(s, prev)
  PROVE  Good(s, prev, m, m) /\ PanesOf(s.tabs) = PanesOf(prev.tabs)
<1> DEFINE old == prev.tabs
           new == s.tabs
<1>1. Strip(old, m) /\ Strip(new, m) /\ Regrouped(new, old) /\ TabIds(new) = TabIds(old)
  BY DEF StoreOK, SameTabs
<1> HIDE DEF old, new
<1>2. PanesOf(new) = PanesOf(old)
  BY <1>1, RegroupedPanes
<1>3. Good(s, prev, m, m)
  BY <1>1, RegroupedIsGood DEF old, new
<1>4. QED
  BY <1>2, <1>3 DEF old, new

(* Closing: tabs by name, those to the right, or none.                     *)
LEMMA WithoutIsGood ==
  ASSUME NEW m \in Nat, NEW prev, StoreOK(prev, m), NEW ids
  PROVE  LET s == Without(prev, ids)
         IN  /\ Good(s, prev, m, m) /\ Named(s) /\ TabIds(s.tabs) = TabIds(prev.tabs) \ ids
             /\ Regrouped(s.tabs, prev.tabs)
<1> DEFINE s == Without(prev, ids)
<1>1. StoreOK(s, m) /\ Named(s) /\ Regrouped(s.tabs, prev.tabs) /\ TabIds(s.tabs) = TabIds(prev.tabs) \ ids
  BY WithoutKeeps
<1> HIDE DEF s
<1>2. Good(s, prev, m, m)
  BY <1>1, RegroupedIsGood
<1>3. QED
  BY <1>1, <1>2 DEF s

\* closeTabsToRight is a good step.
LEMMA CloseRightIsGood ==
  ASSUME NEW m \in Nat, NEW prev, StoreOK(prev, m), NEW id
  PROVE  LET s == CloseTabsToRight(prev, id) IN Good(s, prev, m, m) /\ Named(s)
<1> DEFINE s == CloseTabsToRight(prev, id)
<1>1. StoreOK(s, m) /\ Named(s) /\ Regrouped(s.tabs, prev.tabs)
  BY CloseRightKeeps
<1> HIDE DEF s
<1>2. Good(s, prev, m, m)
  BY <1>1, RegroupedIsGood
<1>3. QED
  BY <1>1, <1>2 DEF s

(* A store whose tabs are the same.                                        *)
LEMMA StayIsGood ==
  ASSUME NEW m \in Nat, NEW prev, StoreOK(prev, m), NEW s, StoreOK(s, m), s.tabs = prev.tabs
  PROVE  Good(s, prev, m, m)
<1>1. Strip(prev.tabs, m)
  BY DEF StoreOK
<1>2. Regrouped(s.tabs, prev.tabs)
  BY <1>1, Same
<1>3. QED
  BY <1>2, RegroupedIsGood

\* setActiveTab is a good step.
LEMMA SetActiveIsGood ==
  ASSUME NEW m \in Nat, NEW prev, StoreOK(prev, m), NEW id
  PROVE  LET s == SetActiveTab(prev, id)
         IN  Good(s, prev, m, m) /\ StillNamed(s, prev) /\ s.tabs = prev.tabs
<1> DEFINE s == SetActiveTab(prev, id)
<1>1. StoreOK(s, m) /\ (Named(prev) => Named(s)) /\ s.tabs = prev.tabs
  BY SetActiveKeeps
<1> HIDE DEF s
<1>2. Good(s, prev, m, m)
  BY <1>1, StayIsGood
<1>3. QED
  BY <1>1, <1>2 DEF s, StillNamed

(* Good is about the tabs, so a step after a choice of the focus is one    *)
(* from before it.                                                         *)
LEMMA AfterChoice ==
  ASSUME NEW m \in Nat, NEW n \in Nat, NEW prev, NEW mid, NEW s,
         mid.tabs = prev.tabs, Good(s, mid, m, n), StillNamed(mid, prev), StillNamed(s, mid)
  PROVE  Good(s, prev, m, n) /\ StillNamed(s, prev)
<1>1. QED
  BY DEF Good, StillNamed

(* Opening a tab: at a place, or in the focused group. Every tab stays.    *)
AllStay(new, old) ==
  \A j \in 1 .. Len(old) : \E i \in 1 .. Len(new) : new[i].id = old[j].id /\ new[i].panes = old[j].panes

Opened(s, prev, m, n) ==
  /\ Good(s, prev, m, n) /\ StillNamed(s, prev) /\ NoneGrows(s.tabs, prev.tabs)
  /\ AllStay(s.tabs, prev.tabs)
  /\ IsTabSplit(prev.tabs) => IsTabSplit(s.tabs)

\* A strip joined by the tab of the new panes.
LEMMA JoinedIsOpened ==
  ASSUME NEW m \in Nat, NEW n \in Nat, m < n, NEW prev, StoreOK(prev, m), NEW s, StoreOK(s, n),
         Named(prev) => Named(s),
         NEW t \in Tab(n), Joined(s.tabs, prev.tabs, t), t.id = m + 1, ToSet(t.panes) = Fresh(m, n)
  PROVE  Opened(s, prev, m, n)
<1>1. /\ Good(s, prev, m, n) /\ NoneGrows(s.tabs, prev.tabs)
      /\ (IsTabSplit(prev.tabs) => IsTabSplit(s.tabs))
  BY JoinedIsGood
<1>2. AllStay(s.tabs, prev.tabs)
  BY DEF Joined, AllStay
<1>3. QED
  BY <1>1, <1>2 DEF Opened, StillNamed

\* newTab opens a tab.
LEMMA NewTabIsGood ==
  ASSUME NEW m \in Nat, NEW prev, StoreOK(prev, m), NEW g \in Groups, NEW after,
         g = 0 \/ IsTabSplit(prev.tabs)
  PROVE  Opened(NewTab(prev, m + 1, g, after), prev, m, m + 1)
<1> DEFINE s == NewTab(prev, m + 1, g, after)
           n == m + 1
<1>1. /\ StoreOK(s, n) /\ (Named(prev) => Named(s))
      /\ \E t \in Tab(n) : Joined(s.tabs, prev.tabs, t) /\ t.id = m + 1 /\ ToSet(t.panes) = {m + 1}
  BY NewTabKeeps
<1>2. n \in Nat /\ m < n /\ Fresh(m, n) = {m + 1}
  BY DEF Fresh
<1> HIDE DEF s, n
<1>3. PICK t \in Tab(n) : Joined(s.tabs, prev.tabs, t) /\ t.id = m + 1 /\ ToSet(t.panes) = Fresh(m, n)
  BY <1>1, <1>2
<1>4. Opened(s, prev, m, n)
  BY <1>1, <1>2, <1>3, JoinedIsOpened
<1>5. QED
  BY <1>4 DEF s, n

\* adoptTab opens the tab it is given.
LEMMA AdoptIsGood ==
  ASSUME NEW m \in Nat, NEW prev, StoreOK(prev, m), NEW t,
         t = [id |-> m + 1, layout |-> << <<m + 1, m + 2>> >>, panes |-> <<m + 1, m + 2>>,
              active |-> m + 1, group |-> 0, rowFr |-> <<>>, colFr |-> <<>>]
  PROVE  Opened(AdoptTab(prev, t), prev, m, m + 2)
<1> DEFINE s == AdoptTab(prev, t)
           n == m + 2
           p == m + 1
<1>1. n \in Nat /\ m < n /\ p \in 1 .. n /\ n \in 1 .. n /\ p # n /\ Fresh(m, n) = {p, n}
  BY DEF Fresh
<1>2. t.group = 0 /\ t.id = p
  OBVIOUS
<1>3. t = [id |-> p, layout |-> << <<p, n>> >>, panes |-> <<p, n>>, active |-> p, group |-> 0,
           rowFr |-> <<>>, colFr |-> <<>>]
  OBVIOUS
<1> HIDE DEF n, p
<1>4. t \in Tab(n) /\ Sound(t) /\ ToSet(t.panes) = {p, n}
  BY <1>1, <1>3, TornTab
<1>5. StoreOK(s, n) /\ (Named(prev) => Named(s)) /\ Joined(s.tabs, prev.tabs, t)
  BY <1>2, <1>4, AdoptKeeps DEF n, p
<1> HIDE DEF s
<1>6. Opened(s, prev, m, n)
  BY <1>1, <1>2, <1>4, <1>5, JoinedIsOpened DEF p
<1>7. QED
  BY <1>6 DEF s, n

\* The group of the focused tab is a group.
LEMMA FocusedGroupFacts ==
  ASSUME NEW m \in Nat, NEW prev, StoreOK(prev, m)
  PROVE  FocusedGroup(prev) \in Groups /\ (FocusedGroup(prev) = 0 \/ IsTabSplit(prev.tabs))
<1> DEFINE tabs == prev.tabs
<1>1. Strip(tabs, m)
  BY DEF StoreOK
<1> HIDE DEF tabs
<1>2. ASSUME NEW id \in TabIds(tabs)
      PROVE  GroupOf(tabs, id) \in Groups /\ (GroupOf(tabs, id) = 0 \/ IsTabSplit(tabs))
  <2>1. PICK i \in 1 .. Len(tabs) : tabs[i].id = id
    BY <1>1, StripFacts
  <2>2. GroupOf(tabs, id) = tabs[i].group /\ tabs[i].group \in Groups
    BY <1>1, <2>1, StripFacts
  <2>3. tabs[i].group = 1 => IsTabSplit(tabs)
    BY <1>1, StripFacts
  <2>4. QED
    BY <2>2, <2>3 DEF Groups
<1>3. CASE prev.activeTabId \in TabIds(tabs)
  BY <1>2, <1>3 DEF FocusedGroup, tabs
<1>4. CASE prev.activeTabId \notin TabIds(tabs)
  BY <1>4 DEF FocusedGroup, tabs, Groups
<1>5. QED
  BY <1>3, <1>4

\* Opening a tab in the focused group.
LEMMA OpenOneIsGood ==
  ASSUME NEW m \in Nat, NEW prev, StoreOK(prev, m)
  PROVE  Opened(OpenOne(prev, m + 1), prev, m, m + 1)
<1> DEFINE g == FocusedGroup(prev)
<1>1. g \in Groups /\ (g = 0 \/ IsTabSplit(prev.tabs))
  BY FocusedGroupFacts
<1>2. OpenOne(prev, m + 1) = NewTab(prev, m + 1, g, NoTab)
  BY DEF OpenOne
<1> HIDE DEF g
<1>3. QED
  BY <1>1, <1>2, NewTabIsGood

(* Two of them, when the tabs of the last time are opened again.           *)
LEMMA OpenTwoIsGood ==
  ASSUME NEW m \in Nat, NEW prev, StoreOK(prev, m)
  PROVE  Opened(OpenOne(OpenOne(prev, m + 1), m + 2), prev, m, m + 2)
<1> DEFINE k == m + 1
           n == m + 2
           mid == OpenOne(prev, k)
           s == OpenOne(mid, n)
<1>1. Opened(mid, prev, m, k)
  BY OpenOneIsGood
<1>2. k \in Nat /\ n \in Nat /\ n = k + 1
  OBVIOUS
<1>3. Fresh(m, n) = Fresh(m, k) \cup Fresh(k, n)
  BY DEF Fresh
<1> HIDE DEF mid, k
<1>4. StoreOK(mid, k)
  BY <1>1 DEF Good, Opened
<1>5. Opened(s, mid, k, n)
  <2>1. Opened(OpenOne(mid, k + 1), mid, k, k + 1)
    BY <1>2, <1>4, OpenOneIsGood
  <2>2. QED
    BY <1>2, <2>1
<1> HIDE DEF s, n
<1>6. StoreOK(s, n)
  BY <1>5 DEF Good, Opened
<1> DEFINE a == prev.tabs
           b == mid.tabs
           c == s.tabs
<1>7. Strip(a, m) /\ Strip(b, k) /\ Strip(c, n)
  BY <1>4, <1>6 DEF StoreOK
<1>8. NoneGrows(b, a) /\ NoneGrows(c, b) /\ AllStay(b, a) /\ AllStay(c, b)
  BY <1>1, <1>5 DEF Opened
<1>9. /\ PanesOf(b) \subseteq PanesOf(a) \cup Fresh(m, k) /\ Fresh(m, k) \subseteq PanesOf(b)
      /\ PanesOf(c) \subseteq PanesOf(b) \cup Fresh(k, n) /\ Fresh(k, n) \subseteq PanesOf(c)
  BY <1>1, <1>5 DEF Good, Opened
<1> HIDE DEF a, b, c
<1>10. NoneGrows(c, a)
  <2>1. ASSUME NEW i \in 1 .. Len(c), NEW j \in 1 .. Len(a), c[i].id = a[j].id
        PROVE  Len(c[i].panes) <= Len(a[j].panes)
    <3>1. PICK h \in 1 .. Len(b) : b[h].id = a[j].id
      BY <1>8 DEF AllStay
    <3>2. Len(c[i].panes) <= Len(b[h].panes) /\ Len(b[h].panes) <= Len(a[j].panes)
      BY <1>8, <2>1, <3>1 DEF NoneGrows
    <3>3. /\ Len(c[i].panes) \in Nat /\ Len(b[h].panes) \in Nat /\ Len(a[j].panes) \in Nat
      <4>1. n \in Nat
        BY DEF n
      <4>2. c[i] \in Tab(n)
        BY <1>7, <4>1, StripFacts
      <4>3. b[h] \in Tab(k)
        BY <1>2, <1>7, StripFacts
      <4>4. a[j] \in Tab(m)
        BY <1>7, StripFacts
      <4>5. QED
        BY <4>2, <4>3, <4>4, PanesCount
    <3>4. QED
      <4> DEFINE x == Len(c[i].panes)
                 y == Len(b[h].panes)
                 z == Len(a[j].panes)
      <4>1. x <= y /\ y <= z /\ x \in Nat /\ y \in Nat /\ z \in Nat
        BY <3>2, <3>3
      <4> HIDE DEF x, y, z
      <4>2. x <= z
        BY <4>1
      <4>3. QED
        BY <4>2 DEF x, z
  <2>2. QED
    BY <2>1 DEF NoneGrows
<1>11. Budget(c, a)
  BY <1>2, <1>7, <1>10, NoneGrowsKeeps
<1>12. AllStay(c, a)
  <2>1. ASSUME NEW j \in 1 .. Len(a)
        PROVE  \E i \in 1 .. Len(c) : c[i].id = a[j].id /\ c[i].panes = a[j].panes
    <3>1. PICK h \in 1 .. Len(b) : b[h].id = a[j].id /\ b[h].panes = a[j].panes
      BY <1>8 DEF AllStay
    <3>2. PICK i \in 1 .. Len(c) : c[i].id = b[h].id /\ c[i].panes = b[h].panes
      BY <1>8 DEF AllStay
    <3>3. QED
      BY <3>1, <3>2
  <2>2. QED
    BY <2>1 DEF AllStay
<1>13. Fresh(m, k) \subseteq PanesOf(c)
  <2>1. ASSUME NEW p \in Fresh(m, k) PROVE p \in PanesOf(c)
    <3>1. PICK h \in 1 .. Len(b) : p \in ToSet(b[h].panes)
      BY <1>2, <1>7, <1>9, StripFacts
    <3>2. PICK i \in 1 .. Len(c) : c[i].panes = b[h].panes
      BY <1>8 DEF AllStay
    <3>3. QED
      BY <1>2, <1>7, <3>1, <3>2, StripFacts
  <2>2. QED
    BY <2>1
<1>14. QED
  BY <1>1, <1>3, <1>5, <1>6, <1>9, <1>10, <1>11, <1>12, <1>13
     DEF Good, StillNamed, Opened, a, b, c, s, n, mid, k

(* A step that changes one tab.                                            *)
Altered(t, old, split, m, n) ==
  /\ t \in Tab(n) /\ Sound(t) /\ t.id = old.id /\ t.group = old.group
  /\ ToSet(t.panes) \subseteq ToSet(old.panes) \cup Fresh(m, n)
  /\ Fresh(m, n) \subseteq ToSet(t.panes)
  /\ split /\ Len(t.panes) > Len(old.panes) => Len(t.panes) <= 4 /\ (Fits2x2(old) => Fits2x2(t))

\* The store with one tab altered within the budget.
LEMMA AlteredIsGood ==
  ASSUME NEW m \in Nat, NEW n \in Nat, m <= n, NEW prev, StoreOK(prev, m), NEW i \in 1 .. Len(prev.tabs),
         NEW t, Altered(t, prev.tabs[i], IsTabSplit(prev.tabs), m, n)
  PROVE  LET s == [prev EXCEPT !.tabs[i] = t]
         IN  Good(s, prev, m, n) /\ StillNamed(s, prev) /\ Changed(s.tabs, prev.tabs, i, t)
<1> DEFINE s == [prev EXCEPT !.tabs[i] = t]
           a == prev.tabs
           b == s.tabs
           split == IsTabSplit(prev.tabs)
<1>1. /\ t \in Tab(n) /\ Sound(t) /\ t.id = a[i].id /\ t.group = a[i].group
      /\ ToSet(t.panes) \subseteq ToSet(a[i].panes) \cup Fresh(m, n)
      /\ Fresh(m, n) \subseteq ToSet(t.panes)
      /\ split /\ Len(t.panes) > Len(a[i].panes) => Len(t.panes) <= 4 /\ (Fits2x2(a[i]) => Fits2x2(t))
  BY DEF Altered
<1>2. \A p \in Fresh(m, n) : p \notin 1 .. m
  BY DEF Fresh
<1>3. \A p \in ToSet(t.panes) : p \in ToSet(a[i].panes) \/ p \notin 1 .. m
  BY <1>1, <1>2
<1>4. /\ StoreOK(s, n) /\ (Named(prev) => Named(s)) /\ Changed(b, a, i, t)
      /\ PanesOf(b) = (PanesOf(a) \ ToSet(a[i].panes)) \cup ToSet(t.panes)
  <2>1. t.id = prev.tabs[i].id /\ t.group = prev.tabs[i].group
    BY <1>1
  <2>2. \A p \in ToSet(t.panes) : p \in ToSet(prev.tabs[i].panes) \/ p \notin 1 .. m
    BY <1>3
  <2>3. t \in Tab(n) /\ Sound(t)
    BY <1>1
  <2> HIDE DEF split
  <2>4. Replaced([prev EXCEPT !.tabs[i] = t], prev, i, t, n)
    BY <2>1, <2>2, <2>3, ChangeKeeps
  <2>5. QED
    BY <2>4 DEF Replaced
<1> HIDE DEF s
<1>5. Strip(a, m) /\ Strip(b, n)
  BY <1>4 DEF StoreOK
<1>6. i \in 1 .. Len(a)
  OBVIOUS
<1> HIDE DEF a, b, split
<1>7. ToSet(a[i].panes) \subseteq PanesOf(a)
  BY <1>5, <1>6, StripFacts
<1>8. Budget(b, a)
  <2>1. ASSUME NEW o \in ToSet(a), NEW u \in ToSet(b), o.id = u.id, split, Len(u.panes) > Len(o.panes)
        PROVE  Len(u.panes) <= 4 /\ (Fits2x2(o) => Fits2x2(u))
    <3>1. a \in Seq(Tab(m)) /\ b \in Seq(Tab(n))
      BY <1>5 DEF Strip
    <3>2. PICK j \in 1 .. Len(a) : a[j] = o
      BY <3>1, Members
    <3>3. PICK k \in 1 .. Len(b) : b[k] = u
      BY <3>1, Members
    <3>4. Len(b) = Len(a) /\ b[k] = IF k = i THEN t ELSE a[k]
      BY <1>4, <3>3 DEF Changed
    <3>5. k = j
      <4>1. k \in 1 .. Len(a) /\ a[k].id = a[j].id
        BY <1>1, <2>1, <3>2, <3>3, <3>4
      <4>2. QED
        BY <1>5, <4>1 DEF Strip
    <3>6. CASE j = i
      BY <1>1, <2>1, <3>2, <3>3, <3>4, <3>5, <3>6
    <3>7. CASE j # i
      <4>1. u = o /\ o \in Tab(m)
        BY <1>5, <3>2, <3>3, <3>4, <3>5, <3>7, StripFacts
      <4>2. Len(o.panes) \in Nat
        BY <4>1, PanesCount
      <4>3. QED
        BY <2>1, <4>1, <4>2
    <3>8. QED
      BY <3>6, <3>7
  <2>2. QED
    BY <2>1 DEF Budget, split, a
<1>9. PanesOf(b) \subseteq PanesOf(a) \cup Fresh(m, n) /\ Fresh(m, n) \subseteq PanesOf(b)
  BY <1>1, <1>4, <1>7
<1>10. QED
  BY <1>4, <1>8, <1>9 DEF Good, StillNamed, s, a, b

(* splitPane, if it does anything.                                         *)
LEMMA SplitIsGood ==
  ASSUME NEW m \in Nat, NEW prev, StoreOK(prev, m), NEW id \in TabIds(prev.tabs), NEW dir,
         SplitTab(prev, id, m + 1, dir) # prev
  PROVE  LET s == SplitTab(prev, id, m + 1, dir)
         IN  Good(s, prev, m, m + 1) /\ StillNamed(s, prev)
<1> DEFINE n == m + 1
           tabs == prev.tabs
           i == PosOf(tabs, id)
           t == TabOf(tabs, id)
           cols == MaxColsFor(tabs)
           cap == MaxPanesFor(tabs)
           layout == InsertPane(t.layout, t.active, n, dir, cols)
           panes == Append(t.panes, n)
           u == With(t, layout, panes, n)
           s == SplitTab(prev, id, n, dir)
<1>1. Strip(tabs, m) /\ tabs \in Seq(Tab(m))
  BY DEF StoreOK, Strip
<1>2. i \in 1 .. Len(tabs) /\ t = tabs[i]
  BY <1>1, PosOfFacts
<1>3. t \in Tab(m) /\ Sound(t) /\ Len(t.panes) \in Nat
  <2>1. t \in Tab(m) /\ Sound(t)
    BY <1>1, <1>2 DEF Strip
  <2>2. QED
    BY <2>1, PanesCount
<1>4. /\ cols \in 2 .. MaxCols /\ cap \in Nat /\ cap <= MaxPanes
      /\ IsTabSplit(tabs) => cols = 2 /\ cap = 4
  BY DEF MaxColsFor, MaxPanesFor, MaxCols, MaxPanes
<1>5. ~ (Len(t.panes) >= cap) /\ layout # t.layout
  BY DEF SplitTab
<1>6. s = [prev EXCEPT !.tabs[i] = u]
  BY <1>5 DEF SplitTab, With
<1>7. n \in Nat /\ m <= n /\ Fresh(m, n) = {n}
  BY DEF Fresh
<1> HIDE DEF s, i, t, cols, cap
<1>8. Len(t.panes) < cap
  BY <1>3, <1>4, <1>5
<1>9. InsertPane(t.layout, t.active, m + 1, dir, cols) # t.layout
  BY <1>5
<1>10. /\ u \in Tab(n) /\ Sound(u) /\ u.id = t.id /\ u.group = t.group
       /\ ToSet(u.panes) = ToSet(t.panes) \cup {n} /\ Len(u.panes) <= cap
       /\ Fits2x2(t) /\ cols = 2 => Fits2x2(u)
  BY <1>3, <1>4, <1>8, <1>9, PaneCame
<1> HIDE DEF u, n
<1>11. Altered(u, t, IsTabSplit(tabs), m, n)
  BY <1>4, <1>7, <1>10 DEF Altered
<1>12. Good(s, prev, m, n) /\ StillNamed(s, prev)
  <2>1. Altered(u, prev.tabs[i], IsTabSplit(prev.tabs), m, n) /\ i \in 1 .. Len(prev.tabs)
    BY <1>2, <1>11
  <2>2. QED
    BY <1>6, <1>7, <2>1, AlteredIsGood
<1>13. QED
  BY <1>12 DEF s, n

(* closePane, with its tab when it is the last one.                        *)
LEMMA ClosePaneIsGood ==
  ASSUME NEW m \in Nat, NEW prev, StoreOK(prev, m), NEW id \in TabIds(prev.tabs),
         NEW pane \in ToSet(TabOf(prev.tabs, id).panes)
  PROVE  LET s == ClosePaneOf(prev, id, pane)
         IN  Good(s, prev, m, m) /\ StillNamed(s, prev)
<1> DEFINE tabs == prev.tabs
           i == PosOf(tabs, id)
           s == ClosePaneOf(prev, id, pane)
<1>1. Strip(tabs, m) /\ tabs \in Seq(Tab(m))
  BY DEF StoreOK, Strip
<1>2. i \in 1 .. Len(tabs) /\ TabOf(tabs, id) = tabs[i]
  BY <1>1, PosOfFacts
<1>3. tabs[i] \in Tab(m) /\ Sound(tabs[i])
  BY <1>1, <1>2 DEF Strip
<1>4. CASE Len(tabs[i].panes) = 1
  <2>1. s = Without(prev, {id})
    BY <1>4 DEF ClosePaneOf
  <2>2. QED
    BY <2>1, WithoutIsGood DEF StillNamed
<1>5. CASE Len(tabs[i].panes) # 1
  <2> DEFINE t == tabs[i]
             u == WithoutPane(t, pane)
  <2>1. s = [prev EXCEPT !.tabs[i] = u]
    BY <1>5 DEF ClosePaneOf
  <2>2. t \in Tab(m) /\ Sound(t) /\ pane \in ToSet(t.panes) /\ Len(t.panes) # 1 /\ Len(t.panes) \in Nat
    <3>1. Len(t.panes) \in Nat
      BY <1>3, PanesCount
    <3>2. QED
      BY <1>2, <1>3, <1>5, <3>1
  <2> HIDE DEF t
  <2>3. /\ u \in Tab(m) /\ Sound(u) /\ u.id = t.id /\ u.group = t.group
        /\ ToSet(u.panes) = ToSet(t.panes) \ {pane} /\ Len(u.panes) <= Len(t.panes)
    BY <2>2, PaneGone
  <2>4. Fresh(m, m) = {} /\ m <= m
    BY DEF Fresh
  <2> HIDE DEF u
  <2>5. ~ (Len(u.panes) > Len(t.panes))
    <3>1. Len(u.panes) \in Nat
      BY <2>3, PanesCount
    <3>2. QED
      BY <2>2, <2>3, <3>1
  <2>6. Altered(u, t, IsTabSplit(tabs), m, m)
    BY <2>3, <2>4, <2>5 DEF Altered
  <2>7. Altered(u, prev.tabs[i], IsTabSplit(prev.tabs), m, m) /\ i \in 1 .. Len(prev.tabs)
    BY <1>2, <2>6 DEF t
  <2> HIDE DEF i, s
  <2>8. Good(s, prev, m, m) /\ StillNamed(s, prev)
    BY <2>1, <2>4, <2>7, AlteredIsGood
  <2>9. QED
    BY <2>8 DEF s
<1>6. QED
  BY <1>4, <1>5

(* What a tab becomes without new panes.                                   *)
LEMMA SamePanes ==
  ASSUME NEW m \in Nat, NEW t \in Tab(m), Sound(t), NEW u \in Tab(m), Sound(u), NEW split \in BOOLEAN,
         u.id = t.id, u.group = t.group, u.panes = t.panes
  PROVE  Altered(u, t, split, m, m)
<1>1. Fresh(m, m) = {}
  BY DEF Fresh
<1>2. Len(t.panes) \in Nat
  BY PanesCount
<1>3. ~ (Len(u.panes) > Len(t.panes))
  BY <1>2
<1>4. QED
  BY <1>1, <1>3 DEF Altered

(* A press in a pane makes it the active one of its tab.                   *)
LEMMA ActivateIsGood ==
  ASSUME NEW m \in Nat, NEW prev, StoreOK(prev, m), NEW id \in TabIds(prev.tabs),
         NEW pane \in ToSet(TabOf(prev.tabs, id).panes)
  PROVE  LET s == [prev EXCEPT !.tabs[PosOf(prev.tabs, id)].active = pane]
         IN  Good(s, prev, m, m) /\ StillNamed(s, prev)
<1> DEFINE tabs == prev.tabs
           i == PosOf(tabs, id)
           t == tabs[i]
           u == With(t, t.layout, t.panes, pane)
           s == [prev EXCEPT !.tabs[PosOf(prev.tabs, id)].active = pane]
           split == IsTabSplit(tabs)
<1>1. Strip(tabs, m) /\ tabs \in Seq(Tab(m))
  BY DEF StoreOK, Strip
<1>2. i \in 1 .. Len(tabs) /\ TabOf(tabs, id) = t
  BY <1>1, PosOfFacts
<1>3. t \in Tab(m) /\ Sound(t) /\ pane \in ToSet(t.panes)
  BY <1>1, <1>2 DEF Strip
<1>4. s = [prev EXCEPT !.tabs[i] = u]
  <2>1. u = [t EXCEPT !.active = pane]
    BY <1>3 DEF With, Tab
  <2>2. QED
    BY <2>1
<1> HIDE DEF i, t, s
<1>5. /\ t.panes \in Seq(1 .. m) /\ t.layout \in Seq(Seq(1 .. m))
  BY <1>3 DEF Tab
<1>6. pane \in 1 .. m
  BY <1>3, <1>5, Members
<1>7. /\ Cells(t.layout) = ToSet(t.panes) /\ Grid(t.layout) /\ Distinct(t.panes)
  BY <1>3, SoundIs
<1>8. /\ Len(t.layout) <= MaxRows /\ Len(t.panes) <= MaxPanes
      /\ \A r \in DOMAIN t.layout : Len(t.layout[r]) <= MaxCols
  BY <1>3 DEF Sound, Holds
<1>9. Agree(t.layout, t.panes, pane, m)
  BY <1>3, <1>5, <1>6, <1>7, <1>8 DEF Agree
<1>10. m <= m
  OBVIOUS
<1>11. Became(u, t, t.layout, t.panes, m)
  BY <1>3, <1>9, <1>10, WithKeeps
<1> HIDE DEF u
<1>12. u \in Tab(m) /\ Sound(u) /\ u.id = t.id /\ u.group = t.group /\ u.panes = t.panes
  BY <1>11 DEF Became
<1>13. Altered(u, t, split, m, m)
  <2>1. split \in BOOLEAN
    BY DEF IsTabSplit
  <2> HIDE DEF split
  <2>2. QED
    BY <1>3, <1>12, <2>1, SamePanes
<1>14. Altered(u, prev.tabs[i], IsTabSplit(prev.tabs), m, m) /\ i \in 1 .. Len(prev.tabs)
  BY <1>2, <1>13 DEF t
<1>15. Good(s, prev, m, m) /\ StillNamed(s, prev)
  BY <1>4, <1>10, <1>14, AlteredIsGood
<1>16. QED
  BY <1>15 DEF s

(***************************************************************************)
(* Sizes.                                                                  *)
(***************************************************************************)

\* Shares that fill a tab, and are whole numbers of it.
Filled(fr) == fr \in Seq(1 .. Whole) /\ Fills(fr)

\* Shares that fill a tab, spelled out.
LEMMA FilledIs ==
  ASSUME NEW fr
  PROVE  Filled(fr) <=> /\ fr \in Seq(1 .. Whole) /\ Len(fr) \in 1 .. 3
                        /\ fr[1] + (IF Len(fr) > 1 THEN fr[2] ELSE 0) + (IF Len(fr) > 2 THEN fr[3] ELSE 0) = 60
                        /\ \A i \in 1 .. Len(fr) : fr[i] >= 9
<1>1. ASSUME fr \in Seq(1 .. Whole) PROVE DOMAIN fr = 1 .. Len(fr)
  BY <1>1
<1>2. QED
  BY <1>1 DEF Filled, Fills, Total, Whole, MinFr, MaxCols

(* Equal shares, of one, two or three.                                     *)
LEMMA EqualFilled ==
  ASSUME NEW n \in 1 .. 3, NEW c \in 9 .. 60, n * c = 60, NEW fr, fr = [i \in 1 .. n |-> c]
  PROVE  Filled(fr) /\ Len(fr) = n
<1>1. fr \in [1 .. n -> 1 .. Whole]
  BY DEF Whole
<1>2. n \in Nat
  OBVIOUS
<1>3. fr \in Seq(1 .. Whole) /\ Len(fr) = n
  <2> DEFINE S == 1 .. Whole
  <2> HIDE DEF S
  <2>1. fr \in Seq(S) /\ Len(fr) = n
    BY <1>1, <1>2 DEF S
  <2>2. QED
    BY <2>1 DEF S
<1>4. \A i \in 1 .. n : fr[i] = c
  OBVIOUS
<1>5. fr[1] + (IF Len(fr) > 1 THEN fr[2] ELSE 0) + (IF Len(fr) > 2 THEN fr[3] ELSE 0) = 60
  <2>1. n = 1 \/ n = 2 \/ n = 3
    OBVIOUS
  <2>2. CASE n = 1
    <3>1. Len(fr) = 1 /\ fr[1] = c /\ c = 60
      BY <1>3, <1>4, <2>2
    <3>2. QED
      BY <3>1
  <2>3. CASE n = 2
    <3>1. Len(fr) = 2 /\ fr[1] = c /\ fr[2] = c /\ c + c = 60
      BY <1>3, <1>4, <2>3
    <3>2. QED
      BY <3>1
  <2>4. CASE n = 3
    <3>1. Len(fr) = 3 /\ fr[1] = c /\ fr[2] = c /\ fr[3] = c /\ c + c + c = 60
      BY <1>3, <1>4, <2>4
    <3>2. QED
      BY <3>1
  <2>5. QED
    BY <2>1, <2>2, <2>3, <2>4
<1>6. Len(fr) \in 1 .. 3 /\ \A i \in 1 .. Len(fr) : fr[i] >= 9
  BY <1>3, <1>4
<1>7. fr \in Seq(1 .. Whole)
  BY <1>3
<1> DEFINE s == fr
<1> HIDE DEF s
<1>8. Filled(s)
  BY <1>5, <1>6, <1>7, FilledIs DEF s
<1>9. QED
  BY <1>3, <1>8 DEF s

\* Equal shares fill a tab.
LEMMA EqualShares ==
  ASSUME NEW n \in 1 .. 3
  PROVE  Filled([i \in 1 .. n |-> Whole \div n]) /\ Len([i \in 1 .. n |-> Whole \div n]) = n
<1> DEFINE c == Whole \div n
           fr == [i \in 1 .. n |-> c]
<1>1. n = 1 \/ n = 2 \/ n = 3
  OBVIOUS
<1>2. c \in 9 .. 60 /\ n * c = 60
  <2>1. CASE n = 1
    BY <2>1 DEF Whole
  <2>2. CASE n = 2
    BY <2>2 DEF Whole
  <2>3. CASE n = 3
    BY <2>3 DEF Whole
  <2>4. QED
    BY <1>1, <2>1, <2>2, <2>3
<1> HIDE DEF c
<1>3. QED
  BY <1>2, EqualFilled DEF c

(* The shares in use: the stored ones if there are as many as are wanted.  *)
LEMMA SharesFacts ==
  ASSUME NEW fr, fr = <<>> \/ Filled(fr), NEW n \in 1 .. 3
  PROVE  Filled(Shares(fr, n)) /\ Len(Shares(fr, n)) = n
<1>1. CASE Len(fr) = n
  <2>1. fr # <<>>
    BY <1>1
  <2>2. QED
    BY <1>1, <2>1 DEF Shares
<1>2. CASE Len(fr) # n
  <2>1. Shares(fr, n) = [i \in 1 .. n |-> Whole \div n]
    BY <1>2 DEF Shares
  <2>2. QED
    BY <2>1, EqualShares
<1>3. QED
  BY <1>1, <1>2

(* A divider moves between the least share of the left and of the right.   *)
LEMMA DraggedFacts ==
  ASSUME NEW fr, Filled(fr), NEW i \in 2 .. Len(fr), NEW pull \in Int
  PROVE  Filled(Dragged(fr, i, pull))
<1> DEFINE total == fr[i - 1] + fr[i]
           left == Clamp(MinFr, total - MinFr, fr[i - 1] + pull)
           new == [fr EXCEPT ![i - 1] = left, ![i] = total - left]
<1>1. /\ fr \in Seq(1 .. Whole) /\ Len(fr) \in 1 .. 3
      /\ fr[1] + (IF Len(fr) > 1 THEN fr[2] ELSE 0) + (IF Len(fr) > 2 THEN fr[3] ELSE 0) = 60
      /\ \A k \in 1 .. Len(fr) : fr[k] >= 9
  BY FilledIs
<1>2. \A k \in 1 .. Len(fr) : fr[k] \in 1 .. Whole /\ fr[k] \in Int
  <2>1. \A k \in 1 .. Len(fr) : fr[k] \in 1 .. Whole
    BY <1>1, ElementOfSeq
  <2>2. 1 .. Whole \subseteq Int
    BY DEF Whole
  <2>3. QED
    BY <2>1, <2>2
<1>3. i \in 1 .. Len(fr) /\ i - 1 \in 1 .. Len(fr) /\ i - 1 # i /\ (i = 2 \/ i = 3) /\ Len(fr) >= i
  BY <1>1
<1>4. total \in Int /\ total >= 18 /\ total <= 60
  <2>1. CASE i = 2
    BY <1>1, <1>2, <1>3, <2>1
  <2>2. CASE i = 3
    BY <1>1, <1>2, <1>3, <2>2
  <2>3. QED
    BY <1>3, <2>1, <2>2
<1>5. left \in Int /\ left >= 9 /\ total - left >= 9
  <2>1. fr[i - 1] + pull \in Int
    BY <1>2, <1>3
  <2> HIDE DEF total
  <2>2. QED
    BY <1>4, <2>1 DEF Clamp, MinFr
<1> DEFINE a == left
           b == total - left
<1>6. a \in 1 .. Whole /\ b \in 1 .. Whole /\ a >= 9 /\ b >= 9 /\ a + b = total
  <2> HIDE DEF left, total
  <2>1. QED
    BY <1>4, <1>5 DEF Whole
<1>7. new = [fr EXCEPT ![i - 1] = a, ![i] = b]
  OBVIOUS
<1> HIDE DEF new, a, b, left
<1>8. /\ new \in Seq(1 .. Whole) /\ Len(new) = Len(fr)
      /\ new[i - 1] = a /\ new[i] = b
      /\ \A k \in 1 .. Len(fr) : k # i /\ k # i - 1 => new[k] = fr[k]
  BY <1>1, <1>3, <1>6, <1>7
<1>9. \A k \in 1 .. Len(new) : new[k] >= 9
  BY <1>1, <1>3, <1>6, <1>8
<1>10. new[1] + (IF Len(new) > 1 THEN new[2] ELSE 0) + (IF Len(new) > 2 THEN new[3] ELSE 0) = 60
  <2>1. CASE i = 2
    <3>1. new[1] = a /\ new[2] = b /\ a + b = fr[1] + fr[2]
      BY <1>6, <1>8, <2>1
    <3>2. Len(fr) = 3 => new[3] = fr[3]
      BY <1>8, <2>1
    <3>3. a \in Int /\ b \in Int /\ fr[1] \in Int /\ fr[2] \in Int /\ (Len(fr) = 3 => fr[3] \in Int)
      BY <1>2, <1>3, <1>6, <2>1
    <3>4. QED
      BY <1>1, <1>3, <1>8, <2>1, <3>1, <3>2, <3>3
  <2>2. CASE i = 3
    <3>1. new[2] = a /\ new[3] = b /\ a + b = fr[2] + fr[3] /\ new[1] = fr[1] /\ Len(fr) = 3
      BY <1>1, <1>3, <1>6, <1>8, <2>2
    <3>2. a \in Int /\ b \in Int /\ fr[1] \in Int /\ fr[2] \in Int /\ fr[3] \in Int
      BY <1>2, <1>6, <3>1
    <3>3. QED
      BY <1>1, <1>8, <3>1, <3>2
  <2>3. QED
    BY <1>3, <2>1, <2>2
<1>11. Filled(new)
  BY <1>1, <1>8, <1>9, <1>10, FilledIs
<1>12. QED
  BY <1>11 DEF Dragged, new, left

(* The rows and the columns of a sound tab fill it.                        *)
LEMMA SizesFill ==
  ASSUME NEW m \in Nat, NEW t \in Tab(m), Sound(t)
  PROVE  /\ Filled(RowShares(t)) /\ Len(RowShares(t)) = Len(t.layout)
         /\ ColShares(t) \in Seq(Seq(1 .. Whole)) /\ Len(ColShares(t)) = Len(t.layout)
         /\ \A r \in 1 .. Len(t.layout) : /\ Filled(ColShares(t)[r])
                                          /\ Len(ColShares(t)[r]) = Len(t.layout[r])
<1> DEFINE layout == t.layout
           cols == ColShares(t)
<1>1. /\ layout \in Seq(Seq(1 .. m)) /\ t.rowFr \in Seq(1 .. Whole) /\ t.colFr \in Seq(Seq(1 .. Whole))
      /\ t.panes \in Seq(1 .. m)
  BY DEF Tab
<1>2. Cells(layout) = ToSet(t.panes) /\ Grid(layout) /\ t.active \in ToSet(t.panes)
  BY SoundIs
<1>3. Len(layout) <= MaxRows /\ \A r \in DOMAIN layout : Len(layout[r]) <= MaxCols
  BY DEF Sound, Holds
<1>4. /\ t.rowFr = <<>> \/ Filled(t.rowFr)
      /\ \A r \in 1 .. Len(t.colFr) : Filled(t.colFr[r])
  <2>1. \A r \in 1 .. Len(t.colFr) : t.colFr[r] \in Seq(1 .. Whole)
    BY <1>1
  <2>2. QED
    BY <1>1, <2>1 DEF Sound, Stored, Filled
<1> HIDE DEF layout
<1>5. /\ DOMAIN layout = 1 .. Len(layout) /\ Len(layout) \in Nat
      /\ \A r \in 1 .. Len(layout) : layout[r] \in Seq(1 .. m) /\ Len(layout[r]) \in Nat
  BY <1>1, RowsOf
<1>6. Len(layout) \in 1 .. 3
  <2> DEFINE S == 1 .. m
             p == t.active
  <2>0. p \in Cells(layout) /\ layout \in Seq(Seq(S))
    BY <1>1, <1>2
  <2> HIDE DEF S, p
  <2>1. PICK r \in 1 .. Len(layout) : \E c \in 1 .. Len(layout[r]) : layout[r][c] = p
    BY <2>0, RowsOf
  <2> DEFINE h == Len(layout)
  <2>2. h \in Nat /\ h <= 2 /\ r \in 1 .. h
    BY <1>3, <1>5, <2>1 DEF MaxRows
  <2> HIDE DEF h
  <2>3. h \in 1 .. 3
    BY <2>2
  <2>4. QED
    BY <2>3 DEF h
<1>7. \A r \in 1 .. Len(layout) : Len(layout[r]) \in 1 .. 3
  <2>1. ASSUME NEW r \in 1 .. Len(layout) PROVE Len(layout[r]) \in 1 .. 3
    <3> DEFINE row == layout[r]
    <3>1. row # <<>> /\ row \in Seq(1 .. m)
      BY <1>1, <1>2, <1>5, GridIs
    <3>2. Len(row) <= 3 /\ Len(row) \in Nat
      BY <1>3, <1>5 DEF MaxCols
    <3> DEFINE S == 1 .. m
    <3> HIDE DEF row, S
    <3>3. Len(row) # 0
      <4>1. row \in Seq(S) /\ row # <<>>
        BY <3>1 DEF S
      <4>2. Len(row) \in Nat \ {0}
        BY <4>1, EmptySeq, Zenon
      <4>3. QED
        BY <4>2
    <3>4. Len(row) \in 1 .. 3
      <4> DEFINE h == Len(row)
      <4>1. h \in Nat /\ h <= 3 /\ h # 0
        BY <3>2, <3>3
      <4> HIDE DEF h
      <4>2. h \in 1 .. 3
        BY <4>1
      <4>3. QED
        BY <4>2 DEF h
    <3>5. QED
      BY <3>4 DEF row
  <2>2. QED
    BY <2>1
<1>8. Filled(RowShares(t)) /\ Len(RowShares(t)) = Len(layout)
  <2> DEFINE n == Len(layout)
  <2>1. RowShares(t) = Shares(t.rowFr, n)
    BY DEF RowShares, layout
  <2>2. n \in 1 .. 3
    BY <1>6
  <2> HIDE DEF n
  <2>3. Filled(RowShares(t)) /\ Len(RowShares(t)) = n
    BY <1>4, <2>1, <2>2, SharesFacts
  <2>4. QED
    BY <2>3 DEF n
<1>9. cols = [r \in 1 .. Len(layout) |->
                Shares(IF r \in DOMAIN t.colFr THEN t.colFr[r] ELSE <<>>, Len(layout[r]))]
  BY <1>5 DEF ColShares, layout
<1> HIDE DEF cols
<1>10. \A r \in 1 .. Len(layout) : Filled(cols[r]) /\ Len(cols[r]) = Len(layout[r])
  <2>1. ASSUME NEW r \in 1 .. Len(layout) PROVE Filled(cols[r]) /\ Len(cols[r]) = Len(layout[r])
    <3> DEFINE fr == IF r \in DOMAIN t.colFr THEN t.colFr[r] ELSE <<>>
               n == Len(layout[r])
    <3>1. DOMAIN t.colFr = 1 .. Len(t.colFr)
      BY <1>1
    <3>2. fr = <<>> \/ Filled(fr)
      BY <1>4, <3>1
    <3>3. n \in 1 .. 3 /\ cols[r] = Shares(fr, n)
      BY <1>7, <1>9
    <3> HIDE DEF fr, n
    <3>4. Filled(cols[r]) /\ Len(cols[r]) = n
      BY <3>2, <3>3, SharesFacts
    <3>5. QED
      BY <3>4 DEF n
  <2>2. QED
    BY <2>1
<1>11. cols \in Seq(Seq(1 .. Whole)) /\ Len(cols) = Len(layout)
  <2> DEFINE S == Seq(1 .. Whole)
  <2>1. \A r \in 1 .. Len(layout) : cols[r] \in S
    BY <1>10 DEF Filled
  <2> HIDE DEF S
  <2>2. cols \in [1 .. Len(layout) -> S]
    BY <1>9, <2>1
  <2>3. cols \in Seq(S) /\ Len(cols) = Len(layout)
    BY <1>5, <2>2
  <2>4. QED
    BY <2>3 DEF S
<1>12. QED
  BY <1>8, <1>10, <1>11 DEF layout, cols

(* What the mouse holds: a divider between two shares.                     *)
Held(d) ==
  /\ d.rows \in Seq(1 .. Whole) /\ d.cols \in Seq(Seq(1 .. Whole))
  /\ Fills(d.rows) /\ \A r \in 1 .. Len(d.cols) : Fills(d.cols[r])
  /\ \/ d.row = 0 /\ d.before \in 2 .. Len(d.rows)
     \/ d.row \in 1 .. Len(d.cols) /\ d.before \in 2 .. Len(d.cols[d.row])

\* The tab with the sizes that the divider gives it.
Resized(t, d, pull) ==
  IF d.row = 0
  THEN [t EXCEPT !.rowFr = Dragged(d.rows, d.before, pull)]
  ELSE [t EXCEPT !.colFr = [d.cols EXCEPT ![d.row] = Dragged(@, d.before, pull)]]

\* Dragged shares leave the tab sound.
LEMMA ResizedKeeps ==
  ASSUME NEW m \in Nat, NEW t \in Tab(m), Sound(t), NEW d, Held(d), NEW pull \in Int, NEW split \in BOOLEAN
  PROVE  Altered(Resized(t, d, pull), t, split, m, m) /\ Resized(t, d, pull).panes = t.panes
<1> DEFINE u == Resized(t, d, pull)
<1>1. /\ Filled(d.rows) /\ \A r \in 1 .. Len(d.cols) : Filled(d.cols[r])
  <2>1. /\ d.rows \in Seq(1 .. Whole) /\ d.cols \in Seq(Seq(1 .. Whole))
        /\ Fills(d.rows) /\ \A r \in 1 .. Len(d.cols) : Fills(d.cols[r])
    BY DEF Held
  <2>2. \A r \in 1 .. Len(d.cols) : d.cols[r] \in Seq(1 .. Whole)
    BY <2>1
  <2>3. QED
    BY <2>1, <2>2 DEF Filled
<1>2. d.cols \in Seq(Seq(1 .. Whole)) /\ Len(d.cols) \in Nat
  BY DEF Held
<1>3. CASE d.row = 0
  <2> DEFINE fr == Dragged(d.rows, d.before, pull)
  <2>1. d.before \in 2 .. Len(d.rows)
    BY <1>2, <1>3 DEF Held
  <2>2. Filled(fr)
    BY <1>1, <2>1, DraggedFacts
  <2>3. u = [t EXCEPT !.rowFr = fr]
    BY <1>3 DEF Resized
  <2> HIDE DEF fr, u
  <2>4. fr \in Seq(1 .. Whole) /\ Fills(fr)
    BY <2>2 DEF Filled
  <2>5. /\ u \in Tab(m) /\ u.id = t.id /\ u.group = t.group /\ u.panes = t.panes /\ u.layout = t.layout
        /\ u.active = t.active /\ u.rowFr = fr /\ u.colFr = t.colFr
    BY <2>3, <2>4 DEF Tab
  <2>6. Sound(u)
    <3>1. Holds(u, MaxRows, MaxCols, MaxPanes)
      BY <2>5 DEF Sound, Holds
    <3>2. Stored(u)
      BY <2>4, <2>5 DEF Sound, Stored
    <3>3. ShowsItsPanes(u)
      BY <2>5 DEF Sound, ShowsItsPanes
    <3>4. QED
      BY <3>1, <3>2, <3>3 DEF Sound
  <2>7. Altered(u, t, split, m, m)
    BY <2>5, <2>6, SamePanes
  <2>8. QED
    BY <2>5, <2>7 DEF u
<1>4. CASE d.row # 0
  <2> DEFINE fr == Dragged(d.cols[d.row], d.before, pull)
             cols == [d.cols EXCEPT ![d.row] = fr]
             S == Seq(1 .. Whole)
  <2>1. d.row \in 1 .. Len(d.cols) /\ d.before \in 2 .. Len(d.cols[d.row])
    BY <1>4 DEF Held
  <2>2. Filled(fr)
    BY <1>1, <2>1, DraggedFacts
  <2>3. u = [t EXCEPT !.colFr = cols]
    BY <1>4 DEF Resized
  <2>4. fr \in S /\ Fills(fr) /\ d.cols \in Seq(S)
    BY <1>2, <2>2 DEF Filled
  <2> HIDE DEF fr, u, S
  <2>5. /\ cols \in Seq(S) /\ Len(cols) = Len(d.cols)
        /\ \A r \in 1 .. Len(d.cols) : cols[r] = IF r = d.row THEN fr ELSE d.cols[r]
    BY <2>1, <2>4
  <2> HIDE DEF cols
  <2>6. \A r \in 1 .. Len(cols) : Fills(cols[r])
    BY <1>1, <2>4, <2>5 DEF Filled
  <2>7. cols \in Seq(Seq(1 .. Whole))
    BY <2>5 DEF S
  <2>8. /\ u \in Tab(m) /\ u.id = t.id /\ u.group = t.group /\ u.panes = t.panes /\ u.layout = t.layout
        /\ u.active = t.active /\ u.rowFr = t.rowFr /\ u.colFr = cols
    BY <2>3, <2>7 DEF Tab
  <2>9. Sound(u)
    <3>1. Holds(u, MaxRows, MaxCols, MaxPanes)
      BY <2>8 DEF Sound, Holds
    <3>2. Stored(u)
      BY <2>6, <2>8 DEF Sound, Stored
    <3>3. ShowsItsPanes(u)
      BY <2>8 DEF Sound, ShowsItsPanes
    <3>4. QED
      BY <3>1, <3>2, <3>3 DEF Sound
  <2>10. Altered(u, t, split, m, m)
    BY <2>8, <2>9, SamePanes
  <2>11. QED
    BY <2>8, <2>10 DEF u
<1>5. QED
  BY <1>3, <1>4

(* Moving the divider, whatever became of the tab it was taken in.         *)
LEMMA ResizeIsGood ==
  ASSUME NEW m \in Nat, NEW prev, StoreOK(prev, m), NEW d, Held(d), NEW pull \in Int,
         NEW s, s = [prev EXCEPT !.tabs = [k \in DOMAIN prev.tabs |->
                       IF prev.tabs[k].id # d.tab THEN prev.tabs[k] ELSE Resized(prev.tabs[k], d, pull)]]
  PROVE  Good(s, prev, m, m) /\ StillNamed(s, prev) /\ AllStay(s.tabs, prev.tabs)
         /\ (IsTabSplit(prev.tabs) => IsTabSplit(s.tabs))
<1> DEFINE tabs == prev.tabs
           new == [k \in DOMAIN tabs |-> IF tabs[k].id # d.tab THEN tabs[k] ELSE Resized(tabs[k], d, pull)]
           split == IsTabSplit(tabs)
<1>1. Strip(tabs, m) /\ tabs \in Seq(Tab(m)) /\ Len(tabs) \in Nat /\ DOMAIN tabs = 1 .. Len(tabs)
  BY DEF StoreOK, Strip
<1>2. prev \in Store(m)
  BY DEF StoreOK
<1>3. CASE d.tab \notin TabIds(tabs)
  <2>1. \A k \in 1 .. Len(tabs) : tabs[k].id # d.tab
    BY <1>1, <1>3, StripFacts
  <2>2. new = tabs
    BY <1>1, <2>1
  <2>3. s = prev
    BY <1>2, <2>2 DEF Store
  <2>4. AllStay(tabs, tabs)
    BY DEF AllStay
  <2>5. Good(prev, prev, m, m)
    BY StayIsGood
  <2>6. QED
    BY <2>3, <2>4, <2>5 DEF StillNamed
<1>4. CASE d.tab \in TabIds(tabs)
  <2>1. PICK i \in 1 .. Len(tabs) : tabs[i].id = d.tab
    BY <1>1, <1>4, StripFacts
  <2> DEFINE t == tabs[i]
             u == Resized(t, d, pull)
  <2>2. \A k \in 1 .. Len(tabs) : tabs[k].id = d.tab => k = i
    BY <1>1, <2>1 DEF Strip
  <2>3. t \in Tab(m) /\ Sound(t)
    BY <1>1 DEF Strip
  <2> HIDE DEF t
  <2>4. Altered(u, t, split, m, m) /\ u.panes = t.panes
    <3>1. split \in BOOLEAN
      BY DEF IsTabSplit
    <3> HIDE DEF split
    <3>2. QED
      BY <2>3, <3>1, ResizedKeeps
  <2> HIDE DEF u
  <2>5. new = [tabs EXCEPT ![i] = u]
    BY <1>1, <2>1, <2>2 DEF t, u
  <2>6. s = [prev EXCEPT !.tabs[i] = u]
    <3>1. s = [prev EXCEPT !.tabs = new]
      OBVIOUS
    <3> HIDE DEF new
    <3>2. QED
      BY <2>5, <3>1
  <2> HIDE DEF new
  <2>7. Altered(u, prev.tabs[i], IsTabSplit(prev.tabs), m, m) /\ i \in 1 .. Len(prev.tabs) /\ m <= m
    BY <2>4 DEF t
  <2>8. Good(s, prev, m, m) /\ StillNamed(s, prev) /\ Changed(s.tabs, prev.tabs, i, u)
    <3>1. LET z == [prev EXCEPT !.tabs[i] = u]
          IN  Good(z, prev, m, m) /\ StillNamed(z, prev) /\ Changed(z.tabs, prev.tabs, i, u)
      BY <2>7, AlteredIsGood
    <3>2. QED
      BY <2>6, <3>1
  <2> DEFINE b == s.tabs
  <2>9. Strip(b, m) /\ Changed(b, tabs, i, u)
    BY <2>8 DEF Good, StoreOK
  <2>10. u.id = t.id /\ u.group = t.group /\ t = tabs[i]
    BY <2>4 DEF Altered, t
  <2> HIDE DEF b, tabs
  <2>11. AllStay(b, tabs)
    BY <2>4, <2>9, <2>10 DEF Changed, AllStay
  <2>12. IsTabSplit(tabs) => IsTabSplit(b)
    <3>1. ASSUME NEW j \in 1 .. Len(tabs), tabs[j].group = 1
          PROVE  \E k \in 1 .. Len(b) : b[k].group = 1
      BY <2>9, <2>10, <3>1 DEF Changed
    <3>2. QED
      BY <1>1, <2>9, <3>1, StripFacts
  <2>13. QED
    BY <2>8, <2>11, <2>12 DEF b, tabs
<1>5. QED
  BY <1>3, <1>4

(***************************************************************************)
(* The inductive invariant of the tabs.  Without a dragend that gets lost  *)
(* no strip remembers a dragged tab and each side of a split shows a tab   *)
(* of its own; an open menu is about a tab that is open as it was then, as *)
(* long as nothing comes under it.                                         *)
(***************************************************************************)
DragOK ==
  /\ dragId \in [Groups -> 0 .. made]
  /\ ~ scene.lostEnd => dragId = [g \in Groups |-> NoTab]

About(tab, tabs) ==
  \E i \in 1 .. Len(tabs) : tabs[i].id = tab.id /\ tabs[i].panes = tab.panes

MenuOK ==
  \/ menu = NoMenu
  \/ /\ menu \in [strip : Groups, tab : Tab(made), lone : BOOLEAN]
     /\ menu.tab.group = 1 => menu.strip = 1
     /\ menu.strip = 1 => IsTabSplit(store.tabs)
     /\ ~ scene.meanwhile => About(menu.tab, store.tabs)

DividerOK == divider.held => Held(divider)

StripOK ==
  /\ StoreOK(store, made)
  /\ ~ scene.lostEnd => Named(store)

TabInv ==
  /\ scene \in Scenes /\ booted \in BOOLEAN /\ made \in Nat
  /\ StripOK /\ DragOK /\ MenuOK /\ DividerOK
  /\ killed \subseteq PaneIds /\ moved \subseteq PaneIds /\ sent \subseteq PaneIds
  /\ ClosedOrHandedOver

(* What a step of the tabs leaves behind: a pane that was not there is one *)
(* that the step made.                                                     *)
Kept ==
  /\ TabInv' /\ Budget(store'.tabs, store.tabs)
  /\ scene' = scene /\ made <= made'
  /\ PanesOf(store'.tabs) \subseteq PanesOf(store.tabs) \cup Fresh(made, made')

(* The books: X is what is handed over in the step, Y what the other       *)
(* window is told of.                                                      *)
Settled(m, P, kill, move, send, quiet) ==
  /\ P \subseteq 1 .. m /\ kill \subseteq 1 .. m /\ move \subseteq 1 .. m /\ send \subseteq 1 .. m
  /\ P \cap (kill \cup move) = {}
  /\ quiet => send = move /\ kill \cap send = {} /\ kill \cup send = (1 .. m) \ P

Left(m, n, P, Q, X, Y, quiet) ==
  /\ Q \subseteq 1 .. n /\ Q \subseteq P \cup Fresh(m, n) /\ Fresh(m, n) \subseteq Q
  /\ X \subseteq P /\ X \cap Q = {} /\ Y \subseteq 1 .. m /\ (quiet => X = Y)

\* The books of closed and handed-over panes balance after such a step.
LEMMA BooksKeep ==
  ASSUME NEW m \in Nat, NEW n \in Nat, m <= n, NEW P, NEW Q, NEW kill, NEW move, NEW send, NEW X, NEW Y,
         NEW quiet, Settled(m, P, kill, move, send, quiet), Left(m, n, P, Q, X, Y, quiet),
         NEW kill2, kill2 = kill \cup ((P \ Q) \ (move \cup X))
  PROVE  Settled(n, Q, kill2, move \cup X, send \cup Y, quiet)
<1>1. /\ \A p : p \in 1 .. n => p \in 1 .. m \/ p \in Fresh(m, n)
      /\ \A p : p \in 1 .. m => p \in 1 .. n /\ p \notin Fresh(m, n)
  BY DEF Fresh
<1> DEFINE A == 1 .. m
           B == 1 .. n
           F == Fresh(m, n)
<1>2. /\ \A p : p \in B => p \in A \/ p \in F
      /\ \A p : p \in A => p \in B /\ p \notin F
      /\ P \subseteq A /\ Q \subseteq B /\ Q \subseteq P \cup F /\ F \subseteq Q
      /\ kill \subseteq A /\ move \subseteq A /\ send \subseteq A /\ Y \subseteq A
      /\ P \cap (kill \cup move) = {} /\ X \subseteq P /\ X \cap Q = {} /\ (quiet => X = Y)
      /\ quiet => send = move /\ kill \cap send = {} /\ kill \cup send = A \ P
  BY <1>1 DEF Settled, Left
<1> HIDE DEF A, B, F
<1>3. Q \cap (kill2 \cup (move \cup X)) = {}
  BY <1>2
<1>4. kill2 \subseteq B /\ move \cup X \subseteq B /\ send \cup Y \subseteq B
  BY <1>2
<1>5. ASSUME quiet
      PROVE  send \cup Y = move \cup X /\ kill2 \cap (send \cup Y) = {} /\ kill2 \cup (send \cup Y) = B \ Q
  <2>1. send = move /\ X = Y /\ kill \cap send = {} /\ kill \cup send = A \ P
    BY <1>2, <1>5
  <2>2. kill2 \cap (send \cup Y) = {}
    BY <1>2, <2>1
  <2>3. kill2 \cup (send \cup Y) = B \ Q
    <3>1. ASSUME NEW p \in B, p \notin Q PROVE p \in kill2 \cup (send \cup Y)
      <4>1. p \in A
        BY <1>2, <3>1
      <4>2. CASE p \in P
        BY <2>1, <3>1, <4>2
      <4>3. CASE p \notin P
        BY <2>1, <4>1, <4>3
      <4>4. QED
        BY <4>2, <4>3
    <3>2. QED
      BY <1>3, <1>4, <2>1, <3>1
  <2>4. QED
    BY <2>1, <2>2, <2>3
<1>6. QED
  BY <1>2, <1>3, <1>4, <1>5 DEF B, Settled

\* The panes of the tabs are panes that were made.
LEMMA PanesAreMade ==
  ASSUME NEW m \in Nat, NEW s, StoreOK(s, m)
  PROVE  PanesOf(s.tabs) \subseteq 1 .. m
<1> DEFINE tabs == s.tabs
<1>1. Strip(tabs, m)
  BY DEF StoreOK
<1> HIDE DEF tabs
<1>2. ASSUME NEW p \in PanesOf(tabs) PROVE p \in 1 .. m
  <2>1. PICK i \in 1 .. Len(tabs) : p \in ToSet(tabs[i].panes)
    BY <1>1, StripFacts
  <2>2. tabs[i] \in Tab(m)
    BY <1>1, StripFacts
  <2>3. tabs[i].panes \in Seq(1 .. m)
    BY <2>2 DEF Tab
  <2>4. QED
    BY <2>1, <2>3, Members
<1>3. QED
  BY <1>2 DEF tabs

(* A step of the tabs that leaves the store sound, with the drag, the menu *)
(* and the divider.                                                        *)
LEMMA StepKeeps ==
  ASSUME TabInv, scene' = scene, booted' \in BOOLEAN, made' \in Nat, made <= made',
         Good(store', store, made, made'), ~ scene.lostEnd => StillNamed(store', store),
         NEW X, X \subseteq PanesOf(store.tabs), X \cap PanesOf(store'.tabs) = {},
         NEW Y \in SUBSET PaneIds, ~ scene.meanwhile => X = Y,
         moved' = moved \cup X, sent' = sent \cup Y,
         killed' = killed \cup ((PanesOf(store.tabs) \ PanesOf(store'.tabs)) \ moved'),
         DragOK', MenuOK', DividerOK'
  PROVE  Kept
<1> DEFINE P == PanesOf(store.tabs)
           Q == PanesOf(store'.tabs)
           quiet == ~ scene.meanwhile
<1>1. /\ made \in Nat /\ StoreOK(store, made) /\ StoreOK(store', made')
      /\ Q \subseteq P \cup Fresh(made, made') /\ Fresh(made, made') \subseteq Q
  BY DEF TabInv, StripOK, Good
<1>2. P \subseteq 1 .. made /\ Q \subseteq 1 .. made'
  BY <1>1, PanesAreMade
<1>3. Settled(made, P, killed, moved, sent, quiet)
  BY <1>2 DEF TabInv, ClosedOrHandedOver, PaneIds, Settled
<1>4. Left(made, made', P, Q, X, Y, quiet)
  BY <1>1, <1>2 DEF Left, PaneIds
<1> DEFINE k == killed \cup ((P \ Q) \ (moved \cup X))
           n == made'
<1>5. killed' = k
  OBVIOUS
<1>6. n \in Nat /\ made <= n
  OBVIOUS
<1> HIDE DEF P, Q, quiet, n
<1>7. Settled(n, Q, k, moved \cup X, sent \cup Y, quiet)
  BY <1>1, <1>3, <1>4, <1>6, BooksKeep DEF n
<1>8. ClosedOrHandedOver' /\ killed' \subseteq PaneIds' /\ moved' \subseteq PaneIds' /\ sent' \subseteq PaneIds'
  BY <1>5, <1>7 DEF ClosedOrHandedOver, PaneIds, Q, quiet, n, Settled
<1>9. StripOK'
  BY <1>1 DEF TabInv, StripOK, StillNamed
<1>10. Budget(store'.tabs, store.tabs)
  BY DEF Good
<1>11. TabInv'
  BY <1>8, <1>9 DEF TabInv
<1>12. QED
  BY <1>1, <1>10, <1>11 DEF Kept, P, Q

(* The ref of a strip that is gone is gone with it.                        *)
LEMMA DragStays ==
  ASSUME DragOK, scene' = scene, made \in Nat, made' \in Nat, made <= made', NEW split \in BOOLEAN,
         dragId' = IF split THEN dragId ELSE [dragId EXCEPT ![1] = NoTab]
  PROVE  DragOK'
<1>1. 0 .. made \subseteq 0 .. made' /\ 0 \in 0 .. made'
  OBVIOUS
<1>2. dragId \in [Groups -> 0 .. made] /\ (~ scene.lostEnd => dragId = [g \in Groups |-> NoTab])
  BY DEF DragOK
<1>3. dragId' \in [Groups -> 0 .. made']
  BY <1>1, <1>2 DEF NoTab
<1>4. ASSUME ~ scene.lostEnd PROVE dragId' = [g \in Groups |-> NoTab]
  BY <1>2, <1>4
<1>5. QED
  BY <1>3, <1>4 DEF DragOK

(* The menu stays open, unless its strip is gone.                          *)
LEMMA MenuStays ==
  ASSUME MenuOK, scene' = scene, made \in Nat, made' \in Nat, made <= made',
         menu = NoMenu \/ scene.meanwhile \/ AllStay(store'.tabs, store.tabs),
         menu' = IF menu.strip = 1 /\ ~ IsTabSplit(store'.tabs) THEN NoMenu ELSE menu
  PROVE  MenuOK'
<1>1. CASE menu = NoMenu
  <2>1. menu' = NoMenu
    BY <1>1
  <2>2. QED
    BY <2>1 DEF MenuOK
<1>2. CASE menu # NoMenu
  <2>1. /\ menu \in [strip : Groups, tab : Tab(made), lone : BOOLEAN]
        /\ menu.tab.group = 1 => menu.strip = 1
        /\ ~ scene.meanwhile => About(menu.tab, store.tabs)
    BY <1>2 DEF MenuOK
  <2>2. menu \in [strip : Groups, tab : Tab(made'), lone : BOOLEAN]
    <3> DEFINE m == made
               n == made'
    <3>1. m \in Nat /\ n \in Nat /\ m <= n
      OBVIOUS
    <3> HIDE DEF m, n
    <3>2. Tab(m) \subseteq Tab(n)
      BY <3>1, LaterKeeps
    <3>3. Tab(made) \subseteq Tab(made')
      BY <3>2 DEF m, n
    <3>4. QED
      BY <2>1, <3>3
  <2>3. CASE menu.strip = 1 /\ ~ IsTabSplit(store'.tabs)
    BY <2>3 DEF MenuOK
  <2>4. CASE ~ (menu.strip = 1 /\ ~ IsTabSplit(store'.tabs))
    <3>1. menu' = menu
      BY <2>4
    <3>2. ASSUME ~ scene.meanwhile PROVE About(menu.tab, store'.tabs)
      <4>1. AllStay(store'.tabs, store.tabs) /\ About(menu.tab, store.tabs)
        BY <1>2, <2>1, <3>2
      <4> DEFINE a == store.tabs
                 b == store'.tabs
                 tab == menu.tab
      <4>2. AllStay(b, a) /\ About(tab, a)
        BY <4>1
      <4> HIDE DEF a, b, tab
      <4>3. About(tab, b)
        BY <4>2 DEF AllStay, About
      <4>4. QED
        BY <4>3 DEF b, tab
    <3>3. QED
      BY <2>1, <2>2, <2>4, <3>1, <3>2 DEF MenuOK
  <2>5. QED
    BY <2>3, <2>4
<1>3. QED
  BY <1>1, <1>2

\* A closed menu.
LEMMA NoMenuIsOK ==
  ASSUME menu' = NoMenu
  PROVE  MenuOK'
<1>1. QED
  BY DEF MenuOK

\* A divider that is let be.
LEMMA DividerStays ==
  ASSUME DividerOK, divider' = divider
  PROVE  DividerOK'
<1>1. QED
  BY DEF DividerOK

(* Become and Entry, of a good step.                                       *)
LEMMA BecomeKeeps ==
  ASSUME TabInv, scene' = scene, booted' \in BOOLEAN, made' \in Nat, made <= made',
         moved' = moved, sent' = sent, divider' = divider,
         NEW s, Become(s), Good(s, store, made, made'), ~ scene.lostEnd => StillNamed(s, store),
         menu = NoMenu \/ scene.meanwhile \/ AllStay(s.tabs, store.tabs)
  PROVE  Kept
<1>1. /\ store' = s
      /\ killed' = killed \cup ((PanesOf(store.tabs) \ PanesOf(store'.tabs)) \ moved')
      /\ dragId' = IF IsTabSplit(store'.tabs) THEN dragId ELSE [dragId EXCEPT ![1] = NoTab]
      /\ menu' = IF menu.strip = 1 /\ ~ IsTabSplit(store'.tabs) THEN NoMenu ELSE menu
  BY DEF Become
<1>2. made \in Nat /\ DragOK /\ MenuOK /\ DividerOK
  BY DEF TabInv
<1>3. IsTabSplit(store'.tabs) \in BOOLEAN
  BY DEF IsTabSplit
<1>4. DragOK'
  BY <1>1, <1>2, <1>3, DragStays
<1>5. MenuOK'
  BY <1>1, <1>2, MenuStays
<1>6. DividerOK'
  BY <1>2, DividerStays
<1>7. moved' = moved \cup {} /\ sent' = sent \cup {} /\ {} \in SUBSET PaneIds /\ {} \subseteq PanesOf(store.tabs)
      /\ {} \cap PanesOf(store'.tabs) = {}
  OBVIOUS
<1>8. Good(store', store, made, made') /\ (~ scene.lostEnd => StillNamed(store', store))
  BY <1>1
<1>9. QED
  BY <1>1, <1>4, <1>5, <1>6, <1>7, <1>8, StepKeeps

\* The same for an entry of the menu, which closes it.
LEMMA EntryKeeps ==
  ASSUME TabInv, scene' = scene, booted' \in BOOLEAN, made' \in Nat, made <= made',
         moved' = moved, sent' = sent, divider' = divider,
         NEW s, Entry(s), Good(s, store, made, made'), ~ scene.lostEnd => StillNamed(s, store)
  PROVE  Kept
<1>1. /\ store' = s
      /\ killed' = killed \cup ((PanesOf(store.tabs) \ PanesOf(store'.tabs)) \ moved')
      /\ dragId' = IF IsTabSplit(store'.tabs) THEN dragId ELSE [dragId EXCEPT ![1] = NoTab]
      /\ menu' = NoMenu
  BY DEF Entry
<1>2. made \in Nat /\ DragOK /\ DividerOK
  BY DEF TabInv
<1>3. IsTabSplit(store'.tabs) \in BOOLEAN
  BY DEF IsTabSplit
<1>4. DragOK'
  BY <1>1, <1>2, <1>3, DragStays
<1>5. MenuOK'
  BY <1>1, NoMenuIsOK
<1>6. DividerOK'
  BY <1>2, DividerStays
<1>7. moved' = moved \cup {} /\ sent' = sent \cup {} /\ {} \in SUBSET PaneIds /\ {} \subseteq PanesOf(store.tabs)
      /\ {} \cap PanesOf(store'.tabs) = {}
  OBVIOUS
<1>8. Good(store', store, made, made') /\ (~ scene.lostEnd => StillNamed(store', store))
  BY <1>1
<1>9. QED
  BY <1>1, <1>4, <1>5, <1>6, <1>7, <1>8, StepKeeps

(* Tear-off: what leaves is the tab of that name, whatever the payload.    *)
Torn(tabs, id) == UNION {ToSet(t.panes) : t \in {u \in ToSet(tabs) : u.id = id}}

AfterTear(s, id) == IF id \in TabIds(s.tabs) THEN Without(s, {id}) ELSE s

\* Tearing a tab off takes its panes, those the menu shows if nothing came under it.
LEMMA TornFacts ==
  ASSUME NEW m \in Nat, NEW prev, StoreOK(prev, m), NEW tab
  PROVE  LET s == AfterTear(prev, tab.id)
             X == Torn(prev.tabs, tab.id)
         IN  /\ Good(s, prev, m, m) /\ StillNamed(s, prev)
             /\ X \subseteq PanesOf(prev.tabs) /\ X \cap PanesOf(s.tabs) = {}
             /\ About(tab, prev.tabs) => X = ToSet(tab.panes)
<1> DEFINE id == tab.id
           s == AfterTear(prev, id)
           X == Torn(prev.tabs, id)
           a == prev.tabs
           b == s.tabs
<1>1. Strip(a, m) /\ a \in Seq(Tab(m))
  BY DEF StoreOK, Strip
<1>2. \A p : p \in X <=> \E i \in 1 .. Len(a) : a[i].id = id /\ p \in ToSet(a[i].panes)
  <2>1. \A t : t \in ToSet(a) <=> \E i \in 1 .. Len(a) : a[i] = t
    BY <1>1, Members
  <2>2. QED
    BY <2>1 DEF Torn
<1> HIDE DEF X, id
<1>3. \A p : p \in PanesOf(a) <=> \E i \in 1 .. Len(a) : p \in ToSet(a[i].panes)
  BY <1>1, StripFacts
<1>4. X \subseteq PanesOf(a)
  BY <1>2, <1>3
<1>5. Good(s, prev, m, m) /\ StillNamed(s, prev) /\ X \cap PanesOf(b) = {}
  <2>1. CASE id \in TabIds(a)
    <3>1. s = Without(prev, {id})
      BY <2>1 DEF AfterTear
    <3>2. Good(s, prev, m, m) /\ Named(s) /\ TabIds(b) = TabIds(a) \ {id} /\ Regrouped(b, a)
      BY <3>1, WithoutIsGood
    <3> HIDE DEF s
    <3>3. Strip(b, m)
      BY <3>2 DEF Good, StoreOK
    <3> HIDE DEF a, b
    <3>4. \A i \in 1 .. Len(a) : a[i].id = id => ToSet(a[i].panes) \cap PanesOf(b) = {}
      BY <1>1, <3>2, <3>3, RegroupedPanes
    <3>5. X \cap PanesOf(b) = {}
      BY <1>2, <3>4
    <3>6. QED
      BY <3>2, <3>5 DEF StillNamed
  <2>2. CASE id \notin TabIds(a)
    <3>1. s = prev
      BY <2>2 DEF AfterTear
    <3>2. X = {}
      BY <1>1, <1>2, <2>2, StripFacts
    <3>3. Good(s, prev, m, m)
      BY <3>1, StayIsGood
    <3> HIDE DEF s
    <3>4. StillNamed(s, prev) /\ X \cap PanesOf(b) = {}
      BY <3>1, <3>2 DEF StillNamed
    <3>5. QED
      BY <3>3, <3>4
  <2>3. QED
    BY <2>1, <2>2
<1>7. ASSUME About(tab, a) PROVE X = ToSet(tab.panes)
  <2>1. PICK i \in 1 .. Len(a) : a[i].id = id /\ a[i].panes = tab.panes
    BY <1>7 DEF About, id
  <2>2. \A j \in 1 .. Len(a) : a[j].id = id => j = i
    BY <1>1, <2>1 DEF Strip
  <2> HIDE DEF a
  <2>3. QED
    BY <1>2, <2>1, <2>2
<1>8. QED
  BY <1>4, <1>5, <1>7 DEF s, X, id

(***************************************************************************)
(* The steps.                                                              *)
(***************************************************************************)
LEMMA Facts ==
  ASSUME TabInv
  PROVE  /\ made \in Nat /\ booted \in BOOLEAN /\ StoreOK(store, made)
         /\ Strip(store.tabs, made) /\ store.tabs \in Seq(Tab(made))
         /\ Good(store, store, made, made) /\ StillNamed(store, store) /\ AllStay(store.tabs, store.tabs)
<1>1. made \in Nat /\ booted \in BOOLEAN /\ StoreOK(store, made)
  BY DEF TabInv, StripOK
<1>2. Strip(store.tabs, made) /\ store.tabs \in Seq(Tab(made))
  BY <1>1 DEF StoreOK, Strip
<1>3. Good(store, store, made, made)
  BY <1>1, StayIsGood
<1>4. QED
  BY <1>1, <1>2, <1>3 DEF StillNamed, AllStay

\* Become, with the panes that are made counted.
Becomes(n, s) == Make(n) /\ Become(s)

\* Become keeps the invariant when the store it leaves is good.
LEMMA BecomesKeeps ==
  ASSUME TabInv, booted' \in BOOLEAN, NEW n \in Nat, NEW s, Becomes(n, s),
         Good(s, store, made, made + n), ~ scene.lostEnd => StillNamed(s, store),
         menu = NoMenu \/ scene.meanwhile \/ AllStay(s.tabs, store.tabs)
  PROVE  Kept
<1>1. /\ made' = made + n /\ scene' = scene /\ moved' = moved /\ sent' = sent /\ divider' = divider
      /\ Become(s)
  BY DEF Becomes, Make
<1>2. made \in Nat
  BY Facts
<1>3. made' \in Nat /\ made <= made'
  BY <1>1, <1>2
<1>4. Good(s, store, made, made')
  BY <1>1
<1>5. QED
  BY <1>1, <1>3, <1>4, BecomeKeeps

Enters(n, s) == Make(n) /\ Entry(s)

\* An entry of the menu keeps the invariant when the store it leaves is good.
LEMMA EntersKeeps ==
  ASSUME TabInv, booted' \in BOOLEAN, NEW n \in Nat, NEW s, Enters(n, s),
         Good(s, store, made, made + n), ~ scene.lostEnd => StillNamed(s, store)
  PROVE  Kept
<1>1. /\ made' = made + n /\ scene' = scene /\ moved' = moved /\ sent' = sent /\ divider' = divider
      /\ Entry(s)
  BY DEF Enters, Make
<1>2. made \in Nat
  BY Facts
<1>3. made' \in Nat /\ made <= made'
  BY <1>1, <1>2
<1>4. Good(s, store, made, made')
  BY <1>1
<1>5. QED
  BY <1>1, <1>3, <1>4, EntryKeeps

\* A step from which no pane comes.
LEMMA NoneMade ==
  ASSUME TabInv
  PROVE  made + 0 = made /\ 0 \in Nat /\ 1 \in Nat /\ 2 \in Nat
<1>1. QED
  BY Facts

\* The end of the start-up effect.
LEMMA StartUpStep ==
  ASSUME TabInv, StartUp
  PROVE  Kept
<1>1. booted' \in BOOLEAN
  BY DEF StartUp
<1>2. StoreOK(store, made) /\ made \in Nat
  BY Facts
<1>3. ASSUME NEW n \in Nat, NEW s, Becomes(n, s), Opened(s, store, made, made + n)
      PROVE  Kept
  <2>1. Good(s, store, made, made + n) /\ StillNamed(s, store) /\ AllStay(s.tabs, store.tabs)
    BY <1>3 DEF Opened
  <2>2. QED
    BY <1>1, <1>3, <2>1, BecomesKeeps
<1>4. ASSUME Becomes(0, store) PROVE Kept
  BY <1>1, <1>4, Facts, NoneMade, BecomesKeeps
<1>5. ASSUME Becomes(1, OpenOne(store, made + 1)) PROVE Kept
  <2>1. Opened(OpenOne(store, made + 1), store, made, made + 1)
    BY <1>2, OpenOneIsGood
  <2>2. QED
    BY <1>3, <1>5, <2>1
<1>6. ASSUME OpenBlank PROVE Kept
  <2>1. CASE store.tabs = <<>>
    BY <1>5, <1>6, <2>1 DEF OpenBlank, Becomes
  <2>2. CASE store.tabs # <<>>
    BY <1>4, <1>6, <2>2 DEF OpenBlank, Becomes
  <2>3. QED
    BY <2>1, <2>2
<1>7. ASSUME Adopt PROVE Kept
  <2> DEFINE s == AdoptTab(store, TornOff)
  <2>1. Opened(s, store, made, made + 2)
    <3> DEFINE t == TornOff
    <3>1. t = [id |-> made + 1, layout |-> << <<made + 1, made + 2>> >>,
               panes |-> <<made + 1, made + 2>>, active |-> made + 1, group |-> 0,
               rowFr |-> <<>>, colFr |-> <<>>]
      BY DEF TornOff
    <3> HIDE DEF t
    <3>2. Opened(AdoptTab(store, t), store, made, made + 2)
      BY <1>2, <3>1, AdoptIsGood
    <3>3. QED
      BY <3>2 DEF t
  <2>2. Becomes(2, s)
    BY <1>7 DEF Adopt, Becomes
  <2> HIDE DEF s
  <2>3. QED
    BY <1>3, <2>1, <2>2
<1>8. ASSUME Reopen PROVE Kept
  <2>1. CASE Becomes(2, OpenOne(OpenOne(store, made + 1), made + 2))
    <3>1. Opened(OpenOne(OpenOne(store, made + 1), made + 2), store, made, made + 2)
      BY <1>2, OpenTwoIsGood
    <3>2. QED
      BY <1>3, <2>1, <3>1
  <2>2. QED
    BY <1>5, <1>6, <1>8, <2>1 DEF Reopen, Becomes
<1>9. QED
  BY <1>4, <1>6, <1>7, <1>8 DEF StartUp, Becomes

(* Steps of the keys and of the mouse, under which no menu is open unless  *)
(* the scene lets it.                                                      *)
Unseen == menu = NoMenu \/ scene.meanwhile

\* A step that makes no pane and leaves a good store.
LEMMA GoodStep ==
  ASSUME TabInv, Here, Unseen, NEW s, Becomes(0, s), Good(s, store, made, made), StillNamed(s, store)
  PROVE  Kept
<1>1. booted' \in BOOLEAN
  BY Facts DEF Here
<1>2. Good(s, store, made, made + 0)
  BY NoneMade
<1>3. QED
  BY <1>1, <1>2, NoneMade, BecomesKeeps DEF Unseen

\* Closing tabs.
LEMMA CloseAllStep ==
  ASSUME TabInv, Here, Unseen, NEW ids, CloseAll(ids)
  PROVE  Kept
<1> DEFINE s == Without(store, ids)
<1>1. Becomes(0, s)
  BY DEF CloseAll, Becomes
<1>2. Good(s, store, made, made) /\ StillNamed(s, store)
  BY Facts, WithoutIsGood DEF StillNamed
<1> HIDE DEF s
<1>3. QED
  BY <1>1, <1>2, GoodStep

\* Choosing a tab.
LEMMA ChooseStep ==
  ASSUME TabInv, Here, Unseen, NEW id, Choose(id)
  PROVE  Kept
<1> DEFINE s == SetActiveTab(store, id)
<1>1. Becomes(0, s)
  BY DEF Choose, Becomes
<1>2. Good(s, store, made, made) /\ StillNamed(s, store)
  BY Facts, SetActiveIsGood
<1> HIDE DEF s
<1>3. QED
  BY <1>1, <1>2, GoodStep

\* Closing a pane.
LEMMA ClosePaneStep ==
  ASSUME TabInv, Here, Unseen, NEW id \in TabIds(store.tabs), NEW pane \in ToSet(TabOf(store.tabs, id).panes),
         ClosePane(id, pane)
  PROVE  Kept
<1> DEFINE s == ClosePaneOf(store, id, pane)
<1>1. Becomes(0, s)
  BY DEF ClosePane, Becomes
<1>2. Good(s, store, made, made) /\ StillNamed(s, store)
  BY Facts, ClosePaneIsGood
<1> HIDE DEF s
<1>3. QED
  BY <1>1, <1>2, GoodStep

\* Splitting a tab.
LEMMA SplitStep ==
  ASSUME TabInv, Here, Unseen, NEW id \in TabIds(store.tabs), NEW dir, Split(id, dir)
  PROVE  Kept
<1> DEFINE s == SplitTab(store, id, made + 1, dir)
<1>1. (IF s = store THEN Make(0) ELSE Make(1)) /\ Become(s)
  BY DEF Split
<1>2. booted' \in BOOLEAN
  BY Facts DEF Here
<1>3. CASE s = store
  <2>1. Becomes(0, store)
    BY <1>1, <1>3 DEF Becomes
  <2>2. QED
    BY <2>1, Facts, GoodStep
<1>4. CASE s # store
  <2>1. Good(s, store, made, made + 1) /\ StillNamed(s, store)
    BY <1>4, Facts, SplitIsGood
  <2>2. Becomes(1, s)
    BY <1>1, <1>4 DEF Becomes
  <2> HIDE DEF s
  <2>3. QED
    BY <1>2, <2>1, <2>2, NoneMade, BecomesKeeps DEF Unseen
<1>5. QED
  BY <1>3, <1>4

\* Opening a tab.
LEMMA OpenOneStep ==
  ASSUME TabInv, Here, Unseen, Becomes(1, OpenOne(store, made + 1))
  PROVE  Kept
<1> DEFINE s == OpenOne(store, made + 1)
<1>1. Opened(s, store, made, made + 1)
  BY Facts, OpenOneIsGood
<1>2. booted' \in BOOLEAN
  BY Facts DEF Here
<1> HIDE DEF s
<1>3. Good(s, store, made, made + 1) /\ StillNamed(s, store)
  BY <1>1 DEF Opened
<1>4. Becomes(1, s)
  BY DEF s
<1>5. QED
  BY <1>2, <1>3, <1>4, NoneMade, BecomesKeeps DEF Unseen

\* The "+" of a strip.
LEMMA HandleNewTabStep ==
  ASSUME TabInv, NEW g \in Groups, HandleNewTab(g)
  PROVE  Kept
<1> DEFINE shown == IF IsTabSplit(store.tabs) THEN store.groupActive[g] ELSE Focused
           mid == SetActiveTab(store, shown)
           s == NewTab(mid, made + 1, g, NoTab)
<1>1. Here /\ Mouse /\ (g = 1 => IsTabSplit(store.tabs)) /\ Make(1) /\ Become(s)
  BY DEF HandleNewTab
<1>2. Becomes(1, s) /\ Unseen /\ booted' \in BOOLEAN
  BY <1>1, Facts DEF Becomes, Unseen, Mouse, Here
<1> HIDE DEF shown
<1>3. Good(mid, store, made, made) /\ StillNamed(mid, store) /\ mid.tabs = store.tabs
  BY Facts, SetActiveIsGood
<1>4. g = 0 \/ IsTabSplit(mid.tabs)
  BY <1>1, <1>3 DEF Groups
<1> HIDE DEF mid
<1>5. StoreOK(mid, made)
  BY <1>3 DEF Good
<1>6. Opened(s, mid, made, made + 1)
  BY <1>4, <1>5, Facts, NewTabIsGood
<1> HIDE DEF s
<1>7. Good(s, mid, made, made + 1) /\ StillNamed(s, mid)
  BY <1>6 DEF Opened
<1> DEFINE n == made + 1
<1>8. n \in Nat /\ made \in Nat
  BY Facts
<1> HIDE DEF n
<1>9. Good(s, store, made, n) /\ StillNamed(s, store)
  BY <1>3, <1>7, <1>8, AfterChoice DEF n
<1>10. QED
  BY <1>2, <1>9, NoneMade, BecomesKeeps DEF Unseen, n

\* A focused tab is open.
LEMMA FocusedIsOpen ==
  ASSUME TabInv, Focused # NoTab
  PROVE  Focused \in TabIds(store.tabs)
<1>1. Focus(store) /\ Strip(store.tabs, made) /\ made \in Nat
  BY Facts DEF StoreOK
<1> DEFINE tabs == store.tabs
<1>2. tabs # <<>>
  BY <1>1 DEF Focus, Focused
<1>3. PICK i \in 1 .. Len(tabs) : tabs[i].id = Focused
  BY <1>1, <1>2 DEF Focus, Focused
<1>4. Strip(tabs, made)
  BY <1>1
<1> HIDE DEF tabs
<1>5. Focused \in TabIds(tabs)
  BY <1>1, <1>3, <1>4, StripFacts
<1>6. QED
  BY <1>5 DEF tabs

\* A tab of the strip by its name.
LEMMA TabIsSound ==
  ASSUME TabInv, NEW id \in TabIds(store.tabs)
  PROVE  /\ TabOf(store.tabs, id) \in Tab(made) /\ Sound(TabOf(store.tabs, id))
         /\ TabOf(store.tabs, id).active \in ToSet(TabOf(store.tabs, id).panes)
         /\ TabOf(store.tabs, id).id = id /\ About(TabOf(store.tabs, id), store.tabs)
         /\ TabOf(store.tabs, id).group = 1 => IsTabSplit(store.tabs)
<1> DEFINE tabs == store.tabs
           i == PosOf(tabs, id)
           t == TabOf(tabs, id)
<1>1. Strip(tabs, made) /\ tabs \in Seq(Tab(made)) /\ id \in TabIds(tabs) /\ made \in Nat
  BY Facts
<1> HIDE DEF tabs
<1>2. i \in 1 .. Len(tabs) /\ t = tabs[i] /\ tabs[i].id = id
  BY <1>1, PosOfFacts
<1> HIDE DEF i, t
<1>3. t \in Tab(made) /\ Sound(t)
  BY <1>1, <1>2 DEF Strip
<1>4. t.active \in ToSet(t.panes)
  BY <1>3, SoundIs
<1>5. About(t, tabs) /\ t.id = id
  BY <1>2 DEF About
<1>6. t.group = 1 => IsTabSplit(tabs)
  BY <1>1, <1>2, StripFacts
<1>7. QED
  BY <1>3, <1>4, <1>5, <1>6 DEF t, tabs

\* The shortcuts.
LEMMA DispatchStep ==
  ASSUME TabInv, Dispatch
  PROVE  Kept
<1>1. Here /\ Unseen
  BY DEF Dispatch, Keys, Unseen
<1>2. CASE Becomes(1, OpenOne(store, made + 1))
  BY <1>1, <1>2, OpenOneStep
<1>3. CASE CloseAll({Focused})
  BY <1>1, <1>3, CloseAllStep
<1>4. CASE \E step \in {-1, 1} : Choose(Neighbour(store, step))
  BY <1>1, <1>4, ChooseStep
<1>5. CASE \E n \in 1 .. Len(store.tabs) : Choose(store.tabs[n].id)
  BY <1>1, <1>5, ChooseStep
<1>6. CASE Focused # NoTab /\ \E dir \in {"h", "v"} : Split(Focused, dir)
  BY <1>1, <1>6, FocusedIsOpen, SplitStep
<1>7. CASE Focused \in Open /\ ClosePane(Focused, TabOf(store.tabs, Focused).active)
  <2>1. Focused \in TabIds(store.tabs)
    BY <1>7 DEF Open
  <2>2. TabOf(store.tabs, Focused).active \in ToSet(TabOf(store.tabs, Focused).panes)
    BY <2>1, TabIsSound
  <2>3. QED
    BY <1>1, <1>7, <2>1, <2>2, ClosePaneStep
<1>8. QED
  BY <1>2, <1>3, <1>4, <1>5, <1>6, <1>7 DEF Dispatch, Becomes

\* The palette.
LEMMA PaletteStep ==
  ASSUME TabInv, Palette
  PROVE  Kept
<1>1. Here /\ Unseen
  BY DEF Palette, Keys, Unseen
<1>2. StoreOK(store, made) /\ made \in Nat
  BY Facts
<1>3. CASE Becomes(0, MoveTabToGroup(store, Focused, 1))
  <2> DEFINE s == MoveTabToGroup(store, Focused, 1)
  <2>1. StoreOK(s, made) /\ SameTabs(s, store) /\ (Named(store) => Named(s))
    BY <1>2, MoveKeeps DEF Groups
  <2> HIDE DEF s
  <2>2. Good(s, store, made, made)
    BY <1>2, <2>1, SameTabsIsGood
  <2>3. Becomes(0, s)
    BY <1>3 DEF s
  <2>4. QED
    BY <1>1, <2>1, <2>2, <2>3, GoodStep DEF StillNamed
<1>4. CASE Becomes(0, UnsplitTabs(store))
  <2> DEFINE s == UnsplitTabs(store)
  <2>1. StoreOK(s, made) /\ SameTabs(s, store) /\ Named(s)
    BY <1>2, UnsplitKeeps
  <2> HIDE DEF s
  <2>2. Good(s, store, made, made)
    BY <1>2, <2>1, SameTabsIsGood
  <2>3. Becomes(0, s)
    BY <1>4 DEF s
  <2>4. QED
    BY <1>1, <2>1, <2>2, <2>3, GoodStep DEF StillNamed
<1>5. QED
  BY <1>3, <1>4 DEF Palette, Becomes

\* A press on a tab of the strip.
LEMMA PressTabStep ==
  ASSUME TabInv, NEW id, PressTab(id)
  PROVE  Kept
<1>1. Here /\ Unseen
  BY DEF PressTab, Mouse, Unseen
<1>2. QED
  BY <1>1, ChooseStep, CloseAllStep DEF PressTab

\* What is on screen is open.
LEMMA VisibleIsOpen ==
  ASSUME NEW s, NEW id \in Visible(s)
  PROVE  id \in TabIds(s.tabs)
<1>1. QED
  BY DEF Visible

\* A press in a pane.
LEMMA PressPaneStep ==
  ASSUME TabInv, NEW id, PressPane(id)
  PROVE  Kept
<1>1. Here /\ Unseen /\ id \in TabIds(store.tabs)
  BY VisibleIsOpen DEF PressPane, Mouse, Unseen
<1> DEFINE mid == SetActiveTab(store, id)
<1>2. PICK pane \in ToSet(TabOf(store.tabs, id).panes) :
        \/ Becomes(0, [mid EXCEPT !.tabs[PosOf(mid.tabs, id)].active = pane])
        \/ Becomes(0, ClosePaneOf(mid, id, pane))
  BY DEF PressPane, Becomes
<1>3. Good(mid, store, made, made) /\ StillNamed(mid, store) /\ mid.tabs = store.tabs
  BY Facts, SetActiveIsGood
<1> HIDE DEF mid
<1>4. StoreOK(mid, made) /\ made \in Nat /\ id \in TabIds(mid.tabs) /\ pane \in ToSet(TabOf(mid.tabs, id).panes)
  BY <1>1, <1>2, <1>3, Facts DEF Good
<1>5. ASSUME NEW s, Becomes(0, s), Good(s, mid, made, made), StillNamed(s, mid)
      PROVE  Kept
  <2>1. Good(s, store, made, made) /\ StillNamed(s, store)
    BY <1>3, <1>4, <1>5, AfterChoice
  <2>2. QED
    BY <1>1, <1>5, <2>1, GoodStep
<1>6. CASE Becomes(0, [mid EXCEPT !.tabs[PosOf(mid.tabs, id)].active = pane])
  BY <1>4, <1>5, <1>6, ActivateIsGood
<1>7. CASE Becomes(0, ClosePaneOf(mid, id, pane))
  BY <1>4, <1>5, <1>7, ClosePaneIsGood
<1>8. QED
  BY <1>2, <1>6, <1>7

\* A step that only changes what is focused, or nothing of the store.
LEMMA QuietStep ==
  ASSUME TabInv, Here, UNCHANGED <<scene, made, killed, moved, sent>>,
         Good(store', store, made, made), StillNamed(store', store),
         PanesOf(store'.tabs) = PanesOf(store.tabs),
         DragOK', MenuOK', DividerOK'
  PROVE  Kept
<1>1. scene' = scene /\ made' = made /\ killed' = killed /\ moved' = moved /\ sent' = sent
  OBVIOUS
<1>2. made \in Nat /\ made' \in Nat /\ made <= made' /\ booted' \in BOOLEAN
  BY <1>1, Facts DEF Here
<1>3. /\ moved' = moved \cup {} /\ sent' = sent \cup {} /\ {} \in SUBSET PaneIds /\ {} \subseteq PanesOf(store.tabs)
      /\ {} \cap PanesOf(store'.tabs) = {}
      /\ killed' = killed \cup ((PanesOf(store.tabs) \ PanesOf(store'.tabs)) \ moved')
  BY <1>1
<1>4. Good(store', store, made, made')
  BY <1>1
<1>5. QED
  BY <1>1, <1>2, <1>3, <1>4, StepKeeps

\* The menu of a tab is opened: it holds the tab as it is.
LEMMA OpenMenuStep ==
  ASSUME TabInv, NEW id \in Open, OpenMenu(id)
  PROVE  Kept
<1> DEFINE s == SetActiveTab(store, id)
           t == TabOf(store.tabs, id)
<1>1. /\ Here /\ store' = s /\ UNCHANGED <<scene, made, killed, moved, sent, dragId, divider>>
      /\ menu' = [strip |-> StripOf(s, id), tab |-> TabOf(s.tabs, id), lone |-> Len(s.tabs) < 2]
  BY DEF OpenMenu
<1>2. Good(s, store, made, made) /\ StillNamed(s, store) /\ s.tabs = store.tabs
  BY Facts, SetActiveIsGood
<1> HIDE DEF s
<1>3. id \in TabIds(store.tabs)
  BY DEF Open
<1>4. /\ t \in Tab(made) /\ Sound(t) /\ t.id = id /\ About(t, store.tabs)
      /\ (t.group = 1 => IsTabSplit(store.tabs))
  BY <1>3, TabIsSound
<1>5. StripOf(s, id) = IF IsTabSplit(store.tabs) THEN t.group ELSE 0
  BY <1>2 DEF StripOf, GroupOf
<1> HIDE DEF t
<1>6. menu' = [strip |-> StripOf(s, id), tab |-> t, lone |-> Len(s.tabs) < 2]
  BY <1>1, <1>2 DEF t
<1>7. t.group \in Groups
  BY <1>4 DEF Tab
<1>8. MenuOK'
  <2>1. StripOf(s, id) \in Groups /\ (t.group = 1 => StripOf(s, id) = 1)
        /\ (StripOf(s, id) = 1 => IsTabSplit(store.tabs))
    BY <1>4, <1>5, <1>7 DEF Groups
  <2> DEFINE k == StripOf(s, id)
             lone == Len(s.tabs) < 2
  <2>2. lone \in BOOLEAN
    OBVIOUS
  <2> HIDE DEF k, lone
  <2>3. menu' = [strip |-> k, tab |-> t, lone |-> lone] /\ k \in Groups /\ t \in Tab(made)
    BY <1>4, <1>6, <2>1 DEF k, lone
  <2>4. menu' \in [strip : Groups, tab : Tab(made'), lone : BOOLEAN]
    BY <1>1, <2>2, <2>3
  <2>5. menu'.tab = t /\ menu'.strip = k /\ store'.tabs = store.tabs /\ scene' = scene
    BY <1>1, <1>2, <2>3
  <2>6. QED
    BY <1>4, <2>1, <2>4, <2>5 DEF MenuOK, k
<1>9. DragOK' /\ DividerOK'
  BY <1>1 DEF TabInv, DragOK, DividerOK
<1>10. Good(store', store, made, made) /\ StillNamed(store', store) /\ PanesOf(store'.tabs) = PanesOf(store.tabs)
  BY <1>1, <1>2
<1>11. QED
  BY <1>1, <1>8, <1>9, <1>10, QuietStep

\* An entry that makes no pane and leaves a good store.
LEMMA GoodEntry ==
  ASSUME TabInv, Here, NEW s, Enters(0, s), Good(s, store, made, made), StillNamed(s, store)
  PROVE  Kept
<1>1. booted' \in BOOLEAN
  BY Facts DEF Here
<1>2. Good(s, store, made, made + 0)
  BY NoneMade
<1>3. QED
  BY <1>1, <1>2, NoneMade, EntersKeeps

\* The tab an open menu holds.
LEMMA MenuHolds ==
  ASSUME TabInv, menu # NoMenu
  PROVE  /\ menu.tab \in Tab(made) /\ menu.tab.group \in Groups /\ menu.tab.id \in 1 .. made
         /\ menu.tab.group = 1 => IsTabSplit(store.tabs)
         /\ ~ scene.meanwhile => About(menu.tab, store.tabs)
<1>1. /\ menu \in [strip : Groups, tab : Tab(made), lone : BOOLEAN]
      /\ menu.tab.group = 1 => menu.strip = 1
      /\ menu.strip = 1 => IsTabSplit(store.tabs)
      /\ ~ scene.meanwhile => About(menu.tab, store.tabs)
  BY DEF TabInv, MenuOK
<1>2. menu.tab \in Tab(made)
  BY <1>1
<1>3. menu.tab.group \in Groups /\ menu.tab.id \in 1 .. made
  BY <1>2 DEF Tab
<1>4. QED
  BY <1>1, <1>2, <1>3

\* The entry that splits.
LEMMA MenuSplitStep ==
  ASSUME TabInv, Here, NEW tab, MenuSplit(tab)
  PROVE  Kept
<1>1. PICK dir \in {"h", "v"} :
        LET s == IF tab.id \in Open THEN SplitTab(store, tab.id, made + 1, dir) ELSE store
        IN  (IF s = store THEN Make(0) ELSE Make(1)) /\ Entry(s)
  BY DEF MenuSplit
<1> DEFINE s == IF tab.id \in Open THEN SplitTab(store, tab.id, made + 1, dir) ELSE store
<1>2. (IF s = store THEN Make(0) ELSE Make(1)) /\ Entry(s)
  BY <1>1
<1>3. CASE s = store
  <2>1. Enters(0, store)
    BY <1>2, <1>3 DEF Enters
  <2>2. QED
    BY <2>1, Facts, GoodEntry
<1>4. CASE s # store
  <2>1. tab.id \in TabIds(store.tabs) /\ s = SplitTab(store, tab.id, made + 1, dir)
    BY <1>4 DEF Open
  <2>2. Enters(1, s)
    BY <1>2, <1>4 DEF Enters
  <2> HIDE DEF s
  <2>3. Good(s, store, made, made + 1) /\ StillNamed(s, store)
    BY <1>4, <2>1, Facts, SplitIsGood
  <2>4. booted' \in BOOLEAN
    BY Facts DEF Here
  <2>5. QED
    BY <2>2, <2>3, <2>4, NoneMade, EntersKeeps
<1>5. QED
  BY <1>3, <1>4

\* The entries that move the tab to the other side, or undo the split.
LEMMA MenuGroupStep ==
  ASSUME TabInv, Here, menu # NoMenu, MenuGroup(menu.tab)
  PROVE  Kept
<1>1. StoreOK(store, made) /\ made \in Nat
  BY Facts
<1> DEFINE tab == menu.tab
           to == 1 - tab.group
           moved2 == MoveTabToGroup(store, tab.id, to)
<1>2. to \in Groups
  BY MenuHolds DEF Groups
<1>3. \/ Enters(0, IF tab.id \in Open THEN moved2 ELSE store)
      \/ Enters(0, UnsplitTabs(store))
  BY DEF MenuGroup, EntryOnly, Enters
<1> HIDE DEF to
<1>4. CASE Enters(0, moved2)
  <2>1. StoreOK(moved2, made) /\ SameTabs(moved2, store) /\ (Named(store) => Named(moved2))
    BY <1>1, <1>2, MoveKeeps
  <2> HIDE DEF moved2
  <2>2. Good(moved2, store, made, made)
    BY <1>1, <2>1, SameTabsIsGood
  <2>3. QED
    BY <1>4, <2>1, <2>2, GoodEntry DEF StillNamed
<1>5. CASE Enters(0, store)
  BY <1>5, Facts, GoodEntry
<1>6. CASE Enters(0, UnsplitTabs(store))
  <2> DEFINE s == UnsplitTabs(store)
  <2>1. StoreOK(s, made) /\ SameTabs(s, store) /\ Named(s)
    BY <1>1, UnsplitKeeps
  <2>2. Enters(0, s)
    BY <1>6
  <2> HIDE DEF s
  <2>3. Good(s, store, made, made)
    BY <1>1, <2>1, SameTabsIsGood
  <2>4. QED
    BY <2>1, <2>2, <2>3, GoodEntry DEF StillNamed
<1>7. QED
  BY <1>3, <1>4, <1>5, <1>6

(* Tear-off, from the menu or by dragging the tab out of the window.       *)
LEMMA TearOffKeeps ==
  ASSUME TabInv, Here, NEW tab \in Tab(made), ~ scene.meanwhile => About(tab, store.tabs),
         UNCHANGED <<scene, made, divider>>,
         sent' = sent \cup ToSet(tab.panes), moved' = moved \cup Torn(store.tabs, tab.id),
         NEW s, s = AfterTear(store, tab.id), Entry(s) \/ (menu = NoMenu /\ Become(s))
  PROVE  Kept
<1> DEFINE X == Torn(store.tabs, tab.id)
           Y == ToSet(tab.panes)
<1>1. /\ made \in Nat /\ DragOK /\ DividerOK /\ MenuOK /\ booted' \in BOOLEAN
      /\ scene' = scene /\ made' = made /\ divider' = divider /\ made' \in Nat /\ made <= made'
      /\ StoreOK(store, made)
  BY Facts DEF TabInv, Here
<1>2. /\ Good(s, store, made, made) /\ StillNamed(s, store)
      /\ X \subseteq PanesOf(store.tabs) /\ X \cap PanesOf(s.tabs) = {}
      /\ About(tab, store.tabs) => X = Y
  BY <1>1, TornFacts
<1>3. Y \in SUBSET PaneIds
  <2>1. tab.panes \in Seq(1 .. made)
    BY DEF Tab
  <2>2. ToSet(tab.panes) \subseteq 1 .. made
    BY <2>1, Members
  <2>3. QED
    BY <2>2 DEF PaneIds
<1>4. moved' = moved \cup X /\ sent' = sent \cup Y /\ (~ scene.meanwhile => X = Y)
  BY <1>2
<1> HIDE DEF X, Y
<1>5. /\ store' = s
      /\ killed' = killed \cup ((PanesOf(store.tabs) \ PanesOf(store'.tabs)) \ moved')
      /\ dragId' = IF IsTabSplit(store'.tabs) THEN dragId ELSE [dragId EXCEPT ![1] = NoTab]
  BY DEF Entry, Become
<1>6. MenuOK'
  <2>1. CASE Entry(s)
    BY <2>1, NoMenuIsOK DEF Entry
  <2>2. CASE menu = NoMenu /\ Become(s)
    <3>1. menu' = IF menu.strip = 1 /\ ~ IsTabSplit(store'.tabs) THEN NoMenu ELSE menu
      BY <1>5, <2>2 DEF Become
    <3>2. QED
      BY <1>1, <2>2, <3>1, MenuStays
  <2>3. QED
    BY <2>1, <2>2
<1>7. DragOK'
  <2>1. IsTabSplit(store'.tabs) \in BOOLEAN
    BY DEF IsTabSplit
  <2>2. QED
    BY <1>1, <1>5, <2>1, DragStays
<1>8. DividerOK'
  BY <1>1, DividerStays
<1>9. Good(store', store, made, made') /\ StillNamed(store', store) /\ X \cap PanesOf(store'.tabs) = {}
  BY <1>1, <1>2, <1>5
<1>10. QED
  BY <1>1, <1>2, <1>3, <1>4, <1>5, <1>6, <1>7, <1>8, <1>9, StepKeeps

\* Any entry of the menu.
LEMMA PickEntryStep ==
  ASSUME TabInv, PickEntry
  PROVE  Kept
<1> DEFINE tab == menu.tab
<1>1. Here /\ menu # NoMenu
  BY DEF PickEntry
<1>2. /\ tab \in Tab(made) /\ tab.group \in Groups
      /\ (tab.group = 1 => IsTabSplit(store.tabs))
      /\ (~ scene.meanwhile => About(tab, store.tabs))
  BY <1>1, MenuHolds
<1>3. StoreOK(store, made) /\ made \in Nat /\ booted' \in BOOLEAN
  BY <1>1, Facts DEF Here
<1>4. CASE Enters(1, NewTab(store, made + 1, tab.group, tab.id))
  <2> DEFINE s == NewTab(store, made + 1, tab.group, tab.id)
  <2>1. tab.group = 0 \/ IsTabSplit(store.tabs)
    BY <1>2 DEF Groups
  <2>2. Opened(s, store, made, made + 1)
    BY <1>2, <1>3, <2>1, NewTabIsGood
  <2>3. Enters(1, s)
    BY <1>4
  <2> HIDE DEF s
  <2>4. Good(s, store, made, made + 1) /\ StillNamed(s, store)
    BY <2>2 DEF Opened
  <2>5. QED
    BY <1>3, <2>3, <2>4, NoneMade, EntersKeeps
<1>5. CASE MenuSplit(tab)
  BY <1>1, <1>5, MenuSplitStep
<1>6. CASE MenuGroup(tab)
  BY <1>1, <1>6, MenuGroupStep
<1>7. CASE TearOff(tab, Entry)
  <2>1. UNCHANGED <<scene, made, divider>>
    BY <1>7 DEF TearOff
  <2>2. CASE Len(store.tabs) < 2
    <3>1. UNCHANGED <<moved, sent>> /\ Entry(store)
      BY <1>7, <2>2 DEF TearOff
    <3>2. Enters(0, store)
      BY <1>3, <2>1, <3>1 DEF Enters, Make
    <3>3. QED
      BY <1>1, <3>2, Facts, GoodEntry
  <2>3. CASE ~ (Len(store.tabs) < 2)
    <3>1. sent' = sent \cup ToSet(tab.panes) /\ moved' = moved \cup Torn(store.tabs, tab.id)
          /\ Entry(AfterTear(store, tab.id))
      BY <1>7, <2>3 DEF TearOff, Torn, AfterTear, Open
    <3>2. QED
      BY <1>1, <1>2, <2>1, <3>1, TearOffKeeps
  <2>4. QED
    BY <2>2, <2>3
<1>8. CASE Enters(0, IF tab.id \in Open THEN Without(store, {tab.id}) ELSE store)
  <2>1. CASE Enters(0, store)
    BY <1>1, <2>1, Facts, GoodEntry
  <2>2. CASE Enters(0, Without(store, {tab.id}))
    BY <1>1, <1>3, <2>2, WithoutIsGood, GoodEntry DEF StillNamed
  <2>3. QED
    BY <1>8, <2>1, <2>2
<1>9. CASE Enters(0, Without(store, Open \ {tab.id}))
  BY <1>1, <1>3, <1>9, WithoutIsGood, GoodEntry DEF StillNamed
<1>10. CASE Enters(0, CloseTabsToRight(store, tab.id))
  BY <1>1, <1>3, <1>10, CloseRightIsGood, GoodEntry DEF StillNamed
<1>11. CASE Enters(0, store)
  BY <1>1, <1>11, Facts, GoodEntry
<1>12. QED
  BY <1>4, <1>5, <1>6, <1>7, <1>8, <1>9, <1>10, <1>11 DEF PickEntry, EntryOnly, Enters

(* The strip a tab is listed in is that of its group.                      *)
LEMMA StripIsGroup ==
  ASSUME NEW m \in Nat, NEW s, StoreOK(s, m), NEW id \in TabIds(s.tabs)
  PROVE  StripOf(s, id) = GroupOf(s.tabs, id) /\ StripOf(s, id) \in Groups /\ id \in 1 .. m
<1> DEFINE tabs == s.tabs
<1>1. Strip(tabs, m) /\ id \in TabIds(tabs)
  BY DEF StoreOK
<1> HIDE DEF tabs
<1>2. PICK i \in 1 .. Len(tabs) : tabs[i].id = id
  BY <1>1, StripFacts
<1>3. GroupOf(tabs, id) = tabs[i].group /\ tabs[i].group \in Groups /\ id \in 1 .. m
  BY <1>1, <1>2, StripFacts
<1>4. ~ IsTabSplit(tabs) => tabs[i].group = 0
  BY <1>1, <1>3, StripFacts DEF Groups
<1>5. StripOf(s, id) = GroupOf(tabs, id)
  BY <1>3, <1>4 DEF StripOf, tabs
<1>6. QED
  BY <1>3, <1>5 DEF tabs

\* Two steps that only regroup.
LEMMA RegroupTwice ==
  ASSUME NEW m \in Nat, NEW a, StoreOK(a, m), NEW b, StoreOK(b, m), NEW c, StoreOK(c, m),
         SameTabs(b, a), SameTabs(c, b)
  PROVE  SameTabs(c, a)
<1> DEFINE x == a.tabs
           y == b.tabs
           z == c.tabs
<1>1. /\ Strip(x, m) /\ Strip(y, m) /\ Strip(z, m) /\ Regrouped(y, x) /\ Regrouped(z, y)
      /\ TabIds(y) = TabIds(x) /\ TabIds(z) = TabIds(y)
  BY DEF StoreOK, SameTabs
<1> HIDE DEF x, y, z
<1>2. Regrouped(z, x)
  BY <1>1, Twice
<1>3. QED
  BY <1>1, <1>2 DEF SameTabs, x, y, z

(* A drop regroups and orders; it leaves both sides named unless a ref of  *)
(* the other strip was lost on the way.                                    *)
LEMMA DropOnTabFacts ==
  ASSUME NEW m \in Nat, NEW from, StoreOK(from, m), NEW id, NEW t \in TabIds(from.tabs), NEW drag
  PROVE  LET s == DropOnTab(from, drag, id, t)
         IN  /\ StoreOK(s, m) /\ SameTabs(s, from)
             /\ (\A g \in Groups : drag[g] \in TabIds(from.tabs) => GroupOf(from.tabs, drag[g]) = g)
                  => StillNamed(s, from)
<1> DEFINE h == StripOf(from, t)
           other == drag[h]
           ordered == IF other \in {NoTab, t} THEN from ELSE ReorderTab(from, other, t)
           s == DropOnTab(from, drag, id, t)
           own == \A g \in Groups : drag[g] \in TabIds(from.tabs) => GroupOf(from.tabs, drag[g]) = g
<1>1. h \in Groups /\ h = GroupOf(from.tabs, t)
  BY StripIsGroup
<1>2. s = MoveTabToGroup(ordered, id, h)
  BY DEF DropOnTab
<1> HIDE DEF h, s
<1>3. StoreOK(ordered, m) /\ SameTabs(ordered, from) /\ (own => StillNamed(ordered, from))
  <2>1. CASE other \in {NoTab, t}
    <3>1. ordered = from
      BY <2>1
    <3>2. Strip(from.tabs, m)
      BY DEF StoreOK
    <3>3. SameTabs(from, from)
      BY <3>2, Same DEF SameTabs
    <3>4. QED
      BY <3>1, <3>3 DEF StillNamed
  <2>2. CASE other \notin {NoTab, t}
    <3> DEFINE r == ReorderTab(from, other, t)
    <3>1. ordered = r
      BY <2>2
    <3>2. /\ StoreOK(r, m) /\ SameTabs(r, from)
          /\ Named(from) /\ (other \in TabIds(from.tabs) /\ t \in TabIds(from.tabs)
                               => GroupOf(from.tabs, other) = GroupOf(from.tabs, t))
               => Named(r)
      BY ReorderKeeps
    <3> HIDE DEF r, ordered
    <3>3. own => StillNamed(r, from)
      BY <1>1, <3>2 DEF StillNamed
    <3>4. QED
      BY <3>1, <3>2, <3>3
  <2>3. QED
    BY <2>1, <2>2
<1> HIDE DEF ordered
<1>4. StoreOK(s, m) /\ SameTabs(s, ordered) /\ (Named(ordered) => Named(s))
  BY <1>1, <1>2, <1>3, MoveKeeps
<1>5. SameTabs(s, from)
  BY <1>3, <1>4, RegroupTwice
<1>6. own => StillNamed(s, from)
  BY <1>3, <1>4 DEF StillNamed
<1>7. QED
  BY <1>4, <1>5, <1>6 DEF s

\* A drop on the panes only regroups.
LEMMA DropInAreaFacts ==
  ASSUME NEW m \in Nat, NEW from, StoreOK(from, m), NEW id, NEW zone \in {-1, 0, 1}
  PROVE  LET s == DropInArea(from, id, zone)
         IN  StoreOK(s, m) /\ SameTabs(s, from) /\ StillNamed(s, from)
<1> DEFINE s == DropInArea(from, id, zone)
<1>1. CASE zone = -1
  <2>1. s = from
    BY <1>1 DEF DropInArea
  <2>2. Strip(from.tabs, m)
    BY DEF StoreOK
  <2>3. SameTabs(from, from)
    BY <2>2, Same DEF SameTabs
  <2>4. QED
    BY <2>1, <2>3 DEF StillNamed
<1>2. CASE zone # -1
  <2>1. s = MoveTabToGroup(from, id, zone) /\ zone \in Groups
    BY <1>2 DEF DropInArea, Groups
  <2>2. QED
    BY <2>1, MoveKeeps DEF StillNamed
<1>3. QED
  BY <1>1, <1>2

\* A drag within the window, wherever it is dropped.
LEMMA DragTabStep ==
  ASSUME TabInv, NEW id \in Open, DragTab(id)
  PROVE  Kept
<1> DEFINE from == SetActiveTab(store, id)
           strip == StripOf(from, id)
           drag == [dragId EXCEPT ![strip] = id]
<1>1. /\ Here /\ Mouse /\ Make(0) /\ UNCHANGED menu
      /\ \E s \in {DropOnTab(from, drag, id, t) : t \in TabIds(from.tabs)}
                   \cup {DropInArea(from, id, zone) : zone \in {-1, 0, 1}} :
              /\ store' = s
              /\ UNCHANGED killed
              /\ \E ended \in IF scene.lostEnd /\ StripOf(s, id) # strip THEN BOOLEAN ELSE {TRUE} :
                    dragId' = [g \in Groups |->
                        IF (g = strip /\ ended) \/ (g = 1 /\ ~IsTabSplit(s.tabs)) THEN NoTab
                        ELSE drag[g]]
  BY DEF DragTab
<1>2. /\ made \in Nat /\ scene' = scene /\ made' = made /\ moved' = moved /\ sent' = sent /\ divider' = divider
      /\ menu = NoMenu /\ menu' = NoMenu /\ killed' = killed
  BY <1>1, Facts DEF Make, Mouse
<1>3. Good(from, store, made, made) /\ StillNamed(from, store) /\ from.tabs = store.tabs
  BY Facts, SetActiveIsGood
<1> HIDE DEF from
<1>4. StoreOK(from, made) /\ id \in TabIds(from.tabs)
  BY <1>3 DEF Good, Open
<1>5. strip = GroupOf(from.tabs, id) /\ strip \in Groups /\ id \in 1 .. made
  BY <1>2, <1>4, StripIsGroup
<1>6. dragId \in [Groups -> 0 .. made] /\ (~ scene.lostEnd => dragId = [g \in Groups |-> NoTab])
  BY DEF TabInv, DragOK
<1> HIDE DEF strip
<1>7. /\ drag \in [Groups -> 0 .. made] /\ drag[strip] = id
      /\ ~ scene.lostEnd => \A g \in Groups : g # strip => drag[g] = NoTab
  BY <1>2, <1>5, <1>6
<1> HIDE DEF drag
<1>8. ASSUME ~ scene.lostEnd, NEW g \in Groups, drag[g] \in TabIds(from.tabs)
      PROVE  GroupOf(from.tabs, drag[g]) = g
  <2>1. CASE g = strip
    BY <1>5, <1>7, <2>1
  <2>2. CASE g # strip
    <3>1. drag[g] = NoTab
      BY <1>7, <1>8, <2>2
    <3>2. drag[g] \in 1 .. made
      BY <1>2, <1>4, <1>8, StripIsGroup
    <3>3. QED
      BY <3>1, <3>2 DEF NoTab
  <2>3. QED
    BY <2>1, <2>2
<1>9. ASSUME NEW s \in {DropOnTab(from, drag, id, t) : t \in TabIds(from.tabs)}
                        \cup {DropInArea(from, id, zone) : zone \in {-1, 0, 1}}
      PROVE  StoreOK(s, made) /\ SameTabs(s, from) /\ (~ scene.lostEnd => StillNamed(s, from))
  <2>1. CASE \E t \in TabIds(from.tabs) : s = DropOnTab(from, drag, id, t)
    <3>1. PICK t \in TabIds(from.tabs) : s = DropOnTab(from, drag, id, t)
      BY <2>1
    <3>2. /\ StoreOK(s, made) /\ SameTabs(s, from)
          /\ (\A g \in Groups : drag[g] \in TabIds(from.tabs) => GroupOf(from.tabs, drag[g]) = g)
               => StillNamed(s, from)
      BY <1>2, <1>4, <3>1, DropOnTabFacts
    <3>3. QED
      BY <1>8, <3>2
  <2>2. CASE \E zone \in {-1, 0, 1} : s = DropInArea(from, id, zone)
    BY <1>2, <1>4, <2>2, DropInAreaFacts
  <2>3. QED
    BY <1>9, <2>1, <2>2
<1>10. PICK s \in {DropOnTab(from, drag, id, t) : t \in TabIds(from.tabs)}
                   \cup {DropInArea(from, id, zone) : zone \in {-1, 0, 1}} :
              /\ store' = s
              /\ \E ended \in IF scene.lostEnd /\ StripOf(s, id) # strip THEN BOOLEAN ELSE {TRUE} :
                    dragId' = [g \in Groups |->
                        IF (g = strip /\ ended) \/ (g = 1 /\ ~IsTabSplit(s.tabs)) THEN NoTab
                        ELSE drag[g]]
  BY <1>1 DEF drag
<1>11. StoreOK(s, made) /\ SameTabs(s, from) /\ (~ scene.lostEnd => StillNamed(s, from))
  BY <1>9
<1>12. Good(s, from, made, made) /\ PanesOf(s.tabs) = PanesOf(from.tabs)
  BY <1>2, <1>4, <1>11, SameTabsIsGood
<1>13. /\ Good(store', store, made, made) /\ (~ scene.lostEnd => StillNamed(store', store))
       /\ PanesOf(store'.tabs) = PanesOf(store.tabs)
  BY <1>3, <1>10, <1>11, <1>12 DEF Good, StillNamed
<1>14. DragOK'
  <2>1. PICK ended \in IF scene.lostEnd /\ StripOf(s, id) # strip THEN BOOLEAN ELSE {TRUE} :
          dragId' = [g \in Groups |->
              IF (g = strip /\ ended) \/ (g = 1 /\ ~IsTabSplit(s.tabs)) THEN NoTab ELSE drag[g]]
    BY <1>10
  <2>2. dragId' \in [Groups -> 0 .. made']
    <3>1. 0 \in 0 .. made
      BY <1>2
    <3>2. QED
      BY <1>2, <1>7, <2>1, <3>1 DEF NoTab
  <2>3. ASSUME ~ scene.lostEnd PROVE dragId' = [g \in Groups |-> NoTab]
    <3>1. ended = TRUE
      BY <2>1, <2>3
    <3>2. QED
      BY <1>7, <2>1, <2>3, <3>1
  <2>4. QED
    BY <1>2, <2>2, <2>3 DEF DragOK
<1>15. MenuOK' /\ DividerOK'
  BY <1>2, NoMenuIsOK, DividerStays DEF TabInv
<1>16. /\ moved' = moved \cup {} /\ sent' = sent \cup {} /\ {} \in SUBSET PaneIds /\ {} \subseteq PanesOf(store.tabs)
       /\ {} \cap PanesOf(store'.tabs) = {}
       /\ killed' = killed \cup ((PanesOf(store.tabs) \ PanesOf(store'.tabs)) \ moved')
  BY <1>2, <1>13
<1>17. made' \in Nat /\ made <= made' /\ booted' \in BOOLEAN /\ Good(store', store, made, made')
  BY <1>1, <1>2, <1>13, Facts DEF Here
<1>18. QED
  BY <1>2, <1>13, <1>14, <1>15, <1>16, <1>17, StepKeeps

\* A drag out of the window.
LEMMA DragOutStep ==
  ASSUME TabInv, NEW id \in Open, DragOut(id)
  PROVE  Kept
<1> DEFINE tab == TabOf(store.tabs, id)
<1>1. Here /\ Mouse /\ menu = NoMenu /\ TearOff(tab, Become)
  BY DEF DragOut, Mouse
<1>2. tab \in Tab(made) /\ tab.id = id /\ About(tab, store.tabs)
  BY TabIsSound DEF Open
<1> HIDE DEF tab
<1>3. UNCHANGED <<scene, made, divider>>
  BY <1>1 DEF TearOff
<1>4. CASE Len(store.tabs) < 2
  <2>1. UNCHANGED <<moved, sent>> /\ Become(store)
    BY <1>1, <1>4 DEF TearOff
  <2>2. Becomes(0, store) /\ Unseen
    BY <1>1, <1>3, <2>1, Facts DEF Becomes, Make, Unseen
  <2>3. QED
    BY <1>1, <2>2, Facts, GoodStep
<1>5. CASE ~ (Len(store.tabs) < 2)
  <2>1. sent' = sent \cup ToSet(tab.panes) /\ moved' = moved \cup Torn(store.tabs, tab.id)
        /\ Become(AfterTear(store, tab.id))
    BY <1>1, <1>5 DEF TearOff, Torn, AfterTear, Open
  <2>2. QED
    BY <1>1, <1>2, <1>3, <2>1, TearOffKeeps
<1>6. QED
  BY <1>4, <1>5

\* A shell ends.
LEMMA ShellExitsStep ==
  ASSUME TabInv, ShellExits
  PROVE  Kept
<1>1. Here /\ Unseen
  BY DEF ShellExits, Keys, Unseen
<1>2. PICK id \in Open : \E pane \in ToSet(TabOf(store.tabs, id).panes) : ClosePane(id, pane)
  BY DEF ShellExits
<1>3. QED
  BY <1>1, <1>2, ClosePaneStep DEF Open

\* A divider is grabbed: the shares it holds fill the tab.
LEMMA GrabDividerStep ==
  ASSUME TabInv, GrabDivider
  PROVE  Kept
<1>1. /\ Here /\ UNCHANGED <<scene, store, made, killed, moved, sent, menu, dragId>>
  BY DEF GrabDivider
<1>2. PICK id \in Visible(store) :
        LET t == TabOf(store.tabs, id)
            lines == {<<0, i>> : i \in 2..Len(t.layout)}
                       \cup UNION {{<<r, i>> : i \in 2..Len(t.layout[r])} : r \in DOMAIN t.layout}
        IN  \E at \in lines :
                 divider' = [held |-> TRUE, tab |-> id, row |-> at[1], before |-> at[2],
                             rows |-> RowShares(t), cols |-> ColShares(t)]
  BY DEF GrabDivider
<1> DEFINE t == TabOf(store.tabs, id)
<1>3. t \in Tab(made) /\ Sound(t) /\ made \in Nat
  BY VisibleIsOpen, TabIsSound, Facts
<1>4. /\ Filled(RowShares(t)) /\ Len(RowShares(t)) = Len(t.layout)
      /\ ColShares(t) \in Seq(Seq(1 .. Whole)) /\ Len(ColShares(t)) = Len(t.layout)
      /\ \A r \in 1 .. Len(t.layout) : /\ Filled(ColShares(t)[r])
                                       /\ Len(ColShares(t)[r]) = Len(t.layout[r])
  BY <1>3, SizesFill
<1>5. t.layout \in Seq(Seq(1 .. made))
  BY <1>3 DEF Tab
<1>6. PICK at \in {<<0, i>> : i \in 2..Len(t.layout)}
                    \cup UNION {{<<r, i>> : i \in 2..Len(t.layout[r])} : r \in DOMAIN t.layout} :
             divider' = [held |-> TRUE, tab |-> id, row |-> at[1], before |-> at[2],
                         rows |-> RowShares(t), cols |-> ColShares(t)]
  BY <1>2
<1> DEFINE rows == RowShares(t)
           cols == ColShares(t)
           layout == t.layout
<1>7. DOMAIN layout = 1 .. Len(layout)
  BY <1>5
<1>8. \/ at[1] = 0 /\ at[2] \in 2 .. Len(layout)
      \/ at[1] \in 1 .. Len(layout) /\ at[2] \in 2 .. Len(layout[at[1]])
  BY <1>6, <1>7
<1> HIDE DEF rows, cols, layout, t
<1>9. /\ Filled(rows) /\ Len(rows) = Len(layout)
      /\ cols \in Seq(Seq(1 .. Whole)) /\ Len(cols) = Len(layout)
      /\ \A r \in 1 .. Len(layout) : Filled(cols[r]) /\ Len(cols[r]) = Len(layout[r])
  BY <1>4 DEF rows, cols, layout
<1>10. /\ divider'.row = at[1] /\ divider'.before = at[2] /\ divider'.rows = rows /\ divider'.cols = cols
  BY <1>6 DEF rows, cols
<1>11. Held(divider')
  BY <1>8, <1>9, <1>10 DEF Held, Filled
<1>12. DividerOK'
  BY <1>11 DEF DividerOK
<1>13. DragOK' /\ MenuOK'
  BY <1>1 DEF TabInv, DragOK, MenuOK
<1>14. QED
  BY <1>1, <1>12, <1>13, Facts, QuietStep

\* A divider is moved, whatever became of its tab.
LEMMA MoveDividerStep ==
  ASSUME TabInv, MoveDivider
  PROVE  Kept
<1>1. Here /\ divider.held /\ UNCHANGED <<scene, made, killed, moved, sent, menu, dragId, divider>>
  BY DEF MoveDivider
<1>2. Held(divider)
  BY <1>1 DEF TabInv, DividerOK
<1>3. PICK pull \in Pulls :
        store' = [store EXCEPT !.tabs = [k \in DOMAIN store.tabs |->
            IF store.tabs[k].id # divider.tab THEN store.tabs[k] ELSE Resized(store.tabs[k], divider, pull)]]
  BY DEF MoveDivider, Resized
<1>4. pull \in Int
  BY DEF Pulls, Whole
<1>5. /\ Good(store', store, made, made) /\ StillNamed(store', store) /\ AllStay(store'.tabs, store.tabs)
      /\ (IsTabSplit(store.tabs) => IsTabSplit(store'.tabs))
  <2> DEFINE s == store'
             d == divider
             m == made
  <2>1. StoreOK(store, m) /\ m \in Nat
    BY Facts
  <2>2. Held(d)
    BY <1>2
  <2>3. s = [store EXCEPT !.tabs = [k \in DOMAIN store.tabs |->
               IF store.tabs[k].id # d.tab THEN store.tabs[k] ELSE Resized(store.tabs[k], d, pull)]]
    BY <1>3
  <2> HIDE DEF s, d, m
  <2>4. Good(s, store, m, m) /\ StillNamed(s, store) /\ AllStay(s.tabs, store.tabs)
        /\ (IsTabSplit(store.tabs) => IsTabSplit(s.tabs))
    BY <1>4, <2>1, <2>2, <2>3, ResizeIsGood
  <2>5. QED
    BY <2>4 DEF s, m
<1>6. PanesOf(store'.tabs) = PanesOf(store.tabs)
  <2> DEFINE a == store.tabs
             b == store'.tabs
  <2>1. AllStay(b, a) /\ PanesOf(b) \subseteq PanesOf(a) \cup Fresh(made, made)
        /\ Strip(a, made) /\ Strip(b, made) /\ made \in Nat
    BY <1>5, Facts DEF Good, StoreOK
  <2>2. Fresh(made, made) = {}
    BY <2>1 DEF Fresh
  <2> HIDE DEF a, b
  <2>3. ASSUME NEW p \in PanesOf(a) PROVE p \in PanesOf(b)
    <3>1. PICK j \in 1 .. Len(a) : p \in ToSet(a[j].panes)
      BY <2>1, StripFacts
    <3>2. PICK i \in 1 .. Len(b) : b[i].panes = a[j].panes
      BY <2>1 DEF AllStay
    <3>3. QED
      BY <2>1, <3>1, <3>2, StripFacts
  <2>4. QED
    BY <2>1, <2>2, <2>3 DEF a, b
<1>7. DragOK' /\ DividerOK'
  BY <1>1 DEF TabInv, DragOK, DividerOK
<1>8. MenuOK'
  <2>1. CASE menu = NoMenu
    BY <1>1, <2>1 DEF MenuOK
  <2>2. CASE menu # NoMenu
    <3>1. /\ menu' = menu /\ scene' = scene /\ made' = made /\ made \in Nat /\ made <= made
          /\ menu \in [strip : Groups, tab : Tab(made), lone : BOOLEAN]
          /\ menu.strip = 1 => IsTabSplit(store.tabs)
      BY <1>1, <2>2, Facts DEF TabInv, MenuOK
    <3>2. menu' = IF menu.strip = 1 /\ ~ IsTabSplit(store'.tabs) THEN NoMenu ELSE menu
      BY <1>5, <3>1
    <3>3. QED
      BY <1>5, <3>1, <3>2, MenuStays DEF TabInv
  <2>3. QED
    BY <2>1, <2>2
<1>9. QED
  BY <1>1, <1>5, <1>6, <1>7, <1>8, QuietStep

\* A divider is let go.
LEMMA DropDividerStep ==
  ASSUME TabInv, DropDivider
  PROVE  Kept
<1>1. Here /\ divider' = NoDivider /\ UNCHANGED <<scene, store, made, killed, moved, sent, menu, dragId>>
  BY DEF DropDivider
<1>2. DividerOK' /\ DragOK' /\ MenuOK'
  BY <1>1 DEF TabInv, DragOK, MenuOK, DividerOK, NoDivider
<1>3. QED
  BY <1>1, <1>2, Facts, QuietStep

\* Every step of the tabs.
LEMMA TabStep ==
  ASSUME TabInv, TabNext
  PROVE  Kept
<1>1. CASE StartUp \/ Dispatch \/ Palette \/ PickEntry
  BY <1>1, StartUpStep, DispatchStep, PaletteStep, PickEntryStep
<1>2. CASE \E g \in Groups : HandleNewTab(g)
  BY <1>2, HandleNewTabStep
<1>3. CASE \E id \in Open : PressTab(id) \/ PressPane(id)
  BY <1>3, PressTabStep, PressPaneStep
<1>4. CASE \E id \in Open : OpenMenu(id) \/ DragTab(id) \/ DragOut(id)
  BY <1>4, OpenMenuStep, DragTabStep, DragOutStep
<1>5. CASE ShellExits \/ GrabDivider \/ MoveDivider \/ DropDivider
  BY <1>5, ShellExitsStep, GrabDividerStep, MoveDividerStep, DropDividerStep
<1>6. QED
  BY <1>1, <1>2, <1>3, <1>4, <1>5 DEF TabNext

\* The window starts empty.
LEMMA TabsStart ==
  ASSUME TabInit
  PROVE  TabInv
<1>1. /\ scene \in Scenes /\ booted = FALSE /\ made = 0
      /\ store = [tabs |-> <<>>, activeTabId |-> NoTab, groupActive |-> [g \in Groups |-> NoTab]]
      /\ killed = {} /\ moved = {} /\ sent = {} /\ menu = NoMenu
      /\ dragId = [g \in Groups |-> NoTab] /\ divider = NoDivider
  BY DEF TabInit
<1>2. store.tabs = <<>> /\ ToSet(store.tabs) = {}
  BY <1>1 DEF ToSet
<1>3. ~ IsTabSplit(store.tabs) /\ PanesOf(store.tabs) = {}
  BY <1>2 DEF IsTabSplit, PanesOf
<1>4. StoreOK(store, 0)
  <2>1. store \in Store(0)
    BY <1>1 DEF Store, NoTab
  <2>2. Strip(store.tabs, 0)
    BY <1>2 DEF Strip
  <2>3. Sides(store.tabs) /\ Focus(store)
    BY <1>1, <1>2, <1>3 DEF Sides, Focus
  <2>4. QED
    BY <2>1, <2>2, <2>3 DEF StoreOK
<1>5. StripOK
  BY <1>1, <1>3, <1>4 DEF StripOK, Named
<1>6. DragOK
  BY <1>1 DEF DragOK, NoTab
<1>7. MenuOK /\ DividerOK
  BY <1>1 DEF MenuOK, DividerOK, NoDivider
<1>8. ClosedOrHandedOver /\ killed \subseteq PaneIds /\ moved \subseteq PaneIds /\ sent \subseteq PaneIds
  BY <1>1, <1>3 DEF ClosedOrHandedOver, PaneIds
<1>9. QED
  BY <1>1, <1>5, <1>6, <1>7, <1>8 DEF TabInv

(* A step that leaves the tabs alone.                                      *)
LEMMA TabsRest ==
  ASSUME TabInv, UNCHANGED tabvars
  PROVE  Kept
<1>1. /\ scene' = scene /\ booted' = booted /\ store' = store /\ made' = made /\ killed' = killed
      /\ moved' = moved /\ sent' = sent /\ menu' = menu /\ dragId' = dragId /\ divider' = divider
  BY DEF tabvars
<1>2. StripOK' /\ DragOK' /\ MenuOK' /\ DividerOK'
  BY <1>1 DEF TabInv, StripOK, DragOK, MenuOK, DividerOK
<1>3. ClosedOrHandedOver' /\ killed' \subseteq PaneIds' /\ moved' \subseteq PaneIds' /\ sent' \subseteq PaneIds'
  BY <1>1 DEF TabInv, ClosedOrHandedOver, PaneIds
<1>4. TabInv'
  BY <1>1, <1>2, <1>3 DEF TabInv
<1>5. Budget(store.tabs, store.tabs) /\ made \in Nat
  BY Facts DEF Good
<1>6. Budget(store'.tabs, store.tabs)
  BY <1>1, <1>5
<1>7. made <= made'
  BY <1>1, <1>5
<1>8. QED
  BY <1>1, <1>4, <1>6, <1>7 DEF Kept

(***************************************************************************)
(* What the invariant says of the window.                                  *)
(***************************************************************************)
LEMMA TabsAre ==
  ASSUME TabInv
  PROVE  /\ \A t \in ToSet(store.tabs) : t \in Tab(made) /\ Sound(t)
         /\ \A i \in 1 .. Len(store.tabs) : store.tabs[i] \in ToSet(store.tabs)
         /\ \A t : t \in ToSet(store.tabs) <=> \E i \in 1 .. Len(store.tabs) : store.tabs[i] = t
<1>1. Strip(store.tabs, made) /\ store.tabs \in Seq(Tab(made))
  BY Facts
<1>2. \A t : t \in ToSet(store.tabs) <=> \E i \in 1 .. Len(store.tabs) : store.tabs[i] = t
  BY <1>1, Members
<1>3. \A i \in 1 .. Len(store.tabs) : Sound(store.tabs[i])
  BY <1>1 DEF Strip
<1>4. \A i \in 1 .. Len(store.tabs) : store.tabs[i] \in Tab(made)
  BY <1>1
<1>5. QED
  BY <1>2, <1>3, <1>4

\* The shape of the variables.
LEMMA TabsTyped ==
  ASSUME TabInv, job \in [Jobs -> JobType]
  PROVE  TypeOK
<1>1. /\ scene \in Scenes /\ booted \in BOOLEAN /\ made \in Nat
      /\ killed \subseteq PaneIds /\ moved \subseteq PaneIds /\ sent \subseteq PaneIds
      /\ dragId \in [Groups -> 0 .. made]
  BY DEF TabInv, DragOK
<1>2. store \in Store(made) /\ store.tabs \in Seq(Tab(made))
  BY Facts DEF StoreOK
<1>3. store.activeTabId \in 0 .. made /\ store.groupActive \in [Groups -> 0 .. made]
  BY <1>2 DEF Store
<1>4. Tab(made) = TabType
  BY DEF Tab, TabType, PaneIds
<1>5. \A i \in DOMAIN store.tabs : store.tabs[i] \in TabType
  BY <1>2, <1>4
<1>6. QED
  BY <1>1, <1>3, <1>5 DEF TypeOK

\* The grid, the budget and the sizes.
LEMMA LayoutFollows ==
  ASSUME TabInv, job \in [Jobs -> JobType]
  PROVE  LayoutIsSound
<1>1. GridShowsPanes
  BY TabsAre DEF GridShowsPanes, Sound
<1>2. GridFits
  BY TabsAre DEF GridFits, Sound
<1>3. SharesFill
  <2>1. ASSUME NEW t \in ToSet(store.tabs)
        PROVE  Fills(RowShares(t)) /\ \A r \in DOMAIN t.layout : Fills(ColShares(t)[r])
    <3>1. t \in Tab(made) /\ Sound(t) /\ made \in Nat
      BY TabsAre, Facts
    <3>2. t.layout \in Seq(Seq(1 .. made))
      BY <3>1 DEF Tab
    <3>3. DOMAIN t.layout = 1 .. Len(t.layout)
      BY <3>2
    <3>4. Filled(RowShares(t)) /\ \A r \in 1 .. Len(t.layout) : Filled(ColShares(t)[r])
      <4> DEFINE m == made
      <4>1. m \in Nat /\ t \in Tab(m)
        BY <3>1
      <4> HIDE DEF m
      <4>2. QED
        BY <3>1, <4>1, SizesFill
    <3>5. QED
      BY <3>3, <3>4 DEF Filled
  <2>2. QED
    BY <2>1 DEF SharesFill
<1>4. QED
  BY <1>1, <1>2, <1>3, TabsTyped DEF LayoutIsSound

\* The focus and the sides.
LEMMA SidesFollow ==
  ASSUME TabInv
  PROVE  SidesShowTabs
<1> DEFINE tabs == store.tabs
           split == IsTabSplit(tabs)
           on == store.activeTabId
<1>1. Strip(tabs, made) /\ tabs \in Seq(Tab(made)) /\ made \in Nat /\ Sides(tabs) /\ Focus(store)
      /\ (~ scene.lostEnd => Named(store))
  BY Facts DEF StoreOK, TabInv, StripOK
<1>2. \A t : t \in ToSet(tabs) <=> \E i \in 1 .. Len(tabs) : tabs[i] = t
  BY TabsAre
<1>3. \A i, j \in 1 .. Len(tabs) :
       \A p : p \in ToSet(tabs[i].panes) /\ p \in ToSet(tabs[j].panes) => i = j
  BY <1>1 DEF Strip
<1> DEFINE m == made
<1>4. m \in Nat /\ Strip(tabs, m)
  BY <1>1
<1> HIDE DEF m, tabs
<1>5. \A s, t \in ToSet(tabs) : ToSet(s.panes) \cap ToSet(t.panes) # {} => s = t
  <2>1. ASSUME NEW s \in ToSet(tabs), NEW t \in ToSet(tabs), NEW p, p \in ToSet(s.panes), p \in ToSet(t.panes)
        PROVE  s = t
    <3>1. PICK i \in 1 .. Len(tabs) : tabs[i] = s
      BY <1>2
    <3>2. PICK j \in 1 .. Len(tabs) : tabs[j] = t
      BY <1>2
    <3>3. QED
      BY <1>3, <2>1, <3>1, <3>2
  <2>2. QED
    BY <2>1
<1>6. CASE tabs = <<>>
  <2>1. on = NoTab
    BY <1>1, <1>6 DEF Focus, tabs
  <2>2. ~ split
    BY <1>4, <1>6, StripFacts
  <2>3. QED
    BY <1>5, <1>6, <2>1, <2>2 DEF SidesShowTabs, FocusIsOpen, FocusIsShown, EachSideShows, Focused, tabs
<1>7. CASE tabs # <<>>
  <2>1. PICK i \in 1 .. Len(tabs) : tabs[i].id = on /\ (split => store.groupActive[tabs[i].group] = on)
    BY <1>1, <1>7 DEF Focus, tabs
  <2>2. on \in TabIds(tabs) /\ GroupOf(tabs, on) = tabs[i].group
    BY <1>4, <2>1, StripFacts
  <2>3. FocusIsOpen
    BY <1>5, <1>7, <2>2 DEF FocusIsOpen, Open, Focused, tabs
  <2>4. FocusIsShown
    <3>1. CASE split
      BY <2>1, <2>2, <3>1 DEF FocusIsShown, Focused, Visible, tabs
    <3>2. CASE ~ split
      BY <2>2, <3>2 DEF FocusIsShown, Focused, Visible, tabs
    <3>3. QED
      BY <3>1, <3>2
  <2>5. EachSideShows
    <3>1. ASSUME split, NEW g \in Groups PROVE InGroup(tabs, g) # <<>>
      <4>1. \E k \in 1 .. Len(tabs) : tabs[k].group = g
        BY <1>1, <3>1 DEF Sides, BothSides, tabs
      <4>2. QED
        BY <1>4, <4>1, InGroupFacts
    <3>2. ASSUME split, ~ scene.lostEnd, NEW g \in Groups
          PROVE  \E t \in ToSet(tabs) : t.group = g /\ t.id = store.groupActive[g]
      <4>1. PICK k \in 1 .. Len(tabs) : tabs[k].group = g /\ tabs[k].id = store.groupActive[g]
        BY <1>1, <3>2 DEF Named, tabs
      <4>2. QED
        BY <1>2, <4>1
    <3>3. QED
      BY <3>1, <3>2 DEF EachSideShows, tabs
  <2>6. QED
    BY <2>3, <2>4, <2>5 DEF SidesShowTabs
<1>8. QED
  BY <1>6, <1>7

(***************************************************************************)
(* The snippets.  What a terminal was given (the lines that ran, the one   *)
(* that runs and those typed ahead) keeps the order of each job, and each  *)
(* line of it was sent by a job that has gone on since.                    *)
(***************************************************************************)
Pairs == Jobs \X (1 .. Lines)
ShellType == [busy : Pairs \cup {Nothing}, ahead : Seq(Pairs), ran : Seq(Pairs)]

Before(x, y) == x[1] = y[1] => x[2] < y[2]
Ordered(seq) == \A m, n \in 1 .. Len(seq) : m < n => Before(seq[m], seq[n])

Sorted(sh) ==
  /\ Ordered(sh.ran) /\ Ordered(sh.ahead)
  /\ \A m \in 1 .. Len(sh.ran), n \in 1 .. Len(sh.ahead) : Before(sh.ran[m], sh.ahead[n])
  /\ sh.busy = Nothing => sh.ahead = <<>>
  /\ sh.busy # Nothing => /\ \A m \in 1 .. Len(sh.ran) : Before(sh.ran[m], sh.busy)
                          /\ \A n \in 1 .. Len(sh.ahead) : Before(sh.busy, sh.ahead[n])

Given(x, sh) ==
  \/ sh.busy # Nothing /\ x = sh.busy
  \/ \E m \in 1 .. Len(sh.ran) : x = sh.ran[m]
  \/ \E n \in 1 .. Len(sh.ahead) : x = sh.ahead[n]

Known(x, p, jobs) == jobs[x[1]].pane = p /\ x[2] < jobs[x[1]].next

JobsOK ==
  /\ job \in [Jobs -> JobType]
  /\ \A j \in Jobs : job[j].pane \in 0 .. made /\ (job[j].state = "idle" => job[j].next = 1)

ShellsOK ==
  /\ shell \in [Terminals -> ShellType]
  /\ \A p \in Terminals :
       /\ Sorted(shell[p]) /\ \A x \in Pairs : Given(x, shell[p]) => Known(x, p, job)
       /\ p \notin 1 .. made => shell[p].busy = Nothing

\* With nothing but calm snippets a terminal has one job, and is idle when it is the job's turn.
Active(j) == job[j].state \in {"asking", "waiting"}
Due(j) == job[j].state = "asking" \/ (job[j].state = "waiting" /\ job[j].prompt)

CalmOK == Calm =>
  /\ \A j, k \in Jobs : Active(j) /\ Active(k) /\ job[j].pane = job[k].pane => j = k
  /\ \A p \in Terminals :
       /\ shell[p].ahead = <<>>
       /\ Alive(p) /\ shell[p].busy # Nothing => \E j \in Jobs : job[j].state = "waiting" /\ job[j].pane = p
  /\ \A j \in Jobs : Due(j) /\ Alive(job[j].pane) => shell[job[j].pane].busy = Nothing

SnippetInv == JobsOK /\ ShellsOK /\ CalmOK

(* A pair is not Nothing.                                                  *)
LEMMA PairsAreSomething ==
  ASSUME NEW x \in Pairs
  PROVE  x # Nothing /\ x[1] \in Jobs /\ x[2] \in 1 .. Lines
<1>1. PICK j \in Jobs, n \in 1 .. Lines : x = <<j, n>>
  BY DEF Pairs
<1>2. Len(x) = 2
  BY <1>1
<1>3. x[1] = j /\ x[2] = n
  BY <1>1
<1> HIDE DEF Pairs
<1>4. x # Nothing
  BY <1>2 DEF Nothing
<1>5. QED
  BY <1>3, <1>4

(* A line is written: it runs, or is typed ahead.                          *)
Put(sh, x) == IF sh.busy = Nothing THEN [sh EXCEPT !.busy = x] ELSE [sh EXCEPT !.ahead = Append(@, x)]

\* What was given before comes before the new line.
LEMMA WriteKeeps ==
  ASSUME NEW sh \in ShellType, Sorted(sh), NEW x \in Pairs,
         \A y \in Pairs : Given(y, sh) => Before(y, x)
  PROVE  /\ Put(sh, x) \in ShellType /\ Sorted(Put(sh, x))
         /\ \A y : Given(y, Put(sh, x)) => Given(y, sh) \/ y = x
<1> DEFINE new == Put(sh, x)
<1>0. new = IF sh.busy = Nothing THEN [sh EXCEPT !.busy = x] ELSE [sh EXCEPT !.ahead = Append(@, x)]
  BY DEF Put
<1> HIDE DEF new
<1>1. x # Nothing /\ sh.ran \in Seq(Pairs) /\ sh.ahead \in Seq(Pairs) /\ sh.busy \in Pairs \cup {Nothing}
  BY PairsAreSomething DEF ShellType
<1>2. /\ \A m \in 1 .. Len(sh.ran) : Before(sh.ran[m], x)
      /\ \A n \in 1 .. Len(sh.ahead) : Before(sh.ahead[n], x)
      /\ sh.busy # Nothing => Before(sh.busy, x)
  BY <1>1 DEF Given
<1>3. CASE sh.busy = Nothing
  <2>1. new = [sh EXCEPT !.busy = x]
    BY <1>0, <1>3
  <2>2. new \in ShellType /\ new.busy = x /\ new.ran = sh.ran /\ new.ahead = sh.ahead
    BY <2>1 DEF ShellType
  <2>3. new.ahead = <<>> /\ Len(new.ahead) = 0
    BY <1>3, <2>2 DEF Sorted
  <2>4. Sorted(new)
    BY <1>1, <1>2, <2>2, <2>3 DEF Sorted
  <2>5. QED
    BY <2>2, <2>4 DEF Given, new
<1>4. CASE sh.busy # Nothing
  <2>1. new = [sh EXCEPT !.ahead = Append(@, x)]
    BY <1>0, <1>4
  <2> DEFINE a == sh.ahead
             b == Append(a, x)
  <2>2. new \in ShellType /\ new.busy = sh.busy /\ new.ran = sh.ran /\ new.ahead = b
    <3>1. b \in Seq(Pairs) /\ new = [sh EXCEPT !.ahead = b]
      BY <1>1, <2>1
    <3> HIDE DEF b
    <3>2. QED
      BY <3>1 DEF ShellType
  <2>3. /\ Len(a) \in Nat /\ Len(b) = Len(a) + 1 /\ b[Len(a) + 1] = x
        /\ \A n \in 1 .. Len(a) : b[n] = a[n]
    BY <1>1
  <2>4. Ordered(a) /\ \A n \in 1 .. Len(a) : Before(a[n], x)
    BY <1>2 DEF Sorted
  <2>5. /\ \A m \in 1 .. Len(sh.ran), n \in 1 .. Len(a) : Before(sh.ran[m], a[n])
        /\ \A m \in 1 .. Len(sh.ran) : Before(sh.ran[m], x)
        /\ \A n \in 1 .. Len(a) : Before(sh.busy, a[n])
        /\ Before(sh.busy, x) /\ Ordered(sh.ran)
        /\ \A m \in 1 .. Len(sh.ran) : Before(sh.ran[m], sh.busy)
    BY <1>2, <1>4 DEF Sorted
  <2> DEFINE k == Len(a)
             l == Len(b)
  <2>6. k \in Nat /\ l = k + 1 /\ b[k + 1] = x /\ \A n \in 1 .. k : b[n] = a[n]
    BY <2>3
  <2>7. \A n \in 1 .. l : n \in 1 .. k \/ n = k + 1
    BY <2>6
  <2> HIDE DEF k, l, a, b
  <2>8. Ordered(b)
    <3>1. ASSUME NEW i \in 1 .. l, NEW n \in 1 .. l, i < n PROVE Before(b[i], b[n])
      <4>1. i \in 1 .. k
        BY <2>6, <3>1
      <4>2. CASE n \in 1 .. k
        BY <2>4, <2>6, <3>1, <4>1, <4>2 DEF Ordered, k
      <4>3. CASE n = k + 1
        BY <2>4, <2>6, <4>1, <4>3 DEF k
      <4>4. QED
        BY <2>7, <4>2, <4>3
    <3>2. QED
      BY <3>1 DEF Ordered, l
  <2>9. \A m \in 1 .. Len(sh.ran), n \in 1 .. l : Before(sh.ran[m], b[n])
    BY <2>5, <2>6, <2>7 DEF k
  <2>10. \A n \in 1 .. l : Before(sh.busy, b[n])
    BY <2>5, <2>6, <2>7 DEF k
  <2>11. Sorted(new)
    BY <1>4, <2>2, <2>5, <2>8, <2>9, <2>10 DEF Sorted, l
  <2>12. \A n \in 1 .. l : b[n] = x \/ \E i \in 1 .. k : b[n] = a[i]
    BY <2>6, <2>7
  <2>13. ASSUME NEW y, Given(y, new) PROVE Given(y, sh) \/ y = x
    BY <2>2, <2>12, <2>13 DEF Given, l, k, a
  <2>14. QED
    BY <2>2, <2>11, <2>13 DEF new
<1>5. QED
  BY <1>3, <1>4 DEF new

(* The running command ends, and what is typed ahead runs or is flushed.   *)
LEMMA EndKeeps ==
  ASSUME NEW sh \in ShellType, Sorted(sh), sh.busy # Nothing, NEW ahead \in {sh.ahead, <<>>},
         NEW new, new = [busy |-> IF ahead = <<>> THEN Nothing ELSE Head(ahead),
                         ahead |-> IF ahead = <<>> THEN <<>> ELSE Tail(ahead),
                         ran |-> Append(sh.ran, sh.busy)]
  PROVE  /\ new \in ShellType /\ Sorted(new)
         /\ \A y : Given(y, new) => Given(y, sh)
<1> DEFINE a == sh.ahead
           r == sh.ran
           x == sh.busy
           k == Len(r)
           s == Append(r, x)
           l == Len(s)
<1>1. r \in Seq(Pairs) /\ a \in Seq(Pairs) /\ x \in Pairs
  BY DEF ShellType
<1>2. /\ k \in Nat /\ l = k + 1 /\ s[k + 1] = x /\ (\A n \in 1 .. k : s[n] = r[n]) /\ s \in Seq(Pairs)
      /\ \A n \in 1 .. l : n \in 1 .. k \/ n = k + 1
  BY <1>1
<1>3. /\ Ordered(r) /\ Ordered(a)
      /\ \A m \in 1 .. k, n \in 1 .. Len(a) : Before(r[m], a[n])
      /\ \A m \in 1 .. k : Before(r[m], x)
      /\ \A n \in 1 .. Len(a) : Before(x, a[n])
  BY DEF Sorted
<1>4. new.ran = s
  OBVIOUS
<1> HIDE DEF s, k, l, r, x
<1>5. Ordered(s)
  <2>1. ASSUME NEW i \in 1 .. l, NEW n \in 1 .. l, i < n PROVE Before(s[i], s[n])
    <3>1. i \in 1 .. k
      BY <1>2, <2>1
    <3>2. CASE n \in 1 .. k
      BY <1>2, <1>3, <2>1, <3>1, <3>2 DEF Ordered, k
    <3>3. CASE n = k + 1
      BY <1>2, <1>3, <3>1, <3>3
    <3>4. QED
      BY <1>2, <3>2, <3>3
  <2>2. QED
    BY <2>1 DEF Ordered, l
<1>6. \A n \in 1 .. l : s[n] = x \/ \E i \in 1 .. k : s[n] = r[i]
  BY <1>2
<1>7. \A m \in 1 .. l, n \in 1 .. Len(a) : Before(s[m], a[n])
  BY <1>2, <1>3
<1>8. CASE ahead = <<>>
  <2>1. new.busy = Nothing /\ new.ahead = <<>> /\ Len(new.ahead) = 0
        /\ new = [busy |-> Nothing, ahead |-> <<>>, ran |-> s]
    BY <1>4, <1>8
  <2>2. new \in ShellType
    BY <1>2, <2>1 DEF ShellType
  <2>3. Sorted(new)
    BY <1>4, <1>5, <2>1 DEF Sorted, Ordered
  <2>4. \A y : Given(y, new) => Given(y, sh)
    BY <1>4, <1>6, <2>1 DEF Given, l, k, r, x
  <2>5. QED
    BY <2>2, <2>3, <2>4
<1>9. CASE ahead # <<>>
  <2> DEFINE b == Tail(a)
             h == a[1]
             c == Len(a)
             d == Len(b)
  <2>1. ahead = a /\ a # <<>>
    BY <1>9
  <2>2. /\ c \in Nat /\ 1 \in 1 .. c /\ Head(a) = h /\ b \in Seq(Pairs) /\ h \in Pairs
        /\ d = c - 1 /\ \A n \in 1 .. d : b[n] = a[n + 1]
    BY <1>1, <2>1
  <2>3. new = [busy |-> h, ahead |-> b, ran |-> s]
    BY <1>4, <2>1, <2>2
  <2>4. h # Nothing
    BY <2>2, PairsAreSomething
  <2> HIDE DEF b, h, c, d, a
  <2>5. new.busy = h /\ new.ahead = b /\ new.ran = s /\ new \in ShellType
    BY <1>2, <2>2, <2>3 DEF ShellType
  <2>6. \A n \in 1 .. d : n + 1 \in 1 .. c /\ b[n] = a[n + 1] /\ 1 < n + 1
    BY <2>2
  <2>7. Ordered(b)
    <3>1. \A m, n \in 1 .. d : m < n => m + 1 < n + 1
      OBVIOUS
    <3>2. QED
      BY <1>3, <2>6, <3>1 DEF Ordered, d, c
  <2>8. \A n \in 1 .. d : Before(h, b[n])
    BY <1>3, <2>2, <2>6 DEF Ordered, c, h
  <2>9. \A m \in 1 .. l, n \in 1 .. d : Before(s[m], b[n])
    BY <1>7, <2>6 DEF c
  <2>10. \A m \in 1 .. l : Before(s[m], h)
    BY <1>7, <2>2 DEF c, h
  <2>11. Sorted(new)
    BY <1>5, <2>4, <2>5, <2>7, <2>8, <2>9, <2>10 DEF Sorted, l, d
  <2>12. \A y : Given(y, new) => Given(y, sh)
    <3>1. \A n \in 1 .. d : \E i \in 1 .. c : b[n] = a[i]
      BY <2>6
    <3>2. \E i \in 1 .. c : h = a[i]
      BY <2>2 DEF h
    <3>3. QED
      BY <1>6, <2>5, <3>1, <3>2 DEF Given, l, k, r, x, d, c, a
  <2>13. QED
    BY <2>5, <2>11, <2>12
<1>10. QED
  BY <1>8, <1>9

(* A terminal on screen is one that was made.                              *)
LEMMA AliveIsMade ==
  ASSUME TabInv
  PROVE  /\ made \in Nat /\ \A p : Alive(p) => p \in 1 .. made
         /\ UNCHANGED tabvars => /\ made' = made /\ scene' = scene
                                 /\ \A p : Alive(p)' = Alive(p)
<1> DEFINE m == made
           s == store
<1>1. m \in Nat /\ StoreOK(s, m)
  BY Facts
<1> HIDE DEF m, s
<1>2. PanesOf(s.tabs) \subseteq 1 .. m
  BY <1>1, PanesAreMade
<1>3. QED
  BY <1>1, <1>2 DEF Alive, m, s, tabvars

\* No job has begun.
LEMMA SnippetsStart ==
  ASSUME SnippetInit, TabInv
  PROVE  SnippetInv
<1>1. made \in Nat
  BY Facts
<1>2. /\ job = [j \in Jobs |-> [state |-> "idle", pane |-> NoTab, next |-> 1,
                                prompt |-> FALSE, quiet |-> FALSE, hard |-> FALSE]]
      /\ shell = [p \in Terminals |-> [busy |-> Nothing, ahead |-> <<>>, ran |-> <<>>]]
  BY DEF SnippetInit
<1>3. 1 \in 1 .. (Lines + 1)
  BY SnippetAssumption
<1>4. JobsOK
  <2>1. job \in [Jobs -> JobType]
    BY <1>2, <1>3 DEF JobType
  <2>2. 0 \in 0 .. made
    BY <1>1
  <2>3. QED
    BY <1>2, <2>1, <2>2 DEF JobsOK, NoTab
<1>5. ASSUME NEW p \in Terminals
      PROVE  /\ shell[p] \in ShellType /\ Sorted(shell[p]) /\ ~ \E x : Given(x, shell[p])
             /\ shell[p].busy = Nothing /\ shell[p].ahead = <<>>
  <2> DEFINE sh == shell[p]
  <2>1. sh = [busy |-> Nothing, ahead |-> <<>>, ran |-> <<>>]
    BY <1>2
  <2>2. sh.busy = Nothing /\ sh.ahead = <<>> /\ sh.ran = <<>> /\ Len(sh.ahead) = 0 /\ Len(sh.ran) = 0
    BY <2>1
  <2>3. sh \in ShellType
    BY <2>1 DEF ShellType
  <2> HIDE DEF sh
  <2>4. Sorted(sh) /\ ~ \E x : Given(x, sh)
    BY <2>2 DEF Sorted, Ordered, Given
  <2>5. QED
    BY <2>2, <2>3, <2>4 DEF sh
<1>6. ShellsOK
  <2>1. shell \in [Terminals -> ShellType]
    BY <1>2, <1>5
  <2>2. QED
    BY <1>5, <2>1 DEF ShellsOK
<1>7. CalmOK
  <2>1. \A j \in Jobs : ~ Active(j) /\ ~ Due(j)
    BY <1>2 DEF Active, Due
  <2>2. QED
    BY <1>5, <2>1 DEF CalmOK
<1>8. QED
  BY <1>4, <1>6, <1>7 DEF SnippetInv

(* A step of the tabs: the panes that come are new.                        *)
LEMMA SnippetsRest ==
  ASSUME TabInv, SnippetInv, Kept, UNCHANGED snipvars
  PROVE  SnippetInv'
<1>1. job' = job /\ shell' = shell
  BY DEF snipvars
<1>2. /\ scene' = scene /\ made <= made' /\ made \in Nat /\ made' \in Nat
      /\ PanesOf(store'.tabs) \subseteq PanesOf(store.tabs) \cup Fresh(made, made')
  BY Facts DEF Kept, TabInv
<1>3. /\ 0 .. made \subseteq 0 .. made' /\ \A p : p \notin 1 .. made' => p \notin 1 .. made
      /\ \A p \in Fresh(made, made') : p \notin 0 .. made
  BY <1>2 DEF Fresh
<1>4. \A p : Alive(p)' => Alive(p) \/ p \notin 0 .. made
  BY <1>2, <1>3 DEF Alive
<1>5. JobsOK'
  BY <1>1, <1>3 DEF SnippetInv, JobsOK
<1>6. ShellsOK'
  BY <1>1, <1>3 DEF SnippetInv, ShellsOK
<1>7. CalmOK'
  <2>1. Calm' = Calm
    BY <1>2 DEF Calm
  <2>2. (\A j \in Jobs : (Active(j)' = Active(j)) /\ (Due(j)' = Due(j)))
    BY <1>1 DEF Active, Due
  <2>3. \A j \in Jobs : job[j].pane \in 0 .. made
    BY DEF SnippetInv, JobsOK
  <2>4. \A p \in Terminals : p \notin 0 .. made => shell[p].busy = Nothing
    BY <1>2 DEF SnippetInv, ShellsOK
  <2>5. QED
    BY <1>1, <1>4, <2>1, <2>2, <2>3, <2>4 DEF SnippetInv, CalmOK
<1>8. QED
  BY <1>5, <1>6, <1>7 DEF SnippetInv

\* The terminals rest, and the jobs take nothing back.
LEMMA ShellsStay ==
  ASSUME ShellsOK, made' = made, shell' = shell,
         \A x \in Pairs : \A p \in Terminals : Known(x, p, job) => Known(x, p, job')
  PROVE  ShellsOK'
<1>1. QED
  BY DEF ShellsOK

(* What a chunk of output does to the jobs that wait on its terminal.      *)
LEMMA HeardFacts ==
  ASSUME JobsOK, UNCHANGED tabvars, NEW p \in Terminals, NEW looks \in BOOLEAN, Heard(p, looks)
  PROVE  /\ JobsOK'
         /\ \A j \in Jobs : /\ job'[j].state = job[j].state /\ job'[j].pane = job[j].pane
                            /\ job'[j].next = job[j].next
                            /\ job'[j].prompt = IF job[j].state = "waiting" /\ job[j].pane = p
                                                THEN looks ELSE job[j].prompt
<1>1. job' = [j \in Jobs |->
                IF job[j].state = "waiting" /\ job[j].pane = p
                THEN [job[j] EXCEPT !.prompt = looks, !.quiet = TRUE] ELSE job[j]]
  BY DEF Heard
<1>2. job \in [Jobs -> JobType] /\ made' = made
  BY DEF JobsOK, tabvars
<1>3. ASSUME NEW j \in Jobs
      PROVE  /\ job'[j] \in JobType
             /\ job'[j].state = job[j].state /\ job'[j].pane = job[j].pane
             /\ job'[j].next = job[j].next
             /\ job'[j].prompt = IF job[j].state = "waiting" /\ job[j].pane = p
                                 THEN looks ELSE job[j].prompt
  <2> DEFINE o == job[j]
             u == job'[j]
  <2>1. o \in JobType
    BY <1>2
  <2>2. u = IF o.state = "waiting" /\ o.pane = p THEN [o EXCEPT !.prompt = looks, !.quiet = TRUE] ELSE o
    BY <1>1
  <2> HIDE DEF o, u
  <2>3. /\ u \in JobType /\ u.state = o.state /\ u.pane = o.pane /\ u.next = o.next
        /\ u.prompt = IF o.state = "waiting" /\ o.pane = p THEN looks ELSE o.prompt
    BY <2>1, <2>2 DEF JobType
  <2>4. QED
    BY <2>3 DEF o, u
<1>4. job' \in [Jobs -> JobType]
  BY <1>1, <1>3
<1>5. JobsOK'
  BY <1>2, <1>3, <1>4 DEF JobsOK
<1>6. QED
  BY <1>3, <1>5

\* Output of a running command.
LEMMA OutputStep ==
  ASSUME TabInv, SnippetInv, NEW p \in Terminals, Output(p)
  PROVE  SnippetInv'
<1>1. PICK looks \in (IF Mode("lookalike") THEN BOOLEAN ELSE {FALSE}) : Heard(p, looks)
  BY DEF Output
<1>2. UNCHANGED tabvars /\ shell' = shell /\ Alive(p) /\ shell[p].busy # Nothing /\ looks \in BOOLEAN
  BY <1>1 DEF Output
<1>3. JobsOK /\ ShellsOK /\ CalmOK
  BY DEF SnippetInv
<1>4. /\ JobsOK'
      /\ \A j \in Jobs : /\ job'[j].state = job[j].state /\ job'[j].pane = job[j].pane
                         /\ job'[j].next = job[j].next
                         /\ job'[j].prompt = IF job[j].state = "waiting" /\ job[j].pane = p
                                             THEN looks ELSE job[j].prompt
  BY <1>1, <1>2, <1>3, HeardFacts
<1>5. made' = made /\ scene' = scene /\ \A q : Alive(q)' = Alive(q)
  BY <1>2, AliveIsMade
<1>6. ShellsOK'
  <2>1. \A x \in Pairs : x[1] \in Jobs
    BY PairsAreSomething
  <2>2. \A x \in Pairs : \A q \in Terminals : Known(x, q, job) => Known(x, q, job')
    BY <1>4, <2>1 DEF Known
  <2>3. QED
    BY <1>2, <1>3, <1>5, <2>2, ShellsStay
<1>7. CalmOK'
  <2>1. ASSUME Calm PROVE looks = FALSE
    BY <1>1, <2>1 DEF Calm, Mode
  <2>2. Calm' = Calm /\ \A j \in Jobs : Active(j)' = Active(j)
    BY <1>4, <1>5 DEF Calm, Active
  <2>3. ASSUME Calm, NEW j \in Jobs, Due(j)' PROVE Due(j)
    BY <1>4, <2>1, <2>3 DEF Due
  <2>4. QED
    BY <1>2, <1>3, <1>4, <1>5, <2>2, <2>3 DEF CalmOK
<1>8. QED
  BY <1>4, <1>6, <1>7 DEF SnippetInv

\* The end of a command.
LEMMA CommandEndsStep ==
  ASSUME TabInv, SnippetInv, NEW p \in Terminals, CommandEnds(p)
  PROVE  SnippetInv'
<1>1. Heard(p, TRUE) /\ UNCHANGED tabvars /\ Alive(p) /\ shell[p].busy # Nothing
  BY DEF CommandEnds
<1>2. JobsOK /\ ShellsOK /\ CalmOK
  BY DEF SnippetInv
<1>3. /\ JobsOK'
      /\ \A j \in Jobs : /\ job'[j].state = job[j].state /\ job'[j].pane = job[j].pane
                         /\ job'[j].next = job[j].next
                         /\ job'[j].prompt = IF job[j].state = "waiting" /\ job[j].pane = p
                                             THEN TRUE ELSE job[j].prompt
  BY <1>1, <1>2, HeardFacts
<1>4. made' = made /\ scene' = scene /\ made \in Nat /\ \A q : Alive(q)' = Alive(q)
  BY <1>1, AliveIsMade
<1> DEFINE sh == shell[p]
<1>5. PICK ahead \in {sh.ahead, <<>>} :
        shell' = [shell EXCEPT ![p] =
              [busy |-> IF ahead = <<>> THEN Nothing ELSE Head(ahead),
               ahead |-> IF ahead = <<>> THEN <<>> ELSE Tail(ahead),
               ran |-> Append(@.ran, @.busy)]]
  BY DEF CommandEnds
<1> DEFINE new == [busy |-> IF ahead = <<>> THEN Nothing ELSE Head(ahead),
                   ahead |-> IF ahead = <<>> THEN <<>> ELSE Tail(ahead),
                   ran |-> Append(sh.ran, sh.busy)]
<1>6. shell' = [shell EXCEPT ![p] = new] /\ shell \in [Terminals -> ShellType] /\ sh \in ShellType /\ Sorted(sh)
      /\ sh.busy # Nothing
  BY <1>1, <1>2, <1>5 DEF ShellsOK
<1>7. new.busy = IF ahead = <<>> THEN Nothing ELSE Head(ahead)
  OBVIOUS
<1>8. new.ahead = IF ahead = <<>> THEN <<>> ELSE Tail(ahead)
  OBVIOUS
<1>9. new \in ShellType /\ Sorted(new) /\ \A y : Given(y, new) => Given(y, sh)
  BY <1>6, EndKeeps
<1> HIDE DEF new
<1>10. shell'[p] = new /\ \A q \in Terminals : q # p => shell'[q] = shell[q]
  BY <1>6
<1>11. ShellsOK'
  <2>1. \A x \in Pairs : x[1] \in Jobs
    BY PairsAreSomething
  <2>2. \A x \in Pairs : \A q \in Terminals : Known(x, q, job) => Known(x, q, job')
    BY <1>3, <2>1 DEF Known
  <2>3. shell' \in [Terminals -> ShellType]
    BY <1>6, <1>9
  <2>4. p \in 1 .. made
    BY <1>1, AliveIsMade
  <2>5. ASSUME NEW q \in Terminals
        PROVE  /\ Sorted(shell'[q]) /\ \A x \in Pairs : Given(x, shell'[q]) => Known(x, q, job')
               /\ q \notin 1 .. made => shell'[q].busy = Nothing
    <3>1. CASE q = p
      BY <1>2, <1>9, <1>10, <2>2, <2>4, <3>1 DEF ShellsOK
    <3>2. CASE q # p
      BY <1>2, <1>10, <2>2, <3>2 DEF ShellsOK
    <3>3. QED
      BY <3>1, <3>2
  <2>6. QED
    BY <1>4, <2>3, <2>5 DEF ShellsOK
<1>12. CalmOK'
  <2>1. ASSUME Calm PROVE new.busy = Nothing /\ new.ahead = <<>>
    <3>1. sh.ahead = <<>>
      BY <1>2, <2>1 DEF CalmOK
    <3>2. QED
      BY <1>7, <1>8, <3>1
  <2>2. Calm' = Calm /\ \A j \in Jobs : Active(j)' = Active(j)
    BY <1>3, <1>4 DEF Calm, Active
  <2>3. ASSUME NEW j \in Jobs, Due(j)' PROVE Due(j) \/ job[j].pane = p
    BY <1>3, <2>3 DEF Due
  <2>4. ASSUME Calm
        PROVE  \A q \in Terminals :
                 /\ shell'[q].ahead = <<>>
                 /\ Alive(q) /\ shell'[q].busy # Nothing => \E j \in Jobs : job'[j].state = "waiting" /\ job'[j].pane = q
    <3>1. ASSUME NEW q \in Terminals
          PROVE  /\ shell'[q].ahead = <<>>
                 /\ Alive(q) /\ shell'[q].busy # Nothing => \E j \in Jobs : job'[j].state = "waiting" /\ job'[j].pane = q
      <4>1. CASE q = p
        BY <1>10, <2>1, <2>4, <4>1
      <4>2. CASE q # p
        <5>1. shell'[q] = shell[q]
          BY <1>10, <4>2
        <5>2. /\ shell[q].ahead = <<>>
              /\ Alive(q) /\ shell[q].busy # Nothing => \E j \in Jobs : job[j].state = "waiting" /\ job[j].pane = q
          BY <1>2, <2>4 DEF CalmOK
        <5>3. QED
          BY <1>3, <5>1, <5>2
      <4>3. QED
        BY <4>1, <4>2
    <3>2. QED
      BY <3>1
  <2>5. ASSUME Calm, NEW j \in Jobs, Due(j)', Alive(job[j].pane)
        PROVE  shell'[job[j].pane].busy = Nothing
    <3>1. CASE job[j].pane = p
      BY <1>10, <2>1, <2>5, <3>1
    <3>2. CASE job[j].pane # p
      <4>1. shell[job[j].pane].busy = Nothing
        BY <1>2, <2>3, <2>5, <3>2 DEF CalmOK
      <4>2. job[j].pane \in Terminals
        BY <1>2, <2>5, AliveIsMade DEF JobsOK, JobType, NoTab
      <4>3. QED
        BY <1>10, <3>2, <4>1, <4>2
    <3>3. QED
      BY <3>1, <3>2
  <2>6. QED
    BY <1>2, <1>3, <1>4, <2>2, <2>4, <2>5 DEF CalmOK
<1>13. QED
  BY <1>3, <1>11, <1>12 DEF SnippetInv

(* One job changes, and no line is taken back from what it sent.           *)
LEMMA OneJob ==
  ASSUME JobsOK, made' = made, NEW j \in Jobs, NEW u \in JobType, job' = [job EXCEPT ![j] = u],
         u.pane \in 0 .. made, u.state # "idle",
         job[j].next = 1 \/ (u.pane = job[j].pane /\ job[j].next <= u.next)
  PROVE  /\ JobsOK' /\ job'[j] = u /\ \A k \in Jobs : k # j => job'[k] = job[k]
         /\ \A x \in Pairs : \A p \in Terminals : Known(x, p, job) => Known(x, p, job')
<1>1. job \in [Jobs -> JobType]
  BY DEF JobsOK
<1>2. /\ job' \in [Jobs -> JobType] /\ job'[j] = u /\ \A k \in Jobs : k # j => job'[k] = job[k]
  BY <1>1
<1>3. JobsOK'
  BY <1>2 DEF JobsOK
<1>4. ASSUME NEW x \in Pairs, NEW p \in Terminals, Known(x, p, job)
      PROVE  Known(x, p, job')
  <2>1. x[1] \in Jobs /\ x[2] \in 1 .. Lines
    BY PairsAreSomething
  <2>2. CASE x[1] = j
    <3> DEFINE o == job[j].next
               n == u.next
               l == x[2]
    <3>1. o \in Int /\ n \in Int /\ l \in Int /\ 1 <= l
      BY <1>1, <2>1, SnippetAssumption DEF JobType
    <3>2. l < o
      BY <1>4, <2>2 DEF Known
    <3> HIDE DEF o, n, l
    <3>3. o # 1
      BY <3>1, <3>2
    <3>4. u.pane = job[j].pane /\ o <= n
      BY <3>3 DEF o, n
    <3>5. l < n
      BY <3>1, <3>2, <3>4
    <3>6. QED
      BY <1>2, <1>4, <2>2, <3>4, <3>5 DEF Known, l, n
  <2>3. CASE x[1] # j
    BY <1>2, <1>4, <2>1, <2>3 DEF Known
  <2>4. QED
    BY <2>2, <2>3
<1>5. QED
  BY <1>2, <1>3, <1>4

(* The next line, or the end.                                              *)
LEMMA SendNextFacts ==
  ASSUME TabInv, JobsOK, ShellsOK, UNCHANGED tabvars, NEW j \in Jobs, SendNext(j)
  PROVE  /\ JobsOK' /\ ShellsOK'
         /\ job'[j].state \in {"waiting", "done"} /\ job'[j].prompt = FALSE /\ job'[j].pane = job[j].pane
         /\ \A k \in Jobs : k # j => job'[k] = job[k]
         /\ \A p \in Terminals :
              \/ shell'[p] = shell[p]
              \/ /\ p = job[j].pane /\ Alive(p) /\ job'[j].state = "waiting"
                 /\ shell[p].busy = Nothing => shell'[p].ahead = shell[p].ahead
<1> DEFINE o == job[j]
<1>1. o \in JobType /\ o.pane \in 0 .. made /\ made' = made /\ made \in Nat
  BY AliveIsMade DEF JobsOK
<1>2. o.next \in 1 .. (Lines + 1) /\ o.next \in Int /\ Lines \in Int
  BY <1>1, SnippetAssumption DEF JobType
<1>3. CASE o.next > Lines
  <2> DEFINE u == [o EXCEPT !.state = "done", !.prompt = FALSE, !.quiet = FALSE, !.hard = FALSE]
  <2>1. job' = [job EXCEPT ![j] = u] /\ shell' = shell
    BY <1>1, <1>3 DEF SendNext, JobsOK
  <2>2. u \in JobType /\ u.state = "done" /\ u.prompt = FALSE /\ u.pane = o.pane /\ u.next = o.next
    BY <1>1 DEF JobType
  <2> HIDE DEF u
  <2>6. u.pane \in 0 .. made /\ u.state # "idle" /\ u.pane = job[j].pane /\ job[j].next <= u.next
    BY <1>1, <1>2, <2>2
  <2> HIDE DEF o
  <2>3. /\ JobsOK' /\ job'[j] = u /\ \A k \in Jobs : k # j => job'[k] = job[k]
        /\ \A x \in Pairs : \A p \in Terminals : Known(x, p, job) => Known(x, p, job')
    BY <1>1, <2>1, <2>2, <2>6, OneJob
  <2>4. ShellsOK'
    BY <1>1, <2>1, <2>3, ShellsStay
  <2>5. QED
    BY <2>1, <2>2, <2>3, <2>4, <2>6
<1>4. CASE ~ (o.next > Lines)
  <2> DEFINE u == [o EXCEPT !.state = "waiting", !.next = o.next + 1,
                            !.prompt = FALSE, !.quiet = FALSE, !.hard = TRUE]
             p == o.pane
             x == <<j, o.next>>
  <2>1. job' = [job EXCEPT ![j] = u] /\ shell' = Written(j, p, o.next)
    <3>1. job' = [job EXCEPT ![j] = u]
      BY <1>4 DEF SendNext
    <3>2. shell' = Written(j, job[j].pane, job[j].next)
      BY <1>4 DEF SendNext
    <3>3. QED
      BY <3>1, <3>2
  <2>2. o.next + 1 \in 1 .. (Lines + 1) /\ o.next \in 1 .. Lines /\ o.next <= o.next + 1
    BY <1>2, <1>4
  <2>3. u \in JobType /\ u.state = "waiting" /\ u.prompt = FALSE /\ u.pane = o.pane /\ u.next = o.next + 1
    BY <1>1, <2>2 DEF JobType
  <2> HIDE DEF u
  <2>4. /\ JobsOK' /\ job'[j] = u /\ \A k \in Jobs : k # j => job'[k] = job[k]
        /\ \A y \in Pairs : \A q \in Terminals : Known(y, q, job) => Known(y, q, job')
    BY <1>1, <2>1, <2>2, <2>3, OneJob
  <2>5. CASE ~ Alive(p)
    <3>1. shell' = shell
      BY <2>1, <2>5 DEF Written
    <3>2. ShellsOK'
      BY <1>1, <2>4, <3>1, ShellsStay
    <3>3. QED
      BY <2>3, <2>4, <3>1, <3>2
  <2>6. CASE Alive(p)
    <3>1. p \in Terminals /\ p \in 1 .. made
      BY <1>1, <2>6, AliveIsMade DEF JobType, NoTab
    <3> DEFINE sh == shell[p]
               new == Put(sh, x)
    <3>2. shell \in [Terminals -> ShellType] /\ sh \in ShellType /\ Sorted(sh)
          /\ \A y \in Pairs : Given(y, sh) => Known(y, p, job)
      BY <3>1 DEF ShellsOK
    <3>3. shell' = [shell EXCEPT ![p] = new]
      <4>1. CASE sh.busy = Nothing
        BY <2>1, <2>6, <3>2, <4>1 DEF Written, Put
      <4>2. CASE sh.busy # Nothing
        BY <2>1, <2>6, <3>2, <4>2 DEF Written, Put
      <4>3. QED
        BY <4>1, <4>2
    <3>4. x \in Pairs /\ x[1] = j /\ x[2] = o.next
      BY <2>2 DEF Pairs
    <3>5. sh.busy = Nothing => new.ahead = sh.ahead
      BY <3>2 DEF ShellType, Put
    <3> HIDE DEF x, sh
    <3>6. \A y \in Pairs : Given(y, sh) => Before(y, x)
      BY <3>2, <3>4 DEF Known, Before
    <3>7. new \in ShellType /\ Sorted(new) /\ \A y : Given(y, new) => Given(y, sh) \/ y = x
      BY <3>2, <3>4, <3>6, WriteKeeps
    <3> HIDE DEF new
    <3>8. shell' \in [Terminals -> ShellType] /\ shell'[p] = new
          /\ \A q \in Terminals : q # p => shell'[q] = shell[q]
      BY <3>1, <3>2, <3>3, <3>7
    <3>9. Known(x, p, job')
      <4>1. job'[j].next = o.next + 1 /\ job'[j].pane = p
        BY <2>3, <2>4
      <4>2. o.next < o.next + 1
        BY <1>2
      <4>3. QED
        BY <3>4, <4>1, <4>2 DEF Known
    <3>10. ASSUME NEW q \in Terminals
           PROVE  /\ Sorted(shell'[q]) /\ \A y \in Pairs : Given(y, shell'[q]) => Known(y, q, job')
                  /\ q \notin 1 .. made => shell'[q].busy = Nothing
      <4>1. CASE q = p
        BY <2>4, <3>1, <3>2, <3>7, <3>8, <3>9, <4>1
      <4>2. CASE q # p
        BY <2>4, <3>8, <4>2 DEF ShellsOK
      <4>3. QED
        BY <4>1, <4>2
    <3>11. ShellsOK'
      BY <1>1, <3>8, <3>10 DEF ShellsOK
    <3>12. QED
      BY <2>3, <2>4, <2>6, <3>5, <3>8, <3>11 DEF sh
  <2>7. QED
    BY <2>5, <2>6
<1>5. QED
  BY <1>3, <1>4

(* A job whose turn it is goes on.                                         *)
LEMMA SendNextKeeps ==
  ASSUME TabInv, SnippetInv, UNCHANGED tabvars, NEW j \in Jobs, SendNext(j), Active(j),
         Calm /\ Alive(job[j].pane) => shell[job[j].pane].busy = Nothing
  PROVE  SnippetInv'
<1>1. JobsOK /\ ShellsOK /\ CalmOK
  BY DEF SnippetInv
<1>2. /\ JobsOK' /\ ShellsOK'
      /\ job'[j].state \in {"waiting", "done"} /\ job'[j].prompt = FALSE /\ job'[j].pane = job[j].pane
      /\ \A k \in Jobs : k # j => job'[k] = job[k]
      /\ \A p \in Terminals :
           \/ shell'[p] = shell[p]
           \/ /\ p = job[j].pane /\ Alive(p) /\ job'[j].state = "waiting"
              /\ shell[p].busy = Nothing => shell'[p].ahead = shell[p].ahead
  BY <1>1, SendNextFacts
<1>3. scene' = scene /\ (\A p : Alive(p)' = Alive(p)) /\ Calm' = Calm
  BY AliveIsMade DEF Calm
<1>4. ASSUME Calm PROVE CalmOK'
  <2>1. \A k, l \in Jobs : Active(k) /\ Active(l) /\ job[k].pane = job[l].pane => k = l
    BY <1>1, <1>4 DEF CalmOK
  <2>2. \A k \in Jobs : k # j => (Active(k)' = Active(k)) /\ (Due(k)' = Due(k)) /\ job'[k].pane = job[k].pane
    BY <1>2 DEF Active, Due
  <2>3. \A k, l \in Jobs : Active(k)' /\ Active(l)' /\ job'[k].pane = job'[l].pane => k = l
    BY <1>2, <2>1, <2>2
  <2>4. ~ Due(j)'
    BY <1>2 DEF Due
  <2>5. ASSUME NEW p \in Terminals
        PROVE  /\ shell'[p].ahead = <<>>
               /\ Alive(p) /\ shell'[p].busy # Nothing => \E k \in Jobs : job'[k].state = "waiting" /\ job'[k].pane = p
    <3>1. /\ shell[p].ahead = <<>>
          /\ Alive(p) /\ shell[p].busy # Nothing => \E k \in Jobs : job[k].state = "waiting" /\ job[k].pane = p
      BY <1>1, <1>4 DEF CalmOK
    <3>2. CASE shell'[p] = shell[p]
      <4>1. ASSUME Alive(p), shell[p].busy # Nothing
            PROVE  \E k \in Jobs : job'[k].state = "waiting" /\ job'[k].pane = p
        <5>1. PICK k \in Jobs : job[k].state = "waiting" /\ job[k].pane = p
          BY <3>1, <4>1
        <5>2. k # j
          BY <1>4, <4>1, <5>1
        <5>3. QED
          BY <1>2, <5>1, <5>2
      <4>2. QED
        BY <3>1, <3>2, <4>1
    <3>3. CASE shell'[p] # shell[p]
      BY <1>2, <1>4, <3>1, <3>3
    <3>4. QED
      BY <3>2, <3>3
  <2>6. ASSUME NEW k \in Jobs, Due(k)', Alive(job'[k].pane) PROVE shell'[job'[k].pane].busy = Nothing
    <3>1. k # j
      BY <2>4, <2>6
    <3>2. Due(k) /\ job'[k].pane = job[k].pane
      BY <2>2, <2>6, <3>1
    <3>3. shell[job[k].pane].busy = Nothing
      BY <1>1, <1>4, <2>6, <3>2 DEF CalmOK
    <3>4. job[k].pane # job[j].pane
      BY <2>1, <3>1, <3>2 DEF Due, Active
    <3>5. job[k].pane \in Terminals
      BY <1>1, <2>6, <3>2, AliveIsMade DEF JobsOK, JobType, NoTab
    <3>6. shell'[job[k].pane] = shell[job[k].pane]
      BY <1>2, <3>4, <3>5
    <3>7. QED
      BY <3>2, <3>3, <3>6
  <2>7. QED
    BY <1>3, <2>3, <2>5, <2>6 DEF CalmOK
<1>5. CalmOK'
  <2>1. CASE Calm
    BY <1>4, <2>1
  <2>2. CASE ~ Calm
    BY <1>3, <2>2 DEF CalmOK
  <2>3. QED
    BY <2>1, <2>2
<1>6. QED
  BY <1>2, <1>5 DEF SnippetInv

(* A job that sends nothing in a step, and is not due for more than before.*)
LEMMA JobAlone ==
  ASSUME TabInv, SnippetInv, UNCHANGED <<tabvars, shell>>, NEW j \in Jobs, NEW u \in JobType,
         job' = [job EXCEPT ![j] = u], u.pane \in 0 .. made, u.state # "idle",
         job[j].next = 1 \/ (u.pane = job[j].pane /\ job[j].next <= u.next),
         Calm => /\ Active(j)' => \A k \in Jobs : Active(k) /\ job[k].pane = u.pane => k = j
                 /\ job[j].state = "waiting" =>
                      \/ u.state = "waiting" /\ u.pane = job[j].pane
                      \/ Alive(job[j].pane) => shell[job[j].pane].busy = Nothing
                 /\ Due(j)' /\ Alive(u.pane) => shell[u.pane].busy = Nothing
  PROVE  SnippetInv'
<1>1. JobsOK /\ ShellsOK /\ CalmOK
  BY DEF SnippetInv
<1>2. shell' = shell /\ UNCHANGED tabvars
  OBVIOUS
<1>3. made' = made /\ scene' = scene /\ (\A p : Alive(p)' = Alive(p)) /\ Calm' = Calm
  BY <1>2, AliveIsMade DEF Calm
<1>4. /\ JobsOK' /\ job'[j] = u /\ \A k \in Jobs : k # j => job'[k] = job[k]
      /\ \A x \in Pairs : \A p \in Terminals : Known(x, p, job) => Known(x, p, job')
  BY <1>1, <1>3, OneJob
<1>5. ShellsOK'
  BY <1>1, <1>2, <1>3, <1>4, ShellsStay
<1>6. ASSUME Calm PROVE CalmOK'
  <2>1. \A k \in Jobs : k # j => (Active(k)' = Active(k)) /\ (Due(k)' = Due(k)) /\ job'[k].pane = job[k].pane
    BY <1>4 DEF Active, Due
  <2>2. \A k, l \in Jobs : Active(k) /\ Active(l) /\ job[k].pane = job[l].pane => k = l
    BY <1>1, <1>6 DEF CalmOK
  <2>3. \A k, l \in Jobs : Active(k)' /\ Active(l)' /\ job'[k].pane = job'[l].pane => k = l
    BY <1>4, <1>6, <2>1, <2>2
  <2>4. ASSUME NEW p \in Terminals, Alive(p), shell[p].busy # Nothing
        PROVE  \E k \in Jobs : job'[k].state = "waiting" /\ job'[k].pane = p
    <3>1. PICK k \in Jobs : job[k].state = "waiting" /\ job[k].pane = p
      BY <1>1, <1>6, <2>4 DEF CalmOK
    <3>2. CASE k # j
      BY <1>4, <3>1, <3>2
    <3>3. CASE k = j
      BY <1>4, <1>6, <2>4, <3>1, <3>3
    <3>4. QED
      BY <3>2, <3>3
  <2>5. ASSUME NEW k \in Jobs, Due(k)', Alive(job'[k].pane) PROVE shell[job'[k].pane].busy = Nothing
    <3>1. CASE k = j
      BY <1>4, <1>6, <2>5, <3>1
    <3>2. CASE k # j
      BY <1>1, <1>6, <2>1, <2>5, <3>2 DEF CalmOK
    <3>3. QED
      BY <3>1, <3>2
  <2>6. \A p \in Terminals : shell[p].ahead = <<>>
    BY <1>1, <1>6 DEF CalmOK
  <2>7. QED
    BY <1>2, <1>3, <2>3, <2>4, <2>5, <2>6 DEF CalmOK
<1>7. CalmOK'
  <2>1. CASE Calm
    BY <1>6, <2>1
  <2>2. CASE ~ Calm
    BY <1>3, <2>2 DEF CalmOK
  <2>3. QED
    BY <2>1, <2>2
<1>8. QED
  BY <1>4, <1>5, <1>7 DEF SnippetInv

\* The pane a snippet is sent to was made.
LEMMA ActivePaneIsMade ==
  ASSUME TabInv
  PROVE  ActivePane \in 0 .. made
<1> DEFINE tabs == store.tabs
           m == made
           on == Focused
<1>1. m \in Nat /\ Strip(tabs, m)
  BY Facts
<1> HIDE DEF tabs, m, on
<1>2. CASE on \in TabIds(tabs)
  <2>1. PICK i \in 1 .. Len(tabs) : tabs[i].id = on
    BY <1>1, <1>2, StripFacts
  <2>2. TabOf(tabs, on) = tabs[i] /\ tabs[i] \in Tab(m)
    BY <1>1, <2>1, StripFacts
  <2>3. TabOf(tabs, on).active \in 1 .. m
    BY <2>2 DEF Tab
  <2>4. ActivePane = TabOf(tabs, on).active
    BY <1>2 DEF ActivePane, Open, tabs, on
  <2> DEFINE a == ActivePane
  <2> HIDE DEF a
  <2>5. a \in 1 .. m
    BY <2>3, <2>4 DEF a
  <2>6. a \in 0 .. m
    BY <1>1, <2>5
  <2>7. QED
    BY <2>6 DEF a, m
<1>3. CASE on \notin TabIds(tabs)
  <2>1. ActivePane = 0
    BY <1>3 DEF ActivePane, Open, NoTab, tabs, on
  <2>2. 0 \in 0 .. m
    BY <1>1
  <2>3. QED
    BY <2>1, <2>2 DEF m
<1>4. QED
  BY <1>2, <1>3

\* A snippet is sent.
LEMMA SendStep ==
  ASSUME TabInv, SnippetInv, NEW j \in Jobs, Send(j)
  PROVE  SnippetInv'
<1> DEFINE o == job[j]
           to == ActivePane
           u == [o EXCEPT !.state = "asking", !.pane = to]
<1>1. /\ UNCHANGED <<tabvars, shell>> /\ o.state = "idle" /\ to \in Terminals
      /\ Mode("hasty") \/ \A k \in Jobs : job[k].pane = to => job[k].state = "done"
  BY DEF Send
<1>2. JobsOK /\ CalmOK
  BY DEF SnippetInv
<1>3. job \in [Jobs -> JobType] /\ o \in JobType /\ o.next = 1
  BY <1>1, <1>2 DEF JobsOK
<1>4. to \in 0 .. made
  BY ActivePaneIsMade
<1>5. job' = [job EXCEPT ![j].state = "asking", ![j].pane = ActivePane]
  BY DEF Send
<1>6. job' = [job EXCEPT ![j] = u]
  <2>1. \A k \in Jobs : job'[k] = IF k = j THEN u ELSE job[k]
    BY <1>3, <1>5 DEF JobType
  <2>2. job' \in [Jobs -> JobType]
    <3>1. u \in JobType
      BY <1>1, <1>3 DEF JobType
    <3> HIDE DEF u
    <3>2. \A k \in Jobs : job'[k] \in JobType
      BY <1>3, <2>1, <3>1
    <3>3. job' = [k \in Jobs |-> job'[k]]
      BY <1>3, <1>5
    <3>4. QED
      BY <3>2, <3>3
  <2> HIDE DEF u
  <2>3. QED
    BY <1>3, <2>1, <2>2
<1>7. u \in JobType /\ u.state = "asking" /\ u.pane = to
  BY <1>1, <1>3 DEF JobType
<1> HIDE DEF u, to
<1>8. job'[j] = u
  BY <1>3, <1>6
<1>9. ASSUME Calm
      PROVE  /\ Active(j)' => \A k \in Jobs : Active(k) /\ job[k].pane = u.pane => k = j
             /\ job[j].state = "waiting" =>
                  \/ u.state = "waiting" /\ u.pane = job[j].pane
                  \/ Alive(job[j].pane) => shell[job[j].pane].busy = Nothing
             /\ Due(j)' /\ Alive(u.pane) => shell[u.pane].busy = Nothing
  <2>1. \A k \in Jobs : job[k].pane = to => job[k].state = "done"
    BY <1>1, <1>9 DEF Calm, Mode
  <2>2. \A k \in Jobs : job[k].pane = to => ~ Active(k) /\ job[k].state # "waiting"
    BY <2>1 DEF Active
  <2>3. Alive(to) => shell[to].busy = Nothing
    BY <1>1, <1>2, <1>9, <2>2 DEF CalmOK
  <2>4. QED
    BY <1>1, <1>7, <2>2, <2>3
<1>10. u.pane \in 0 .. made /\ u.state # "idle" /\ job[j].next = 1
  BY <1>3, <1>4, <1>7
<1> HIDE DEF o
<1>11. QED
  BY <1>1, <1>6, <1>7, <1>9, <1>10, JobAlone

\* Its questions are answered, or dismissed.
LEMMA AnswerStep ==
  ASSUME TabInv, SnippetInv, NEW j \in Jobs, Answer(j)
  PROVE  SnippetInv'
<1>1. UNCHANGED tabvars /\ job[j].state = "asking"
  BY DEF Answer
<1>2. JobsOK /\ CalmOK /\ Active(j) /\ Due(j)
  BY <1>1 DEF SnippetInv, Active, Due
<1>3. CASE SendNext(j)
  <2>1. Calm /\ Alive(job[j].pane) => shell[job[j].pane].busy = Nothing
    BY <1>2 DEF CalmOK
  <2>2. QED
    BY <1>1, <1>2, <1>3, <2>1, SendNextKeeps
<1>4. CASE job' = [job EXCEPT ![j].state = "done"] /\ UNCHANGED shell
  <2> DEFINE o == job[j]
             u == [o EXCEPT !.state = "done"]
  <2>1. o \in JobType /\ o.pane \in 0 .. made /\ job \in [Jobs -> JobType]
    BY <1>2 DEF JobsOK
  <2>2. u \in JobType /\ u.state = "done" /\ u.pane = o.pane /\ u.next = o.next
    BY <2>1 DEF JobType
  <2>3. job' = [job EXCEPT ![j] = u]
    BY <1>4, <2>1
  <2> HIDE DEF u
  <2>4. job'[j] = u
    BY <2>1, <2>3
  <2>5. ~ Active(j)' /\ ~ Due(j)' /\ job[j].state # "waiting"
    BY <1>1, <2>2, <2>4 DEF Active, Due
  <2>6. u.pane \in 0 .. made /\ u.state # "idle" /\ u.pane = job[j].pane /\ job[j].next <= u.next
    BY <2>1, <2>2, SnippetAssumption DEF JobType
  <2>7. UNCHANGED <<tabvars, shell>>
    BY <1>1, <1>4
  <2> HIDE DEF o
  <2>8. QED
    BY <2>2, <2>3, <2>5, <2>6, <2>7, JobAlone
<1>5. QED
  BY <1>3, <1>4 DEF Answer

\* The output has settled.
LEMMA SettledStep ==
  ASSUME TabInv, SnippetInv, NEW j \in Jobs, Quiet(j)
  PROVE  SnippetInv'
<1>1. UNCHANGED tabvars /\ job[j].state = "waiting"
  BY DEF Quiet
<1>2. JobsOK /\ CalmOK /\ Active(j)
  BY <1>1 DEF SnippetInv, Active
<1>3. CASE job[j].prompt
  <2>1. SendNext(j)
    BY <1>3 DEF Quiet
  <2>2. Calm /\ Alive(job[j].pane) => shell[job[j].pane].busy = Nothing
    BY <1>1, <1>2, <1>3 DEF CalmOK, Due
  <2>3. QED
    BY <1>1, <1>2, <2>1, <2>2, SendNextKeeps
<1>4. CASE ~ job[j].prompt
  <2>0. job' = [job EXCEPT ![j].quiet = FALSE] /\ UNCHANGED shell
    BY <1>4 DEF Quiet
  <2> DEFINE o == job[j]
             u == [o EXCEPT !.quiet = FALSE]
  <2>1. o \in JobType /\ o.pane \in 0 .. made /\ job \in [Jobs -> JobType]
    BY <1>2 DEF JobsOK
  <2>2. u \in JobType /\ u.state = "waiting" /\ u.pane = o.pane /\ u.next = o.next /\ u.prompt = o.prompt
    BY <1>1, <2>1 DEF JobType
  <2>3. job' = [job EXCEPT ![j] = u]
    BY <2>0, <2>1
  <2> HIDE DEF u
  <2>4. job'[j] = u
    BY <2>1, <2>3
  <2>5. ~ Due(j)'
    BY <1>4, <2>2, <2>4 DEF Due
  <2>6. u.pane \in 0 .. made /\ u.state # "idle" /\ u.pane = job[j].pane /\ job[j].next <= u.next
    BY <2>1, <2>2, SnippetAssumption DEF JobType
  <2>7. UNCHANGED <<tabvars, shell>>
    BY <1>1, <2>0
  <2>8. Calm => \A k \in Jobs : Active(k) /\ job[k].pane = u.pane => k = j
    BY <1>2, <2>6 DEF CalmOK
  <2> HIDE DEF o
  <2>9. QED
    BY <2>2, <2>3, <2>5, <2>6, <2>7, <2>8, JobAlone
<1>5. QED
  BY <1>3, <1>4

\* Ten minutes went by.
LEMMA HardStep ==
  ASSUME TabInv, SnippetInv, NEW j \in Jobs, Hard(j)
  PROVE  SnippetInv'
<1>1. /\ UNCHANGED tabvars /\ job[j].state = "waiting" /\ SendNext(j)
      /\ Mode("slow") \/ ~ Alive(job[j].pane) \/ shell[job[j].pane].busy = Nothing
  BY DEF Hard
<1>2. Active(j)
  BY <1>1 DEF Active
<1>3. Calm => ~ Mode("slow")
  BY DEF Calm, Mode
<1>4. QED
  BY <1>1, <1>2, <1>3, SendNextKeeps

(***************************************************************************)
(* The invariant, and what follows for every behaviour.                    *)
(***************************************************************************)
IInv == TabInv /\ SnippetInv

\* The invariant is inductive, and no step exceeds the budget of a split.
LEMMA NextKeeps ==
  ASSUME IInv, [Next]_vars
  PROVE  IInv' /\ Budget(store'.tabs, store.tabs)
<1>1. TabInv /\ SnippetInv
  BY DEF IInv
<1>2. CASE TabNext /\ UNCHANGED snipvars
  <2>1. Kept
    BY <1>1, <1>2, TabStep
  <2>2. SnippetInv'
    BY <1>1, <1>2, <2>1, SnippetsRest
  <2>3. QED
    BY <2>1, <2>2 DEF Kept, IInv
<1>3. CASE SnippetNext
  <2>1. UNCHANGED tabvars
    BY <1>3 DEF SnippetNext, Output, CommandEnds, Send, Answer, Quiet, Hard
  <2>2. Kept
    BY <1>1, <2>1, TabsRest
  <2>3. SnippetInv'
    BY <1>1, <1>3, OutputStep, CommandEndsStep, SendStep, AnswerStep, SettledStep, HardStep DEF SnippetNext
  <2>4. QED
    BY <2>2, <2>3 DEF Kept, IInv
<1>4. CASE UNCHANGED vars
  <2>1. UNCHANGED tabvars /\ UNCHANGED snipvars
    BY <1>4 DEF vars
  <2>2. Kept
    BY <1>1, <2>1, TabsRest
  <2>3. SnippetInv'
    BY <1>1, <2>1, <2>2, SnippetsRest
  <2>4. QED
    BY <2>2, <2>3 DEF Kept, IInv
<1>5. QED
  BY <1>2, <1>3, <1>4 DEF Next

\* The invariant holds in every behaviour.
LEMMA AlwaysIInv == Spec => []IInv
<1>1. Init => IInv
  BY TabsStart, SnippetsStart DEF Init, IInv
<1>2. IInv /\ [Next]_vars => IInv'
  BY NextKeeps
<1>3. QED
  BY <1>1, <1>2, PTL DEF Spec

(* Whatever the user does, in any situation, the grid of a tab shows each  *)
(* of its panes in one cell within the budget, and the sizes fill the tab. *)
THEOREM LayoutAlwaysSound == Spec => []LayoutIsSound
<1>1. IInv => LayoutIsSound
  BY LayoutFollows DEF IInv, SnippetInv, JobsOK
<1>2. QED
  BY <1>1, AlwaysIInv, PTL

(* The focused tab is open and on screen, and both sides of a split have a *)
(* tab and, if no dragend was lost, show one of their own (afterRemoval,   *)
(* moveTabToGroup).                                                        *)
THEOREM SidesAlwaysShowTabs == Spec => []SidesShowTabs
<1>1. IInv => SidesShowTabs
  BY SidesFollow DEF IInv
<1>2. QED
  BY <1>1, AlwaysIInv, PTL

(* No pane is lost: one that leaves the window is closed or handed over to *)
(* another, unless a key or an exit came under an open menu; and while the *)
(* strip is split no pane is added beyond two by two.                      *)
THEOREM PanesAlwaysAccounted == Spec => PanesAccounted
<1>1. IInv => ClosedOrHandedOver
  BY DEF IInv, TabInv
<1>2. IInv /\ [Next]_vars =>
        [\A s \in ToSet(store.tabs), t \in ToSet(store.tabs') :
            s.id = t.id /\ IsTabSplit(store.tabs) /\ Len(t.panes) > Len(s.panes)
                => Len(t.panes) <= 4 /\ (Fits2x2(s) => Fits2x2(t))]_vars
  BY NextKeeps DEF Budget
<1>3. Spec => SplitKeepsBudget
  BY <1>2, AlwaysIInv, PTL DEF Spec, SplitKeepsBudget
<1>4. QED
  BY <1>1, <1>3, AlwaysIInv, PTL DEF PanesAccounted

(* The lines of a snippet run in their order, each at most once, and with  *)
(* prompts that are recognised none is typed ahead of its prompt.          *)
THEOREM LinesAlwaysInOrder == Spec => []LinesInOrder /\ []NothingTypedAhead
<1>1. ASSUME IInv PROVE LinesInOrder
  <2>1. ShellsOK
    BY <1>1 DEF IInv, SnippetInv
  <2>2. ASSUME NEW p \in Terminals, NEW m \in DOMAIN shell[p].ran, NEW n \in DOMAIN shell[p].ran,
               m < n, shell[p].ran[m][1] = shell[p].ran[n][1]
        PROVE  shell[p].ran[m][2] < shell[p].ran[n][2]
    <3> DEFINE r == shell[p].ran
    <3>1. r \in Seq(Pairs) /\ Ordered(r)
      BY <2>1 DEF ShellsOK, ShellType, Sorted
    <3>2. m \in 1 .. Len(r) /\ n \in 1 .. Len(r)
      BY <3>1
    <3>3. QED
      BY <2>2, <3>1, <3>2 DEF Ordered, Before
  <2>3. QED
    BY <2>2 DEF LinesInOrder
<1>2. ASSUME IInv PROVE NothingTypedAhead
  BY <1>2 DEF IInv, SnippetInv, CalmOK, NothingTypedAhead
<1>3. QED
  BY <1>1, <1>2, AlwaysIInv, PTL
=============================================================================
