------------------------- MODULE ImportExportProofs --------------------------
(***************************************************************************)
(* What the repositories, the key vault, the parsers and the exporters do  *)
(* to any tables, for documents of any length: one lemma or a few for each *)
(* operator of Database, KeyVault and ImportExport, and one for each fold. *)
(* They keep the tables good (...Good), give rows of the right kind        *)
(* (...Typed), take nothing and change nothing that was there (Grows,      *)
(* SameList, Extends), put no session in twice (Apart), find on the second *)
(* import what the first one left, and recognise an export (Recognised).   *)
(***************************************************************************)
EXTENDS ImportExport, SequenceTheorems, NaturalsInduction, WellFoundedInduction, FiniteSetTheorems, TLAPS

-----------------------------------------------------------------------------
(* Sequences.                                                              *)

Stack(s) == \E S : s \in Seq(S)

(* A function on 1 .. n is a sequence.                                     *)
LEMMA MakesSeq ==
  ASSUME NEW S, NEW n \in Nat, NEW s, DOMAIN s = 1 .. n, s = [i \in 1 .. n |-> s[i]],
         \A i \in 1 .. n : s[i] \in S
  PROVE  s \in Seq(S)
<1>1. s \in [1 .. n -> S]
  OBVIOUS
<1>2. QED
  BY <1>1, SeqDef

(* What a stack is made of.                                                *)
LEMMA StackFacts ==
  ASSUME NEW s, Stack(s)
  PROVE  /\ Len(s) \in Nat /\ DOMAIN s = 1 .. Len(s)
         /\ s # <<>> => Len(s) \in 1 .. Len(s) /\ Last(s) = s[Len(s)]
<1>1. PICK S : s \in Seq(S)
  BY DEF Stack
<1>2. Len(s) \in Nat /\ DOMAIN s = 1 .. Len(s) /\ (s # <<>> => Len(s) # 0)
  BY <1>1
<1>3. QED
  BY <1>2 DEF Last

LEMMA EmptyStack == Stack(<<>>) /\ Len(<<>>) = 0
<1>1. <<>> \in Seq({})
  OBVIOUS
<1>2. QED
  BY <1>1 DEF Stack

LEMMA PushedStack ==
  ASSUME NEW s, Stack(s), NEW d
  PROVE  /\ Stack(Append(s, d)) /\ Len(Append(s, d)) = Len(s) + 1
         /\ \A i \in 1 .. Len(s) : Append(s, d)[i] = s[i]
         /\ Append(s, d)[Len(s) + 1] = d
<1>1. PICK S : s \in Seq(S)
  BY DEF Stack
<1> DEFINE T == S \cup {d}
<1>2. s \in Seq(T) /\ d \in T
  BY <1>1
<1> HIDE DEF T
<1>3. /\ Append(s, d) \in Seq(T) /\ Len(Append(s, d)) = Len(s) + 1
      /\ \A i \in 1 .. Len(s) : Append(s, d)[i] = s[i]
      /\ Append(s, d)[Len(s) + 1] = d
  BY <1>2
<1>4. QED
  BY <1>3 DEF Stack

LEMMA PoppedStack ==
  ASSUME NEW s, Stack(s), s # <<>>
  PROVE  /\ Stack(Front(s)) /\ Len(Front(s)) = Len(s) - 1
         /\ \A i \in 1 .. (Len(s) - 1) : Front(s)[i] = s[i]
<1>1. PICK S : s \in Seq(S)
  BY DEF Stack
<1>2. Front(s) = SubSeq(s, 1, Len(s) - 1)
  BY DEF Front
<1>3. Len(s) \in Nat /\ Len(s) # 0
  BY <1>1
<1> DEFINE n == Len(s) - 1
<1>4. n \in Nat /\ \A i \in 1 .. n : s[i] \in S
  BY <1>1, <1>3
<1> HIDE DEF n
<1>5. /\ SubSeq(s, 1, n) \in Seq(S) /\ Len(SubSeq(s, 1, n)) = n
      /\ \A i \in 1 .. n : SubSeq(s, 1, n)[i] = s[i]
  <2>1. /\ SubSeq(s, 1, n) \in Seq(S)
        /\ Len(SubSeq(s, 1, n)) = IF 1 <= n THEN n - 1 + 1 ELSE 0
        /\ \A i \in 1 .. n - 1 + 1 : SubSeq(s, 1, n)[i] = s[1 + i - 1]
    BY <1>4, SubSeqProperties
  <2>2. n - 1 + 1 = n /\ \A i \in 1 .. n : 1 + i - 1 = i
    BY <1>4
  <2>3. QED
    BY <1>4, <2>1, <2>2
<1>6. QED
  BY <1>2, <1>5 DEF Stack, n

LEMMA ChangedStack ==
  ASSUME NEW s, Stack(s), NEW k \in 1 .. Len(s), NEW d
  PROVE  LET t == [s EXCEPT ![k] = d]
         IN  Stack(t) /\ Len(t) = Len(s) /\ \A i \in 1 .. Len(s) : t[i] = IF i = k THEN d ELSE s[i]
<1> DEFINE t == [s EXCEPT ![k] = d]
<1>1. PICK S : s \in Seq(S)
  BY DEF Stack
<1> DEFINE T == S \cup {d}
<1>2. s \in Seq(T) /\ d \in T
  BY <1>1
<1> HIDE DEF T
<1>3. t \in Seq(T) /\ Len(t) = Len(s) /\ \A i \in 1 .. Len(s) : t[i] = IF i = k THEN d ELSE s[i]
  BY <1>2
<1>4. QED
  BY <1>3 DEF Stack

(* The load that closes a dialog is the only one under way, and the dialog *)
(* on top, its own, is not one that a pane waits for.                      *)
Closes(q) == \E i \in 1 .. Len(q) : q[i].then = "close"

LEMMA OnlyOne ==
  ASSUME NEW d
  PROVE  Stack(Append(<<>>, d)) /\ Len(Append(<<>>, d)) = 1 /\ Append(<<>>, d)[1] = d
<1> DEFINE s == Append(<<>>, d)
<1>1. <<>> \in Seq({d}) /\ Len(<<>>) = 0
  OBVIOUS
<1>2. s \in Seq({d}) /\ Len(s) = 1 /\ s[1] = d
  BY <1>1
<1> HIDE DEF s
<1>3. Stack(s)
  BY <1>2 DEF Stack
<1>4. QED
  BY <1>2, <1>3 DEF s

-----------------------------------------------------------------------------
(* Records and functions that are changed in one place.                    *)

(* A record changed in another field keeps its kind.                       *)
LEMMA KindKept ==
  ASSUME NEW t, "kind" \in DOMAIN t, NEW field, field # "kind", NEW e
  PROVE  LET d == [t EXCEPT ![field] = e] IN "kind" \in DOMAIN d /\ d.kind = t.kind
<1>1. QED
  OBVIOUS

LEMMA ThenKept ==
  ASSUME NEW t, "then" \in DOMAIN t, NEW field, field # "then", NEW e
  PROVE  LET d == [t EXCEPT ![field] = e] IN "then" \in DOMAIN d /\ d.then = t.then
<1>1. QED
  OBVIOUS

LEMMA TailStack ==
  ASSUME NEW s, Stack(s), s # <<>>
  PROVE  /\ Stack(Tail(s)) /\ Len(Tail(s)) = Len(s) - 1 /\ Head(s) = s[1] /\ 1 \in 1 .. Len(s)
         /\ \A i \in 1 .. (Len(s) - 1) : Tail(s)[i] = s[i + 1] /\ i + 1 \in 1 .. Len(s)
<1>1. PICK S : s \in Seq(S)
  BY DEF Stack
<1>2. /\ Tail(s) \in Seq(S) /\ Len(Tail(s)) = Len(s) - 1 /\ Head(s) = s[1] /\ 1 \in 1 .. Len(s)
      /\ \A i \in 1 .. (Len(s) - 1) : Tail(s)[i] = s[i + 1] /\ i + 1 \in 1 .. Len(s)
  BY <1>1
<1>3. QED
  BY <1>2 DEF Stack

-----------------------------------------------------------------------------
(* Folds. The folds of the library share one shape: the step each of them  *)
(* takes is StepOf, under its name and with what it reads besides the      *)
(* accumulator and the element.                                            *)

(* What an export to an OpenSSH config writes of a session.                *)
HostLines(r) ==
  <<SshLine("host", Dashed(r.name), 0)>>
  \o (IF r.host # NoText THEN <<SshLine("hostname", r.host, 0)>> ELSE <<>>)
  \o (IF r.port # 0 THEN <<SshLine("port", NoText, r.port)>> ELSE <<>>)
  \o (IF r.user # NoText THEN <<SshLine("user", r.user, 0)>> ELSE <<>>)

StepOf(what, par, acc, x) ==
  CASE what = "scan" -> IF KeysByFingerprint(acc.db, par[x].fp) # None THEN acc
                        ELSE Done(KeysInsert(acc.db, BaseOf[x], par[x].fp).db)
    [] what = "snippets" -> SnippetsCreate(acc.db, TRUE, None)
    [] what = "path" ->
         LET there == Find(acc.db.groups, LAMBDA g : g.name = x /\ g.parent = acc.id)
         IN IF there # None THEN [id |-> there, db |-> acc.db] ELSE GroupsCreate(acc.db, x, acc.id)
    [] what = "keys" ->
         IF x.keyPath \in {NoText} \cup DOMAIN acc.ids THEN acc
         ELSE LET r == ResolveKeyToVault(acc.db, par.files, x.keyPath, par.located)
              IN [ids |-> Patched(acc.ids, Single(x.keyPath, r.id)), db |-> r.db]
    [] what = "add" -> AddSession(acc, par.existing, WithKey(x, par.ids))
    [] what = "rows" -> IF x \in DOMAIN par THEN Append(acc, par[x]) ELSE acc
    [] what = "sshconfig" -> ReadSshLine(acc, x)
    [] what = "mobaxterm" -> ReadMobaLine(acc, x)
    [] what = "csv" -> IF x.name # NoText THEN Append(acc, CsvRow(x)) ELSE acc
    [] what = "tabby" -> IF x.protocol \in {"ssh", "local", "telnet", "serial"}
                         THEN Append(acc, TabbyRow(x)) ELSE acc
    [] what = "hosts" -> IF x.protocol = "ssh" THEN acc \o HostLines(x) ELSE acc

(* What the folds run over, where that has no name of its own.             *)
HereOf(fs) == {p \in DOMAIN fs : HomeOf[BaseOf[p]] = p /\ fs[p].key /\ fs[p].plain}
Counting(n) == [i \in 1 .. n |-> i]

IsFold(f, what, par, base, seq, n) ==
  f = [s \in SUBSET (1 .. n) |->
         IF s = {} THEN base ELSE StepOf(what, par, f[s \ {Max(s)}], seq[Max(s)])]

(* The accumulators of a fold, from the base to its result.                *)
Chain(at, what, par, base, seq, n) ==
  at[0] = base /\ \A k \in 1 .. n : at[k] = StepOf(what, par, at[k - 1], seq[k])

(* A set of natural numbers has a least element.                           *)
LEMMA Least ==
  ASSUME NEW T, T \subseteq Nat, T # {}
  PROVE  \E m \in T : \A k \in T : m <= k
<1>1. IsWellFoundedOn(OpToRel(<, Nat), Nat)
  BY NatLessThanWellFounded
<1>2. PICK m \in T : \A k \in T : ~ (<<k, m>> \in OpToRel(<, Nat))
  BY <1>1, WFMin
<1>3. \A k \in T : ~ (k < m)
  BY <1>2 DEF OpToRel
<1>4. QED
  BY <1>3

(* What is true of 0 and goes from each position to the next is true up to *)
(* the last.                                                               *)
LEMMA Climb ==
  ASSUME NEW N \in Nat, NEW H, 0 \in H, \A k \in 1 .. N : k - 1 \in H => k \in H
  PROVE  N \in H
<1> DEFINE T == {n \in 0 .. N : n \notin H}
<1>1. SUFFICES ASSUME T # {} PROVE FALSE
  OBVIOUS
<1>2. T \subseteq Nat
  OBVIOUS
<1> HIDE DEF T
<1>3. PICK m \in T : \A k \in T : m <= k
  BY <1>1, <1>2, Least
<1>4. m \in 0 .. N /\ m \notin H
  BY <1>3 DEF T
<1>5. m - 1 \in 0 .. N /\ m - 1 \notin T
  BY <1>3, <1>4
<1>6. QED
  BY <1>4, <1>5 DEF T

LEMMA Greatest ==
  ASSUME NEW S, S \subseteq Nat, NEW m \in S, \A k \in S : m >= k
  PROVE  Max(S) = m
<1>1. \A x \in S : (\A y \in S : x >= y) => x = m
  OBVIOUS
<1>2. QED
  BY <1>1 DEF Max

(* The function a fold is defined by exists, for a sequence of any length. *)
LEMMA FoldExists ==
  ASSUME NEW what, NEW par, NEW base, NEW seq, NEW N \in Nat
  PROVE  \E f : IsFold(f, what, par, base, seq, N)
<1> DEFINE H == {n \in 0 .. N : \E f : IsFold(f, what, par, base, seq, n)}
<1>1. 0 \in H
  <2> DEFINE g == [s \in SUBSET (1 .. 0) |-> base]
  <2>1. SUBSET (1 .. 0) = {{}}
    OBVIOUS
  <2>2. IsFold(g, what, par, base, seq, 0)
    BY <2>1 DEF IsFold
  <2>3. QED
    BY <2>2
<1>2. ASSUME NEW m \in 1 .. N, m - 1 \in H PROVE m \in H
  <2>1. PICK g : IsFold(g, what, par, base, seq, m - 1)
    BY <1>2
  <2> DEFINE f == [s \in SUBSET (1 .. m) |->
                     IF m \in s THEN StepOf(what, par, g[s \ {m}], seq[m]) ELSE g[s]]
  <2>2. ASSUME NEW s \in SUBSET (1 .. m)
        PROVE  f[s] = IF s = {} THEN base ELSE StepOf(what, par, f[s \ {Max(s)}], seq[Max(s)])
    <3>1. CASE m \in s
      <4>1. s \subseteq Nat /\ \A k \in s : m >= k
        OBVIOUS
      <4>2. Max(s) = m
        BY <3>1, <4>1, Greatest
      <4>3. f[s \ {m}] = g[s \ {m}]
        OBVIOUS
      <4>4. QED
        BY <3>1, <4>2, <4>3
    <3>2. CASE m \notin s
      <4>1. \A k \in s : k \in 1 .. (m - 1)
        BY <3>2
      <4>2. s \in SUBSET (1 .. (m - 1)) /\ s \ {Max(s)} \in SUBSET (1 .. (m - 1))
        BY <4>1
      <4>3. f[s] = g[s] /\ f[s \ {Max(s)}] = g[s \ {Max(s)}]
        BY <3>2
      <4>4. QED
        BY <2>1, <4>2, <4>3 DEF IsFold
    <3>3. QED
      BY <3>1, <3>2
  <2>3. IsFold(f, what, par, base, seq, m)
    BY <2>2 DEF IsFold
  <2>4. QED
    BY <2>3
<1> HIDE DEF H
<1>3. N \in H
  BY <1>1, <1>2, Climb
<1>4. QED
  BY <1>3 DEF H

LEMMA FoldIsChain ==
  ASSUME NEW what, NEW par, NEW base, NEW seq, NEW N \in Nat, NEW f, IsFold(f, what, par, base, seq, N)
  PROVE  \E at : Chain(at, what, par, base, seq, N) /\ f[1 .. N] = at[N]
<1> DEFINE at == [n \in 0 .. N |-> f[1 .. n]]
<1>1. at[0] = base
  BY DEF IsFold
<1>2. ASSUME NEW m \in 1 .. N PROVE at[m] = StepOf(what, par, at[m - 1], seq[m])
  <2> DEFINE s == 1 .. m
  <2>1. s \in SUBSET (1 .. N) /\ s # {} /\ s \subseteq Nat /\ m \in s /\ \A k \in s : m >= k
    OBVIOUS
  <2>2. Max(s) = m
    BY <2>1, Greatest
  <2>3. s \ {m} = 1 .. (m - 1)
    OBVIOUS
  <2>4. f[s] = StepOf(what, par, f[s \ {Max(s)}], seq[Max(s)])
    BY <2>1 DEF IsFold
  <2>5. f[s] = StepOf(what, par, f[1 .. (m - 1)], seq[m])
    BY <2>2, <2>3, <2>4
  <2>6. at[m] = f[s] /\ at[m - 1] = f[1 .. (m - 1)]
    OBVIOUS
  <2>7. QED
    BY <2>5, <2>6
<1>3. f[1 .. N] = at[N]
  OBVIOUS
<1> HIDE DEF at
<1>4. QED
  BY <1>1, <1>2, <1>3 DEF Chain

LEMMA HostsFold ==
  ASSUME NEW d, Len(RowsOf(d)) \in Nat, DOMAIN RowsOf(d) = 1 .. Len(RowsOf(d))
  PROVE  \E at : /\ Chain(at, "hosts", {}, <<>>, RowsOf(d), Len(RowsOf(d)))
                /\ ToSshConfig(d) = at[Len(RowsOf(d))]
<1> DEFINE base == <<>>
           rows == RowsOf(d)
           S == DOMAIN rows
           Turn(acc, x) == IF x.protocol = "ssh" THEN acc \o HostLines(x) ELSE acc
           f == CHOOSE g : g = [s \in SUBSET S |->
                  IF s = {} THEN base ELSE Turn(g[s \ {Max(s)}], rows[Max(s)])]
<1>1. \A acc, x : StepOf("hosts", {}, acc, x) = Turn(acc, x)
  BY DEF StepOf
<1>2. ToSshConfig(d) = f[S]
  BY DEF ToSshConfig, HostLines, FoldLeft, MapThenFoldSet
<1> HIDE DEF Turn, rows
<1>a. PICK h : IsFold(h, "hosts", {}, base, rows, Len(rows))
  BY FoldExists DEF rows
<1>3. h = [s \in SUBSET S |->
                  IF s = {} THEN base ELSE Turn(h[s \ {Max(s)}], rows[Max(s)])]
  BY <1>1, <1>a DEF IsFold, rows
<1>4. f = [s \in SUBSET S |->
                  IF s = {} THEN base ELSE Turn(f[s \ {Max(s)}], rows[Max(s)])]
  BY <1>3
<1> HIDE DEF f
<1>5. IsFold(f, "hosts", {}, base, rows, Len(rows))
  BY <1>1, <1>4 DEF IsFold, rows
<1>6. QED
  BY <1>2, <1>5, FoldIsChain DEF rows

(* Each fold of the library has its chain.                                 *)
LEMMA PathFold ==
  ASSUME NEW d, NEW path, Len(path) \in Nat, DOMAIN path = 1 .. Len(path)
  PROVE  \E at : /\ Chain(at, "path", {}, [id |-> None, db |-> d], path, Len(path))
                /\ ResolveGroupPath(d, path) = at[Len(path)]
<1> DEFINE base == [id |-> None, db |-> d]
           S == DOMAIN path
           Turn(acc, x) == LET there == Find(acc.db.groups, LAMBDA g : g.name = x /\ g.parent = acc.id)
                           IN IF there # None THEN [id |-> there, db |-> acc.db]
                              ELSE GroupsCreate(acc.db, x, acc.id)
           f == CHOOSE g : g = [s \in SUBSET S |->
                  IF s = {} THEN base ELSE Turn(g[s \ {Max(s)}], path[Max(s)])]
<1>1. \A acc, x : StepOf("path", {}, acc, x) = Turn(acc, x)
  BY DEF StepOf
<1>2. ResolveGroupPath(d, path) = f[S]
  BY DEF ResolveGroupPath, FoldLeft, MapThenFoldSet
<1> HIDE DEF Turn
<1>a. PICK h : IsFold(h, "path", {}, base, path, Len(path))
  BY FoldExists
<1>3. h = [s \in SUBSET S |->
                  IF s = {} THEN base ELSE Turn(h[s \ {Max(s)}], path[Max(s)])]
  BY <1>1, <1>a DEF IsFold
<1>4. f = [s \in SUBSET S |->
                  IF s = {} THEN base ELSE Turn(f[s \ {Max(s)}], path[Max(s)])]
  BY <1>3
<1> HIDE DEF f
<1>5. IsFold(f, "path", {}, base, path, Len(path))
  BY <1>1, <1>4 DEF IsFold
<1>6. QED
  BY <1>2, <1>5, FoldIsChain

LEMMA KeysFold ==
  ASSUME NEW d, NEW fs, NEW inputs, NEW located, Len(inputs) \in Nat, DOMAIN inputs = 1 .. Len(inputs)
  PROVE  \E at : /\ Chain(at, "keys", [files |-> fs, located |-> located], [ids |-> <<>>, db |-> d], inputs, Len(inputs))
                /\ ResolveKeys(d, fs, inputs, located) = at[Len(inputs)]
<1> DEFINE base == [ids |-> <<>>, db |-> d]
           S == DOMAIN inputs
           Turn(acc, x) == IF x.keyPath \in {NoText} \cup DOMAIN acc.ids THEN acc
                           ELSE LET r == ResolveKeyToVault(acc.db, fs, x.keyPath, located)
                                IN [ids |-> Patched(acc.ids, Single(x.keyPath, r.id)), db |-> r.db]
           f == CHOOSE g : g = [s \in SUBSET S |->
                  IF s = {} THEN base ELSE Turn(g[s \ {Max(s)}], inputs[Max(s)])]
<1>1. \A acc, x : StepOf("keys", [files |-> fs, located |-> located], acc, x) = Turn(acc, x)
  BY DEF StepOf
<1>2. ResolveKeys(d, fs, inputs, located) = f[S]
  BY DEF ResolveKeys, FoldLeft, MapThenFoldSet
<1> HIDE DEF Turn
<1>a. PICK h : IsFold(h, "keys", [files |-> fs, located |-> located], base, inputs, Len(inputs))
  BY FoldExists
<1>3. h = [s \in SUBSET S |->
                  IF s = {} THEN base ELSE Turn(h[s \ {Max(s)}], inputs[Max(s)])]
  BY <1>1, <1>a DEF IsFold
<1>4. f = [s \in SUBSET S |->
                  IF s = {} THEN base ELSE Turn(f[s \ {Max(s)}], inputs[Max(s)])]
  BY <1>3
<1> HIDE DEF f
<1>5. IsFold(f, "keys", [files |-> fs, located |-> located], base, inputs, Len(inputs))
  BY <1>1, <1>4 DEF IsFold
<1>6. QED
  BY <1>2, <1>5, FoldIsChain

LEMMA AddFold ==
  ASSUME NEW existing, NEW inputs, NEW keys, Len(inputs) \in Nat, DOMAIN inputs = 1 .. Len(inputs)
  PROVE  \E at : /\ Chain(at, "add", [existing |-> existing, ids |-> keys.ids], [ok |-> TRUE, made |-> 0, db |-> keys.db], inputs, Len(inputs))
                /\ AddAll(existing, inputs, keys) = at[Len(inputs)]
<1> DEFINE base == [ok |-> TRUE, made |-> 0, db |-> keys.db]
           S == DOMAIN inputs
           Turn(acc, x) == AddSession(acc, existing, WithKey(x, keys.ids))
           f == CHOOSE g : g = [s \in SUBSET S |->
                  IF s = {} THEN base ELSE Turn(g[s \ {Max(s)}], inputs[Max(s)])]
<1>1. \A acc, x : StepOf("add", [existing |-> existing, ids |-> keys.ids], acc, x) = Turn(acc, x)
  BY DEF StepOf
<1>2. AddAll(existing, inputs, keys) = f[S]
  BY DEF AddAll, FoldLeft, MapThenFoldSet
<1> HIDE DEF Turn
<1>a. PICK h : IsFold(h, "add", [existing |-> existing, ids |-> keys.ids], base, inputs, Len(inputs))
  BY FoldExists
<1>3. h = [s \in SUBSET S |->
                  IF s = {} THEN base ELSE Turn(h[s \ {Max(s)}], inputs[Max(s)])]
  BY <1>1, <1>a DEF IsFold
<1>4. f = [s \in SUBSET S |->
                  IF s = {} THEN base ELSE Turn(f[s \ {Max(s)}], inputs[Max(s)])]
  BY <1>3
<1> HIDE DEF f
<1>5. IsFold(f, "add", [existing |-> existing, ids |-> keys.ids], base, inputs, Len(inputs))
  BY <1>1, <1>4 DEF IsFold
<1>6. QED
  BY <1>2, <1>5, FoldIsChain

LEMMA ScanFold ==
  ASSUME NEW d, NEW fs, Len(SetToSeq(HereOf(fs))) \in Nat, DOMAIN SetToSeq(HereOf(fs)) = 1 .. Len(SetToSeq(HereOf(fs)))
  PROVE  \E at : /\ Chain(at, "scan", fs, Done(d), SetToSeq(HereOf(fs)), Len(SetToSeq(HereOf(fs))))
                /\ ImportFromDir(d, fs) = at[Len(SetToSeq(HereOf(fs)))]
<1> DEFINE base == Done(d)
           S == DOMAIN SetToSeq(HereOf(fs))
           Turn(acc, x) == IF KeysByFingerprint(acc.db, fs[x].fp) # None THEN acc
                           ELSE Done(KeysInsert(acc.db, BaseOf[x], fs[x].fp).db)
           f == CHOOSE g : g = [s \in SUBSET S |->
                  IF s = {} THEN base ELSE Turn(g[s \ {Max(s)}], SetToSeq(HereOf(fs))[Max(s)])]
<1>1. \A acc, x : StepOf("scan", fs, acc, x) = Turn(acc, x)
  BY DEF StepOf
<1>2. ImportFromDir(d, fs) = f[S]
  BY DEF ImportFromDir, HereOf, FoldLeft, MapThenFoldSet
<1> HIDE DEF Turn
<1>a. PICK h : IsFold(h, "scan", fs, base, SetToSeq(HereOf(fs)), Len(SetToSeq(HereOf(fs))))
  BY FoldExists
<1>3. h = [s \in SUBSET S |->
                  IF s = {} THEN base ELSE Turn(h[s \ {Max(s)}], SetToSeq(HereOf(fs))[Max(s)])]
  BY <1>1, <1>a DEF IsFold
<1>4. f = [s \in SUBSET S |->
                  IF s = {} THEN base ELSE Turn(f[s \ {Max(s)}], SetToSeq(HereOf(fs))[Max(s)])]
  BY <1>3
<1> HIDE DEF f
<1>5. IsFold(f, "scan", fs, base, SetToSeq(HereOf(fs)), Len(SetToSeq(HereOf(fs))))
  BY <1>1, <1>4 DEF IsFold
<1>6. QED
  BY <1>2, <1>5, FoldIsChain

LEMMA SnippetsFold ==
  ASSUME NEW d, NEW count, Len(Counting(count)) \in Nat, DOMAIN Counting(count) = 1 .. Len(Counting(count))
  PROVE  \E at : /\ Chain(at, "snippets", {}, Done(d), Counting(count), Len(Counting(count)))
                /\ SnippetsImport(d, count) = at[Len(Counting(count))]
<1> DEFINE base == Done(d)
           S == DOMAIN Counting(count)
           Turn(acc, x) == SnippetsCreate(acc.db, TRUE, None)
           f == CHOOSE g : g = [s \in SUBSET S |->
                  IF s = {} THEN base ELSE Turn(g[s \ {Max(s)}], Counting(count)[Max(s)])]
<1>1. \A acc, x : StepOf("snippets", {}, acc, x) = Turn(acc, x)
  BY DEF StepOf
<1>2. SnippetsImport(d, count) = f[S]
  BY DEF SnippetsImport, Counting, FoldLeft, MapThenFoldSet
<1> HIDE DEF Turn
<1>a. PICK h : IsFold(h, "snippets", {}, base, Counting(count), Len(Counting(count)))
  BY FoldExists
<1>3. h = [s \in SUBSET S |->
                  IF s = {} THEN base ELSE Turn(h[s \ {Max(s)}], Counting(count)[Max(s)])]
  BY <1>1, <1>a DEF IsFold
<1>4. f = [s \in SUBSET S |->
                  IF s = {} THEN base ELSE Turn(f[s \ {Max(s)}], Counting(count)[Max(s)])]
  BY <1>3
<1> HIDE DEF f
<1>5. IsFold(f, "snippets", {}, base, Counting(count), Len(Counting(count)))
  BY <1>1, <1>4 DEF IsFold
<1>6. QED
  BY <1>2, <1>5, FoldIsChain

LEMMA RowsFold ==
  ASSUME NEW d, Len(Counting(d.next["sessions"] - 1)) \in Nat, DOMAIN Counting(d.next["sessions"] - 1) = 1 .. Len(Counting(d.next["sessions"] - 1))
  PROVE  \E at : /\ Chain(at, "rows", d.sessions, <<>>, Counting(d.next["sessions"] - 1), Len(Counting(d.next["sessions"] - 1)))
                /\ RowsOf(d) = at[Len(Counting(d.next["sessions"] - 1))]
<1> DEFINE base == <<>>
           S == DOMAIN Counting(d.next["sessions"] - 1)
           Turn(acc, x) == IF x \in DOMAIN d.sessions THEN Append(acc, d.sessions[x]) ELSE acc
           f == CHOOSE g : g = [s \in SUBSET S |->
                  IF s = {} THEN base ELSE Turn(g[s \ {Max(s)}], Counting(d.next["sessions"] - 1)[Max(s)])]
<1>1. \A acc, x : StepOf("rows", d.sessions, acc, x) = Turn(acc, x)
  BY DEF StepOf
<1>2. RowsOf(d) = f[S]
  BY DEF RowsOf, Sifted, Counting, FoldLeft, MapThenFoldSet
<1> HIDE DEF Turn
<1>a. PICK h : IsFold(h, "rows", d.sessions, base, Counting(d.next["sessions"] - 1), Len(Counting(d.next["sessions"] - 1)))
  BY FoldExists
<1>3. h = [s \in SUBSET S |->
                  IF s = {} THEN base ELSE Turn(h[s \ {Max(s)}], Counting(d.next["sessions"] - 1)[Max(s)])]
  BY <1>1, <1>a DEF IsFold
<1>4. f = [s \in SUBSET S |->
                  IF s = {} THEN base ELSE Turn(f[s \ {Max(s)}], Counting(d.next["sessions"] - 1)[Max(s)])]
  BY <1>3
<1> HIDE DEF f
<1>5. IsFold(f, "rows", d.sessions, base, Counting(d.next["sessions"] - 1), Len(Counting(d.next["sessions"] - 1)))
  BY <1>1, <1>4 DEF IsFold
<1>6. QED
  BY <1>2, <1>5, FoldIsChain

LEMMA SshConfigFold ==
  ASSUME NEW lines, Len(lines) \in Nat, DOMAIN lines = 1 .. Len(lines)
  PROVE  \E at : /\ Chain(at, "sshconfig", {}, [done |-> <<>>, current |-> <<>>], lines, Len(lines))
                /\ FromSshConfig(lines) = Flushed(at[Len(lines)])
<1> DEFINE base == [done |-> <<>>, current |-> <<>>]
           S == DOMAIN lines
           Turn(acc, x) == ReadSshLine(acc, x)
           f == CHOOSE g : g = [s \in SUBSET S |->
                  IF s = {} THEN base ELSE Turn(g[s \ {Max(s)}], lines[Max(s)])]
<1>1. \A acc, x : StepOf("sshconfig", {}, acc, x) = Turn(acc, x)
  BY DEF StepOf
<1>2. FromSshConfig(lines) = Flushed(f[S])
  BY DEF FromSshConfig, FoldLeft, MapThenFoldSet
<1> HIDE DEF Turn
<1>a. PICK h : IsFold(h, "sshconfig", {}, base, lines, Len(lines))
  BY FoldExists
<1>3. h = [s \in SUBSET S |->
                  IF s = {} THEN base ELSE Turn(h[s \ {Max(s)}], lines[Max(s)])]
  BY <1>1, <1>a DEF IsFold
<1>4. f = [s \in SUBSET S |->
                  IF s = {} THEN base ELSE Turn(f[s \ {Max(s)}], lines[Max(s)])]
  BY <1>3
<1> HIDE DEF f
<1>5. IsFold(f, "sshconfig", {}, base, lines, Len(lines))
  BY <1>1, <1>4 DEF IsFold
<1>6. QED
  BY <1>2, <1>5, FoldIsChain

LEMMA MobaXtermFold ==
  ASSUME NEW lines, Len(lines) \in Nat, DOMAIN lines = 1 .. Len(lines)
  PROVE  \E at : /\ Chain(at, "mobaxterm", {}, [done |-> <<>>, bookmarks |-> FALSE, path |-> NoFolder], lines, Len(lines))
                /\ FromMobaXterm(lines) = at[Len(lines)].done
<1> DEFINE base == [done |-> <<>>, bookmarks |-> FALSE, path |-> NoFolder]
           S == DOMAIN lines
           Turn(acc, x) == ReadMobaLine(acc, x)
           f == CHOOSE g : g = [s \in SUBSET S |->
                  IF s = {} THEN base ELSE Turn(g[s \ {Max(s)}], lines[Max(s)])]
<1>1. \A acc, x : StepOf("mobaxterm", {}, acc, x) = Turn(acc, x)
  BY DEF StepOf
<1>2. FromMobaXterm(lines) = f[S].done
  BY DEF FromMobaXterm, FoldLeft, MapThenFoldSet
<1> HIDE DEF Turn
<1>a. PICK h : IsFold(h, "mobaxterm", {}, base, lines, Len(lines))
  BY FoldExists
<1>3. h = [s \in SUBSET S |->
                  IF s = {} THEN base ELSE Turn(h[s \ {Max(s)}], lines[Max(s)])]
  BY <1>1, <1>a DEF IsFold
<1>4. f = [s \in SUBSET S |->
                  IF s = {} THEN base ELSE Turn(f[s \ {Max(s)}], lines[Max(s)])]
  BY <1>3
<1> HIDE DEF f
<1>5. IsFold(f, "mobaxterm", {}, base, lines, Len(lines))
  BY <1>1, <1>4 DEF IsFold
<1>6. QED
  BY <1>2, <1>5, FoldIsChain

LEMMA CsvFold ==
  ASSUME NEW entries, Len(Each(entries, Named)) \in Nat, DOMAIN Each(entries, Named) = 1 .. Len(Each(entries, Named))
  PROVE  \E at : /\ Chain(at, "csv", {}, <<>>, Each(entries, Named), Len(Each(entries, Named)))
                /\ FromCsv(entries) = at[Len(Each(entries, Named))]
<1> DEFINE base == <<>>
           S == DOMAIN Each(entries, Named)
           Turn(acc, x) == IF x.name # NoText THEN Append(acc, CsvRow(x)) ELSE acc
           f == CHOOSE g : g = [s \in SUBSET S |->
                  IF s = {} THEN base ELSE Turn(g[s \ {Max(s)}], Each(entries, Named)[Max(s)])]
<1>1. \A acc, x : StepOf("csv", {}, acc, x) = Turn(acc, x)
  BY DEF StepOf
<1>2. FromCsv(entries) = f[S]
  BY DEF FromCsv, Sifted, FoldLeft, MapThenFoldSet
<1> HIDE DEF Turn
<1>a. PICK h : IsFold(h, "csv", {}, base, Each(entries, Named), Len(Each(entries, Named)))
  BY FoldExists
<1>3. h = [s \in SUBSET S |->
                  IF s = {} THEN base ELSE Turn(h[s \ {Max(s)}], Each(entries, Named)[Max(s)])]
  BY <1>1, <1>a DEF IsFold
<1>4. f = [s \in SUBSET S |->
                  IF s = {} THEN base ELSE Turn(f[s \ {Max(s)}], Each(entries, Named)[Max(s)])]
  BY <1>3
<1> HIDE DEF f
<1>5. IsFold(f, "csv", {}, base, Each(entries, Named), Len(Each(entries, Named)))
  BY <1>1, <1>4 DEF IsFold
<1>6. QED
  BY <1>2, <1>5, FoldIsChain

LEMMA TabbyFold ==
  ASSUME NEW entries, Len(Each(entries, Named)) \in Nat, DOMAIN Each(entries, Named) = 1 .. Len(Each(entries, Named))
  PROVE  \E at : /\ Chain(at, "tabby", {}, <<>>, Each(entries, Named), Len(Each(entries, Named)))
                /\ FromTabby(entries) = at[Len(Each(entries, Named))]
<1> DEFINE base == <<>>
           S == DOMAIN Each(entries, Named)
           Turn(acc, x) == IF x.protocol \in {"ssh", "local", "telnet", "serial"}
                           THEN Append(acc, TabbyRow(x)) ELSE acc
           f == CHOOSE g : g = [s \in SUBSET S |->
                  IF s = {} THEN base ELSE Turn(g[s \ {Max(s)}], Each(entries, Named)[Max(s)])]
<1>1. \A acc, x : StepOf("tabby", {}, acc, x) = Turn(acc, x)
  BY DEF StepOf
<1>2. FromTabby(entries) = f[S]
  BY DEF FromTabby, Sifted, FoldLeft, MapThenFoldSet
<1> HIDE DEF Turn
<1>a. PICK h : IsFold(h, "tabby", {}, base, Each(entries, Named), Len(Each(entries, Named)))
  BY FoldExists
<1>3. h = [s \in SUBSET S |->
                  IF s = {} THEN base ELSE Turn(h[s \ {Max(s)}], Each(entries, Named)[Max(s)])]
  BY <1>1, <1>a DEF IsFold
<1>4. f = [s \in SUBSET S |->
                  IF s = {} THEN base ELSE Turn(f[s \ {Max(s)}], Each(entries, Named)[Max(s)])]
  BY <1>3
<1> HIDE DEF f
<1>5. IsFold(f, "tabby", {}, base, Each(entries, Named), Len(Each(entries, Named)))
  BY <1>1, <1>4 DEF IsFold
<1>6. QED
  BY <1>2, <1>5, FoldIsChain

-----------------------------------------------------------------------------
(* The tables.                                                             *)

GoodTables(d, once) == TablesTyped(d) /\ RowsResolve(d) /\ (once => KeysApart(d))

(* A row was added to a table under the next id; nothing else changed.     *)
RowAdded(e, d, t, row) ==
  LET n == d.next[t]
  IN  /\ DOMAIN e = Tables \cup {"next"}
      /\ n \in Nat \ {0} /\ n \notin DOMAIN d[t]
      /\ e.next = [d.next EXCEPT ![t] = n + 1]
      /\ \A u \in Tables \ {t} : e[u] = d[u]
      /\ DOMAIN e[t] = DOMAIN d[t] \cup {n}
      /\ e[t][n] = row /\ \A i \in DOMAIN d[t] : e[t][i] = d[t][i]

LEMMA InsertedRows ==
  ASSUME NEW d, TablesTyped(d), NEW t \in Tables, NEW row
  PROVE  RowAdded(Inserted(d, t, row).db, d, t, row)
<1> DEFINE e == Inserted(d, t, row).db
           n == d.next[t]
           rows == Patched(d[t], Single(n, row))
<1>1. n \in Nat \ {0} /\ n \notin DOMAIN d[t]
  BY DEF TablesTyped
<1>2. e = [[d EXCEPT ![t] = rows] EXCEPT !.next = [d.next EXCEPT ![t] = n + 1]]
  <2>1. t # "next"
    BY DEF Tables
  <2>2. QED
    BY <2>1 DEF Inserted, TablesTyped, Tables
<1>3. /\ DOMAIN rows = DOMAIN d[t] \cup {n}
      /\ rows[n] = row /\ \A i \in DOMAIN d[t] : rows[i] = d[t][i]
  BY <1>1 DEF Patched, Single
<1> HIDE DEF rows, n, e
<1>4. /\ DOMAIN e = Tables \cup {"next"}
      /\ e.next = [d.next EXCEPT ![t] = n + 1]
      /\ e[t] = rows /\ \A u \in Tables \ {t} : e[u] = d[u]
  BY <1>2 DEF TablesTyped, Tables
<1>5. QED
  BY <1>1, <1>3, <1>4 DEF n, e, RowAdded

LEMMA TableNames ==
  /\ "groups" \in Tables /\ "keys" \in Tables /\ "sessions" \in Tables
  /\ "snippets" \in Tables /\ "tunnels" \in Tables
<1>1. QED
  BY DEF Tables

(* The ids of a table stay below the next one.                             *)
LEMMA InsertedIds ==
  ASSUME NEW d, TablesTyped(d), NEW t \in Tables, NEW row
  PROVE  LET e == Inserted(d, t, row).db
         IN  /\ DOMAIN e = Tables \cup {"next"} /\ e.next \in [Tables -> Nat \ {0}]
             /\ \A u \in Tables : DOMAIN e[u] \subseteq 1 .. (e.next[u] - 1)
<1> DEFINE e == Inserted(d, t, row).db
           n == d.next[t]
<1>1. /\ DOMAIN e = Tables \cup {"next"}
      /\ n \in Nat \ {0}
      /\ e.next = [d.next EXCEPT ![t] = n + 1]
      /\ \A u \in Tables \ {t} : e[u] = d[u]
      /\ DOMAIN e[t] = DOMAIN d[t] \cup {n}
  BY InsertedRows DEF RowAdded
<1>2. /\ d.next \in [Tables -> Nat \ {0}]
      /\ \A u \in Tables : DOMAIN d[u] \subseteq 1 .. (d.next[u] - 1)
  BY DEF TablesTyped
<1> HIDE DEF e, n
<1>3. e.next \in [Tables -> Nat \ {0}] /\ e.next[t] = n + 1
  BY <1>1, <1>2
<1>4. ASSUME NEW u \in Tables PROVE DOMAIN e[u] \subseteq 1 .. (e.next[u] - 1)
  <2>1. CASE u = t
    BY <1>1, <1>2, <1>3, <2>1 DEF n
  <2>2. CASE u # t
    BY <1>1, <1>2, <2>2
  <2>3. QED
    BY <2>1, <2>2
<1>5. QED
  BY <1>1, <1>3, <1>4 DEF e

LEMMA SessionAdded ==
  ASSUME NEW d, NEW once, GoodTables(d, once), NEW row \in SessionRows, Fits(d, row)
  PROVE  GoodTables(Inserted(d, "sessions", row).db, once)
<1> DEFINE e == Inserted(d, "sessions", row).db
           n == d.next["sessions"]
<1>0. TablesTyped(d) /\ RowsResolve(d) /\ (once => KeysApart(d))
  BY DEF GoodTables
<1>1. /\ n \in Nat \ {0} /\ n \notin DOMAIN d.sessions
      /\ e.groups = d.groups /\ e.keys = d.keys /\ e.snippets = d.snippets /\ e.tunnels = d.tunnels
      /\ DOMAIN e.sessions = DOMAIN d.sessions \cup {n}
      /\ e.sessions[n] = row /\ \A i \in DOMAIN d.sessions : e.sessions[i] = d.sessions[i]
  <2>1. RowAdded(e, d, "sessions", row)
    BY <1>0, InsertedRows, TableNames
  <2> HIDE DEF e
  <2>2. QED
    BY <2>1 DEF RowAdded, Tables
<1>2. /\ DOMAIN e = Tables \cup {"next"} /\ e.next \in [Tables -> Nat \ {0}]
      /\ \A u \in Tables : DOMAIN e[u] \subseteq 1 .. (e.next[u] - 1)
  BY <1>0, InsertedIds, TableNames
<1> HIDE DEF e, n
<1>3. TablesTyped(e)
  BY <1>0, <1>1, <1>2 DEF TablesTyped
<1>4. RowsResolve(e)
  <2>1. \A s \in DOMAIN e.sessions : Fits(e, e.sessions[s]) /\ e.sessions[s].jump # s
    BY <1>0, <1>1 DEF RowsResolve, Fits, Names_, None
  <2>2. QED
    BY <1>0, <1>1, <2>1 DEF RowsResolve, Names_
<1>5. QED
  BY <1>0, <1>1, <1>3, <1>4 DEF GoodTables, KeysApart, e

LEMMA GroupAdded ==
  ASSUME NEW d, NEW once, GoodTables(d, once), NEW row \in GroupRows, Names_(d.groups, row.parent)
  PROVE  GoodTables(Inserted(d, "groups", row).db, once)
<1> DEFINE e == Inserted(d, "groups", row).db
           n == d.next["groups"]
<1>0. TablesTyped(d) /\ RowsResolve(d) /\ (once => KeysApart(d))
  BY DEF GoodTables
<1>1. /\ n \in Nat \ {0} /\ n \notin DOMAIN d.groups
      /\ e.sessions = d.sessions /\ e.keys = d.keys /\ e.snippets = d.snippets /\ e.tunnels = d.tunnels
      /\ DOMAIN e.groups = DOMAIN d.groups \cup {n}
      /\ e.groups[n] = row /\ \A i \in DOMAIN d.groups : e.groups[i] = d.groups[i]
  <2>1. RowAdded(e, d, "groups", row)
    BY <1>0, InsertedRows, TableNames
  <2> HIDE DEF e
  <2>2. QED
    BY <2>1 DEF RowAdded, Tables
<1>2. /\ DOMAIN e = Tables \cup {"next"} /\ e.next \in [Tables -> Nat \ {0}]
      /\ \A u \in Tables : DOMAIN e[u] \subseteq 1 .. (e.next[u] - 1)
  BY <1>0, InsertedIds, TableNames
<1>3. row.parent < n
  BY <1>0, <1>1, TableNames DEF TablesTyped, Names_, None
<1> HIDE DEF e, n
<1>4. TablesTyped(e)
  BY <1>0, <1>1, <1>2 DEF TablesTyped
<1>5. RowsResolve(e)
  <2>1. \A g \in DOMAIN e.groups : Names_(e.groups, e.groups[g].parent) /\ e.groups[g].parent < g
    BY <1>0, <1>1, <1>3 DEF RowsResolve, Names_, None
  <2>2. \A s \in DOMAIN e.sessions : Fits(e, e.sessions[s]) /\ e.sessions[s].jump # s
    BY <1>0, <1>1 DEF RowsResolve, Fits, Names_
  <2>3. QED
    BY <1>0, <1>1, <2>1, <2>2 DEF RowsResolve
<1>6. QED
  BY <1>0, <1>1, <1>4, <1>5 DEF GoodTables, KeysApart, e

LEMMA KeyAdded ==
  ASSUME NEW d, NEW once, GoodTables(d, once), NEW row \in KeyRows,
         once => row.fp = NoText \/ \A k \in DOMAIN d.keys : d.keys[k].fp # row.fp
  PROVE  GoodTables(Inserted(d, "keys", row).db, once)
<1> DEFINE e == Inserted(d, "keys", row).db
           n == d.next["keys"]
<1>0. TablesTyped(d) /\ RowsResolve(d) /\ (once => KeysApart(d))
  BY DEF GoodTables
<1>1. /\ n \in Nat \ {0} /\ n \notin DOMAIN d.keys
      /\ e.sessions = d.sessions /\ e.groups = d.groups /\ e.snippets = d.snippets /\ e.tunnels = d.tunnels
      /\ DOMAIN e.keys = DOMAIN d.keys \cup {n}
      /\ e.keys[n] = row /\ \A i \in DOMAIN d.keys : e.keys[i] = d.keys[i]
  <2>1. RowAdded(e, d, "keys", row)
    BY <1>0, InsertedRows, TableNames
  <2> HIDE DEF e
  <2>2. QED
    BY <2>1 DEF RowAdded, Tables
<1>2. /\ DOMAIN e = Tables \cup {"next"} /\ e.next \in [Tables -> Nat \ {0}]
      /\ \A u \in Tables : DOMAIN e[u] \subseteq 1 .. (e.next[u] - 1)
  BY <1>0, InsertedIds, TableNames
<1> HIDE DEF e, n
<1>3. TablesTyped(e)
  BY <1>0, <1>1, <1>2 DEF TablesTyped
<1>4. RowsResolve(e)
  <2>1. \A s \in DOMAIN e.sessions : Fits(e, e.sessions[s]) /\ e.sessions[s].jump # s
    BY <1>0, <1>1 DEF RowsResolve, Fits, Names_
  <2>2. QED
    BY <1>0, <1>1, <2>1 DEF RowsResolve
<1>5. once => KeysApart(e)
  BY <1>0, <1>1 DEF KeysApart
<1>6. QED
  BY <1>3, <1>4, <1>5 DEF GoodTables, e

LEMMA SnippetAdded ==
  ASSUME NEW d, NEW once, GoodTables(d, once), NEW row \in SnippetRows,
         row.global <=> row.session = None, Names_(d.sessions, row.session)
  PROVE  GoodTables(Inserted(d, "snippets", row).db, once)
<1> DEFINE e == Inserted(d, "snippets", row).db
           n == d.next["snippets"]
<1>0. TablesTyped(d) /\ RowsResolve(d) /\ (once => KeysApart(d))
  BY DEF GoodTables
<1>1. /\ n \in Nat \ {0} /\ n \notin DOMAIN d.snippets
      /\ e.sessions = d.sessions /\ e.groups = d.groups /\ e.keys = d.keys /\ e.tunnels = d.tunnels
      /\ DOMAIN e.snippets = DOMAIN d.snippets \cup {n}
      /\ e.snippets[n] = row /\ \A i \in DOMAIN d.snippets : e.snippets[i] = d.snippets[i]
  <2>1. RowAdded(e, d, "snippets", row)
    BY <1>0, InsertedRows, TableNames
  <2> HIDE DEF e
  <2>2. QED
    BY <2>1 DEF RowAdded, Tables
<1>2. /\ DOMAIN e = Tables \cup {"next"} /\ e.next \in [Tables -> Nat \ {0}]
      /\ \A u \in Tables : DOMAIN e[u] \subseteq 1 .. (e.next[u] - 1)
  BY <1>0, InsertedIds, TableNames
<1> HIDE DEF e, n
<1>3. TablesTyped(e)
  BY <1>0, <1>1, <1>2 DEF TablesTyped
<1>4. RowsResolve(e)
  <2>1. \A s \in DOMAIN e.sessions : Fits(e, e.sessions[s]) /\ e.sessions[s].jump # s
    BY <1>0, <1>1 DEF RowsResolve, Fits, Names_
  <2>2. QED
    BY <1>0, <1>1, <2>1 DEF RowsResolve
<1>5. QED
  BY <1>0, <1>1, <1>3, <1>4 DEF GoodTables, KeysApart, e

LEMMA TunnelAdded ==
  ASSUME NEW d, NEW once, GoodTables(d, once), NEW row \in TunnelRows, row.session \in DOMAIN d.sessions
  PROVE  GoodTables(Inserted(d, "tunnels", row).db, once)
<1> DEFINE e == Inserted(d, "tunnels", row).db
           n == d.next["tunnels"]
<1>0. TablesTyped(d) /\ RowsResolve(d) /\ (once => KeysApart(d))
  BY DEF GoodTables
<1>1. /\ n \in Nat \ {0} /\ n \notin DOMAIN d.tunnels
      /\ e.sessions = d.sessions /\ e.groups = d.groups /\ e.keys = d.keys /\ e.snippets = d.snippets
      /\ DOMAIN e.tunnels = DOMAIN d.tunnels \cup {n}
      /\ e.tunnels[n] = row /\ \A i \in DOMAIN d.tunnels : e.tunnels[i] = d.tunnels[i]
  <2>1. RowAdded(e, d, "tunnels", row)
    BY <1>0, InsertedRows, TableNames
  <2> HIDE DEF e
  <2>2. QED
    BY <2>1 DEF RowAdded, Tables
<1>2. /\ DOMAIN e = Tables \cup {"next"} /\ e.next \in [Tables -> Nat \ {0}]
      /\ \A u \in Tables : DOMAIN e[u] \subseteq 1 .. (e.next[u] - 1)
  BY <1>0, InsertedIds, TableNames
<1> HIDE DEF e, n
<1>3. TablesTyped(e)
  BY <1>0, <1>1, <1>2 DEF TablesTyped
<1>4. RowsResolve(e)
  <2>1. \A s \in DOMAIN e.sessions : Fits(e, e.sessions[s]) /\ e.sessions[s].jump # s
    BY <1>0, <1>1 DEF RowsResolve, Fits, Names_
  <2>2. QED
    BY <1>0, <1>1, <2>1 DEF RowsResolve
<1>5. QED
  BY <1>0, <1>1, <1>3, <1>4 DEF GoodTables, KeysApart, e

(* A row of a table was changed; nothing else changed.                     *)
RowChanged(e, d, t, i, row) ==
  /\ DOMAIN e = Tables \cup {"next"} /\ e.next = d.next
  /\ \A u \in Tables \ {t} : e[u] = d[u]
  /\ DOMAIN e[t] = DOMAIN d[t]
  /\ e[t][i] = row /\ \A j \in DOMAIN d[t] \ {i} : e[t][j] = d[t][j]

LEMMA ChangedRows ==
  ASSUME NEW d, TablesTyped(d), NEW t \in Tables, NEW i \in DOMAIN d[t], NEW row
  PROVE  RowChanged([d EXCEPT ![t] = [d[t] EXCEPT ![i] = row]], d, t, i, row)
<1> DEFINE rows == [d[t] EXCEPT ![i] = row]
           e == [d EXCEPT ![t] = rows]
<1>1. DOMAIN rows = DOMAIN d[t] /\ rows[i] = row /\ \A j \in DOMAIN d[t] \ {i} : rows[j] = d[t][j]
  OBVIOUS
<1> HIDE DEF rows
<1>2. DOMAIN d = Tables \cup {"next"} /\ t \in DOMAIN d /\ t # "next" /\ Tables \subseteq DOMAIN d
  BY DEF TablesTyped, Tables
<1>3. DOMAIN e = DOMAIN d /\ e[t] = rows /\ \A u \in DOMAIN d \ {t} : e[u] = d[u]
  BY <1>2
<1> HIDE DEF e
<1>4. RowChanged(e, d, t, i, row)
  BY <1>1, <1>2, <1>3 DEF RowChanged
<1>5. QED
  BY <1>4 DEF e, rows

LEMMA SessionChanged ==
  ASSUME NEW d, NEW once, GoodTables(d, once), NEW id \in DOMAIN d.sessions, NEW row \in SessionRows,
         Fits(d, row), row.jump # id, NEW e, RowChanged(e, d, "sessions", id, row)
  PROVE  GoodTables(e, once)
<1>0. TablesTyped(d) /\ RowsResolve(d) /\ (once => KeysApart(d))
  BY DEF GoodTables
<1>1. /\ DOMAIN e = Tables \cup {"next"} /\ e.next = d.next
      /\ e.groups = d.groups /\ e.keys = d.keys /\ e.snippets = d.snippets /\ e.tunnels = d.tunnels
      /\ DOMAIN e.sessions = DOMAIN d.sessions
      /\ e.sessions[id] = row /\ \A j \in DOMAIN d.sessions \ {id} : e.sessions[j] = d.sessions[j]
  BY DEF RowChanged, Tables
<1>2. \A t \in Tables : DOMAIN e[t] = DOMAIN d[t]
  BY <1>1 DEF Tables
<1>3. TablesTyped(e)
  BY <1>0, <1>1, <1>2 DEF TablesTyped
<1>4. RowsResolve(e)
  <2>1. \A s \in DOMAIN e.sessions : Fits(e, e.sessions[s]) /\ e.sessions[s].jump # s
    BY <1>0, <1>1 DEF RowsResolve, Fits, Names_
  <2>2. QED
    BY <1>0, <1>1, <2>1 DEF RowsResolve, Names_
<1>5. QED
  BY <1>0, <1>1, <1>3, <1>4 DEF GoodTables, KeysApart

LEMMA GroupChanged ==
  ASSUME NEW d, NEW once, GoodTables(d, once), NEW id \in DOMAIN d.groups, NEW row \in GroupRows,
         row.parent = d.groups[id].parent, NEW e, RowChanged(e, d, "groups", id, row)
  PROVE  GoodTables(e, once)
<1>0. TablesTyped(d) /\ RowsResolve(d) /\ (once => KeysApart(d))
  BY DEF GoodTables
<1>1. /\ DOMAIN e = Tables \cup {"next"} /\ e.next = d.next
      /\ e.sessions = d.sessions /\ e.keys = d.keys /\ e.snippets = d.snippets /\ e.tunnels = d.tunnels
      /\ DOMAIN e.groups = DOMAIN d.groups
      /\ e.groups[id] = row /\ \A j \in DOMAIN d.groups \ {id} : e.groups[j] = d.groups[j]
  BY DEF RowChanged, Tables
<1>2. \A t \in Tables : DOMAIN e[t] = DOMAIN d[t]
  BY <1>1 DEF Tables
<1>3. TablesTyped(e)
  BY <1>0, <1>1, <1>2 DEF TablesTyped
<1>4. RowsResolve(e)
  <2>1. \A s \in DOMAIN e.sessions : Fits(e, e.sessions[s]) /\ e.sessions[s].jump # s
    BY <1>0, <1>1 DEF RowsResolve, Fits, Names_
  <2>2. \A g \in DOMAIN e.groups : e.groups[g].parent = d.groups[g].parent
    BY <1>1
  <2>3. QED
    BY <1>0, <1>1, <2>1, <2>2 DEF RowsResolve, Names_
<1>5. QED
  BY <1>0, <1>1, <1>3, <1>4 DEF GoodTables, KeysApart

LEMMA SnippetChanged ==
  ASSUME NEW d, NEW once, GoodTables(d, once), NEW id \in DOMAIN d.snippets, NEW row \in SnippetRows,
         row.global <=> row.session = None, Names_(d.sessions, row.session),
         NEW e, RowChanged(e, d, "snippets", id, row)
  PROVE  GoodTables(e, once)
<1>0. TablesTyped(d) /\ RowsResolve(d) /\ (once => KeysApart(d))
  BY DEF GoodTables
<1>1. /\ DOMAIN e = Tables \cup {"next"} /\ e.next = d.next
      /\ e.sessions = d.sessions /\ e.keys = d.keys /\ e.groups = d.groups /\ e.tunnels = d.tunnels
      /\ DOMAIN e.snippets = DOMAIN d.snippets
      /\ e.snippets[id] = row /\ \A j \in DOMAIN d.snippets \ {id} : e.snippets[j] = d.snippets[j]
  BY DEF RowChanged, Tables
<1>2. \A t \in Tables : DOMAIN e[t] = DOMAIN d[t]
  BY <1>1 DEF Tables
<1>3. TablesTyped(e)
  BY <1>0, <1>1, <1>2 DEF TablesTyped
<1>4. RowsResolve(e)
  <2>1. \A s \in DOMAIN e.sessions : Fits(e, e.sessions[s]) /\ e.sessions[s].jump # s
    BY <1>0, <1>1 DEF RowsResolve, Fits, Names_
  <2>2. QED
    BY <1>0, <1>1, <2>1 DEF RowsResolve
<1>5. QED
  BY <1>0, <1>1, <1>3, <1>4 DEF GoodTables, KeysApart

LEMMA TunnelChanged ==
  ASSUME NEW d, NEW once, GoodTables(d, once), NEW id \in DOMAIN d.tunnels, NEW row \in TunnelRows,
         row.session \in DOMAIN d.sessions, NEW e, RowChanged(e, d, "tunnels", id, row)
  PROVE  GoodTables(e, once)
<1>0. TablesTyped(d) /\ RowsResolve(d) /\ (once => KeysApart(d))
  BY DEF GoodTables
<1>1. /\ DOMAIN e = Tables \cup {"next"} /\ e.next = d.next
      /\ e.sessions = d.sessions /\ e.keys = d.keys /\ e.groups = d.groups /\ e.snippets = d.snippets
      /\ DOMAIN e.tunnels = DOMAIN d.tunnels
      /\ e.tunnels[id] = row /\ \A j \in DOMAIN d.tunnels \ {id} : e.tunnels[j] = d.tunnels[j]
  BY DEF RowChanged, Tables
<1>2. \A t \in Tables : DOMAIN e[t] = DOMAIN d[t]
  BY <1>1 DEF Tables
<1>3. TablesTyped(e)
  BY <1>0, <1>1, <1>2 DEF TablesTyped
<1>4. RowsResolve(e)
  <2>1. \A s \in DOMAIN e.sessions : Fits(e, e.sessions[s]) /\ e.sessions[s].jump # s
    BY <1>0, <1>1 DEF RowsResolve, Fits, Names_
  <2>2. QED
    BY <1>0, <1>1, <2>1 DEF RowsResolve
<1>5. QED
  BY <1>0, <1>1, <1>3, <1>4 DEF GoodTables, KeysApart

-----------------------------------------------------------------------------
(* The repository operations keep the tables good.                         *)

LEMMA GroupsCreateGood ==
  ASSUME NEW d, NEW once, GoodTables(d, once), NEW name \in Names, NEW parent \in Nat
  PROVE  GoodTables(GroupsCreate(d, name, parent).db, once)
<1>1. CASE Names_(d.groups, parent)
  <2> DEFINE row == [name |-> name, parent |-> parent]
  <2>1. row \in GroupRows /\ row.parent = parent
    BY DEF GroupRows
  <2>2. GoodTables(Inserted(d, "groups", row).db, once)
    BY <1>1, <2>1, GroupAdded
  <2>3. QED
    BY <1>1, <2>2 DEF GroupsCreate
<1>2. CASE ~Names_(d.groups, parent)
  BY <1>2 DEF GroupsCreate, Refused
<1>3. QED
  BY <1>1, <1>2

LEMMA GroupsRenameGood ==
  ASSUME NEW d, NEW once, GoodTables(d, once), NEW id, NEW name \in Names
  PROVE  GoodTables(GroupsRename(d, id, name).db, once)
<1>1. CASE id \in DOMAIN d.groups
  <2> DEFINE row == [d.groups[id] EXCEPT !.name = name]
             e == [d EXCEPT !["groups"] = [d["groups"] EXCEPT ![id] = row]]
  <2>1. TablesTyped(d)
    BY DEF GoodTables
  <2>2. row \in GroupRows /\ row.parent = d.groups[id].parent
    BY <1>1, <2>1 DEF TablesTyped, GroupRows
  <2>3. GroupsRename(d, id, name).db = e
    BY <1>1 DEF GroupsRename, Done
  <2> HIDE DEF row
  <2>4. RowChanged(e, d, "groups", id, row)
    BY <1>1, <2>1, ChangedRows, TableNames
  <2>5. QED
    BY <1>1, <2>2, <2>3, <2>4, GroupChanged
<1>2. CASE id \notin DOMAIN d.groups
  BY <1>2 DEF GroupsRename, Refused
<1>3. QED
  BY <1>1, <1>2

LEMMA SessionsCreateGood ==
  ASSUME NEW d, NEW once, GoodTables(d, once), NEW row \in SessionRows
  PROVE  GoodTables(SessionsCreate(d, row).db, once)
<1>1. CASE Fits(d, row)
  BY <1>1, SessionAdded DEF SessionsCreate
<1>2. CASE ~Fits(d, row)
  BY <1>2 DEF SessionsCreate, Refused
<1>3. QED
  BY <1>1, <1>2

(* What a patch of a session may say.                                      *)
Columns == {"group", "name", "protocol", "host", "port", "user", "auth", "key", "jump", "password", "notes"}

PatchTyped(patch) ==
  /\ DOMAIN patch \subseteq Columns
  /\ "group" \in DOMAIN patch => patch.group \in Nat
  /\ "name" \in DOMAIN patch => patch.name \in Names
  /\ "protocol" \in DOMAIN patch => patch.protocol \in Protocols
  /\ "host" \in DOMAIN patch => patch.host \in Hosts
  /\ "port" \in DOMAIN patch => patch.port \in Ports
  /\ "user" \in DOMAIN patch => patch.user \in Hosts
  /\ "auth" \in DOMAIN patch => patch.auth \in AuthTypes
  /\ "key" \in DOMAIN patch => patch.key \in Nat
  /\ "jump" \in DOMAIN patch => patch.jump \in Nat
  /\ "password" \in DOMAIN patch => patch.password \in BOOLEAN
  /\ "notes" \in DOMAIN patch => patch.notes \in Seq(Notes)

LEMMA RowColumns ==
  ASSUME NEW row \in SessionRows
  PROVE  DOMAIN row = Columns /\ PatchTyped(row)
<1>1. DOMAIN row = Columns
  BY DEF SessionRows, Columns
<1>2. QED
  BY <1>1 DEF SessionRows, PatchTyped, Columns

LEMMA PatchedRow ==
  ASSUME NEW row \in SessionRows, NEW patch, PatchTyped(patch)
  PROVE  /\ Patched(patch, row) \in SessionRows
         /\ \A c \in Columns : Patched(patch, row)[c] = IF c \in DOMAIN patch THEN patch[c] ELSE row[c]
<1> DEFINE new == [c \in Columns |-> IF c \in DOMAIN patch THEN patch[c] ELSE row[c]]
<1>1. Patched(patch, row) = new
  <2>1. DOMAIN patch \cup DOMAIN row = Columns
    BY RowColumns DEF PatchTyped
  <2>2. QED
    BY <2>1 DEF Patched
<1>2. /\ new["group"] \in Nat /\ new["name"] \in Names /\ new["protocol"] \in Protocols
      /\ new["host"] \in Hosts /\ new["port"] \in Ports /\ new["user"] \in Hosts
      /\ new["auth"] \in AuthTypes /\ new["key"] \in Nat /\ new["jump"] \in Nat
      /\ new["password"] \in BOOLEAN /\ new["notes"] \in Seq(Notes)
  BY DEF PatchTyped, SessionRows, Columns
<1>3. new \in SessionRows
  <2>1. DOMAIN new = Columns /\ new = [c \in Columns |-> new[c]]
    OBVIOUS
  <2> HIDE DEF new
  <2>2. QED
    BY <1>2, <2>1 DEF SessionRows, Columns
<1>4. QED
  BY <1>1, <1>3

LEMMA SessionsUpdateGood ==
  ASSUME NEW d, NEW once, GoodTables(d, once), NEW id, NEW patch, PatchTyped(patch),
         "jump" \in DOMAIN patch => patch.jump # id
  PROVE  GoodTables(SessionsUpdate(d, id, patch).db, once)
<1>1. CASE id \notin DOMAIN d.sessions
  BY <1>1 DEF SessionsUpdate, Refused
<1>2. CASE id \in DOMAIN d.sessions
  <2> DEFINE cur == d.sessions[id]
             given == Patched(patch, cur)
             row == [given EXCEPT !.password = cur.password \/ given.password]
             e == [d EXCEPT !["sessions"] = [d["sessions"] EXCEPT ![id] = row]]
  <2>1. TablesTyped(d) /\ cur \in SessionRows /\ cur.jump # id
    BY <1>2 DEF GoodTables, TablesTyped, RowsResolve
  <2>2. given \in SessionRows /\ given.jump # id
    <3>1. given["jump"] = IF "jump" \in DOMAIN patch THEN patch["jump"] ELSE cur["jump"]
      BY <2>1, PatchedRow DEF Columns
    <3>2. QED
      BY <2>1, <3>1, PatchedRow
  <2> HIDE DEF given, cur
  <2>3. row \in SessionRows /\ row.jump # id
    BY <2>1, <2>2 DEF SessionRows
  <2> HIDE DEF row
  <2>4. CASE Fits(d, row)
    <3>1. SessionsUpdate(d, id, patch).db = e
      BY <1>2, <2>4 DEF SessionsUpdate, Done, row, given, cur
    <3>2. RowChanged(e, d, "sessions", id, row)
      BY <1>2, <2>1, ChangedRows, TableNames
    <3>3. QED
      BY <1>2, <2>3, <2>4, <3>1, <3>2, SessionChanged
  <2>5. CASE ~Fits(d, row)
    BY <1>2, <2>5 DEF SessionsUpdate, Refused, row, given, cur
  <2>6. QED
    BY <2>4, <2>5
<1>3. QED
  BY <1>1, <1>2

LEMMA SessionsDeleteGood ==
  ASSUME NEW d, NEW once, GoodTables(d, once), NEW id
  PROVE  GoodTables(SessionsDelete(d, id).db, once)
<1> DEFINE e == SessionsDelete(d, id).db
<1>0. TablesTyped(d) /\ RowsResolve(d) /\ (once => KeysApart(d))
  BY DEF GoodTables
<1>1. CASE \E s \in DOMAIN d.sessions \ {id} : d.sessions[s].jump = id
  BY <1>1 DEF SessionsDelete, Refused
<1>2. CASE ~ \E s \in DOMAIN d.sessions \ {id} : d.sessions[s].jump = id
  <2>1. e = [d EXCEPT !.sessions = Without(@, {id}),
                      !.snippets = Without(@, {i \in DOMAIN @ : @[i].session = id}),
                      !.tunnels = Without(@, {i \in DOMAIN @ : @[i].session = id})]
    BY <1>2 DEF SessionsDelete, Done
  <2>2. /\ DOMAIN e = Tables \cup {"next"} /\ e.next = d.next /\ e.groups = d.groups /\ e.keys = d.keys
        /\ e.sessions = Without(d.sessions, {id})
        /\ e.snippets = Without(d.snippets, {i \in DOMAIN d.snippets : d.snippets[i].session = id})
        /\ e.tunnels = Without(d.tunnels, {i \in DOMAIN d.tunnels : d.tunnels[i].session = id})
    BY <1>0, <2>1 DEF TablesTyped, Tables
  <2> HIDE DEF e
  <2>3. /\ DOMAIN e.sessions = DOMAIN d.sessions \ {id}
        /\ \A s \in DOMAIN e.sessions : e.sessions[s] = d.sessions[s]
        /\ \A i \in DOMAIN e.snippets : i \in DOMAIN d.snippets /\ e.snippets[i] = d.snippets[i] /\ e.snippets[i].session # id
        /\ \A i \in DOMAIN e.tunnels : i \in DOMAIN d.tunnels /\ e.tunnels[i] = d.tunnels[i] /\ e.tunnels[i].session # id
    BY <2>2 DEF Without
  <2>4. \A t \in Tables : DOMAIN e[t] \subseteq DOMAIN d[t]
    BY <2>2, <2>3 DEF Tables
  <2>5. TablesTyped(e)
    BY <1>0, <2>2, <2>3, <2>4 DEF TablesTyped
  <2>6. RowsResolve(e)
    <3>1. ASSUME NEW s \in DOMAIN e.sessions PROVE Fits(e, e.sessions[s]) /\ e.sessions[s].jump # s
      <4>1. /\ s \in DOMAIN d.sessions /\ e.sessions[s] = d.sessions[s] /\ d.sessions[s].jump # id
            /\ Fits(d, d.sessions[s]) /\ d.sessions[s].jump # s
        BY <1>0, <1>2, <2>3 DEF RowsResolve
      <4>2. QED
        BY <2>2, <2>3, <4>1 DEF Fits, Names_
    <3>2. \A i \in DOMAIN e.snippets :
             /\ e.snippets[i].global <=> e.snippets[i].session = None
             /\ Names_(e.sessions, e.snippets[i].session)
      BY <1>0, <2>3 DEF RowsResolve, Names_
    <3>3. \A t \in DOMAIN e.tunnels : e.tunnels[t].session \in DOMAIN e.sessions
      BY <1>0, <2>3 DEF RowsResolve
    <3>4. QED
      BY <1>0, <2>2, <3>1, <3>2, <3>3 DEF RowsResolve
  <2>7. QED
    BY <1>0, <2>2, <2>5, <2>6 DEF GoodTables, KeysApart, e
<1>3. QED
  BY <1>1, <1>2

LEMMA KeysInsertGood ==
  ASSUME NEW d, NEW once, GoodTables(d, once), NEW name \in Names, NEW fp \in Fingerprints,
         once => fp = NoText \/ \A k \in DOMAIN d.keys : d.keys[k].fp # fp
  PROVE  GoodTables(KeysInsert(d, name, fp).db, once)
<1> DEFINE row == [name |-> name, fp |-> fp]
<1>1. row \in KeyRows /\ row.fp = fp
  BY DEF KeyRows
<1>2. KeysInsert(d, name, fp) = Inserted(d, "keys", row)
  BY DEF KeysInsert
<1> HIDE DEF row
<1>3. QED
  BY <1>1, <1>2, KeyAdded

LEMMA KeysDeleteGood ==
  ASSUME NEW d, NEW once, GoodTables(d, once), NEW id
  PROVE  GoodTables(KeysDelete(d, id).db, once)
<1> DEFINE e == KeysDelete(d, id).db
           freed == [s \in DOMAIN d.sessions |-> IF d.sessions[s].key = id /\ id # None
                                                  THEN [d.sessions[s] EXCEPT !.key = None] ELSE d.sessions[s]]
<1>0. TablesTyped(d) /\ RowsResolve(d) /\ (once => KeysApart(d))
  BY DEF GoodTables
<1>1. e = [d EXCEPT !.keys = Without(@, {id}),
                    !.sessions = [s \in DOMAIN @ |-> IF @[s].key = id /\ id # None
                                                     THEN [@[s] EXCEPT !.key = None] ELSE @[s]]]
  BY DEF KeysDelete, Done
<1>2. /\ DOMAIN e = Tables \cup {"next"} /\ e.next = d.next /\ e.groups = d.groups
      /\ e.snippets = d.snippets /\ e.tunnels = d.tunnels
      /\ e.keys = Without(d.keys, {id}) /\ e.sessions = freed
  BY <1>0, <1>1 DEF TablesTyped, Tables
<1> HIDE DEF e
<1>3. DOMAIN e.keys = DOMAIN d.keys \ {id} /\ \A k \in DOMAIN e.keys : e.keys[k] = d.keys[k]
  BY <1>2 DEF Without
<1>4. /\ DOMAIN e.sessions = DOMAIN d.sessions
      /\ \A s \in DOMAIN d.sessions :
           /\ e.sessions[s] \in SessionRows
           /\ e.sessions[s].group = d.sessions[s].group /\ e.sessions[s].jump = d.sessions[s].jump
           /\ e.sessions[s].protocol = d.sessions[s].protocol
           /\ e.sessions[s].key \in {d.sessions[s].key, None}
           /\ e.sessions[s].key # id \/ id = None
  <2>1. ASSUME NEW row \in SessionRows
        PROVE  LET free == [row EXCEPT !.key = None]
               IN  /\ free \in SessionRows /\ free.key = None
                   /\ free.group = row.group /\ free.jump = row.jump /\ free.protocol = row.protocol
    BY DEF SessionRows, None
  <2>2. \A s \in DOMAIN d.sessions : d.sessions[s] \in SessionRows
    BY <1>0 DEF TablesTyped
  <2>3. QED
    BY <1>2, <2>1, <2>2
<1>5. \A t \in Tables : DOMAIN e[t] \subseteq DOMAIN d[t]
  BY <1>2, <1>3, <1>4 DEF Tables
<1>6. TablesTyped(e)
  BY <1>0, <1>2, <1>3, <1>4, <1>5 DEF TablesTyped
<1>7. RowsResolve(e)
  <2>1. \A s \in DOMAIN e.sessions : Fits(e, e.sessions[s]) /\ e.sessions[s].jump # s
    BY <1>0, <1>2, <1>3, <1>4 DEF RowsResolve, Fits, Names_
  <2>2. \A g \in DOMAIN e.groups : Names_(e.groups, e.groups[g].parent) /\ e.groups[g].parent < g
    BY <1>0, <1>2 DEF RowsResolve
  <2>3. \A i \in DOMAIN e.snippets : /\ e.snippets[i].global <=> e.snippets[i].session = None
                                   /\ Names_(e.sessions, e.snippets[i].session)
    BY <1>0, <1>2, <1>4 DEF RowsResolve, Names_
  <2>4. \A x \in DOMAIN e.tunnels : e.tunnels[x].session \in DOMAIN e.sessions
    BY <1>0, <1>2, <1>4 DEF RowsResolve
  <2>5. QED
    BY <2>1, <2>2, <2>3, <2>4 DEF RowsResolve
<1>8. QED
  BY <1>0, <1>3, <1>6, <1>7 DEF GoodTables, KeysApart, e

(* The function that tells which groups lie under one exists, because a    *)
(* group lies under an older one.                                          *)
IsInside(f, d, id) ==
  f = [g \in DOMAIN d.groups |-> g = id \/ (d.groups[g].parent # None /\ f[d.groups[g].parent])]

LEMMA InsideExists ==
  ASSUME NEW d, TablesTyped(d), RowsResolve(d), NEW id
  PROVE  \E f : IsInside(f, d, id)
<1> DEFINE G == DOMAIN d.groups
           up(g) == d.groups[g].parent
           Right(f, g) == f[g] = (g = id \/ (up(g) # None /\ f[up(g)]))
           N == d.next["groups"] - 1
           H == {n \in 0 .. N : \E f : DOMAIN f = G /\ \A g \in G : g <= n => Right(f, g)}
<1>1. N \in Nat /\ G \subseteq 1 .. N
  BY TableNames DEF TablesTyped
<1>2. \A g \in G : up(g) \in Nat /\ up(g) < g /\ (up(g) = None \/ up(g) \in G)
  BY DEF TablesTyped, RowsResolve, Names_, GroupRows
<1> HIDE DEF N, G, up
<1>3. 0 \in H
  <2> DEFINE f == [g \in G |-> FALSE]
  <2>1. \A g \in G : ~ (g <= 0)
    BY <1>1
  <2>2. DOMAIN f = G
    OBVIOUS
  <2> HIDE DEF f, Right
  <2>3. QED
    BY <1>1, <2>1, <2>2
<1>4. ASSUME NEW m \in 1 .. N, m - 1 \in H PROVE m \in H
  <2>1. PICK f : DOMAIN f = G /\ \A g \in G : g <= m - 1 => Right(f, g)
    BY <1>4
  <2> DEFINE h == [g \in G |-> IF g = m THEN m = id \/ (up(m) # None /\ f[up(m)]) ELSE f[g]]
  <2>2. ASSUME NEW g \in G, g <= m PROVE Right(h, g)
    <3>1. g \in 1 .. N /\ up(g) \in Nat /\ up(g) < g /\ (up(g) = None \/ up(g) \in G)
      BY <1>1, <1>2
    <3>2. up(g) # None => h[up(g)] = f[up(g)]
      BY <2>2, <3>1
    <3>3. CASE g = m
      <4>1. h[g] = (g = id \/ (up(g) # None /\ f[up(g)]))
        BY <3>3
      <4>2. QED
        BY <3>2, <4>1
    <3>4. CASE g # m
      <4>1. Right(f, g) /\ h[g] = f[g]
        BY <1>4, <2>1, <2>2, <3>1, <3>4
      <4>2. QED
        BY <3>2, <4>1
    <3>5. QED
      BY <3>3, <3>4
  <2>3. DOMAIN h = G
    OBVIOUS
  <2> HIDE DEF h, Right
  <2>4. QED
    BY <1>1, <2>2, <2>3
<1> HIDE DEF H
<1>5. N \in H
  BY <1>1, <1>3, <1>4, Climb
<1>6. PICK f : DOMAIN f = G /\ \A g \in G : g <= N => Right(f, g)
  BY <1>5 DEF H
<1> DEFINE h == [g \in G |-> f[g]]
<1>7. ASSUME NEW g \in G PROVE h[g] = (g = id \/ (up(g) # None /\ h[up(g)]))
  <2>1. Right(f, g) /\ (up(g) = None \/ up(g) \in G)
    BY <1>1, <1>2, <1>6
  <2>2. h[g] = f[g] /\ (up(g) # None => h[up(g)] = f[up(g)])
    BY <2>1
  <2>3. QED
    BY <2>1, <2>2
<1>8. h = [g \in G |-> g = id \/ (up(g) # None /\ h[up(g)])]
  BY <1>7
<1>9. QED
  BY <1>8 DEF G, up, IsInside

(* With a group go the groups under it, and no group hangs in the air.     *)
LEMMA UnderClosed ==
  ASSUME NEW d, TablesTyped(d), RowsResolve(d), NEW id
  PROVE  /\ Under(d, id) \subseteq DOMAIN d.groups
         /\ \A g \in DOMAIN d.groups \ Under(d, id) : d.groups[g].parent \notin Under(d, id)
<1> DEFINE inside == CHOOSE f : f = [g \in DOMAIN d.groups |->
                       g = id \/ (d.groups[g].parent # None /\ f[d.groups[g].parent])]
<1>a. PICK h : IsInside(h, d, id)
  BY InsideExists
<1>1. inside = [g \in DOMAIN d.groups |->
                       g = id \/ (d.groups[g].parent # None /\ inside[d.groups[g].parent])]
  BY <1>a DEF IsInside
<1>2. Under(d, id) = {g \in DOMAIN d.groups : inside[g]}
  BY DEF Under
<1> HIDE DEF inside
<1>3. 0 \notin DOMAIN d.groups
  BY TableNames DEF TablesTyped
<1>4. ASSUME NEW g \in DOMAIN d.groups \ Under(d, id), d.groups[g].parent \in Under(d, id) PROVE FALSE
  <2>1. d.groups[g].parent # None /\ inside[d.groups[g].parent] /\ ~ inside[g]
    BY <1>2, <1>3, <1>4 DEF None
  <2>2. inside[g] = (g = id \/ (d.groups[g].parent # None /\ inside[d.groups[g].parent]))
    BY <1>1
  <2>3. QED
    BY <2>1, <2>2
<1>5. QED
  BY <1>2, <1>4

LEMMA GroupsDeleteGood ==
  ASSUME NEW d, NEW once, GoodTables(d, once), NEW id
  PROVE  GoodTables(GroupsDelete(d, id).db, once)
<1> DEFINE e == GroupsDelete(d, id).db
           gone == Under(d, id)
           freed == [s \in DOMAIN d.sessions |-> IF d.sessions[s].group \in gone
                                                 THEN [d.sessions[s] EXCEPT !.group = None] ELSE d.sessions[s]]
<1>0. TablesTyped(d) /\ RowsResolve(d) /\ (once => KeysApart(d))
  BY DEF GoodTables
<1>1. e = [d EXCEPT !.groups = Without(@, gone),
                    !.sessions = [s \in DOMAIN @ |-> IF @[s].group \in gone
                                                     THEN [@[s] EXCEPT !.group = None] ELSE @[s]]]
  BY DEF GroupsDelete, Done
<1>a. gone \subseteq DOMAIN d.groups /\ \A g \in DOMAIN d.groups \ gone : d.groups[g].parent \notin gone
  BY <1>0, UnderClosed
<1>b. 0 \notin DOMAIN d.groups
  BY <1>0, TableNames DEF TablesTyped
<1> HIDE DEF gone
<1>2. /\ DOMAIN e = Tables \cup {"next"} /\ e.next = d.next /\ e.keys = d.keys
      /\ e.snippets = d.snippets /\ e.tunnels = d.tunnels
      /\ e.groups = Without(d.groups, gone) /\ e.sessions = freed
  BY <1>0, <1>1 DEF TablesTyped, Tables
<1> HIDE DEF e
<1>3. DOMAIN e.groups = DOMAIN d.groups \ gone /\ \A g \in DOMAIN e.groups : e.groups[g] = d.groups[g]
  BY <1>2 DEF Without
<1>4. /\ DOMAIN e.sessions = DOMAIN d.sessions
      /\ \A s \in DOMAIN d.sessions :
           /\ e.sessions[s] \in SessionRows
           /\ e.sessions[s].key = d.sessions[s].key /\ e.sessions[s].jump = d.sessions[s].jump
           /\ e.sessions[s].protocol = d.sessions[s].protocol
           /\ e.sessions[s].group \in {d.sessions[s].group, None}
           /\ e.sessions[s].group \notin gone
  <2>1. ASSUME NEW row \in SessionRows
        PROVE  LET free == [row EXCEPT !.group = None]
               IN  /\ free \in SessionRows /\ free.group = None
                   /\ free.key = row.key /\ free.jump = row.jump /\ free.protocol = row.protocol
    BY DEF SessionRows, None
  <2>2. \A s \in DOMAIN d.sessions : d.sessions[s] \in SessionRows
    BY <1>0 DEF TablesTyped
  <2>3. None \notin gone
    BY <1>a, <1>b DEF None
  <2>4. QED
    BY <1>2, <2>1, <2>2, <2>3
<1>5. \A t \in Tables : DOMAIN e[t] \subseteq DOMAIN d[t]
  BY <1>2, <1>3, <1>4 DEF Tables
<1>6. TablesTyped(e)
  BY <1>0, <1>2, <1>3, <1>4, <1>5 DEF TablesTyped
<1>7. RowsResolve(e)
  <2>1. \A s \in DOMAIN e.sessions : Fits(e, e.sessions[s]) /\ e.sessions[s].jump # s
    BY <1>0, <1>2, <1>3, <1>4 DEF RowsResolve, Fits, Names_
  <2>2. \A g \in DOMAIN e.groups : Names_(e.groups, e.groups[g].parent) /\ e.groups[g].parent < g
    BY <1>0, <1>a, <1>3 DEF RowsResolve, Names_
  <2>3. \A i \in DOMAIN e.snippets : /\ e.snippets[i].global <=> e.snippets[i].session = None
                                   /\ Names_(e.sessions, e.snippets[i].session)
    BY <1>0, <1>2, <1>4 DEF RowsResolve, Names_
  <2>4. \A x \in DOMAIN e.tunnels : e.tunnels[x].session \in DOMAIN e.sessions
    BY <1>0, <1>2, <1>4 DEF RowsResolve
  <2>5. QED
    BY <2>1, <2>2, <2>3, <2>4 DEF RowsResolve
<1>8. QED
  BY <1>0, <1>2, <1>6, <1>7 DEF GoodTables, KeysApart, e

LEMMA SnippetsCreateGood ==
  ASSUME NEW d, NEW once, GoodTables(d, once), NEW global \in BOOLEAN, NEW session \in Nat
  PROVE  GoodTables(SnippetsCreate(d, global, session).db, once)
<1> DEFINE scoped == ScopeSnippet(global, session)
<1>1. scoped.ok => /\ scoped.row \in SnippetRows
                   /\ scoped.row.global <=> scoped.row.session = None
  BY DEF ScopeSnippet, SnippetRows, None
<1> HIDE DEF scoped
<1>2. CASE scoped.ok /\ Names_(d.sessions, scoped.row.session)
  <2>1. SnippetsCreate(d, global, session) = Inserted(d, "snippets", scoped.row)
    BY <1>2 DEF SnippetsCreate, scoped
  <2>2. QED
    BY <1>1, <1>2, <2>1, SnippetAdded
<1>3. CASE ~ (scoped.ok /\ Names_(d.sessions, scoped.row.session))
  BY <1>3 DEF SnippetsCreate, Refused, scoped
<1>4. QED
  BY <1>2, <1>3

LEMMA SnippetsUpdateGood ==
  ASSUME NEW d, NEW once, GoodTables(d, once), NEW id, NEW global \in BOOLEAN, NEW session \in Nat
  PROVE  GoodTables(SnippetsUpdate(d, id, global, session).db, once)
<1> DEFINE scoped == ScopeSnippet(global, session)
           row == scoped.row
           e == [d EXCEPT !["snippets"] = [d["snippets"] EXCEPT ![id] = row]]
<1>1. scoped.ok => row \in SnippetRows /\ (row.global <=> row.session = None)
  BY DEF ScopeSnippet, SnippetRows, None
<1> HIDE DEF scoped
<1>2. CASE id \in DOMAIN d.snippets /\ scoped.ok /\ Names_(d.sessions, row.session)
  <2>1. SnippetsUpdate(d, id, global, session).db = e
    BY <1>2 DEF SnippetsUpdate, Done, scoped
  <2>2. RowChanged(e, d, "snippets", id, row)
    BY <1>2, ChangedRows, TableNames DEF GoodTables
  <2> HIDE DEF row
  <2>3. QED
    BY <1>1, <1>2, <2>1, <2>2, SnippetChanged
<1>3. CASE ~ (id \in DOMAIN d.snippets /\ scoped.ok /\ Names_(d.sessions, row.session))
  BY <1>3 DEF SnippetsUpdate, Refused, scoped
<1>4. QED
  BY <1>2, <1>3

(* Rows that nothing refers to are deleted.                                *)
LeafGone(d, t, id) == [d EXCEPT ![t] = Without(d[t], {id})]

LEMMA LeavesDeleted ==
  ASSUME NEW d, NEW once, GoodTables(d, once), NEW t \in {"snippets", "tunnels"}, NEW id
  PROVE  GoodTables(LeafGone(d, t, id), once)
<1> DEFINE rows == Without(d[t], {id})
           e == [d EXCEPT ![t] = rows]
<1>0. TablesTyped(d) /\ RowsResolve(d) /\ (once => KeysApart(d))
  BY DEF GoodTables
<1>1. DOMAIN rows \subseteq DOMAIN d[t] /\ \A i \in DOMAIN rows : rows[i] = d[t][i]
  BY DEF Without
<1> HIDE DEF rows
<1>2. /\ DOMAIN e = Tables \cup {"next"} /\ e.next = d.next /\ e.groups = d.groups /\ e.keys = d.keys
      /\ e.sessions = d.sessions
      /\ \A u \in {"snippets", "tunnels"} : e[u] = IF u = t THEN rows ELSE d[u]
  BY <1>0 DEF TablesTyped, Tables
<1> HIDE DEF e
<1>3. /\ DOMAIN e.snippets \subseteq DOMAIN d.snippets /\ \A i \in DOMAIN e.snippets : e.snippets[i] = d.snippets[i]
      /\ DOMAIN e.tunnels \subseteq DOMAIN d.tunnels /\ \A i \in DOMAIN e.tunnels : e.tunnels[i] = d.tunnels[i]
  BY <1>1, <1>2
<1>4. \A u \in Tables : DOMAIN e[u] \subseteq DOMAIN d[u]
  BY <1>2, <1>3 DEF Tables
<1>5. TablesTyped(e)
  BY <1>0, <1>2, <1>3, <1>4 DEF TablesTyped
<1>6. RowsResolve(e)
  <2>1. \A s \in DOMAIN e.sessions : Fits(e, e.sessions[s]) /\ e.sessions[s].jump # s
    BY <1>0, <1>2 DEF RowsResolve, Fits, Names_
  <2>2. QED
    BY <1>0, <1>2, <1>3, <2>1 DEF RowsResolve, Names_
<1>7. QED
  BY <1>0, <1>2, <1>5, <1>6 DEF GoodTables, KeysApart, LeafGone, e, rows

LEMMA SnippetsDeleteGood ==
  ASSUME NEW d, NEW once, GoodTables(d, once), NEW id
  PROVE  GoodTables(SnippetsDelete(d, id).db, once)
<1>1. SnippetsDelete(d, id).db = LeafGone(d, "snippets", id)
  BY DEF SnippetsDelete, Done, LeafGone
<1>2. QED
  BY <1>1, LeavesDeleted

LEMMA TunnelsDeleteGood ==
  ASSUME NEW d, NEW once, GoodTables(d, once), NEW id
  PROVE  GoodTables(TunnelsDelete(d, id).db, once)
<1>1. TunnelsDelete(d, id).db = LeafGone(d, "tunnels", id)
  BY DEF TunnelsDelete, Done, LeafGone
<1>2. QED
  BY <1>1, LeavesDeleted

LEMMA TunnelsCreateGood ==
  ASSUME NEW d, NEW once, GoodTables(d, once), NEW session, NEW auto \in BOOLEAN
  PROVE  GoodTables(TunnelsCreate(d, session, auto).db, once)
<1> DEFINE row == [session |-> session, auto |-> auto]
<1>1. CASE session \in DOMAIN d.sessions
  <2>1. session \in Nat
    BY <1>1, TableNames DEF GoodTables, TablesTyped
  <2>2. row \in TunnelRows /\ row.session = session
    BY <2>1 DEF TunnelRows
  <2>3. TunnelsCreate(d, session, auto) = Inserted(d, "tunnels", row)
    BY <1>1 DEF TunnelsCreate
  <2> HIDE DEF row
  <2>4. QED
    BY <1>1, <2>2, <2>3, TunnelAdded
<1>2. CASE session \notin DOMAIN d.sessions
  BY <1>2 DEF TunnelsCreate, Refused
<1>3. QED
  BY <1>1, <1>2

LEMMA TunnelsSetAutoGood ==
  ASSUME NEW d, NEW once, GoodTables(d, once), NEW id, NEW auto \in BOOLEAN
  PROVE  GoodTables(TunnelsSetAuto(d, id, auto).db, once)
<1> DEFINE row == [d.tunnels[id] EXCEPT !.auto = auto]
           e == [d EXCEPT !["tunnels"] = [d["tunnels"] EXCEPT ![id] = row]]
<1>1. CASE id \in DOMAIN d.tunnels
  <2>1. d.tunnels[id] \in TunnelRows /\ d.tunnels[id].session \in DOMAIN d.sessions
    BY <1>1 DEF GoodTables, TablesTyped, RowsResolve
  <2>2. row \in TunnelRows /\ row.session \in DOMAIN d.sessions
    BY <2>1 DEF TunnelRows
  <2>3. TunnelsSetAuto(d, id, auto).db = e
    BY <1>1 DEF TunnelsSetAuto, Done
  <2> HIDE DEF row
  <2>4. RowChanged(e, d, "tunnels", id, row)
    BY <1>1, ChangedRows, TableNames DEF GoodTables
  <2>5. QED
    BY <1>1, <2>2, <2>3, <2>4, TunnelChanged
<1>2. CASE id \notin DOMAIN d.tunnels
  BY <1>2 DEF TunnelsSetAuto, Refused
<1>3. QED
  BY <1>1, <1>2

-----------------------------------------------------------------------------
(* Keys.                                                                   *)

(* The first row of those found.                                           *)
First(found) == IF found = {} THEN None ELSE Min(found)

LEMMA FirstFound ==
  ASSUME NEW found, found \subseteq Nat \ {0}
  PROVE  First(found) \in Nat /\ (First(found) = None <=> found = {}) /\ (found # {} => First(found) \in found)
<1>1. CASE found = {}
  BY <1>1 DEF First, None
<1>2. CASE found # {}
  <2>1. PICK m \in found : \A k \in found : m <= k
    BY <1>2, Least
  <2>2. \E x \in found : \A y \in found : x <= y
    BY <2>1
  <2>3. Min(found) \in found
    BY <2>2 DEF Min
  <2>4. QED
    BY <1>2, <2>3 DEF First, None
<1>3. QED
  BY <1>1, <1>2

LEMMA KeyFound ==
  ASSUME NEW d, TablesTyped(d), NEW fp, NEW name
  PROVE  /\ KeysByFingerprint(d, fp) \in Nat /\ KeysByName(d, name) \in Nat
         /\ KeysByFingerprint(d, fp) = None => \A k \in DOMAIN d.keys : d.keys[k].fp # fp
<1> DEFINE F == {k \in DOMAIN d.keys : d.keys[k].fp = fp}
           N == {k \in DOMAIN d.keys : d.keys[k].name = name}
<1>1. KeysByFingerprint(d, fp) = First(F) /\ KeysByName(d, name) = First(N)
  BY DEF KeysByFingerprint, KeysByName, Find, First
<1>2. F \subseteq Nat \ {0} /\ N \subseteq Nat \ {0}
  BY TableNames DEF TablesTyped
<1>3. QED
  BY <1>1, <1>2, FirstFound

LEMMA InsertedId ==
  ASSUME NEW d, TablesTyped(d), NEW t \in Tables, NEW row
  PROVE  Inserted(d, t, row).id \in Nat \ {0}
<1>1. QED
  BY DEF TablesTyped, Inserted

(* An answer that names a row or none, with good tables.                   *)
GoodAnswer(r, once) == r.id \in Nat /\ GoodTables(r.db, once)

LEMMA KeepGood ==
  ASSUME NEW d, NEW once, GoodTables(d, once), NEW name \in Names, NEW fp \in Fingerprints, NEW known \in Nat,
         known = None => fp = NoText \/ \A k \in DOMAIN d.keys : d.keys[k].fp # fp
  PROVE  GoodAnswer(Keep(d, known, name, fp), once)
<1>1. CASE known # None
  BY <1>1 DEF Keep, GoodAnswer
<1>2. CASE known = None
  <2>1. GoodTables(KeysInsert(d, name, fp).db, once)
    BY <1>2, KeysInsertGood
  <2>2. KeysInsert(d, name, fp).id \in Nat
    BY InsertedId, TableNames DEF KeysInsert, GoodTables
  <2>3. QED
    BY <1>2, <2>1, <2>2 DEF Keep, GoodAnswer
<1>3. QED
  BY <1>1, <1>2

FilesTyped(fs) == IsFiniteSet(DOMAIN fs) /\ DOMAIN fs \subseteq Paths /\ \A p \in DOMAIN fs : fs[p] \in KeyFiles

LEMMA LooksTold ==
  ASSUME NEW fs, FilesTyped(fs), NEW path
  PROVE  LET seen == InspectKeyFile(fs, path)
         IN  seen.fp \in Fingerprints /\ (seen.encrypted => seen.fp = NoText)
<1>1. CASE IsKey(fs, path)
  <2>1. path \in DOMAIN fs
    BY <1>1 DEF IsKey
  <2>2. fs[path].fp \in Fingerprints /\ fs[path].plain \in BOOLEAN
    BY <2>1 DEF FilesTyped, KeyFiles
  <2>3. CASE fs[path].plain = TRUE
    <3>1. InspectKeyFile(fs, path) = [read |-> TRUE, encrypted |-> FALSE, fp |-> fs[path].fp]
      BY <1>1, <2>3 DEF InspectKeyFile
    <3>2. QED
      BY <2>2, <3>1
  <2>4. CASE fs[path].plain = FALSE
    <3>1. InspectKeyFile(fs, path) = [read |-> TRUE, encrypted |-> TRUE, fp |-> NoText]
      BY <1>1, <2>4 DEF InspectKeyFile
    <3>2. QED
      BY <3>1, ColumnsAssumption
  <2>5. QED
    BY <2>2, <2>3, <2>4
<1>2. CASE ~ IsKey(fs, path)
  BY <1>2, ColumnsAssumption DEF InspectKeyFile
<1>3. QED
  BY <1>1, <1>2

LEMMA EnsureKeyGood ==
  ASSUME NEW d, NEW once, GoodTables(d, once), NEW fs, FilesTyped(fs), NEW path, NEW name \in Names
  PROVE  GoodAnswer(EnsureKeyFromFile(d, fs, path, name), once)
<1> DEFINE seen == InspectKeyFile(fs, path)
           known == IF seen.encrypted THEN KeysByName(d, name) ELSE KeysByFingerprint(d, seen.fp)
<1>1. seen.fp \in Fingerprints /\ (seen.encrypted => seen.fp = NoText)
  BY LooksTold
<1> HIDE DEF seen
<1>2. known \in Nat /\ (known = None => seen.fp = NoText \/ \A k \in DOMAIN d.keys : d.keys[k].fp # seen.fp)
  BY <1>1, KeyFound DEF GoodTables
<1> HIDE DEF known
<1>3. GoodAnswer(Keep(d, known, name, seen.fp), once)
  BY <1>1, <1>2, KeepGood
<1>4. GoodAnswer([id |-> None, db |-> d], once)
  BY DEF GoodAnswer, None
<1>5. QED
  BY <1>3, <1>4 DEF EnsureKeyFromFile, EnsureKey, seen, known

LEMMA ResolvedGood ==
  ASSUME NEW d, NEW once, GoodTables(d, once), NEW fs, FilesTyped(fs), NEW raw \in Paths, NEW located
  PROVE  GoodAnswer(ResolveKeyToVault(d, fs, raw, located), once)
<1> DEFINE path == IF located[raw] # NoText THEN located[raw] ELSE NormalizeKeyPath(fs, raw)
           name == BaseOf[raw]
           kept == EnsureKeyFromFile(d, fs, path, name)
<1>1. name \in Names
  BY PathsAssumption
<1>2. ResolveKeyToVault(d, fs, raw, located) = OrByName(kept, d, name)
  BY DEF ResolveKeyToVault
<1> HIDE DEF path, name
<1>3. GoodAnswer(kept, once)
  BY <1>1, EnsureKeyGood
<1> HIDE DEF kept
<1>4. GoodAnswer([id |-> KeysByName(d, name), db |-> d], once)
  BY KeyFound DEF GoodAnswer, GoodTables
<1>5. QED
  BY <1>2, <1>3, <1>4 DEF OrByName

(* The files of a finite directory, one after the other.                   *)
LEMMA Listed ==
  ASSUME NEW S, IsFiniteSet(S)
  PROVE  LET s == SetToSeq(S)
         IN  Len(s) \in Nat /\ DOMAIN s = 1 .. Len(s) /\ \A i \in 1 .. Len(s) : s[i] \in S
<1> DEFINE n == Cardinality(S)
           s == SetToSeq(S)
<1>1. n \in Nat /\ ExistsBijection(1 .. n, S)
  BY FS_CardinalityType
<1>2. PICK f : f \in Bijection(1 .. n, S)
  BY <1>1 DEF ExistsBijection
<1>3. f \in [1 .. n -> S] /\ IsInjective(f)
  BY <1>2 DEF Bijection, Injection
<1>4. s \in [1 .. n -> S]
  BY <1>3 DEF SetToSeq
<1> HIDE DEF n, s
<1>5. Len(s) = n
  BY <1>1, <1>4
<1>6. QED
  BY <1>1, <1>4, <1>5 DEF s

(* ~/.ssh into the vault.                                                  *)
LEMMA ScanGood ==
  ASSUME NEW d, NEW once, GoodTables(d, once), NEW fs, FilesTyped(fs)
  PROVE  GoodTables(ImportFromDir(d, fs).db, once)
<1> DEFINE s == SetToSeq(HereOf(fs))
           n == Len(s)
<1>1. n \in Nat /\ DOMAIN s = 1 .. n /\ \A i \in 1 .. n : s[i] \in HereOf(fs)
  <2>1. IsFiniteSet(HereOf(fs))
    BY FS_Subset DEF FilesTyped, HereOf
  <2>2. QED
    BY <2>1, Listed
<1>2. PICK at : Chain(at, "scan", fs, Done(d), s, n) /\ ImportFromDir(d, fs) = at[n]
  BY <1>1, ScanFold
<1> HIDE DEF s, n
<1> DEFINE H == {k \in 0 .. n : GoodTables(at[k].db, once)}
<1>3. 0 \in H
  BY <1>1, <1>2 DEF Chain, Done
<1>4. ASSUME NEW k \in 1 .. n, k - 1 \in H PROVE k \in H
  <2> DEFINE r == at[k - 1]
             p == s[k]
             name == BaseOf[p]
             fp == fs[p].fp
  <2>1. at[k] = IF KeysByFingerprint(r.db, fp) # None THEN r ELSE Done(KeysInsert(r.db, name, fp).db)
    BY <1>2 DEF Chain, StepOf
  <2>2. GoodTables(r.db, once)
    BY <1>4
  <2>3. name \in Names /\ fp \in Fingerprints
    BY <1>1, PathsAssumption DEF HereOf, FilesTyped, KeyFiles
  <2> HIDE DEF r, name, fp
  <2>4. KeysByFingerprint(r.db, fp) = None => \A l \in DOMAIN r.db.keys : r.db.keys[l].fp # fp
    BY <2>2, KeyFound DEF GoodTables
  <2>5. KeysByFingerprint(r.db, fp) = None => GoodTables(KeysInsert(r.db, name, fp).db, once)
    BY <2>2, <2>3, <2>4, KeysInsertGood
  <2>6. GoodTables(at[k].db, once)
    BY <2>1, <2>2, <2>5 DEF Done
  <2>7. QED
    BY <2>6
<1> HIDE DEF H
<1>5. n \in H
  BY <1>1, <1>3, <1>4, Climb
<1>6. QED
  BY <1>2, <1>5 DEF H

LEMMA CountingSeq == \A n \in Nat : Len(Counting(n)) = n /\ DOMAIN Counting(n) = 1 .. n
<1>1. QED
  BY DEF Counting

LEMMA SnippetsImportGood ==
  ASSUME NEW d, NEW once, GoodTables(d, once), NEW count \in Nat
  PROVE  GoodTables(SnippetsImport(d, count).db, once)
<1> DEFINE s == Counting(count)
           n == Len(s)
<1>1. n \in Nat /\ DOMAIN s = 1 .. n
  BY CountingSeq
<1>2. PICK at : Chain(at, "snippets", {}, Done(d), s, n) /\ SnippetsImport(d, count) = at[n]
  BY <1>1, SnippetsFold
<1> HIDE DEF s, n
<1> DEFINE H == {k \in 0 .. n : GoodTables(at[k].db, once)}
<1>3. 0 \in H
  BY <1>1, <1>2 DEF Chain, Done
<1>4. ASSUME NEW k \in 1 .. n, k - 1 \in H PROVE k \in H
  <2> DEFINE r == at[k - 1]
  <2>1. at[k] = SnippetsCreate(r.db, TRUE, None)
    BY <1>2 DEF Chain, StepOf
  <2>2. GoodTables(r.db, once) /\ None \in Nat
    BY <1>4 DEF None
  <2> HIDE DEF r
  <2>3. GoodTables(at[k].db, once)
    BY <2>1, <2>2, SnippetsCreateGood
  <2>4. QED
    BY <2>3
<1> HIDE DEF H
<1>5. n \in H
  BY <1>1, <1>3, <1>4, Climb
<1>6. QED
  BY <1>2, <1>5 DEF H

(* A folder path as nested groups.                                         *)
LEMMA GroupEntered ==
  ASSUME NEW r, NEW once, GoodAnswer(r, once), NEW name \in Names,
         NEW e, e = StepOf("path", {}, r, name)
  PROVE  GoodAnswer(e, once)
<1> DEFINE F == {g \in DOMAIN r.db.groups : r.db.groups[g].name = name /\ r.db.groups[g].parent = r.id}
           there == First(F)
<1>1. e = IF there # None THEN [id |-> there, db |-> r.db] ELSE GroupsCreate(r.db, name, r.id)
  BY DEF StepOf, Find, First
<1>2. there \in Nat
  <2>1. F \subseteq Nat \ {0}
    BY TableNames DEF GoodAnswer, GoodTables, TablesTyped
  <2>2. QED
    BY <2>1, FirstFound
<1> HIDE DEF there
<1>3. GoodTables(GroupsCreate(r.db, name, r.id).db, once)
  BY GroupsCreateGood DEF GoodAnswer
<1>4. GroupsCreate(r.db, name, r.id).id \in Nat
  <2>1. TablesTyped(r.db)
    BY DEF GoodAnswer, GoodTables
  <2>2. QED
    BY <2>1, InsertedId, TableNames DEF GroupsCreate, Refused, None
<1>5. CASE there # None
  BY <1>1, <1>2, <1>5 DEF GoodAnswer
<1>6. CASE there = None
  BY <1>1, <1>3, <1>4, <1>6 DEF GoodAnswer
<1>7. QED
  BY <1>5, <1>6

LEMMA PathGood ==
  ASSUME NEW d, NEW once, GoodTables(d, once), NEW path \in Seq(Names)
  PROVE  GoodAnswer(ResolveGroupPath(d, path), once)
<1> DEFINE n == Len(path)
           base == [id |-> None, db |-> d]
<1>1. n \in Nat /\ DOMAIN path = 1 .. n /\ \A i \in 1 .. n : path[i] \in Names
  OBVIOUS
<1>2. PICK at : Chain(at, "path", {}, base, path, n) /\ ResolveGroupPath(d, path) = at[n]
  BY <1>1, PathFold
<1>a. GoodAnswer(base, once)
  BY DEF GoodAnswer, None
<1> HIDE DEF n, base
<1> DEFINE H == {k \in 0 .. n : GoodAnswer(at[k], once)}
<1>3. 0 \in H
  BY <1>1, <1>2, <1>a DEF Chain
<1>4. ASSUME NEW k \in 1 .. n, k - 1 \in H PROVE k \in H
  <2>1. at[k] = StepOf("path", {}, at[k - 1], path[k]) /\ path[k] \in Names
    BY <1>1, <1>2 DEF Chain
  <2>2. GoodAnswer(at[k - 1], once)
    BY <1>4
  <2>3. GoodAnswer(at[k], once)
    BY <2>1, <2>2, GroupEntered
  <2>4. QED
    BY <2>3
<1> HIDE DEF H
<1>5. n \in H
  BY <1>1, <1>3, <1>4, Climb
<1>6. QED
  BY <1>2, <1>5 DEF H

(* The keys of a batch: after its first n inputs each of their key files   *)
(* has an answer.                                                          *)
GoodKeys(r, inputs, n, once) ==
  /\ GoodTables(r.db, once)
  /\ \A p \in DOMAIN r.ids : r.ids[p] \in Nat
  /\ \A i \in 1 .. n : inputs[i].keyPath = NoText \/ inputs[i].keyPath \in DOMAIN r.ids

LEMMA KeyNoted ==
  ASSUME NEW r, NEW once, NEW inputs, NEW k \in Nat \ {0}, GoodKeys(r, inputs, k - 1, once),
         NEW fs, FilesTyped(fs), NEW located, inputs[k].keyPath \in Paths,
         NEW e, e = StepOf("keys", [files |-> fs, located |-> located], r, inputs[k])
  PROVE  GoodKeys(e, inputs, k, once)
<1> DEFINE path == inputs[k].keyPath
           got == ResolveKeyToVault(r.db, fs, path, located)
           ids == Patched(r.ids, Single(path, got.id))
<1>1. e = IF path \in {NoText} \cup DOMAIN r.ids THEN r ELSE [ids |-> ids, db |-> got.db]
  BY DEF StepOf
<1>2. GoodTables(r.db, once)
  BY DEF GoodKeys
<1>3. GoodAnswer(got, once)
  BY <1>2, ResolvedGood
<1> HIDE DEF got
<1>4. DOMAIN ids = DOMAIN r.ids \cup {path} /\ \A p \in DOMAIN ids : ids[p] \in Nat
  BY <1>3 DEF Patched, Single, GoodKeys, GoodAnswer
<1> HIDE DEF ids, path
<1>5. \A i \in 1 .. k : i \in 1 .. (k - 1) \/ i = k
  OBVIOUS
<1>6. CASE path \in {NoText} \cup DOMAIN r.ids
  BY <1>1, <1>5, <1>6 DEF GoodKeys, path
<1>7. CASE path \notin {NoText} \cup DOMAIN r.ids
  <2>1. e.ids = ids /\ e.db = got.db
    BY <1>1, <1>7
  <2>2. \A i \in 1 .. k : inputs[i].keyPath = NoText \/ inputs[i].keyPath \in DOMAIN ids
    BY <1>4, <1>5 DEF GoodKeys, path
  <2>3. QED
    BY <1>3, <1>4, <2>1, <2>2 DEF GoodKeys, GoodAnswer
<1>8. QED
  BY <1>6, <1>7

LEMMA KeysGood ==
  ASSUME NEW d, NEW once, GoodTables(d, once), NEW fs, FilesTyped(fs), NEW located,
         NEW inputs \in Seq(InputRows)
  PROVE  GoodKeys(ResolveKeys(d, fs, inputs, located), inputs, Len(inputs), once)
<1> DEFINE n == Len(inputs)
           base == [ids |-> <<>>, db |-> d]
           par == [files |-> fs, located |-> located]
<1>1. n \in Nat /\ DOMAIN inputs = 1 .. n /\ \A i \in 1 .. n : inputs[i] \in InputRows
  OBVIOUS
<1>2. PICK at : Chain(at, "keys", par, base, inputs, n) /\ ResolveKeys(d, fs, inputs, located) = at[n]
  BY <1>1, KeysFold
<1>a. GoodKeys(base, inputs, 0, once)
  <2>1. base.db = d /\ base.ids = <<>> /\ DOMAIN <<>> = {}
    OBVIOUS
  <2> HIDE DEF base
  <2>2. QED
    BY <2>1 DEF GoodKeys
<1>b. \A i \in 1 .. n : inputs[i].keyPath \in Paths
  BY <1>1 DEF InputRows
<1> HIDE DEF n, base
<1> DEFINE H == {k \in 0 .. n : GoodKeys(at[k], inputs, k, once)}
<1>3. 0 \in H
  BY <1>1, <1>2, <1>a DEF Chain
<1>4. ASSUME NEW k \in 1 .. n, k - 1 \in H PROVE k \in H
  <2>1. at[k] = StepOf("keys", par, at[k - 1], inputs[k]) /\ inputs[k].keyPath \in Paths /\ k \in Nat \ {0}
    BY <1>1, <1>2, <1>b DEF Chain
  <2>2. GoodKeys(at[k - 1], inputs, k - 1, once)
    BY <1>4
  <2>3. GoodKeys(at[k], inputs, k, once)
    BY <2>1, <2>2, KeyNoted
  <2>4. QED
    BY <2>3
<1> HIDE DEF H
<1>5. n \in H
  BY <1>1, <1>3, <1>4, Climb
<1>6. QED
  BY <1>2, <1>5 DEF H, n

-----------------------------------------------------------------------------
(* A committed batch.                                                      *)

LEMMA InputColumns ==
  ASSUME NEW input \in InputRows
  PROVE  /\ input.group \in Nat /\ input.name \in Names /\ input.protocol \in Protocols
         /\ input.host \in Hosts /\ input.port \in Ports /\ input.user \in Hosts
         /\ input.auth \in AuthTypes /\ input.key \in Nat /\ input.jump \in Nat
         /\ input.password \in BOOLEAN /\ input.notes \in Seq(Notes)
         /\ input.keyPath \in Paths /\ input.groupPath \in Seq(Names)
<1>1. QED
  BY DEF InputRows

LEMMA BlankColumns == Blank \in SessionRows /\ DOMAIN Blank = Columns
<1>1. QED
  BY ColumnsAssumption, RowColumns

LEMMA RowTyped ==
  ASSUME NEW input \in InputRows
  PROVE  Row(input) \in SessionRows
<1> DEFINE row == [c \in Columns |-> input[c]]
<1>1. Row(input) = row
  BY BlankColumns DEF Row
<1>2. /\ row["group"] \in Nat /\ row["name"] \in Names /\ row["protocol"] \in Protocols
      /\ row["host"] \in Hosts /\ row["port"] \in Ports /\ row["user"] \in Hosts
      /\ row["auth"] \in AuthTypes /\ row["key"] \in Nat /\ row["jump"] \in Nat
      /\ row["password"] \in BOOLEAN /\ row["notes"] \in Seq(Notes)
  BY InputColumns DEF Columns
<1>3. DOMAIN row = Columns /\ row = [c \in Columns |-> row[c]]
  OBVIOUS
<1> HIDE DEF row
<1>4. row \in SessionRows
  BY <1>2, <1>3 DEF SessionRows, Columns
<1>5. QED
  BY <1>1, <1>4

LEMMA Noting ==
  ASSUME NEW notes \in Seq(Notes), NEW what \in {"ProxyJump", "RequiresKey"}, NEW of \in STRING
  PROVE  Append(notes, Note(what, of)) \in Seq(Notes)
<1> DEFINE note == Note(what, of)
<1>1. note \in Notes
  BY DEF Note, Notes
<1> HIDE DEF note
<1>2. Append(notes, note) \in Seq(Notes)
  BY <1>1
<1>3. QED
  BY <1>2 DEF note

LEMMA Keyed ==
  ASSUME NEW input \in InputRows, NEW ids, input.keyPath = NoText \/ ids[input.keyPath] \in Nat
  PROVE  WithKey(input, ids) \in InputRows
<1>1. CASE input.keyPath = NoText
  BY <1>1 DEF WithKey
<1>2. CASE input.keyPath # NoText /\ ids[input.keyPath] # None
  <2> DEFINE k == ids[input.keyPath]
  <2>1. WithKey(input, ids) = [input EXCEPT !.key = k] /\ k \in Nat
    BY <1>2 DEF WithKey
  <2> HIDE DEF k
  <2>2. QED
    BY <2>1 DEF InputRows
<1>3. CASE input.keyPath # NoText /\ ids[input.keyPath] = None
  <2> DEFINE more == Append(input.notes, Note("RequiresKey", input.keyPath))
  <2>1. input.keyPath \in STRING /\ input.notes \in Seq(Notes)
    BY InputColumns, PathsAssumption
  <2>2. more \in Seq(Notes)
    BY <2>1, Noting
  <2>3. WithKey(input, ids) = [input EXCEPT !.notes = more]
    BY <1>3 DEF WithKey
  <2> HIDE DEF more
  <2>4. QED
    BY <2>2, <2>3 DEF InputRows
<1>4. QED
  BY <1>1, <1>2, <1>3

LEMMA AddedGood ==
  ASSUME NEW acc, NEW once, GoodTables(acc.db, once), NEW existing, NEW keyed \in InputRows
  PROVE  GoodTables(AddSession(acc, existing, keyed).db, once)
<1> DEFINE placed == Place(acc.db, keyed)
           row == [Row(keyed) EXCEPT !.group = placed.id, !.password = FALSE]
           made == SessionsCreate(placed.db, row)
           e == AddRow(acc, existing, placed.db, row)
<1>1. GoodAnswer(placed, once)
  <2>1. keyed.group \in Nat /\ keyed.groupPath \in Seq(Names)
    BY InputColumns
  <2>2. GoodAnswer([id |-> keyed.group, db |-> acc.db], once)
    BY <2>1 DEF GoodAnswer
  <2>3. GoodAnswer(ResolveGroupPath(acc.db, keyed.groupPath), once)
    BY <2>1, PathGood
  <2>4. QED
    BY <2>2, <2>3 DEF Place
<1> HIDE DEF placed
<1>2. row \in SessionRows
  <2>1. Row(keyed) \in SessionRows /\ placed.id \in Nat
    BY <1>1, RowTyped DEF GoodAnswer
  <2>2. QED
    BY <2>1 DEF SessionRows
<1> HIDE DEF row
<1>3. GoodTables(made.db, once)
  BY <1>1, <1>2, SessionsCreateGood DEF GoodAnswer
<1> HIDE DEF made
<1>4. GoodTables(e.db, once)
  <2>1. CASE \E x \in DOMAIN existing : SameSession(existing[x], row)
    <3>1. e = [acc EXCEPT !.db = placed.db]
      BY <2>1 DEF AddRow
    <3>2. e.db = placed.db \/ "db" \notin DOMAIN acc
      BY <3>1
    <3>3. QED
      BY <1>1, <3>1, <3>2 DEF GoodAnswer
  <2>2. CASE ~ \E x \in DOMAIN existing : SameSession(existing[x], row)
    BY <1>3, <2>2 DEF AddRow, Counted, made
  <2>3. QED
    BY <2>1, <2>2
<1>5. QED
  BY <1>4 DEF AddSession, AddPlaced, e, row, placed

LEMMA AddAllGood ==
  ASSUME NEW existing, NEW once, NEW inputs \in Seq(InputRows), NEW keys, GoodKeys(keys, inputs, Len(inputs), once)
  PROVE  GoodTables(AddAll(existing, inputs, keys).db, once)
<1> DEFINE n == Len(inputs)
           base == [ok |-> TRUE, made |-> 0, db |-> keys.db]
           par == [existing |-> existing, ids |-> keys.ids]
<1>1. n \in Nat /\ DOMAIN inputs = 1 .. n /\ \A i \in 1 .. n : inputs[i] \in InputRows
  OBVIOUS
<1>2. PICK at : Chain(at, "add", par, base, inputs, n) /\ AddAll(existing, inputs, keys) = at[n]
  BY <1>1, AddFold
<1>a. GoodTables(base.db, once)
  BY DEF GoodKeys
<1>b. par.existing = existing /\ par.ids = keys.ids
  OBVIOUS
<1>c. \A i \in 1 .. n : inputs[i].keyPath = NoText \/ keys.ids[inputs[i].keyPath] \in Nat
  BY DEF GoodKeys
<1> HIDE DEF n, base, par
<1> DEFINE H == {k \in 0 .. n : GoodTables(at[k].db, once)}
<1>3. 0 \in H
  BY <1>1, <1>2, <1>a DEF Chain
<1>4. ASSUME NEW k \in 1 .. n, k - 1 \in H PROVE k \in H
  <2> DEFINE keyed == WithKey(inputs[k], keys.ids)
  <2>1. at[k] = AddSession(at[k - 1], existing, keyed)
    BY <1>2, <1>b DEF Chain, StepOf
  <2>2. keyed \in InputRows
    BY <1>1, <1>c, Keyed
  <2> HIDE DEF keyed
  <2>3. GoodTables(at[k - 1].db, once)
    BY <1>4
  <2>4. GoodTables(at[k].db, once)
    BY <2>1, <2>2, <2>3, AddedGood
  <2>5. QED
    BY <2>4
<1> HIDE DEF H
<1>5. n \in H
  BY <1>1, <1>3, <1>4, Climb
<1>6. QED
  BY <1>2, <1>5 DEF H

LEMMA CommitGood ==
  ASSUME NEW d, NEW once, GoodTables(d, once), NEW fs, FilesTyped(fs), NEW located,
         NEW inputs \in Seq(InputRows)
  PROVE  GoodTables(Commit(d, fs, inputs, located).db, once)
<1> DEFINE keys == ResolveKeys(d, fs, inputs, located)
<1>1. GoodKeys(keys, inputs, Len(inputs), once)
  BY KeysGood
<1> HIDE DEF keys
<1>2. GoodTables(AddAll(d.sessions, inputs, keys).db, once)
  BY <1>1, AddAllGood
<1>3. QED
  BY <1>2 DEF Commit, keys

(* Keys by hand are not looked for in the vault.                           *)
LEMMA ByHandGood ==
  ASSUME NEW d, GoodTables(d, FALSE), NEW body \in KeyFiles, NEW name \in Names, NEW pass, NEW fp \in Fingerprints
  PROVE  /\ GoodTables(KeysImport(d, body, name, pass).db, FALSE)
         /\ GoodTables(KeysGenerate(d, name, fp).db, FALSE)
         /\ KeysImport(d, body, name, pass).id \in Nat
<1>1. body.fp \in Fingerprints
  BY DEF KeyFiles
<1>2. \A f \in Fingerprints : GoodTables(KeysInsert(d, name, f).db, FALSE)
  BY KeysInsertGood
<1>3. \A f : KeysInsert(d, name, f).id \in Nat
  BY InsertedId, TableNames DEF KeysInsert, GoodTables
<1>4. CASE body.key /\ (body.plain \/ pass)
  BY <1>1, <1>2, <1>3, <1>4 DEF KeysImport, KeysGenerate
<1>5. CASE ~ (body.key /\ (body.plain \/ pass))
  BY <1>2, <1>5 DEF KeysImport, KeysGenerate, Refused, None
<1>6. QED
  BY <1>4, <1>5

-----------------------------------------------------------------------------
(* Whatever document is parsed, its sessions are sessions.                 *)

LEMMA InputTyped ==
  ASSUME NEW row \in SessionRows, NEW keyPath \in Paths, NEW groupPath \in Seq(Names)
  PROVE  Input(row, keyPath, groupPath) \in InputRows
<1> DEFINE All == Columns \cup {"keyPath", "groupPath"}
           new == [c \in All |-> IF c \in Columns THEN row[c] ELSE IF c = "keyPath" THEN keyPath ELSE groupPath]
<1>1. Input(row, keyPath, groupPath) = new
  <2>1. DOMAIN row = Columns
    BY RowColumns
  <2>2. QED
    BY <2>1 DEF Input, Patched, Columns
<1>2. /\ new["group"] \in Nat /\ new["name"] \in Names /\ new["protocol"] \in Protocols
      /\ new["host"] \in Hosts /\ new["port"] \in Ports /\ new["user"] \in Hosts
      /\ new["auth"] \in AuthTypes /\ new["key"] \in Nat /\ new["jump"] \in Nat
      /\ new["password"] \in BOOLEAN /\ new["notes"] \in Seq(Notes)
      /\ new["keyPath"] \in Paths /\ new["groupPath"] \in Seq(Names)
  BY DEF SessionRows, Columns
<1>3. DOMAIN new = All /\ new = [c \in All |-> new[c]]
  OBVIOUS
<1> HIDE DEF new
<1>4. new \in InputRows
  BY <1>2, <1>3 DEF InputRows, Columns
<1>5. QED
  BY <1>1, <1>4

LEMMA NothingIn == \A S : <<>> \in Seq(S)
<1>1. QED
  OBVIOUS

LEMMA Numbers == {0, 22, 23, 3389, 5900} \subseteq Ports /\ NoText \in Paths /\ NoFolder \in Seq(Names)
<1>1. NoFolder \in Seq(Names)
  BY NothingIn DEF NoFolder
<1>2. {0, 22, 23, 3389, 5900} \subseteq Ports
  BY ColumnsAssumption
<1>3. NoText \in Paths
  BY PathsAssumption
<1>4. QED
  BY <1>1, <1>2, <1>3

LEMMA AuthNames == {"password", "key", "agent", "none", NoText} \subseteq AuthTypes
<1>1. QED
  BY DEF AuthTypes

LEMMA ProtocolNames == {"ssh", "telnet", "serial", "rdp", "vnc", "local"} = Protocols
<1>1. QED
  BY DEF Protocols

(* A document of another program names no group, key or session by its id. *)
FreeRows ==
  [group : {None}, name : Names, protocol : Protocols, host : Hosts, port : Ports, user : Hosts,
   auth : AuthTypes, key : {None}, jump : {None}, password : BOOLEAN, notes : Seq(Notes)]
LooseRows ==
  [group : {None}, name : Names, protocol : Protocols, host : Hosts, port : Ports, user : Hosts,
   auth : AuthTypes, key : {None}, jump : {None}, password : BOOLEAN, notes : Seq(Notes),
   keyPath : Paths, groupPath : Seq(Names)]

LEMMA LooseColumns ==
  ASSUME NEW input \in LooseRows
  PROVE  /\ input \in InputRows
         /\ input.group = None /\ input.key = None /\ input.jump = None /\ input.notes \in Seq(Notes)
<1>1. None \in Nat
  BY DEF None
<1>2. QED
  BY <1>1 DEF LooseRows, InputRows

LEMMA BlankFree == Blank \in FreeRows
<1>1. Blank \in SessionRows
  BY BlankColumns
<1>2. Blank.group = None /\ Blank.key = None /\ Blank.jump = None
  BY DEF Blank
<1>3. QED
  BY <1>1, <1>2 DEF SessionRows, FreeRows

LEMMA LooseTyped ==
  ASSUME NEW row \in FreeRows, NEW keyPath \in Paths, NEW groupPath \in Seq(Names)
  PROVE  Input(row, keyPath, groupPath) \in LooseRows
<1> DEFINE new == Input(row, keyPath, groupPath)
<1>1. row \in SessionRows
  BY DEF FreeRows, SessionRows, None
<1>2. new \in InputRows
  BY <1>1, InputTyped
<1>3. \A c \in {"group", "key", "jump"} : new[c] = row[c] /\ row[c] = None
  BY DEF Input, Patched, FreeRows
<1> HIDE DEF new
<1>4. new.group = None /\ new.key = None /\ new.jump = None
  BY <1>3
<1>5. new \in LooseRows
  BY <1>2, <1>4 DEF InputRows, LooseRows
<1>6. QED
  BY <1>5 DEF new

LEMMA AuthChanged ==
  ASSUME NEW row \in FreeRows, NEW auth \in AuthTypes
  PROVE  [row EXCEPT !.auth = auth] \in FreeRows
<1>1. QED
  BY DEF FreeRows

LEMMA EntryTyped ==
  ASSUME NEW e, e.name \in Names, e.host \in Hosts, e.user \in Hosts, NEW protocol \in Protocols, NEW port \in Ports
  PROVE  EntryRow(e, protocol, port) \in FreeRows
<1> DEFINE b == Blank
<1>1. b \in FreeRows
  BY BlankFree
<1>2. EntryRow(e, protocol, port)
      = [b EXCEPT !.name = e.name, !.protocol = protocol, !.host = e.host, !.port = port, !.user = e.user]
  BY DEF EntryRow
<1> HIDE DEF b
<1>3. QED
  BY <1>1, <1>2 DEF FreeRows

LEMMA KeyFieldsTyped ==
  ASSUME NEW row \in FreeRows, NEW keyPath \in Paths, NEW fallback \in AuthTypes, NEW groupPath \in Seq(Names)
  PROVE  KeyFields(row, keyPath, fallback, groupPath) \in LooseRows
<1> DEFINE auth == IF keyPath = NoText THEN fallback ELSE "key"
<1>1. auth \in AuthTypes
  BY AuthNames
<1>2. KeyFields(row, keyPath, fallback, groupPath) = Input([row EXCEPT !.auth = auth], keyPath, groupPath)
  BY DEF KeyFields
<1> HIDE DEF auth
<1>3. QED
  BY <1>1, <1>2, AuthChanged, LooseTyped

LEMMA EntryFields ==
  ASSUME NEW e \in Entries
  PROVE  /\ e.name \in Names /\ e.host \in Names \cap Hosts /\ e.user \in Hosts /\ e.port \in Ports
         /\ e.keyPath \in Paths
         /\ Named(e) \in Entries
<1>1. e.name \in Names /\ e.host \in Names \cap Hosts /\ e.user \in Hosts /\ e.port \in Ports /\ e.keyPath \in Paths
  BY DEF Entries
<1>2. [e EXCEPT !.name = e.host] \in Entries
  BY <1>1 DEF Entries
<1>3. QED
  BY <1>1, <1>2 DEF Named

LEMMA PuttyTyped ==
  ASSUME NEW body \in Seq(Entries)
  PROVE  FromPutty(body) \in Seq(LooseRows)
<1> DEFINE n == Len(body)
           s == FromPutty(body)
<1>1. n \in Nat /\ DOMAIN body = 1 .. n /\ \A i \in 1 .. n : body[i] \in Entries
  OBVIOUS
<1>2. ASSUME NEW e \in Entries
      PROVE  KeyFields(EntryRow(e, IF e.protocol \in {"serial", "telnet"} THEN e.protocol ELSE "ssh",
                                IF e.port # 0 THEN e.port ELSE IF e.protocol = "telnet" THEN 23 ELSE 22),
                       e.keyPath, "password", NoFolder) \in LooseRows
  <2> DEFINE protocol == IF e.protocol \in {"serial", "telnet"} THEN e.protocol ELSE "ssh"
             port == IF e.port # 0 THEN e.port ELSE IF e.protocol = "telnet" THEN 23 ELSE 22
  <2>1. protocol \in Protocols /\ port \in Ports
    BY EntryFields, ProtocolNames, Numbers
  <2> HIDE DEF protocol, port
  <2>2. EntryRow(e, protocol, port) \in FreeRows
    BY <2>1, EntryFields, EntryTyped
  <2> DEFINE row == EntryRow(e, protocol, port)
  <2> HIDE DEF row
  <2>3. KeyFields(row, e.keyPath, "password", NoFolder) \in LooseRows
    BY <2>2, EntryFields, AuthNames, Numbers, KeyFieldsTyped DEF row
  <2>4. QED
    BY <2>3 DEF row, protocol, port
<1>3. DOMAIN s = 1 .. n /\ s = [i \in 1 .. n |-> s[i]] /\ \A i \in 1 .. n : s[i] \in LooseRows
  BY <1>1, <1>2 DEF FromPutty, Each
<1> HIDE DEF s, n
<1>4. s \in Seq(LooseRows)
  BY <1>1, <1>3, MakesSeq
<1>5. QED
  BY <1>4 DEF s

LEMMA WinScpTyped ==
  ASSUME NEW body \in Seq(Entries)
  PROVE  FromWinScp(body) \in Seq(LooseRows)
<1> DEFINE n == Len(body)
           s == FromWinScp(body)
<1>1. n \in Nat /\ DOMAIN body = 1 .. n /\ \A i \in 1 .. n : body[i] \in Entries
  OBVIOUS
<1>2. ASSUME NEW e \in Entries
      PROVE  KeyFields(EntryRow(e, "ssh", IF e.port = 0 THEN 22 ELSE e.port), e.keyPath, "password", NoFolder) \in LooseRows
  <2> DEFINE port == IF e.port = 0 THEN 22 ELSE e.port
             protocol == "ssh"
  <2>1. protocol \in Protocols /\ port \in Ports
    BY EntryFields, ProtocolNames, Numbers
  <2> HIDE DEF protocol, port
  <2> DEFINE row == EntryRow(e, protocol, port)
  <2>2. row \in FreeRows
    BY <2>1, EntryFields, EntryTyped
  <2> HIDE DEF row
  <2>3. KeyFields(row, e.keyPath, "password", NoFolder) \in LooseRows
    BY <2>2, EntryFields, AuthNames, Numbers, KeyFieldsTyped
  <2>4. QED
    BY <2>3 DEF row, protocol, port
<1>3. DOMAIN s = 1 .. n /\ s = [i \in 1 .. n |-> s[i]] /\ \A i \in 1 .. n : s[i] \in LooseRows
  BY <1>1, <1>2 DEF FromWinScp, Each
<1> HIDE DEF s, n
<1>4. s \in Seq(LooseRows)
  BY <1>1, <1>3, MakesSeq
<1>5. QED
  BY <1>4 DEF s

LEMMA TernixTyped ==
  ASSUME NEW body \in Seq(SessionRows)
  PROVE  FromTernix(body) \in Seq(InputRows)
<1> DEFINE n == Len(body)
           s == FromTernix(body)
<1>1. n \in Nat /\ DOMAIN body = 1 .. n /\ \A i \in 1 .. n : body[i] \in SessionRows
  OBVIOUS
<1>2. \A r \in SessionRows : Input(r, NoText, NoFolder) \in InputRows
  BY Numbers, InputTyped
<1>3. DOMAIN s = 1 .. n /\ s = [i \in 1 .. n |-> s[i]] /\ \A i \in 1 .. n : s[i] \in InputRows
  BY <1>1, <1>2 DEF FromTernix, Each
<1> HIDE DEF s, n
<1>4. s \in Seq(InputRows)
  BY <1>1, <1>3, MakesSeq
<1>5. QED
  BY <1>4 DEF s

LEMMA NamedTyped ==
  ASSUME NEW body \in Seq(Entries)
  PROVE  LET s == Each(body, Named)
         IN  Len(s) \in Nat /\ DOMAIN s = 1 .. Len(s) /\ \A i \in 1 .. Len(s) : s[i] \in Entries
<1> DEFINE n == Len(body)
           s == Each(body, Named)
<1>1. n \in Nat /\ DOMAIN body = 1 .. n /\ \A i \in 1 .. n : body[i] \in Entries
  OBVIOUS
<1>2. \A e \in Entries : Named(e) \in Entries
  BY EntryFields
<1>3. DOMAIN s = 1 .. n /\ s = [i \in 1 .. n |-> s[i]] /\ \A i \in 1 .. n : s[i] \in Entries
  BY <1>1, <1>2 DEF Each
<1> HIDE DEF s, n
<1>4. s \in Seq(Entries)
  BY <1>1, <1>3, MakesSeq
<1>5. QED
  BY <1>4 DEF s

LEMMA CsvRowTyped ==
  ASSUME NEW e \in Entries
  PROVE  CsvRow(e) \in LooseRows
<1> DEFINE protocol == IF e.protocol \in Protocols THEN e.protocol ELSE "ssh"
           port == IF e.port = 0 THEN 22 ELSE e.port
<1>1. protocol \in Protocols /\ port \in Ports
  BY EntryFields, ProtocolNames, Numbers
<1>2. CsvRow(e) = Input([EntryRow(e, protocol, port) EXCEPT !.auth = NoText], NoText, NoFolder)
  BY DEF CsvRow
<1> HIDE DEF protocol, port
<1> DEFINE row == EntryRow(e, protocol, port)
<1>3. row \in FreeRows
  BY <1>1, EntryFields, EntryTyped
<1> HIDE DEF row
<1>4. [row EXCEPT !.auth = NoText] \in FreeRows
  BY <1>3, AuthNames, AuthChanged
<1>5. QED
  BY <1>2, <1>4, Numbers, LooseTyped DEF row

LEMMA CsvTyped ==
  ASSUME NEW body \in Seq(Entries)
  PROVE  FromCsv(body) \in Seq(LooseRows)
<1> DEFINE s == Each(body, Named)
           n == Len(s)
<1>1. n \in Nat /\ DOMAIN s = 1 .. n /\ \A i \in 1 .. n : s[i] \in Entries
  BY NamedTyped
<1>2. PICK at : Chain(at, "csv", {}, <<>>, s, n) /\ FromCsv(body) = at[n]
  BY <1>1, CsvFold
<1> HIDE DEF s, n
<1> DEFINE H == {k \in 0 .. n : at[k] \in Seq(LooseRows)}
<1>3. 0 \in H
  <2>1. at[0] = <<>>
    BY <1>2 DEF Chain
  <2>2. at[0] \in Seq(LooseRows)
    BY <2>1
  <2>3. QED
    BY <1>1, <2>2
<1>4. ASSUME NEW k \in 1 .. n, k - 1 \in H PROVE k \in H
  <2> DEFINE row == CsvRow(s[k])
  <2>1. at[k] = IF s[k].name # NoText THEN Append(at[k - 1], row) ELSE at[k - 1]
    BY <1>2 DEF Chain, StepOf
  <2>2. row \in LooseRows
    BY <1>1, CsvRowTyped
  <2> HIDE DEF row
  <2>3. at[k - 1] \in Seq(LooseRows)
    BY <1>4
  <2>4. at[k] \in Seq(LooseRows)
    BY <2>1, <2>2, <2>3
  <2>5. QED
    BY <2>4
<1> HIDE DEF H
<1>5. n \in H
  BY <1>1, <1>3, <1>4, Climb
<1>6. QED
  BY <1>2, <1>5 DEF H

LEMMA TabbyRowTyped ==
  ASSUME NEW e \in Entries, e.protocol \in {"ssh", "local", "telnet", "serial"}
  PROVE  TabbyRow(e) \in LooseRows
<1>1. CASE e.protocol = "ssh"
  <2> DEFINE port == IF e.port = 0 THEN 22 ELSE e.port
             auth == IF e.agent THEN "agent" ELSE "password"
             protocol == "ssh"
             row == EntryRow(e, protocol, port)
  <2>1. protocol \in Protocols /\ port \in Ports /\ auth \in AuthTypes
    BY EntryFields, ProtocolNames, Numbers, AuthNames
  <2>2. TabbyRow(e) = KeyFields(row, e.keyPath, auth, NoFolder)
    BY <1>1 DEF TabbyRow
  <2> HIDE DEF protocol, port, auth
  <2>3. row \in FreeRows
    BY <2>1, EntryFields, EntryTyped
  <2> HIDE DEF row
  <2>4. QED
    BY <2>1, <2>2, <2>3, EntryFields, Numbers, KeyFieldsTyped
<1>2. CASE e.protocol = "local"
  <2> DEFINE b == Blank
             name == e.name
             protocol == "local"
             port == 0
             auth == "none"
             row == [b EXCEPT !.name = name, !.protocol = protocol, !.port = port, !.auth = auth]
  <2>1. TabbyRow(e) = Input(row, NoText, NoFolder)
    BY <1>2 DEF TabbyRow
  <2>2. b \in FreeRows
    BY BlankFree
  <2>a. name \in Names /\ protocol \in Protocols /\ port \in Ports /\ auth \in AuthTypes
    BY EntryFields, ProtocolNames, Numbers, AuthNames
  <2> HIDE DEF b, name, protocol, port, auth
  <2>3. row \in FreeRows
    BY <2>2, <2>a DEF FreeRows
  <2> HIDE DEF row
  <2>4. QED
    BY <2>1, <2>3, Numbers, LooseTyped
<1>3. CASE e.protocol \in {"telnet", "serial"}
  <2> DEFINE u == [e EXCEPT !.user = NoText]
             protocol == e.protocol
             port == IF e.port = 0 /\ protocol = "telnet" THEN 23 ELSE e.port
             row == EntryRow(u, protocol, port)
  <2>1. TabbyRow(e) = Input([row EXCEPT !.auth = NoText], NoText, NoFolder)
    BY <1>3 DEF TabbyRow
  <2>2. protocol \in Protocols /\ port \in Ports
    BY <1>3, EntryFields, ProtocolNames, Numbers
  <2>3. NoText \in Hosts
    BY BlankFree DEF FreeRows, Blank
  <2>4. u.name \in Names /\ u.host \in Hosts /\ u.user \in Hosts
    <3>1. u.name = e.name /\ u.host = e.host /\ u.user = NoText
      BY DEF Entries
    <3>2. QED
      BY <2>3, <3>1, EntryFields
  <2> HIDE DEF u, protocol, port
  <2>5. row \in FreeRows
    BY <2>2, <2>4, EntryTyped
  <2> HIDE DEF row
  <2>6. [row EXCEPT !.auth = NoText] \in FreeRows
    BY <2>5, AuthNames, AuthChanged
  <2>7. QED
    BY <2>1, <2>6, Numbers, LooseTyped
<1>4. QED
  BY <1>1, <1>2, <1>3

LEMMA TabbyTyped ==
  ASSUME NEW body \in Seq(Entries)
  PROVE  FromTabby(body) \in Seq(LooseRows)
<1> DEFINE s == Each(body, Named)
           n == Len(s)
<1>1. n \in Nat /\ DOMAIN s = 1 .. n /\ \A i \in 1 .. n : s[i] \in Entries
  BY NamedTyped
<1>2. PICK at : Chain(at, "tabby", {}, <<>>, s, n) /\ FromTabby(body) = at[n]
  BY <1>1, TabbyFold
<1> HIDE DEF s, n
<1> DEFINE H == {k \in 0 .. n : at[k] \in Seq(LooseRows)}
<1>3. 0 \in H
  <2>1. at[0] = <<>>
    BY <1>2 DEF Chain
  <2>2. at[0] \in Seq(LooseRows)
    BY <2>1
  <2>3. QED
    BY <1>1, <2>2
<1>4. ASSUME NEW k \in 1 .. n, k - 1 \in H PROVE k \in H
  <2> DEFINE row == TabbyRow(s[k])
             kept == s[k].protocol \in {"ssh", "local", "telnet", "serial"}
  <2>1. at[k] = IF kept THEN Append(at[k - 1], row) ELSE at[k - 1]
    BY <1>2 DEF Chain, StepOf
  <2>2. kept => row \in LooseRows
    BY <1>1, TabbyRowTyped
  <2> HIDE DEF row, kept
  <2>3. at[k - 1] \in Seq(LooseRows)
    BY <1>4
  <2>4. at[k] \in Seq(LooseRows)
    BY <2>1, <2>2, <2>3
  <2>5. QED
    BY <2>4
<1> HIDE DEF H
<1>5. n \in H
  BY <1>1, <1>3, <1>4, Climb
<1>6. QED
  BY <1>2, <1>5 DEF H

(* OpenSSH, line by line.                                                  *)
Reading == [done : Seq(LooseRows), current : Seq(LooseRows)]

LEMMA HostTyped ==
  ASSUME NEW value \in Names \cap Hosts
  PROVE  NewHost(value) \in LooseRows
<1> DEFINE b == Blank
           auth == "agent"
           row == [b EXCEPT !.name = value, !.host = value, !.auth = auth]
<1>1. b \in FreeRows /\ auth \in AuthTypes
  BY BlankFree, AuthNames
<1> HIDE DEF b, auth
<1>2. row \in FreeRows
  BY <1>1 DEF FreeRows
<1> HIDE DEF row
<1>3. Input(row, NoText, NoFolder) \in LooseRows
  BY <1>2, Numbers, LooseTyped
<1>4. QED
  BY <1>3 DEF NewHost, row, b, auth

LEMMA JoinedTyped ==
  ASSUME NEW acc \in Reading
  PROVE  Flushed(acc) \in Seq(LooseRows)
<1>1. acc.done \in Seq(LooseRows) /\ acc.current \in Seq(LooseRows)
  BY DEF Reading
<1>2. QED
  BY <1>1 DEF Flushed

LEMMA LineFields ==
  ASSUME NEW l \in SshLines
  PROVE  /\ l.kw = "host" => l.value = "*" \/ l.value \in Names \cap Hosts
         /\ l.kw \in {"hostname", "user"} => l.value \in Hosts
         /\ l.kw = "identityfile" => l.value \in Paths
         /\ l.kw = "proxyjump" => l.value \in STRING
         /\ l.port \in Ports
<1>1. QED
  BY DEF SshLines

(* A line changes the session it follows.                                  *)
LEMMA LineTyped ==
  ASSUME NEW row \in LooseRows, NEW l \in SshLines, l.kw # "host"
  PROVE  SshField(row, l) \in LooseRows
<1>1. CASE l.kw = "hostname"
  BY <1>1, LineFields DEF LooseRows, SshField
<1>2. CASE l.kw = "port"
  BY <1>2, LineFields DEF LooseRows, SshField
<1>3. CASE l.kw = "user"
  BY <1>3, LineFields DEF LooseRows, SshField
<1>4. CASE l.kw = "identityfile"
  <2> DEFINE auth == "key"
  <2>1. auth \in AuthTypes /\ l.value \in Paths
    BY <1>4, LineFields, AuthNames
  <2> HIDE DEF auth
  <2>2. [row EXCEPT !.auth = auth, !.keyPath = l.value] \in LooseRows
    BY <2>1 DEF LooseRows
  <2>3. QED
    BY <1>4, <2>2 DEF auth, SshField
<1>5. CASE l.kw = "proxyjump"
  <2> DEFINE more == Append(row.notes, Note("ProxyJump", l.value))
  <2>1. l.value \in STRING /\ row.notes \in Seq(Notes)
    BY <1>5, LineFields, LooseColumns
  <2>2. more \in Seq(Notes)
    BY <2>1, Noting
  <2> HIDE DEF more
  <2>3. [row EXCEPT !.notes = more] \in LooseRows
    BY <2>2 DEF LooseRows
  <2>4. QED
    BY <1>5, <2>3 DEF more, SshField
<1>6. CASE l.kw \notin {"hostname", "port", "user", "identityfile", "proxyjump"}
  BY <1>6 DEF SshField
<1>7. QED
  BY <1>1, <1>2, <1>3, <1>4, <1>5, <1>6

LEMMA ReadLineTyped ==
  ASSUME NEW acc \in Reading, NEW l \in SshLines
  PROVE  ReadSshLine(acc, l) \in Reading
<1>1. acc.done \in Seq(LooseRows) /\ acc.current \in Seq(LooseRows)
  BY DEF Reading
<1>2. CASE l.kw = "host"
  <2> DEFINE row == NewHost(l.value)
             current == IF l.value = "*" THEN <<>> ELSE <<row>>
             done == Flushed(acc)
  <2>1. l.value # "*" => l.value \in Names \cap Hosts
    BY <1>2, LineFields
  <2>2. l.value # "*" => row \in LooseRows
    BY <2>1, HostTyped
  <2>3. ReadSshLine(acc, l) = [done |-> done, current |-> current]
    BY <1>2 DEF ReadSshLine
  <2>4. done \in Seq(LooseRows)
    BY JoinedTyped
  <2> HIDE DEF row, done
  <2>5. current \in Seq(LooseRows)
    BY <2>2, NothingIn
  <2> HIDE DEF current
  <2>6. QED
    BY <2>3, <2>4, <2>5 DEF Reading
<1>3. CASE l.kw # "host" /\ acc.current = <<>>
  BY <1>3 DEF ReadSshLine
<1>4. CASE l.kw # "host" /\ acc.current # <<>>
  <2> DEFINE cur == acc.current
             new == SshField(cur[1], l)
  <2>1. ReadSshLine(acc, l) = [acc EXCEPT !.current = [cur EXCEPT ![1] = new]]
    BY <1>4 DEF ReadSshLine
  <2>2. cur \in Seq(LooseRows) /\ cur # <<>>
    BY <1>1, <1>4
  <2> HIDE DEF cur
  <2>3. 1 \in 1 .. Len(cur) /\ cur[1] \in LooseRows
    BY <2>2
  <2>4. new \in LooseRows
    BY <1>4, <2>3, LineTyped
  <2> HIDE DEF new
  <2>5. [cur EXCEPT ![1] = new] \in Seq(LooseRows)
    BY <2>2, <2>3, <2>4
  <2>6. QED
    BY <2>1, <2>5 DEF Reading
<1>5. QED
  BY <1>2, <1>3, <1>4

LEMMA SshConfigTyped ==
  ASSUME NEW body \in Seq(SshLines)
  PROVE  FromSshConfig(body) \in Seq(LooseRows)
<1> DEFINE n == Len(body)
           base == [done |-> <<>>, current |-> <<>>]
<1>1. n \in Nat /\ DOMAIN body = 1 .. n /\ \A i \in 1 .. n : body[i] \in SshLines
  OBVIOUS
<1>2. PICK at : Chain(at, "sshconfig", {}, base, body, n) /\ FromSshConfig(body) = Flushed(at[n])
  BY <1>1, SshConfigFold
<1>a. base \in Reading
  BY NothingIn DEF Reading
<1> HIDE DEF n, base
<1> DEFINE H == {k \in 0 .. n : at[k] \in Reading}
<1>3. 0 \in H
  BY <1>1, <1>2, <1>a DEF Chain
<1>4. ASSUME NEW k \in 1 .. n, k - 1 \in H PROVE k \in H
  <2>1. at[k] = ReadSshLine(at[k - 1], body[k])
    BY <1>2 DEF Chain, StepOf
  <2>2. at[k - 1] \in Reading
    BY <1>4
  <2>3. at[k] \in Reading
    BY <1>1, <2>1, <2>2, ReadLineTyped
  <2>4. QED
    BY <2>3
<1> HIDE DEF H
<1>5. n \in H
  BY <1>1, <1>3, <1>4, Climb
<1>6. at[n] \in Reading
  BY <1>5 DEF H
<1>7. QED
  BY <1>2, <1>6, JoinedTyped

(* MobaXterm, line by line.                                                *)
Walking == [done : Seq(LooseRows), bookmarks : BOOLEAN, path : Seq(Names)]

LEMMA MobaFields ==
  ASSUME NEW l \in MobaLines
  PROVE  /\ l.kind = "section" => l.bookmarks \in BOOLEAN
         /\ l.kind = "subrep" => l.path \in Seq(Names)
         /\ l.kind = "entry" => /\ l.name \in Names /\ l.host \in Hosts /\ l.user \in Hosts
                                /\ l.port \in Ports /\ l.keyPath \in Paths
<1>1. QED
  BY DEF MobaLines

LEMMA MobaTypes == \A l : MobaProtocol(l) \in Protocols \cup {NoText}
<1>1. QED
  BY ProtocolNames DEF MobaProtocol

LEMMA ReadEntryTyped ==
  ASSUME NEW acc \in Walking, NEW l \in MobaLines
  PROVE  ReadMobaLine(acc, l) \in Walking
<1>0. acc.done \in Seq(LooseRows) /\ acc.bookmarks \in BOOLEAN /\ acc.path \in Seq(Names)
  BY DEF Walking
<1>1. CASE l.kind = "section"
  <2>1. ReadMobaLine(acc, l) = [acc EXCEPT !.bookmarks = l.bookmarks, !.path = NoFolder]
    BY <1>1 DEF ReadMobaLine
  <2>2. l.bookmarks \in BOOLEAN /\ NoFolder \in Seq(Names)
    BY <1>1, MobaFields, Numbers
  <2>3. QED
    BY <2>1, <2>2 DEF Walking
<1>2. CASE l.kind = "subrep" /\ acc.bookmarks
  <2>1. ReadMobaLine(acc, l) = [acc EXCEPT !.path = l.path]
    BY <1>2 DEF ReadMobaLine
  <2>2. l.path \in Seq(Names)
    BY <1>2, MobaFields
  <2>3. QED
    BY <2>1, <2>2 DEF Walking
<1>3. CASE l.kind = "entry" /\ acc.bookmarks /\ MobaProtocol(l) # NoText
  <2> DEFINE protocol == MobaProtocol(l)
             port == MobaPort(l)
             row == EntryRow(l, protocol, port)
             input == KeyFields(row, l.keyPath, "password", acc.path)
  <2>1. ReadMobaLine(acc, l) = [acc EXCEPT !.done = Append(acc.done, input)]
    BY <1>3 DEF ReadMobaLine
  <2>2. protocol \in Protocols /\ port \in Ports
    BY <1>3, MobaTypes, MobaFields, Numbers DEF MobaPort
  <2> HIDE DEF protocol, port
  <2>3. l.name \in Names /\ l.host \in Hosts /\ l.user \in Hosts /\ l.keyPath \in Paths
    BY <1>3, MobaFields
  <2>4. row \in FreeRows
    BY <2>2, <2>3, EntryTyped
  <2> HIDE DEF row
  <2>5. input \in LooseRows
    BY <1>0, <2>3, <2>4, AuthNames, KeyFieldsTyped
  <2> HIDE DEF input
  <2>6. Append(acc.done, input) \in Seq(LooseRows)
    BY <1>0, <2>5
  <2>7. QED
    BY <2>1, <2>6 DEF Walking
<1>4. CASE /\ l.kind # "section" /\ ~ (l.kind = "subrep" /\ acc.bookmarks)
           /\ ~ (l.kind = "entry" /\ acc.bookmarks /\ MobaProtocol(l) # NoText)
  BY <1>4 DEF ReadMobaLine
<1>5. QED
  BY <1>1, <1>2, <1>3, <1>4

LEMMA MobaXtermTyped ==
  ASSUME NEW body \in Seq(MobaLines)
  PROVE  FromMobaXterm(body) \in Seq(LooseRows)
<1> DEFINE n == Len(body)
           base == [done |-> <<>>, bookmarks |-> FALSE, path |-> NoFolder]
<1>1. n \in Nat /\ DOMAIN body = 1 .. n /\ \A i \in 1 .. n : body[i] \in MobaLines
  OBVIOUS
<1>2. PICK at : Chain(at, "mobaxterm", {}, base, body, n) /\ FromMobaXterm(body) = at[n].done
  BY <1>1, MobaXtermFold
<1>a. base \in Walking
  BY NothingIn, Numbers DEF Walking
<1> HIDE DEF n, base
<1> DEFINE H == {k \in 0 .. n : at[k] \in Walking}
<1>3. 0 \in H
  BY <1>1, <1>2, <1>a DEF Chain
<1>4. ASSUME NEW k \in 1 .. n, k - 1 \in H PROVE k \in H
  <2>1. at[k] = ReadMobaLine(at[k - 1], body[k])
    BY <1>2 DEF Chain, StepOf
  <2>2. at[k - 1] \in Walking
    BY <1>4
  <2>3. at[k] \in Walking
    BY <1>1, <2>1, <2>2, ReadEntryTyped
  <2>4. QED
    BY <2>3
<1> HIDE DEF H
<1>5. n \in H
  BY <1>1, <1>3, <1>4, Climb
<1>6. at[n] \in Walking
  BY <1>5 DEF H
<1>7. QED
  BY <1>2, <1>6 DEF Walking

LEMMA LooseAreInputs == \A s \in Seq(LooseRows) : s \in Seq(InputRows)
<1>1. LooseRows \subseteq InputRows
  BY LooseColumns
<1>2. QED
  BY <1>1

LEMMA ParsedTyped ==
  ASSUME NEW doc \in Documents
  PROVE  /\ ParseSessions(doc.source, doc.body) \in Seq(InputRows)
         /\ doc.source # "ternix" => ParseSessions(doc.source, doc.body) \in Seq(LooseRows)
<1> DEFINE inputs == ParseSessions(doc.source, doc.body)
<1>1. CASE doc.source = "sshconfig" /\ doc.body \in Seq(SshLines)
  <2>1. inputs \in Seq(LooseRows)
    BY <1>1, SshConfigTyped DEF ParseSessions
  <2>2. QED
    BY <2>1, LooseAreInputs
<1>2. CASE doc.source = "mobaxterm" /\ doc.body \in Seq(MobaLines)
  <2>1. inputs \in Seq(LooseRows)
    BY <1>2, MobaXtermTyped DEF ParseSessions
  <2>2. QED
    BY <2>1, LooseAreInputs
<1>3. CASE doc.source \in {"putty", "winscp", "csv", "tabby"} /\ doc.body \in Seq(Entries)
  <2>1. inputs \in Seq(LooseRows)
    BY <1>3, PuttyTyped, WinScpTyped, CsvTyped, TabbyTyped DEF ParseSessions
  <2>2. QED
    BY <2>1, LooseAreInputs
<1>4. CASE doc.source = "ternix" /\ doc.body \in Seq(SessionRows)
  BY <1>4, TernixTyped DEF ParseSessions
<1>5. QED
  BY <1>1, <1>2, <1>3, <1>4 DEF Documents

(* A backup holds sessions.                                                *)
LEMMA RowsTyped ==
  ASSUME NEW d, TablesTyped(d)
  PROVE  RowsOf(d) \in Seq(SessionRows)
<1> DEFINE m == d.next["sessions"] - 1
           s == Counting(m)
           n == Len(s)
<1>1. n \in Nat /\ DOMAIN s = 1 .. n
  <2>1. m \in Nat
    BY TableNames DEF TablesTyped
  <2>2. QED
    BY <2>1, CountingSeq
<1>2. PICK at : Chain(at, "rows", d.sessions, <<>>, s, n) /\ RowsOf(d) = at[n]
  BY <1>1, RowsFold
<1> HIDE DEF s, n, m
<1> DEFINE H == {k \in 0 .. n : at[k] \in Seq(SessionRows)}
<1>3. 0 \in H
  <2>1. at[0] = <<>>
    BY <1>2 DEF Chain
  <2>2. at[0] \in Seq(SessionRows)
    BY <2>1
  <2>3. QED
    BY <1>1, <2>2
<1>4. ASSUME NEW k \in 1 .. n, k - 1 \in H PROVE k \in H
  <2> DEFINE x == s[k]
  <2>1. at[k] = IF x \in DOMAIN d.sessions THEN Append(at[k - 1], d.sessions[x]) ELSE at[k - 1]
    BY <1>2 DEF Chain, StepOf
  <2>2. x \in DOMAIN d.sessions => d.sessions[x] \in SessionRows
    BY DEF TablesTyped
  <2>3. at[k - 1] \in Seq(SessionRows)
    BY <1>4
  <2> HIDE DEF x
  <2>4. at[k] \in Seq(SessionRows)
    BY <2>1, <2>2, <2>3
  <2>5. QED
    BY <2>4
<1> HIDE DEF H
<1>5. n \in H
  BY <1>1, <1>3, <1>4, Climb
<1>6. QED
  BY <1>2, <1>5 DEF H

LEMMA BackupTyped ==
  ASSUME NEW d, TablesTyped(d)
  PROVE  Export("ternix", d) \in Seq(SessionRows)
<1> DEFINE rows == RowsOf(d)
           n == Len(rows)
           s == ToTernix(d)
<1>1. rows \in Seq(SessionRows)
  BY RowsTyped
<1>2. n \in Nat /\ DOMAIN rows = 1 .. n /\ \A i \in 1 .. n : rows[i] \in SessionRows
  <2> HIDE DEF rows
  <2>1. QED
    BY <1>1
<1>3. \A r \in SessionRows : [r EXCEPT !.password = FALSE] \in SessionRows
  BY DEF SessionRows
<1>4. DOMAIN s = 1 .. n /\ s = [i \in 1 .. n |-> s[i]] /\ \A i \in 1 .. n : s[i] \in SessionRows
  BY <1>2, <1>3 DEF ToTernix, Each
<1> HIDE DEF s, n
<1>5. s \in Seq(SessionRows)
  BY <1>2, <1>4, MakesSeq
<1>6. QED
  BY <1>5 DEF Export, s

-----------------------------------------------------------------------------
(* Rows that a window may send, and columns of them.                       *)

RowsFit(rows) ==
  /\ IsFiniteSet(DOMAIN rows)
  /\ \A s \in DOMAIN rows : s \in Nat \ {0} /\ rows[s] \in SessionRows /\ rows[s].jump # s
IdsFit(rows) == \A g \in DOMAIN rows : g \in Nat \ {0}
CopyFits(c) == RowsFit(c.sessions) /\ IdsFit(c.groups)

LoadFits(l) == {"read", "sessions", "groups", "then"} \subseteq DOMAIN l /\ l.read \in 0 .. 2 /\ CopyFits(l)

(* A session edited in a dialog does not jump through itself.              *)
SessionFits(d) ==
  /\ {"mode", "id", "form", "keys", "sent"} \subseteq DOMAIN d
  /\ d.id \in Nat /\ d.form \in SessionRows /\ d.keys \subseteq Nat
  /\ d.mode = "edit" => d.id # None /\ d.form.jump # d.id
VaultFits(d) ==
  /\ {"keys", "picker"} \subseteq DOMAIN d /\ {"key", "picked"} \subseteq DOMAIN d.picker
  /\ d.keys \subseteq Nat /\ d.picker.key \in Nat
SnippetFits(d) ==
  /\ {"id", "global", "owner"} \subseteq DOMAIN d
  /\ d.global \in BOOLEAN /\ d.owner \in Nat

(* What a foreign file brings names no row of the tables.                  *)
LooseInput(x) == x.group = None /\ x.key = None /\ x.jump = None
Loose(inputs) == \A i \in DOMAIN inputs : LooseInput(inputs[i])

GoodLoads(q) == Stack(q) /\ \A i \in 1 .. Len(q) : LoadFits(q[i])

LEMMA LooseInputs ==
  ASSUME NEW inputs \in Seq(LooseRows)
  PROVE  Loose(inputs)
<1>1. \A i \in DOMAIN inputs : inputs[i] \in LooseRows
  OBVIOUS
<1>2. \A x \in LooseRows : LooseInput(x)
  BY LooseColumns DEF LooseInput
<1>3. QED
  BY <1>1, <1>2 DEF Loose

(* The tables as a window copies them.                                     *)
LEMMA TablesFit ==
  ASSUME NEW d, NEW once, GoodTables(d, once)
  PROVE  /\ RowsFit(d.sessions) /\ IdsFit(d.groups)
         /\ DOMAIN d.keys \subseteq Nat /\ DOMAIN d.sessions \subseteq Nat /\ DOMAIN d.groups \subseteq Nat
         /\ \A i \in DOMAIN d.snippets : d.snippets[i] \in SnippetRows
         /\ \A t \in DOMAIN d.tunnels : d.tunnels[t] \in TunnelRows
<1>1. \A t \in Tables : DOMAIN d[t] \subseteq Nat \ {0}
  <2>1. ASSUME NEW t \in Tables PROVE DOMAIN d[t] \subseteq Nat \ {0}
    <3>1. DOMAIN d[t] \subseteq 1 .. (d.next[t] - 1) /\ d.next[t] \in Nat
      BY DEF GoodTables, TablesTyped
    <3>2. QED
      BY <3>1
  <2>2. QED
    BY <2>1
<1>2. \A s \in DOMAIN d.sessions : d.sessions[s] \in SessionRows /\ d.sessions[s].jump # s
  BY DEF GoodTables, TablesTyped, RowsResolve
<1>3. IsFiniteSet(DOMAIN d.sessions)
  <2>1. d.next["sessions"] \in Nat \ {0} /\ DOMAIN d["sessions"] \subseteq 1 .. (d.next["sessions"] - 1)
    BY TableNames DEF GoodTables, TablesTyped
  <2>2. d.next["sessions"] - 1 \in Nat
    BY <2>1
  <2> DEFINE n == d.next["sessions"] - 1
  <2> HIDE DEF n
  <2>3. IsFiniteSet(1 .. n)
    <3>1. 1 \in Int /\ n \in Int
      BY <2>2 DEF n
    <3>2. QED
      BY <3>1, FS_Interval
  <2>4. DOMAIN d.sessions \in SUBSET (1 .. n)
    BY <2>1 DEF n
  <2>5. QED
    BY <2>3, <2>4, FS_Subset
<1>4. QED
  BY <1>1, <1>2, <1>3, TableNames DEF RowsFit, IdsFit, GoodTables, TablesTyped

LEMMA NothingFits == RowsFit(<<>>) /\ IdsFit(<<>>)
<1>1. DOMAIN <<>> = {} /\ IsFiniteSet({})
  BY FS_EmptySet
<1>2. QED
  BY <1>1 DEF RowsFit, IdsFit

(* An order of a set names each member and nothing else.                   *)
LEMMA OrderedSet ==
  ASSUME NEW S, IsFiniteSet(S), NEW q \in SetToSeqs(S)
  PROVE  /\ q \in Seq(S) /\ Stack(q)
         /\ \A x \in S : \E i \in 1 .. Len(q) : q[i] = x
<1> DEFINE n == Cardinality(S)
           D == 1 .. n
<1>1. n \in Nat
  BY FS_CardinalityType
<1>2. q \in [D -> S] /\ \A i, j \in D : i # j => q[i] # q[j]
  BY DEF SetToSeqs
<1>3. IsFiniteSet(D) /\ Cardinality(D) = n
  BY <1>1, FS_Interval
<1>4. q \in Injection(D, S)
  BY <1>2 DEF Injection, IsInjective
<1>5. q \in Surjection(D, S)
  BY <1>3, <1>4, FS_Injection
<1>6. q \in Seq(S) /\ Len(q) = n
  BY <1>1, <1>2
<1>7. QED
  BY <1>5, <1>6 DEF Surjection, Stack

(* A field of a dialog that was changed.                                   *)
FieldSet(t, field, e) == [t EXCEPT ![field] = e]

LEMMA FieldFacts ==
  ASSUME NEW t, NEW field, NEW e
  PROVE  /\ DOMAIN FieldSet(t, field, e) = DOMAIN t
         /\ field \in DOMAIN t => FieldSet(t, field, e)[field] = e
         /\ \A f \in DOMAIN t \ {field} : FieldSet(t, field, e)[f] = t[f]
<1>1. QED
  BY DEF FieldSet

LEMMA NamePatch ==
  ASSUME NEW n \in Names PROVE PatchTyped([name |-> n]) /\ "jump" \notin DOMAIN [name |-> n]
<1>1. QED
  BY DEF PatchTyped, Columns

LEMMA GroupPatch ==
  ASSUME NEW g \in Nat PROVE PatchTyped([group |-> g]) /\ "jump" \notin DOMAIN [group |-> g]
<1>1. QED
  BY DEF PatchTyped, Columns

LEMMA JumpPatch ==
  ASSUME NEW s \in Nat PROVE PatchTyped([jump |-> s]) /\ [jump |-> s].jump = s
<1>1. QED
  BY DEF PatchTyped, Columns

LEMMA KeyPatch ==
  ASSUME NEW auth \in AuthTypes, NEW k \in Nat
  PROVE  PatchTyped([auth |-> auth, key |-> k]) /\ "jump" \notin DOMAIN [auth |-> auth, key |-> k]
<1>1. QED
  BY DEF PatchTyped, Columns

LEMMA PasswordPatch ==
  /\ PatchTyped([password |-> TRUE]) /\ "jump" \notin DOMAIN [password |-> TRUE]
<1>1. QED
  BY DEF PatchTyped, Columns

LEMMA LoginPatch ==
  ASSUME NEW auth \in AuthTypes
  PROVE  PatchTyped([auth |-> auth, password |-> TRUE]) /\ "jump" \notin DOMAIN [auth |-> auth, password |-> TRUE]
<1>1. QED
  BY DEF PatchTyped, Columns

LEMMA NoneIsId == None \in Nat /\ None = 0
<1>1. QED
  BY DEF None

LEMMA PasswordCleared ==
  ASSUME NEW row \in SessionRows
  PROVE  [row EXCEPT !.password = FALSE] \in SessionRows /\ [row EXCEPT !.password = FALSE].jump = row.jump
<1>1. QED
  BY DEF SessionRows

LEMMA NamedPatch ==
  ASSUME NEW patch, PatchTyped(patch), "jump" \notin DOMAIN patch, NEW n \in Names, NEW p \in Protocols
  PROVE  LET all == Patched(patch, [name |-> n, protocol |-> p])
         IN  PatchTyped(all) /\ "jump" \notin DOMAIN all
<1> DEFINE rest == [name |-> n, protocol |-> p]
           all == Patched(patch, rest)
<1>1. DOMAIN rest = {"name", "protocol"} /\ rest.name \in Names /\ rest.protocol \in Protocols
  OBVIOUS
<1> HIDE DEF rest
<1>2. /\ DOMAIN all = DOMAIN patch \cup {"name", "protocol"}
      /\ \A c \in DOMAIN all : all[c] = IF c \in DOMAIN patch THEN patch[c] ELSE rest[c]
  BY <1>1 DEF Patched
<1> HIDE DEF all
<1>3. PatchTyped(all)
  BY <1>1, <1>2 DEF PatchTyped, Columns
<1>4. QED
  BY <1>2, <1>3 DEF all, rest

-----------------------------------------------------------------------------
(* What a request takes from the tables. Only a confirmed deletion takes   *)
(* a row of the three tables a user sees, and no id of a key comes twice.  *)

UserTables == {"groups", "keys", "sessions"}

(* A table is a function: it is what it holds.                             *)
IsTable(rows) == rows = [i \in DOMAIN rows |-> rows[i]]

Grows(d, e) ==
  /\ \A t \in UserTables : DOMAIN d[t] \subseteq DOMAIN e[t]
  /\ d.next["keys"] <= e.next["keys"]
  /\ \A k \in DOMAIN e["keys"] \ DOMAIN d["keys"] : d.next["keys"] <= k
  /\ IsTable(d["sessions"]) => IsTable(e["sessions"])

(* The list of sessions, as a window reads it, did not change.             *)
SameList(d, e) == e.sessions = d.sessions /\ e.groups = d.groups

(* A refused request changes nothing.                                      *)
AllOrNothing(d, r) == Grows(d, r.db) /\ r.ok \in BOOLEAN /\ (r.ok \/ r.db = d)

LEMMA NextKey ==
  ASSUME NEW d, TablesTyped(d)
  PROVE  d.next["keys"] \in Nat /\ \A k \in DOMAIN d["keys"] : k \in Nat /\ k < d.next["keys"]
<1>1. d.next["keys"] \in Nat \ {0} /\ DOMAIN d["keys"] \subseteq 1 .. (d.next["keys"] - 1)
  BY TableNames DEF TablesTyped
<1>2. QED
  BY <1>1

LEMMA NothingGrows ==
  ASSUME NEW d, TablesTyped(d)
  PROVE  Grows(d, d) /\ SameList(d, d)
<1>1. QED
  BY NextKey DEF Grows, SameList

LEMMA GrowsOn ==
  ASSUME NEW d, NEW e, NEW f, TablesTyped(d), TablesTyped(e), TablesTyped(f), Grows(d, e), Grows(e, f)
  PROVE  Grows(d, f)
<1>1. d.next["keys"] \in Nat /\ e.next["keys"] \in Nat /\ f.next["keys"] \in Nat /\ \A k \in DOMAIN f["keys"] : k \in Nat
  BY NextKey
<1>2. QED
  BY <1>1 DEF Grows

LEMMA InsertedGrows ==
  ASSUME NEW d, TablesTyped(d), NEW t \in Tables, NEW row, NEW r, r = Inserted(d, t, row)
  PROVE  /\ r.ok = TRUE /\ Grows(d, r.db) /\ r.id \in DOMAIN r.db[t]
         /\ t \in {"keys", "snippets", "tunnels"} => SameList(d, r.db)
<1> DEFINE e == r.db
           n == d.next[t]
<1>1. r.ok = TRUE /\ r.id = n
  BY DEF Inserted
<1>2. RowAdded(e, d, t, row)
  BY InsertedRows
<1>a. e[t] = Patched(d[t], Single(n, row))
  <2>1. t \in DOMAIN d /\ t # "next"
    BY DEF TablesTyped, Tables
  <2>2. QED
    BY <2>1 DEF Inserted
<1>b. IsTable(e[t])
  BY <1>a DEF Patched, IsTable
<1> HIDE DEF e
<1>3. /\ n \in Nat \ {0} /\ n \notin DOMAIN d[t]
      /\ e.next = [d.next EXCEPT ![t] = n + 1]
      /\ \A u \in Tables \ {t} : e[u] = d[u]
      /\ DOMAIN e[t] = DOMAIN d[t] \cup {n}
  BY <1>2 DEF RowAdded
<1> HIDE DEF n
<1>4. \A u \in UserTables : DOMAIN d[u] \subseteq DOMAIN e[u]
  BY <1>3 DEF Tables, UserTables
<1>5. d.next["keys"] <= e.next["keys"] /\ \A k \in DOMAIN e["keys"] \ DOMAIN d["keys"] : d.next["keys"] <= k
  <2>1. d.next \in [Tables -> Nat \ {0}]
    BY DEF TablesTyped
  <2>2. CASE t = "keys"
    BY <1>3, <2>1, <2>2, TableNames DEF n
  <2>3. CASE t # "keys"
    BY <1>3, <2>1, <2>3, TableNames
  <2>4. QED
    BY <2>2, <2>3
<1>6. t \in {"keys", "snippets", "tunnels"} => e.sessions = d.sessions /\ e.groups = d.groups
  BY <1>3 DEF Tables
<1>7. IsTable(d["sessions"]) => IsTable(e["sessions"])
  BY <1>3, <1>b, TableNames
<1>8. QED
  BY <1>1, <1>3, <1>4, <1>5, <1>6, <1>7 DEF Grows, SameList, e

LEMMA ChangedGrows ==
  ASSUME NEW d, TablesTyped(d), NEW t \in Tables, NEW i \in DOMAIN d[t], NEW row,
         NEW e, e = [d EXCEPT ![t] = [d[t] EXCEPT ![i] = row]]
  PROVE  /\ Grows(d, e)
         /\ t \in {"keys", "snippets", "tunnels"} => SameList(d, e)
<1>1. RowChanged(e, d, t, i, row)
  BY ChangedRows
<1>2. e.next = d.next /\ (\A u \in Tables \ {t} : e[u] = d[u]) /\ DOMAIN e[t] = DOMAIN d[t]
  BY <1>1 DEF RowChanged
<1>3. \A u \in Tables : DOMAIN e[u] = DOMAIN d[u]
  BY <1>2
<1>4. t \in {"keys", "snippets", "tunnels"} => e.sessions = d.sessions /\ e.groups = d.groups
  BY <1>2 DEF Tables
<1>5. d.next["keys"] \in Nat
  BY NextKey
<1>6. IsTable(d["sessions"]) => IsTable(e["sessions"])
  <2>1. e[t] = [d[t] EXCEPT ![i] = row]
    BY DEF TablesTyped
  <2>2. IsTable(d[t]) => IsTable(e[t])
    BY <2>1 DEF IsTable
  <2>3. QED
    BY <1>2, <2>2, TableNames
<1>7. QED
  BY <1>2, <1>3, <1>4, <1>5, <1>6 DEF Grows, SameList, Tables, UserTables

LEMMA RefusedKeeps ==
  ASSUME NEW d, TablesTyped(d)
  PROVE  AllOrNothing(d, Refused(d)) /\ SameList(d, Refused(d).db)
<1>1. Refused(d).db = d /\ Refused(d).ok = FALSE
  BY DEF Refused
<1>2. QED
  BY <1>1, NothingGrows DEF AllOrNothing

LEMMA GroupsKeepSessions ==
  ASSUME NEW d, TablesTyped(d), NEW id, NEW name, NEW parent
  PROVE  /\ GroupsCreate(d, name, parent).db.sessions = d.sessions
         /\ GroupsRename(d, id, name).db.sessions = d.sessions
<1>1. ASSUME NEW row PROVE Inserted(d, "groups", row).db["sessions"] = d["sessions"]
  <2>1. RowAdded(Inserted(d, "groups", row).db, d, "groups", row)
    BY InsertedRows, TableNames
  <2>2. QED
    BY <2>1, TableNames DEF RowAdded
<1>2. Refused(d).db = d
  BY DEF Refused
<1>3. GroupsCreate(d, name, parent).db.sessions = d.sessions
  BY <1>1, <1>2 DEF GroupsCreate
<1>4. GroupsRename(d, id, name).db.sessions = d.sessions
  BY <1>2, TableNames DEF GroupsRename, Done, TablesTyped
<1>5. QED
  BY <1>3, <1>4

LEMMA GroupsCreateGrows ==
  ASSUME NEW d, TablesTyped(d), NEW name, NEW parent
  PROVE  /\ AllOrNothing(d, GroupsCreate(d, name, parent))
         /\ Names_(d.groups, parent) => GroupsCreate(d, name, parent).id \in DOMAIN GroupsCreate(d, name, parent).db.groups
<1> DEFINE row == [name |-> name, parent |-> parent]
           r == GroupsCreate(d, name, parent)
<1>1. CASE Names_(d.groups, parent)
  <2>1. r = Inserted(d, "groups", row)
    BY <1>1 DEF GroupsCreate
  <2> HIDE DEF row, r
  <2>2. r.ok = TRUE /\ Grows(d, r.db) /\ r.id \in DOMAIN r.db["groups"]
    BY <2>1, InsertedGrows, TableNames
  <2>3. QED
    BY <2>2 DEF AllOrNothing, r
<1>2. CASE ~Names_(d.groups, parent)
  <2>1. r = Refused(d)
    BY <1>2 DEF GroupsCreate
  <2>2. QED
    BY <1>2, <2>1, RefusedKeeps
<1>3. QED
  BY <1>1, <1>2

LEMMA GroupsRenameGrows ==
  ASSUME NEW d, TablesTyped(d), NEW id, NEW name
  PROVE  AllOrNothing(d, GroupsRename(d, id, name))
<1> DEFINE row == [d.groups[id] EXCEPT !.name = name]
           r == GroupsRename(d, id, name)
<1>1. CASE id \in DOMAIN d.groups
  <2>1. r.ok = TRUE /\ r.db = [d EXCEPT !["groups"] = [d["groups"] EXCEPT ![id] = row]]
    BY <1>1 DEF GroupsRename, Done
  <2> HIDE DEF row, r
  <2>2. Grows(d, r.db)
    BY <1>1, <2>1, ChangedGrows, TableNames
  <2>3. QED
    BY <2>1, <2>2 DEF AllOrNothing, r
<1>2. CASE id \notin DOMAIN d.groups
  <2>1. r = Refused(d)
    BY <1>2 DEF GroupsRename
  <2>2. QED
    BY <2>1, RefusedKeeps
<1>3. QED
  BY <1>1, <1>2

LEMMA SessionsCreateGrows ==
  ASSUME NEW d, TablesTyped(d), NEW row
  PROVE  AllOrNothing(d, SessionsCreate(d, row)) /\ (Fits(d, row) => SessionsCreate(d, row).ok = TRUE)
<1> DEFINE r == SessionsCreate(d, row)
<1>1. CASE Fits(d, row)
  <2>1. r = Inserted(d, "sessions", row)
    BY <1>1 DEF SessionsCreate
  <2> HIDE DEF r
  <2>2. r.ok = TRUE /\ Grows(d, r.db)
    BY <2>1, InsertedGrows, TableNames
  <2>3. QED
    BY <2>2 DEF AllOrNothing, r
<1>2. CASE ~Fits(d, row)
  <2>1. r = Refused(d)
    BY <1>2 DEF SessionsCreate
  <2>2. QED
    BY <1>2, <2>1, RefusedKeeps
<1>3. QED
  BY <1>1, <1>2

LEMMA SessionsUpdateGrows ==
  ASSUME NEW d, TablesTyped(d), NEW id, NEW patch
  PROVE  AllOrNothing(d, SessionsUpdate(d, id, patch))
<1> DEFINE cur == d.sessions[id]
           given == Patched(patch, cur)
           row == [given EXCEPT !.password = cur.password \/ given.password]
           r == SessionsUpdate(d, id, patch)
<1>1. CASE id \in DOMAIN d.sessions /\ Fits(d, row)
  <2>1. r.ok = TRUE /\ r.db = [d EXCEPT !["sessions"] = [d["sessions"] EXCEPT ![id] = row]]
    BY <1>1 DEF SessionsUpdate, Done
  <2> HIDE DEF row, r
  <2>2. Grows(d, r.db)
    BY <1>1, <2>1, ChangedGrows, TableNames
  <2>3. QED
    BY <2>1, <2>2 DEF AllOrNothing, r
<1>2. CASE ~ (id \in DOMAIN d.sessions /\ Fits(d, row))
  <2>1. r = Refused(d)
    BY <1>2 DEF SessionsUpdate
  <2>2. QED
    BY <2>1, RefusedKeeps
<1>3. QED
  BY <1>1, <1>2

(* What touches only snippets and tunnels.                                 *)
LEMMA LeafGoneGrows ==
  ASSUME NEW d, TablesTyped(d), NEW t \in {"snippets", "tunnels"}, NEW id
  PROVE  Grows(d, LeafGone(d, t, id)) /\ SameList(d, LeafGone(d, t, id))
<1> DEFINE rows == Without(d[t], {id})
           e == [d EXCEPT ![t] = rows]
<1> HIDE DEF rows
<1>1. /\ e.next = d.next /\ e["sessions"] = d["sessions"] /\ e["groups"] = d["groups"] /\ e["keys"] = d["keys"]
  BY DEF TablesTyped, Tables
<1>2. d.next["keys"] \in Nat
  BY NextKey
<1> HIDE DEF e
<1>3. Grows(d, e) /\ SameList(d, e)
  BY <1>1, <1>2 DEF Grows, SameList, UserTables
<1>4. QED
  BY <1>3 DEF LeafGone, e, rows

LEMMA SnippetsGrow ==
  ASSUME NEW d, TablesTyped(d), NEW id, NEW global, NEW session
  PROVE  /\ Grows(d, SnippetsCreate(d, global, session).db) /\ SameList(d, SnippetsCreate(d, global, session).db)
         /\ Grows(d, SnippetsUpdate(d, id, global, session).db) /\ SameList(d, SnippetsUpdate(d, id, global, session).db)
         /\ Grows(d, SnippetsDelete(d, id).db) /\ SameList(d, SnippetsDelete(d, id).db)
<1> DEFINE scoped == ScopeSnippet(global, session)
           row == scoped.row
           new == SnippetsCreate(d, global, session)
           r == SnippetsUpdate(d, id, global, session)
<1>1. Grows(d, new.db) /\ SameList(d, new.db)
  <2>1. new = Inserted(d, "snippets", row) \/ new = Refused(d)
    BY DEF SnippetsCreate
  <2> HIDE DEF row, new
  <2>2. new = Refused(d) => Grows(d, new.db) /\ SameList(d, new.db)
    BY RefusedKeeps DEF AllOrNothing
  <2>3. QED
    BY <2>1, <2>2, InsertedGrows, TableNames
<1>2. Grows(d, r.db) /\ SameList(d, r.db)
  <2>1. \/ id \in DOMAIN d["snippets"] /\ r.db = [d EXCEPT !["snippets"] = [d["snippets"] EXCEPT ![id] = row]]
        \/ r = Refused(d)
    BY DEF SnippetsUpdate, Done
  <2> HIDE DEF row, r
  <2>2. CASE id \in DOMAIN d["snippets"] /\ r.db = [d EXCEPT !["snippets"] = [d["snippets"] EXCEPT ![id] = row]]
    BY <2>2, ChangedGrows, TableNames
  <2>3. CASE r = Refused(d)
    BY <2>3, RefusedKeeps DEF AllOrNothing
  <2>4. QED
    BY <2>1, <2>2, <2>3
<1>3. SnippetsDelete(d, id).db = LeafGone(d, "snippets", id)
  BY DEF SnippetsDelete, Done, LeafGone
<1>4. QED
  BY <1>1, <1>2, <1>3, LeafGoneGrows

LEMMA TunnelsGrow ==
  ASSUME NEW d, TablesTyped(d), NEW id, NEW session, NEW auto
  PROVE  /\ Grows(d, TunnelsCreate(d, session, auto).db) /\ SameList(d, TunnelsCreate(d, session, auto).db)
         /\ Grows(d, TunnelsSetAuto(d, id, auto).db) /\ SameList(d, TunnelsSetAuto(d, id, auto).db)
         /\ Grows(d, TunnelsDelete(d, id).db) /\ SameList(d, TunnelsDelete(d, id).db)
<1> DEFINE row == [session |-> session, auto |-> auto]
           changed == [d["tunnels"][id] EXCEPT !.auto = auto]
           new == TunnelsCreate(d, session, auto)
           r == TunnelsSetAuto(d, id, auto)
<1>1. Grows(d, new.db) /\ SameList(d, new.db)
  <2>1. new = Inserted(d, "tunnels", row) \/ new = Refused(d)
    BY DEF TunnelsCreate
  <2> HIDE DEF row, new
  <2>2. new = Refused(d) => Grows(d, new.db) /\ SameList(d, new.db)
    BY RefusedKeeps DEF AllOrNothing
  <2>3. QED
    BY <2>1, <2>2, InsertedGrows, TableNames
<1>2. Grows(d, r.db) /\ SameList(d, r.db)
  <2>1. \/ id \in DOMAIN d["tunnels"] /\ r.db = [d EXCEPT !["tunnels"] = [d["tunnels"] EXCEPT ![id] = changed]]
        \/ r = Refused(d)
    BY DEF TunnelsSetAuto, Done
  <2> HIDE DEF changed, r
  <2>2. CASE id \in DOMAIN d["tunnels"] /\ r.db = [d EXCEPT !["tunnels"] = [d["tunnels"] EXCEPT ![id] = changed]]
    BY <2>2, ChangedGrows, TableNames
  <2>3. CASE r = Refused(d)
    BY <2>3, RefusedKeeps DEF AllOrNothing
  <2>4. QED
    BY <2>1, <2>2, <2>3
<1>3. TunnelsDelete(d, id).db = LeafGone(d, "tunnels", id)
  BY DEF TunnelsDelete, Done, LeafGone
<1>4. QED
  BY <1>1, <1>2, <1>3, LeafGoneGrows

-----------------------------------------------------------------------------
(* Keys: an answer names a key of the vault, or none.                      *)
KeyAnswer(d, r) == Grows(d, r.db) /\ SameList(d, r.db) /\ Names_(r.db.keys, r.id)

LEMMA KeyNamed ==
  ASSUME NEW d, TablesTyped(d), NEW fp, NEW name
  PROVE  Names_(d.keys, KeysByFingerprint(d, fp)) /\ Names_(d.keys, KeysByName(d, name))
<1> DEFINE F == {k \in DOMAIN d.keys : d.keys[k].fp = fp}
           N == {k \in DOMAIN d.keys : d.keys[k].name = name}
<1>1. KeysByFingerprint(d, fp) = First(F) /\ KeysByName(d, name) = First(N)
  BY DEF KeysByFingerprint, KeysByName, Find, First
<1>2. F \subseteq Nat \ {0} /\ N \subseteq Nat \ {0}
  BY TableNames DEF TablesTyped
<1>3. \A S \in {F, N} : First(S) = None \/ First(S) \in S
  BY <1>2, FirstFound
<1>4. QED
  BY <1>1, <1>3 DEF Names_

LEMMA KeysInsertGrows ==
  ASSUME NEW d, TablesTyped(d), NEW name, NEW fp
  PROVE  KeyAnswer(d, KeysInsert(d, name, fp))
<1> DEFINE row == [name |-> name, fp |-> fp]
           r == KeysInsert(d, name, fp)
<1>1. r = Inserted(d, "keys", row)
  BY DEF KeysInsert
<1> HIDE DEF row, r
<1>2. Grows(d, r.db) /\ r.id \in DOMAIN r.db["keys"] /\ SameList(d, r.db)
  BY <1>1, InsertedGrows, TableNames
<1>3. QED
  BY <1>2 DEF KeyAnswer, Names_, r

LEMMA NoKeyAnswers ==
  ASSUME NEW d, TablesTyped(d), NEW id, Names_(d.keys, id), NEW r, r.id = id, r.db = d
  PROVE  KeyAnswer(d, r)
<1>1. QED
  BY NothingGrows DEF KeyAnswer

LEMMA ByHandGrows ==
  ASSUME NEW d, TablesTyped(d), NEW body, NEW name, NEW pass, NEW fp
  PROVE  KeyAnswer(d, KeysImport(d, body, name, pass)) /\ KeyAnswer(d, KeysGenerate(d, name, fp))
<1>1. \A f : KeyAnswer(d, KeysInsert(d, name, f))
  BY KeysInsertGrows
<1>2. KeyAnswer(d, Refused(d))
  BY NoKeyAnswers DEF Refused, Names_
<1>3. QED
  BY <1>1, <1>2 DEF KeysImport, KeysGenerate

LEMMA EnsureKeyGrows ==
  ASSUME NEW d, TablesTyped(d), NEW seen, NEW name
  PROVE  KeyAnswer(d, EnsureKey(d, seen, name))
<1> DEFINE known == IF seen.encrypted THEN KeysByName(d, name) ELSE KeysByFingerprint(d, seen.fp)
           kept == Keep(d, known, name, seen.fp)
<1>1. Names_(d.keys, known)
  BY KeyNamed
<1> HIDE DEF known
<1>2. KeyAnswer(d, KeysInsert(d, name, seen.fp))
  BY KeysInsertGrows
<1>3. KeyAnswer(d, kept)
  <2>1. CASE known # None
    <3>1. kept.id = known /\ kept.db = d
      BY <2>1 DEF Keep
    <3> HIDE DEF kept
    <3>2. QED
      BY <1>1, <3>1, NoKeyAnswers
  <2>2. CASE known = None
    BY <1>2, <2>2 DEF Keep
  <2>3. QED
    BY <2>1, <2>2
<1> DEFINE no == [id |-> None, db |-> d]
<1>4. no.id = None /\ no.db = d
  OBVIOUS
<1> HIDE DEF no, kept
<1>5. KeyAnswer(d, no)
  BY <1>4, NoKeyAnswers DEF Names_
<1>6. EnsureKey(d, seen, name) = no \/ EnsureKey(d, seen, name) = kept
  BY DEF EnsureKey, no, kept, known
<1>7. QED
  BY <1>3, <1>5, <1>6

LEMMA ResolvedGrows ==
  ASSUME NEW d, TablesTyped(d), NEW fs, NEW raw, NEW located
  PROVE  KeyAnswer(d, ResolveKeyToVault(d, fs, raw, located))
<1> DEFINE path == IF located[raw] # NoText THEN located[raw] ELSE NormalizeKeyPath(fs, raw)
           name == BaseOf[raw]
           seen == InspectKeyFile(fs, path)
           kept == EnsureKey(d, seen, name)
           found == [id |-> KeysByName(d, name), db |-> d]
<1>1. ResolveKeyToVault(d, fs, raw, located) = IF kept.id # None THEN kept ELSE found
  BY DEF ResolveKeyToVault, OrByName, EnsureKeyFromFile
<1> HIDE DEF seen, name
<1>2. KeyAnswer(d, kept)
  BY EnsureKeyGrows
<1>3. Names_(d.keys, KeysByName(d, name)) /\ found.id = KeysByName(d, name) /\ found.db = d
  BY KeyNamed
<1> HIDE DEF kept, found
<1>4. KeyAnswer(d, found)
  BY <1>3, NoKeyAnswers
<1>5. QED
  BY <1>1, <1>2, <1>4

LEMMA ScanGrows ==
  ASSUME NEW d, NEW once, GoodTables(d, once), NEW fs, FilesTyped(fs)
  PROVE  Grows(d, ImportFromDir(d, fs).db) /\ SameList(d, ImportFromDir(d, fs).db)
<1> DEFINE s == SetToSeq(HereOf(fs))
           n == Len(s)
<1>1. n \in Nat /\ DOMAIN s = 1 .. n /\ \A i \in 1 .. n : s[i] \in HereOf(fs)
  <2>1. IsFiniteSet(HereOf(fs))
    BY FS_Subset DEF FilesTyped, HereOf
  <2>2. QED
    BY <2>1, Listed
<1>2. PICK at : Chain(at, "scan", fs, Done(d), s, n) /\ ImportFromDir(d, fs) = at[n]
  BY <1>1, ScanFold
<1> HIDE DEF s, n
<1> DEFINE Far(e) == GoodTables(e, once) /\ Grows(d, e) /\ SameList(d, e)
           H == {k \in 0 .. n : Far(at[k].db)}
<1>3. 0 \in H
  <2>1. TablesTyped(d) /\ at[0].db = d
    BY <1>2 DEF GoodTables, Chain, Done
  <2>2. QED
    BY <1>1, <2>1, NothingGrows
<1>4. ASSUME NEW k \in 1 .. n, k - 1 \in H PROVE k \in H
  <2> DEFINE r == at[k - 1]
             p == s[k]
             name == BaseOf[p]
             fp == fs[p].fp
             made == KeysInsert(r.db, name, fp)
  <2>1. at[k] = IF KeysByFingerprint(r.db, fp) # None THEN r ELSE Done(made.db)
    BY <1>2 DEF Chain, StepOf
  <2>2. Far(r.db)
    BY <1>4
  <2>3. name \in Names /\ fp \in Fingerprints
    BY <1>1, PathsAssumption DEF HereOf, FilesTyped, KeyFiles
  <2> HIDE DEF r, name, fp
  <2>4. KeysByFingerprint(r.db, fp) = None => \A l \in DOMAIN r.db.keys : r.db.keys[l].fp # fp
    BY <2>2, KeyFound DEF GoodTables
  <2>5. KeysByFingerprint(r.db, fp) = None => GoodTables(made.db, once)
    BY <2>2, <2>3, <2>4, KeysInsertGood
  <2>6. TablesTyped(d) /\ TablesTyped(r.db) /\ (GoodTables(made.db, once) => TablesTyped(made.db))
    BY <2>2 DEF GoodTables
  <2>7. Grows(r.db, made.db) /\ SameList(r.db, made.db)
    BY <2>6, KeysInsertGrows DEF KeyAnswer
  <2> HIDE DEF made
  <2>8. GoodTables(made.db, once) => Far(made.db)
    BY <2>2, <2>6, <2>7, GrowsOn DEF SameList
  <2>9. Far(at[k].db)
    BY <2>1, <2>2, <2>5, <2>8 DEF Done
  <2>10. QED
    BY <2>9
<1> HIDE DEF H
<1>5. n \in H
  BY <1>1, <1>3, <1>4, Climb
<1>6. QED
  BY <1>2, <1>5 DEF H

LEMMA SnippetsImportGrows ==
  ASSUME NEW d, NEW once, GoodTables(d, once), NEW count \in Nat
  PROVE  Grows(d, SnippetsImport(d, count).db) /\ SameList(d, SnippetsImport(d, count).db)
<1> DEFINE s == Counting(count)
           n == Len(s)
<1>1. n \in Nat /\ DOMAIN s = 1 .. n
  BY CountingSeq
<1>2. PICK at : Chain(at, "snippets", {}, Done(d), s, n) /\ SnippetsImport(d, count) = at[n]
  BY <1>1, SnippetsFold
<1> HIDE DEF s, n
<1> DEFINE Far(e) == GoodTables(e, once) /\ Grows(d, e) /\ SameList(d, e)
           H == {k \in 0 .. n : Far(at[k].db)}
<1>3. 0 \in H
  <2>1. TablesTyped(d) /\ at[0].db = d
    BY <1>2 DEF GoodTables, Chain, Done
  <2>2. QED
    BY <1>1, <2>1, NothingGrows
<1>4. ASSUME NEW k \in 1 .. n, k - 1 \in H PROVE k \in H
  <2> DEFINE r == at[k - 1]
             made == SnippetsCreate(r.db, TRUE, None)
  <2>1. at[k] = made
    BY <1>2 DEF Chain, StepOf
  <2>2. Far(r.db) /\ None \in Nat
    BY <1>4 DEF None
  <2> HIDE DEF r
  <2>3. GoodTables(made.db, once)
    BY <2>2, SnippetsCreateGood
  <2>4. TablesTyped(d) /\ TablesTyped(r.db) /\ TablesTyped(made.db)
    BY <2>2, <2>3 DEF GoodTables
  <2>5. Grows(r.db, made.db) /\ SameList(r.db, made.db)
    BY <2>4, SnippetsGrow
  <2> HIDE DEF made
  <2>6. Far(made.db)
    BY <2>2, <2>3, <2>4, <2>5, GrowsOn DEF SameList
  <2>7. QED
    BY <2>1, <2>6
<1> HIDE DEF H
<1>5. n \in H
  BY <1>1, <1>3, <1>4, Climb
<1>6. QED
  BY <1>2, <1>5 DEF H

(* A folder path ends in a group that is there.                            *)
PathAnswer(d, r) == Grows(d, r.db) /\ Names_(r.db.groups, r.id) /\ r.db.sessions = d.sessions

LEMMA EnteredGrows ==
  ASSUME NEW d, TablesTyped(d), NEW r, TablesTyped(r.db), PathAnswer(d, r), NEW name,
         NEW e, e = StepOf("path", {}, r, name), TablesTyped(e.db)
  PROVE  PathAnswer(d, e)
<1> DEFINE F == {g \in DOMAIN r.db.groups : r.db.groups[g].name = name /\ r.db.groups[g].parent = r.id}
           there == First(F)
           made == GroupsCreate(r.db, name, r.id)
<1>1. e = IF there # None THEN [id |-> there, db |-> r.db] ELSE made
  BY DEF StepOf, Find, First
<1>2. there # None => there \in DOMAIN r.db.groups
  <2>1. F \subseteq Nat \ {0}
    BY TableNames DEF TablesTyped
  <2>2. QED
    BY <2>1, FirstFound
<1> HIDE DEF there
<1>3. Grows(r.db, made.db) /\ made.id \in DOMAIN made.db.groups
  BY GroupsCreateGrows DEF PathAnswer, AllOrNothing
<1>a. made.db.sessions = r.db.sessions
  BY GroupsKeepSessions
<1> HIDE DEF made
<1>4. CASE there # None
  BY <1>1, <1>2, <1>4 DEF PathAnswer, Names_
<1>5. CASE there = None
  <2>1. e = made
    BY <1>1, <1>5
  <2>2. Grows(d, e.db)
    BY <1>3, <2>1, GrowsOn DEF PathAnswer
  <2>3. QED
    BY <1>3, <1>a, <2>1, <2>2 DEF PathAnswer, Names_
<1>6. QED
  BY <1>4, <1>5

LEMMA PathGrows ==
  ASSUME NEW d, NEW once, GoodTables(d, once), NEW path \in Seq(Names)
  PROVE  PathAnswer(d, ResolveGroupPath(d, path))
<1> DEFINE n == Len(path)
           base == [id |-> None, db |-> d]
<1>1. n \in Nat /\ DOMAIN path = 1 .. n /\ \A i \in 1 .. n : path[i] \in Names
  OBVIOUS
<1>2. PICK at : Chain(at, "path", {}, base, path, n) /\ ResolveGroupPath(d, path) = at[n]
  BY <1>1, PathFold
<1>a. TablesTyped(d)
  BY DEF GoodTables
<1>b. GoodAnswer(base, once) /\ PathAnswer(d, base)
  BY <1>a, NothingGrows DEF GoodAnswer, PathAnswer, Names_, None
<1> HIDE DEF n, base
<1> DEFINE H == {k \in 0 .. n : GoodAnswer(at[k], once) /\ PathAnswer(d, at[k])}
<1>3. 0 \in H
  BY <1>1, <1>2, <1>b DEF Chain
<1>4. ASSUME NEW k \in 1 .. n, k - 1 \in H PROVE k \in H
  <2> DEFINE r == at[k - 1]
             e == at[k]
  <2>1. e = StepOf("path", {}, r, path[k]) /\ path[k] \in Names
    BY <1>1, <1>2 DEF Chain
  <2>2. GoodAnswer(r, once) /\ PathAnswer(d, r)
    BY <1>4
  <2> HIDE DEF r, e
  <2>3. GoodAnswer(e, once)
    BY <2>1, <2>2, GroupEntered
  <2>4. TablesTyped(r.db) /\ TablesTyped(e.db)
    BY <2>2, <2>3 DEF GoodAnswer, GoodTables
  <2>5. PathAnswer(d, e)
    BY <1>a, <2>1, <2>2, <2>4, EnteredGrows
  <2>6. QED
    BY <2>3, <2>5 DEF e
<1> HIDE DEF H
<1>5. n \in H
  BY <1>1, <1>3, <1>4, Climb
<1>6. QED
  BY <1>2, <1>5 DEF H

(* The keys of a batch are in the vault.                                   *)
KeysAnswer(d, r) == Grows(d, r.db) /\ SameList(d, r.db) /\ \A p \in DOMAIN r.ids : Names_(r.db["keys"], r.ids[p])

LEMMA NotedGrows ==
  ASSUME NEW d, TablesTyped(d), NEW r, TablesTyped(r.db), KeysAnswer(d, r), NEW fs, NEW located, NEW input,
         NEW e, e = StepOf("keys", [files |-> fs, located |-> located], r, input), TablesTyped(e.db)
  PROVE  KeysAnswer(d, e)
<1> DEFINE path == input.keyPath
           got == ResolveKeyToVault(r.db, fs, path, located)
           ids == Patched(r.ids, Single(path, got.id))
<1>1. e = IF path \in {NoText} \cup DOMAIN r.ids THEN r ELSE [ids |-> ids, db |-> got.db]
  BY DEF StepOf
<1>2. KeyAnswer(r.db, got)
  BY ResolvedGrows
<1>3. \A p \in DOMAIN ids : IF p \in DOMAIN r.ids THEN ids[p] = r.ids[p] ELSE ids[p] = got.id
  BY DEF Patched, Single
<1> HIDE DEF got, ids, path
<1>4. CASE path \in {NoText} \cup DOMAIN r.ids
  BY <1>1, <1>4
<1>5. CASE path \notin {NoText} \cup DOMAIN r.ids
  <2>1. e.ids = ids /\ e.db = got.db
    BY <1>1, <1>5
  <2>2. Grows(r.db, e.db) /\ Names_(e.db["keys"], got.id)
    BY <1>2, <2>1 DEF KeyAnswer
  <2>3. Grows(d, e.db)
    BY <2>2, GrowsOn DEF KeysAnswer
  <2>4. \A p \in DOMAIN ids : Names_(e.db["keys"], ids[p])
    BY <1>3, <2>2 DEF KeysAnswer, Names_, Grows, UserTables
  <2>5. SameList(d, e.db)
    BY <1>2, <2>1 DEF KeyAnswer, KeysAnswer, SameList
  <2>6. QED
    BY <2>1, <2>3, <2>4, <2>5 DEF KeysAnswer
<1>6. QED
  BY <1>4, <1>5

LEMMA KeysGrow ==
  ASSUME NEW d, NEW once, GoodTables(d, once), NEW fs, FilesTyped(fs), NEW located,
         NEW inputs \in Seq(InputRows)
  PROVE  KeysAnswer(d, ResolveKeys(d, fs, inputs, located))
<1> DEFINE n == Len(inputs)
           base == [ids |-> <<>>, db |-> d]
           par == [files |-> fs, located |-> located]
<1>1. n \in Nat /\ DOMAIN inputs = 1 .. n /\ \A i \in 1 .. n : inputs[i] \in InputRows
  OBVIOUS
<1>2. PICK at : Chain(at, "keys", par, base, inputs, n) /\ ResolveKeys(d, fs, inputs, located) = at[n]
  BY <1>1, KeysFold
<1>a. TablesTyped(d)
  BY DEF GoodTables
<1>b. GoodKeys(base, inputs, 0, once) /\ KeysAnswer(d, base)
  <2>1. base.db = d /\ base.ids = <<>> /\ DOMAIN <<>> = {}
    OBVIOUS
  <2> HIDE DEF base
  <2>2. QED
    BY <1>a, <2>1, NothingGrows DEF GoodKeys, KeysAnswer
<1>c. \A i \in 1 .. n : inputs[i].keyPath \in Paths
  BY <1>1 DEF InputRows
<1> HIDE DEF n, base
<1> DEFINE H == {k \in 0 .. n : GoodKeys(at[k], inputs, k, once) /\ KeysAnswer(d, at[k])}
<1>3. 0 \in H
  BY <1>1, <1>2, <1>b DEF Chain
<1>4. ASSUME NEW k \in 1 .. n, k - 1 \in H PROVE k \in H
  <2> DEFINE r == at[k - 1]
             e == at[k]
  <2>1. e = StepOf("keys", par, r, inputs[k]) /\ inputs[k].keyPath \in Paths /\ k \in Nat \ {0}
    BY <1>1, <1>2, <1>c DEF Chain
  <2>2. GoodKeys(r, inputs, k - 1, once) /\ KeysAnswer(d, r)
    BY <1>4
  <2> HIDE DEF r, e
  <2>3. GoodKeys(e, inputs, k, once)
    BY <2>1, <2>2, KeyNoted
  <2>4. TablesTyped(r.db) /\ TablesTyped(e.db)
    BY <2>2, <2>3 DEF GoodKeys, GoodTables
  <2>5. KeysAnswer(d, e)
    BY <1>a, <2>1, <2>2, <2>4, NotedGrows
  <2>6. QED
    BY <2>3, <2>5 DEF e
<1> HIDE DEF H
<1>5. n \in H
  BY <1>1, <1>3, <1>4, Climb
<1>6. QED
  BY <1>2, <1>5 DEF H

(* A session that is added names a group and a key that are there, unless  *)
(* its input brought ids of its own.                                       *)
AddAnswer(d, r) == Grows(d, r.db) /\ {"ok", "db"} \subseteq DOMAIN r

LEMMA RowColumnsKept ==
  ASSUME NEW input \in InputRows, NEW g \in Nat
  PROVE  LET row == [Row(input) EXCEPT !.group = g, !.password = FALSE]
         IN  row.group = g /\ row.key = input.key /\ row.jump = input.jump /\ row.protocol \in Protocols
<1>1. Row(input) \in SessionRows
  BY RowTyped
<1>2. Row(input).key = input.key /\ Row(input).jump = input.jump
  BY BlankColumns DEF Row, Columns
<1>3. QED
  BY <1>1, <1>2 DEF SessionRows

LEMMA WithKeyKept ==
  ASSUME NEW input \in InputRows, NEW ids
  PROVE  LET keyed == WithKey(input, ids)
         IN  /\ keyed.group = input.group /\ keyed.jump = input.jump
             /\ keyed.key = input.key \/ (input.keyPath # NoText /\ keyed.key = ids[input.keyPath])
<1>1. QED
  BY DEF WithKey, InputRows

LEMMA PlacedGrows ==
  ASSUME NEW d, NEW once, GoodTables(d, once), NEW keyed \in InputRows
  PROVE  /\ GoodAnswer(Place(d, keyed), once) /\ Grows(d, Place(d, keyed).db)
         /\ keyed.group = None => Names_(Place(d, keyed).db.groups, Place(d, keyed).id)
         /\ Place(d, keyed).db.sessions = d.sessions
<1> DEFINE p == ResolveGroupPath(d, keyed.groupPath)
           q == [id |-> keyed.group, db |-> d]
<1>1. keyed.group \in Nat /\ keyed.groupPath \in Seq(Names)
  BY InputColumns
<1>2. GoodAnswer(p, once) /\ PathAnswer(d, p)
  BY <1>1, PathGood, PathGrows
<1>3. TablesTyped(d) /\ q.id = keyed.group /\ q.db = d
  BY DEF GoodTables
<1>4. Place(d, keyed) = p \/ Place(d, keyed) = q
  BY DEF Place
<1> HIDE DEF p, q
<1>5. GoodAnswer(q, once) /\ Grows(d, q.db) /\ (keyed.group = None => Names_(q.db.groups, q.id))
  BY <1>1, <1>3, NothingGrows DEF GoodAnswer, Names_
<1>6. CASE Place(d, keyed) = p
  BY <1>2, <1>6 DEF PathAnswer
<1>7. CASE Place(d, keyed) = q
  BY <1>3, <1>5, <1>7
<1>8. QED
  BY <1>4, <1>6, <1>7

LEMMA AddedGrows ==
  ASSUME NEW d, TablesTyped(d), NEW acc, NEW once, GoodTables(acc.db, once), AddAnswer(d, acc), NEW existing,
         NEW keyed \in InputRows
  PROVE  LET e == AddSession(acc, existing, keyed)
         IN  /\ AddAnswer(d, e)
             /\ /\ acc.ok = TRUE /\ keyed.group = None /\ keyed.jump = None /\ Names_(d["keys"], keyed.key)
                => e.ok = TRUE
<1> DEFINE placed == Place(acc.db, keyed)
           row == [Row(keyed) EXCEPT !.group = placed.id, !.password = FALSE]
           made == SessionsCreate(placed.db, row)
           e == AddRow(acc, existing, placed.db, row)
           loose == keyed.group = None /\ keyed.jump = None /\ Names_(d["keys"], keyed.key)
<1>1. /\ GoodAnswer(placed, once) /\ Grows(acc.db, placed.db)
      /\ keyed.group = None => Names_(placed.db.groups, placed.id)
  BY PlacedGrows
<1> HIDE DEF placed
<1>2. TablesTyped(acc.db) /\ TablesTyped(placed.db) /\ placed.id \in Nat
  BY <1>1 DEF GoodAnswer, GoodTables
<1>3. row.group = placed.id /\ row.key = keyed.key /\ row.jump = keyed.jump /\ row.protocol \in Protocols
  BY <1>2, RowColumnsKept
<1>4. row \in SessionRows
  <2>1. Row(keyed) \in SessionRows
    BY RowTyped
  <2>2. QED
    BY <1>2, <2>1 DEF SessionRows
<1> HIDE DEF row
<1>5. Grows(d, placed.db)
  BY <1>1, <1>2, GrowsOn DEF AddAnswer
<1>6. Grows(placed.db, made.db) /\ (Fits(placed.db, row) => made.ok = TRUE)
  BY <1>2, SessionsCreateGrows DEF AllOrNothing
<1>7. GoodTables(made.db, once)
  BY <1>1, <1>4, SessionsCreateGood DEF GoodAnswer
<1> HIDE DEF made
<1>8. Grows(d, made.db)
  <2>1. TablesTyped(made.db)
    BY <1>7 DEF GoodTables
  <2>2. QED
    BY <1>2, <1>5, <1>6, <2>1, GrowsOn
<1>9. loose => Fits(placed.db, row)
  BY <1>1, <1>3, <1>5 DEF Fits, Names_, Grows, UserTables
<1>10. AddAnswer(d, e) /\ (acc.ok = TRUE /\ loose => e.ok = TRUE)
  <2>1. CASE \E x \in DOMAIN existing : SameSession(existing[x], row)
    <3>1. e = [acc EXCEPT !.db = placed.db]
      BY <2>1 DEF AddRow
    <3> HIDE DEF e, loose
    <3>2. e.db = placed.db /\ e.ok = acc.ok /\ DOMAIN e = DOMAIN acc
      BY <3>1 DEF AddAnswer
    <3>3. QED
      BY <1>5, <3>2 DEF AddAnswer
  <2>2. CASE ~ \E x \in DOMAIN existing : SameSession(existing[x], row)
    <3>1. e = Counted(acc, made)
      BY <2>2 DEF AddRow, made
    <3> HIDE DEF e, loose
    <3>2. e.db = made.db /\ e.ok = made.ok /\ {"ok", "db"} \subseteq DOMAIN e
      BY <3>1 DEF Counted
    <3>3. QED
      BY <1>6, <1>8, <1>9, <3>2 DEF AddAnswer
  <2>3. QED
    BY <2>1, <2>2
<1>11. AddSession(acc, existing, keyed) = IF acc.ok THEN e ELSE acc
  BY DEF AddSession, AddPlaced, e, row, placed
<1> HIDE DEF e
<1>12. QED
  BY <1>10, <1>11

LEMMA AddAllGrows ==
  ASSUME NEW d, TablesTyped(d), NEW existing, NEW once, NEW inputs \in Seq(InputRows), NEW keys,
         GoodKeys(keys, inputs, Len(inputs), once), KeysAnswer(d, keys)
  PROVE  /\ Grows(d, AddAll(existing, inputs, keys).db)
         /\ Loose(inputs) => AddAll(existing, inputs, keys).ok = TRUE
<1> DEFINE n == Len(inputs)
           base == [ok |-> TRUE, made |-> 0, db |-> keys.db]
           par == [existing |-> existing, ids |-> keys.ids]
<1>1. n \in Nat /\ DOMAIN inputs = 1 .. n /\ \A i \in 1 .. n : inputs[i] \in InputRows
  OBVIOUS
<1>2. PICK at : Chain(at, "add", par, base, inputs, n) /\ AddAll(existing, inputs, keys) = at[n]
  BY <1>1, AddFold
<1>0. GoodTables(keys.db, once) /\ TablesTyped(keys.db)
  BY DEF GoodKeys, GoodTables
<1>a. base.db = keys.db /\ base.ok = TRUE /\ {"ok", "db"} \subseteq DOMAIN base
  OBVIOUS
<1>b. par.existing = existing /\ par.ids = keys.ids
  OBVIOUS
<1>c. \A i \in 1 .. n : inputs[i].keyPath = NoText
                        \/ (keys.ids[inputs[i].keyPath] \in Nat /\ Names_(keys.db["keys"], keys.ids[inputs[i].keyPath]))
  BY DEF GoodKeys, KeysAnswer
<1> HIDE DEF n, base, par
<1> DEFINE Far(r) == GoodTables(r.db, once) /\ AddAnswer(keys.db, r) /\ (Loose(inputs) => r.ok = TRUE)
           H == {k \in 0 .. n : Far(at[k])}
<1>3. 0 \in H
  <2>1. at[0] = base
    BY <1>2 DEF Chain
  <2>2. QED
    BY <1>0, <1>1, <1>a, <2>1, NothingGrows DEF AddAnswer
<1>4. ASSUME NEW k \in 1 .. n, k - 1 \in H PROVE k \in H
  <2> DEFINE x == inputs[k]
             keyed == WithKey(x, keys.ids)
             r == at[k - 1]
             e == at[k]
  <2>1. e = AddSession(r, existing, keyed)
    BY <1>2, <1>b DEF Chain, StepOf
  <2>2. x \in InputRows /\ keyed \in InputRows
    BY <1>1, <1>c, Keyed
  <2>3. /\ keyed.group = x.group /\ keyed.jump = x.jump
        /\ keyed.key = x.key \/ (x.keyPath # NoText /\ keyed.key = keys.ids[x.keyPath])
    BY <2>2, WithKeyKept
  <2>a. x.keyPath = NoText \/ Names_(keys.db["keys"], keys.ids[x.keyPath])
    BY <1>c
  <2>b. Loose(inputs) => LooseInput(x)
    BY <1>1 DEF Loose
  <2>4. Far(r)
    BY <1>4
  <2> HIDE DEF keyed, r, e, x
  <2>5. GoodTables(e.db, once)
    BY <2>1, <2>2, <2>4, AddedGood
  <2>6. /\ AddAnswer(keys.db, e)
        /\ r.ok = TRUE /\ keyed.group = None /\ keyed.jump = None /\ Names_(keys.db["keys"], keyed.key) => e.ok = TRUE
    BY <1>0, <2>1, <2>2, <2>4, AddedGrows
  <2>7. Loose(inputs) => keyed.group = None /\ keyed.jump = None /\ Names_(keys.db["keys"], keyed.key)
    BY <2>3, <2>a, <2>b DEF LooseInput, Names_
  <2>8. Far(e)
    BY <2>4, <2>5, <2>6, <2>7
  <2>9. QED
    BY <2>8 DEF e
<1> HIDE DEF H
<1>5. n \in H
  BY <1>1, <1>3, <1>4, Climb
<1>6. Far(AddAll(existing, inputs, keys))
  BY <1>2, <1>5 DEF H
<1> DEFINE all == AddAll(existing, inputs, keys)
<1> HIDE DEF all
<1>7. TablesTyped(all.db) /\ Grows(keys.db, all.db) /\ (Loose(inputs) => all.ok = TRUE)
  BY <1>6 DEF GoodTables, AddAnswer, all
<1>8. Grows(d, keys.db)
  BY DEF KeysAnswer
<1>9. QED
  BY <1>0, <1>7, <1>8, GrowsOn DEF all

(* A commit takes no row away, and one of a foreign document is never      *)
(* refused.                                                                *)
LEMMA CommitGrows ==
  ASSUME NEW d, NEW once, GoodTables(d, once), NEW fs, FilesTyped(fs), NEW located,
         NEW inputs \in Seq(InputRows)
  PROVE  /\ Grows(d, Commit(d, fs, inputs, located).db)
         /\ Loose(inputs) => Commit(d, fs, inputs, located).ok = TRUE
<1> DEFINE keys == ResolveKeys(d, fs, inputs, located)
<1>1. GoodKeys(keys, inputs, Len(inputs), once) /\ KeysAnswer(d, keys) /\ TablesTyped(d)
  BY KeysGood, KeysGrow DEF GoodTables
<1> HIDE DEF keys
<1>2. Grows(d, AddAll(d.sessions, inputs, keys).db) /\ (Loose(inputs) => AddAll(d.sessions, inputs, keys).ok = TRUE)
  BY <1>1, AddAllGrows
<1>3. QED
  BY <1>2 DEF Commit, keys

-----------------------------------------------------------------------------
(* What a deletion takes.                                                  *)

(* Nothing lies under a group that is not there.                           *)
LEMMA UnderNamed ==
  ASSUME NEW d, TablesTyped(d), RowsResolve(d), NEW id, Under(d, id) # {}
  PROVE  id \in DOMAIN d.groups
<1> DEFINE inside == CHOOSE f : f = [g \in DOMAIN d.groups |->
                       g = id \/ (d.groups[g].parent # None /\ f[d.groups[g].parent])]
<1>a. PICK h : IsInside(h, d, id)
  BY InsideExists
<1>1. inside = [g \in DOMAIN d.groups |->
                       g = id \/ (d.groups[g].parent # None /\ inside[d.groups[g].parent])]
  BY <1>a DEF IsInside
<1>2. Under(d, id) = {g \in DOMAIN d.groups : inside[g]}
  BY DEF Under
<1> HIDE DEF inside
<1>3. DOMAIN d.groups \subseteq Nat
  BY TableNames DEF TablesTyped
<1>4. \A g \in DOMAIN d.groups : /\ d.groups[g].parent # None => d.groups[g].parent \in DOMAIN d.groups
                                 /\ d.groups[g].parent < g
  BY DEF RowsResolve, Names_
<1>5. PICK g \in Under(d, id) : \A k \in Under(d, id) : g <= k
  <2>1. Under(d, id) \subseteq Nat
    BY <1>2, <1>3
  <2>2. QED
    BY <2>1, Least
<1>6. g \in DOMAIN d.groups /\ inside[g]
  BY <1>2
<1>7. inside[g] = (g = id \/ (d.groups[g].parent # None /\ inside[d.groups[g].parent]))
  BY <1>1, <1>6
<1>8. CASE g = id
  BY <1>6, <1>8
<1>9. CASE d.groups[g].parent # None /\ inside[d.groups[g].parent]
  <2> DEFINE p == d.groups[g].parent
  <2>1. p \in DOMAIN d.groups /\ p < g /\ inside[p]
    BY <1>4, <1>6, <1>9
  <2> HIDE DEF p
  <2>2. p \in Under(d, id) /\ p \in Nat /\ g \in Nat
    BY <1>2, <1>3, <1>6, <2>1
  <2>3. g <= p
    BY <1>5, <2>2
  <2>4. QED
    BY <2>1, <2>2, <2>3
<1>10. QED
  BY <1>6, <1>7, <1>8, <1>9

(* The rows a deletion takes, and the counters it leaves alone.            *)
LEMMA SessionsDeleteTakes ==
  ASSUME NEW d, TablesTyped(d), NEW id
  PROVE  LET e == SessionsDelete(d, id).db
         IN  /\ DOMAIN d.sessions \ DOMAIN e.sessions \subseteq {id}
             /\ e.groups = d.groups /\ e.keys = d.keys /\ e.next = d.next
             /\ SessionsDelete(d, id).ok \/ e = d
<1> DEFINE e == SessionsDelete(d, id).db
<1>1. CASE \E s \in DOMAIN d.sessions \ {id} : d.sessions[s].jump = id
  BY <1>1 DEF SessionsDelete, Refused
<1>2. CASE ~ \E s \in DOMAIN d.sessions \ {id} : d.sessions[s].jump = id
  <2>1. /\ SessionsDelete(d, id).ok = TRUE
        /\ e = [d EXCEPT !.sessions = Without(@, {id}),
                         !.snippets = Without(@, {i \in DOMAIN @ : @[i].session = id}),
                         !.tunnels = Without(@, {i \in DOMAIN @ : @[i].session = id})]
    BY <1>2 DEF SessionsDelete, Done
  <2>2. DOMAIN d = Tables \cup {"next"}
    BY DEF TablesTyped
  <2>3. /\ e.sessions = Without(d.sessions, {id})
        /\ e.groups = d.groups /\ e.keys = d.keys /\ e.next = d.next
    BY <2>1, <2>2 DEF Tables
  <2>4. DOMAIN e.sessions = DOMAIN d.sessions \ {id}
    BY <2>3 DEF Without
  <2>5. QED
    BY <2>1, <2>3, <2>4
<1>3. QED
  BY <1>1, <1>2

LEMMA GroupsDeleteTakes ==
  ASSUME NEW d, TablesTyped(d), NEW id
  PROVE  LET e == GroupsDelete(d, id).db
         IN  /\ DOMAIN e.sessions = DOMAIN d.sessions
             /\ DOMAIN d.groups \ DOMAIN e.groups \subseteq Under(d, id)
             /\ e.keys = d.keys /\ e.next = d.next
             /\ GroupsDelete(d, id).ok = TRUE
<1> DEFINE gone == Under(d, id)
           freed == [s \in DOMAIN d.sessions |-> IF d.sessions[s].group \in gone
                                                 THEN [d.sessions[s] EXCEPT !.group = None] ELSE d.sessions[s]]
           e == GroupsDelete(d, id).db
<1>1. GroupsDelete(d, id).ok = TRUE /\ e = [d EXCEPT !.groups = Without(d.groups, gone), !.sessions = freed]
  BY DEF GroupsDelete, Done
<1>2. DOMAIN freed = DOMAIN d.sessions
  OBVIOUS
<1> HIDE DEF freed, gone, e
<1>3. DOMAIN d = Tables \cup {"next"}
  BY DEF TablesTyped
<1>4. /\ e.sessions = freed /\ e.groups = Without(d.groups, gone)
      /\ e.keys = d.keys /\ e.next = d.next
  BY <1>1, <1>3 DEF Tables
<1>5. DOMAIN e.groups = DOMAIN d.groups \ gone
  BY <1>4 DEF Without
<1>6. QED
  BY <1>1, <1>2, <1>4, <1>5 DEF e, gone

LEMMA KeysDeleteTakes ==
  ASSUME NEW d, TablesTyped(d), NEW id
  PROVE  LET e == KeysDelete(d, id).db
         IN  /\ DOMAIN e.sessions = DOMAIN d.sessions /\ DOMAIN e.keys = DOMAIN d.keys \ {id}
             /\ e.groups = d.groups /\ e.next = d.next
             /\ \A s \in DOMAIN d.sessions :
                   e.sessions[s] = IF d.sessions[s].key = id /\ id # None
                                   THEN [d.sessions[s] EXCEPT !.key = None] ELSE d.sessions[s]
<1> DEFINE e == KeysDelete(d, id).db
           freed == [s \in DOMAIN d.sessions |-> IF d.sessions[s].key = id /\ id # None
                                                  THEN [d.sessions[s] EXCEPT !.key = None] ELSE d.sessions[s]]
<1>1. e = [d EXCEPT !.keys = Without(d.keys, {id}), !.sessions = freed]
  BY DEF KeysDelete, Done
<1>2. DOMAIN d = Tables \cup {"next"}
  BY DEF TablesTyped
<1>3. DOMAIN freed = DOMAIN d.sessions /\ \A s \in DOMAIN d.sessions :
                   freed[s] = IF d.sessions[s].key = id /\ id # None
                              THEN [d.sessions[s] EXCEPT !.key = None] ELSE d.sessions[s]
  OBVIOUS
<1> HIDE DEF freed, e
<1>4. e.sessions = freed /\ e.keys = Without(d.keys, {id}) /\ e.groups = d.groups /\ e.next = d.next
  BY <1>1, <1>2 DEF Tables
<1>5. DOMAIN e.keys = DOMAIN d.keys \ {id}
  BY <1>4 DEF Without
<1>6. QED
  BY <1>3, <1>4, <1>5 DEF e

-----------------------------------------------------------------------------
(* Lists of sessions and groups.                                           *)

(* Every session hangs in the tree.                                        *)
Hangs(c) ==
  /\ \A s \in DOMAIN c.sessions : Names_(c.groups, c.sessions[s].group)
  /\ \A g \in DOMAIN c.groups : Names_(c.groups, c.groups[g].parent)

LoadHangs(l, d) == (l.read = 1 => l.sessions = d.sessions) /\ (l.read = 2 => Hangs(l))

RowWith(row, k) == [row EXCEPT !.key = k]
ShownIn(rows, ks) == [s \in DOMAIN rows |-> RowWith(rows[s], IF rows[s].key \in ks THEN rows[s].key ELSE None)]

LoadFresh(l, d) == (l.read >= 1 => l.sessions = d.sessions) /\ (l.read = 2 => l.groups = d.groups)

LEMMA RowWithFacts ==
  ASSUME NEW row \in SessionRows
  PROVE  /\ \A k : RowWith(row, k).key = k
         /\ \A k, l : RowWith(RowWith(row, k), l) = RowWith(row, l)
         /\ RowWith(row, row.key) = row
         /\ row.key \in Nat
<1>1. "key" \in DOMAIN row /\ row.key \in Nat /\ row = [c \in DOMAIN row |-> row[c]]
  BY DEF SessionRows
<1>2. QED
  BY <1>1 DEF RowWith

(* The tables show themselves.                                             *)
LEMMA TablesShown ==
  ASSUME NEW d, TablesTyped(d), RowsResolve(d), IsTable(d["sessions"])
  PROVE  /\ ShownIn(d.sessions, DOMAIN d.keys) = d.sessions
         /\ \A s \in DOMAIN d.sessions : d.sessions[s].key < d.next["keys"]
         /\ Hangs(d)
<1> DEFINE rows == d.sessions
<1>1. \A s \in DOMAIN rows : rows[s] \in SessionRows /\ (rows[s].key = None \/ rows[s].key \in DOMAIN d.keys)
  BY DEF TablesTyped, RowsResolve, Fits, Names_
<1>2. ASSUME NEW s \in DOMAIN rows
      PROVE  RowWith(rows[s], IF rows[s].key \in DOMAIN d.keys THEN rows[s].key ELSE None) = rows[s]
  <2>1. (IF rows[s].key \in DOMAIN d.keys THEN rows[s].key ELSE None) = rows[s].key
    BY <1>1
  <2>2. QED
    BY <1>1, <2>1, RowWithFacts
<1>3. rows = [s \in DOMAIN rows |-> rows[s]]
  BY DEF IsTable
<1>4. ShownIn(rows, DOMAIN d.keys) = rows
  BY <1>2, <1>3 DEF ShownIn
<1>5. \A s \in DOMAIN rows : rows[s].key < d.next["keys"]
  <2>1. d.next["keys"] \in Nat \ {0} /\ \A k \in DOMAIN d.keys : k < d.next["keys"]
    BY NextKey, TableNames DEF TablesTyped
  <2>2. QED
    BY <1>1, <2>1 DEF None
<1>6. Hangs(d)
  BY DEF RowsResolve, Fits, Hangs
<1>7. QED
  BY <1>4, <1>5, <1>6

(* No key takes the id of one a list still names.                          *)
LEMMA ShownGrows ==
  ASSUME NEW d, TablesTyped(d), NEW e, Grows(d, e), NEW rows, RowsFit(rows),
         \A s \in DOMAIN rows : rows[s].key < d.next["keys"]
  PROVE  ShownIn(rows, DOMAIN e.keys) = ShownIn(rows, DOMAIN d.keys)
<1>1. /\ DOMAIN d["keys"] \subseteq DOMAIN e["keys"] /\ d.next["keys"] \in Nat
      /\ \A k \in DOMAIN e["keys"] \ DOMAIN d["keys"] : d.next["keys"] <= k
  BY NextKey DEF Grows, UserTables
<1>2. ASSUME NEW s \in DOMAIN rows PROVE rows[s].key \in DOMAIN e.keys <=> rows[s].key \in DOMAIN d.keys
  <2> DEFINE k == rows[s].key
  <2>1. k \in Nat /\ k < d.next["keys"]
    BY RowWithFacts DEF RowsFit
  <2> HIDE DEF k
  <2>2. k \in DOMAIN e.keys <=> k \in DOMAIN d.keys
    BY <1>1, <2>1
  <2>3. QED
    BY <2>2 DEF k
<1>3. QED
  BY <1>2 DEF ShownIn

(* A deleted key is taken off the rows as the list takes it off.           *)
LEMMA ShownWithout ==
  ASSUME NEW d, TablesTyped(d), NEW id, NEW rows, RowsFit(rows), ShownIn(rows, DOMAIN d.keys) = d.sessions
  PROVE  LET e == KeysDelete(d, id).db IN ShownIn(rows, DOMAIN e.keys) = e.sessions
<1> DEFINE e == KeysDelete(d, id).db
           kept == DOMAIN d.keys
<1>1. /\ DOMAIN e.sessions = DOMAIN d.sessions /\ DOMAIN e.keys = kept \ {id}
      /\ \A s \in DOMAIN d.sessions :
            e.sessions[s] = IF d.sessions[s].key = id /\ id # None
                            THEN RowWith(d.sessions[s], None) ELSE d.sessions[s]
  BY KeysDeleteTakes DEF RowWith
<1>2. e.sessions = [s \in DOMAIN e.sessions |-> e.sessions[s]]
  BY DEF KeysDelete, Done, TablesTyped, Tables
<1> HIDE DEF e, kept
<1>3. /\ DOMAIN d.sessions = DOMAIN rows
      /\ \A s \in DOMAIN rows : d.sessions[s] = RowWith(rows[s], IF rows[s].key \in kept THEN rows[s].key ELSE None)
  BY DEF ShownIn, kept
<1>4. ASSUME NEW s \in DOMAIN rows
      PROVE  e.sessions[s] = RowWith(rows[s], IF rows[s].key \in kept \ {id} THEN rows[s].key ELSE None)
  <2> DEFINE row == rows[s]
             k == row.key
             was == d.sessions[s]
  <2>1. row \in SessionRows
    BY DEF RowsFit
  <2>2. /\ \A j : RowWith(row, j).key = j
        /\ \A j, l : RowWith(RowWith(row, j), l) = RowWith(row, l)
    BY <2>1, RowWithFacts
  <2>3. was = RowWith(row, IF k \in kept THEN k ELSE None)
    BY <1>3
  <2>4. e.sessions[s] = IF was.key = id /\ id # None THEN RowWith(was, None) ELSE was
    BY <1>1, <1>3
  <2> HIDE DEF row, k, was
  <2>5. e.sessions[s] = RowWith(row, IF k \in kept \ {id} THEN k ELSE None)
    <3>1. CASE k \in kept
      <4>1. was = RowWith(row, k) /\ was.key = k /\ RowWith(was, None) = RowWith(row, None)
        BY <2>2, <2>3, <3>1
      <4>2. CASE k = id
        BY <2>4, <3>1, <4>1, <4>2
      <4>3. CASE k # id
        BY <2>4, <3>1, <4>1, <4>3
      <4>4. QED
        BY <4>2, <4>3
    <3>2. CASE k \notin kept
      <4>1. was = RowWith(row, None) /\ was.key = None
        BY <2>2, <2>3, <3>2
      <4>2. QED
        BY <2>4, <3>2, <4>1
    <3>3. QED
      BY <3>1, <3>2
  <2>6. QED
    BY <2>5 DEF row, k
<1>5. ShownIn(rows, kept \ {id}) = e.sessions
  BY <1>1, <1>2, <1>3, <1>4 DEF ShownIn
<1>6. QED
  BY <1>1, <1>5 DEF e

(* The table of sessions stays a table.                                    *)
LEMMA DeletedTable ==
  ASSUME NEW d, TablesTyped(d), NEW id
  PROVE  /\ IsTable(d["sessions"]) => IsTable(SessionsDelete(d, id).db["sessions"])
         /\ IsTable(GroupsDelete(d, id).db["sessions"])
         /\ IsTable(KeysDelete(d, id).db["sessions"])
<1>1. "sessions" \in DOMAIN d
  BY DEF TablesTyped, Tables
<1>2. IsTable(d["sessions"]) => IsTable(SessionsDelete(d, id).db["sessions"])
  <2>1. CASE \E s \in DOMAIN d.sessions \ {id} : d.sessions[s].jump = id
    BY <2>1 DEF SessionsDelete, Refused
  <2>2. CASE ~ \E s \in DOMAIN d.sessions \ {id} : d.sessions[s].jump = id
    <3>1. SessionsDelete(d, id).db["sessions"] = Without(d["sessions"], {id})
      BY <1>1, <2>2 DEF SessionsDelete, Done
    <3>2. IsTable(Without(d["sessions"], {id}))
      BY DEF Without, IsTable
    <3>3. QED
      BY <3>1, <3>2
  <2>3. QED
    BY <2>1, <2>2
<1>3. IsTable(GroupsDelete(d, id).db["sessions"])
  BY <1>1 DEF GroupsDelete, Done, IsTable
<1>4. IsTable(KeysDelete(d, id).db["sessions"])
  BY <1>1 DEF KeysDelete, Done, IsTable
<1>5. QED
  BY <1>2, <1>3, <1>4

-----------------------------------------------------------------------------
(* No session twice.                                                       *)

Alike(d, e) == \A s \in DOMAIN e.sessions : s \in DOMAIN d.sessions /\ SameSession(e.sessions[s], d.sessions[s])

LEMMA ApartAlike ==
  ASSUME NEW d, NEW e, Alike(d, e), Apart(d.sessions)
  PROVE  Apart(e.sessions)
<1>1. QED
  BY DEF Apart, Alike, SameSession

(* An update writes the columns it is given.                               *)
LEMMA UpdatedRow ==
  ASSUME NEW d, TablesTyped(d), NEW id, NEW patch
  PROVE  LET e == SessionsUpdate(d, id, patch).db
         IN  /\ DOMAIN e.sessions = DOMAIN d.sessions
             /\ \A s \in DOMAIN d.sessions \ {id} : e.sessions[s] = d.sessions[s]
             /\ \/ e.sessions = d.sessions
                \/ /\ id \in DOMAIN d.sessions
                   /\ \A c \in {"name", "protocol", "host", "user"} :
                         e.sessions[id][c] = IF c \in DOMAIN patch THEN patch[c] ELSE d.sessions[id][c]
<1> DEFINE cur == d.sessions[id]
           given == Patched(patch, cur)
           row == [given EXCEPT !.password = cur.password \/ given.password]
           e == SessionsUpdate(d, id, patch).db
<1>1. CASE id \in DOMAIN d.sessions /\ Fits(d, row)
  <2>1. e = [d EXCEPT !["sessions"] = [d["sessions"] EXCEPT ![id] = row]]
    BY <1>1 DEF SessionsUpdate, Done
  <2>2. {"name", "protocol", "host", "user"} \subseteq DOMAIN cur
    BY <1>1 DEF TablesTyped, SessionRows
  <2>3. \A c \in {"name", "protocol", "host", "user"} :
           row[c] = IF c \in DOMAIN patch THEN patch[c] ELSE cur[c]
    BY <2>2 DEF Patched
  <2> HIDE DEF row, e
  <2>4. RowChanged(e, d, "sessions", id, row)
    BY <1>1, <2>1, ChangedRows, TableNames
  <2>5. /\ DOMAIN e.sessions = DOMAIN d.sessions /\ e.sessions[id] = row
        /\ \A s \in DOMAIN d.sessions \ {id} : e.sessions[s] = d.sessions[s]
    BY <2>4 DEF RowChanged
  <2>6. QED
    BY <1>1, <2>3, <2>5 DEF e
<1>2. CASE ~ (id \in DOMAIN d.sessions /\ Fits(d, row))
  <2>1. e = d
    BY <1>2 DEF SessionsUpdate, Refused
  <2>2. QED
    BY <2>1
<1>3. QED
  BY <1>1, <1>2

LEMMA UpdateAlike ==
  ASSUME NEW d, TablesTyped(d), NEW id, NEW patch,
         \A c \in {"name", "protocol", "host", "user"} :
            id \in DOMAIN d.sessions /\ c \in DOMAIN patch => patch[c] = d.sessions[id][c]
  PROVE  Alike(d, SessionsUpdate(d, id, patch).db)
<1> DEFINE e == SessionsUpdate(d, id, patch).db
<1>1. /\ DOMAIN e.sessions = DOMAIN d.sessions
      /\ \A s \in DOMAIN d.sessions \ {id} : e.sessions[s] = d.sessions[s]
      /\ \/ e.sessions = d.sessions
         \/ /\ id \in DOMAIN d.sessions
            /\ \A c \in {"name", "protocol", "host", "user"} :
                  e.sessions[id][c] = IF c \in DOMAIN patch THEN patch[c] ELSE d.sessions[id][c]
  BY UpdatedRow
<1> HIDE DEF e
<1>2. e.sessions = d.sessions \/ (id \in DOMAIN d.sessions => SameSession(e.sessions[id], d.sessions[id]))
  BY <1>1 DEF SameSession
<1>3. \A s \in DOMAIN e.sessions : s \in DOMAIN d.sessions /\ SameSession(e.sessions[s], d.sessions[s])
  BY <1>1, <1>2 DEF SameSession
<1>4. QED
  BY <1>3 DEF Alike, e

(* A form that no other row has the identity of.                           *)
LEMMA UpdateFresh ==
  ASSUME NEW d, TablesTyped(d), Apart(d.sessions), NEW id, NEW form \in SessionRows,
         \A s \in DOMAIN d.sessions \ {id} : ~ SameSession(d.sessions[s], form)
  PROVE  Apart(SessionsUpdate(d, id, form).db.sessions)
<1> DEFINE e == SessionsUpdate(d, id, form).db
<1>1. /\ DOMAIN e.sessions = DOMAIN d.sessions
      /\ \A s \in DOMAIN d.sessions \ {id} : e.sessions[s] = d.sessions[s]
      /\ \/ e.sessions = d.sessions
         \/ \A c \in {"name", "protocol", "host", "user"} :
                  e.sessions[id][c] = IF c \in DOMAIN form THEN form[c] ELSE d.sessions[id][c]
  BY UpdatedRow
<1>2. {"name", "protocol", "host", "user"} \subseteq DOMAIN form
  BY DEF SessionRows
<1> HIDE DEF e
<1>3. e.sessions = d.sessions \/ SameSession(e.sessions[id], form)
  BY <1>1, <1>2 DEF SameSession
<1>4. Apart(e.sessions)
  BY <1>1, <1>3 DEF Apart, SameSession
<1>5. QED
  BY <1>4 DEF e

(* A new row is the only one that was not there.                           *)
LEMMA CreatedRow ==
  ASSUME NEW d, TablesTyped(d), NEW row
  PROVE  LET e == SessionsCreate(d, row).db
         IN  \/ e.sessions = d.sessions
             \/ \E n : /\ n \notin DOMAIN d.sessions /\ DOMAIN e.sessions = DOMAIN d.sessions \cup {n}
                       /\ e.sessions[n] = row /\ \A s \in DOMAIN d.sessions : e.sessions[s] = d.sessions[s]
<1> DEFINE e == SessionsCreate(d, row).db
           n == d.next["sessions"]
<1>1. CASE Fits(d, row)
  <2>1. e = Inserted(d, "sessions", row).db
    BY <1>1 DEF SessionsCreate
  <2>2. RowAdded(e, d, "sessions", row)
    BY <2>1, InsertedRows, TableNames
  <2> HIDE DEF e
  <2>3. /\ n \notin DOMAIN d.sessions /\ DOMAIN e.sessions = DOMAIN d.sessions \cup {n}
        /\ e.sessions[n] = row /\ \A s \in DOMAIN d.sessions : e.sessions[s] = d.sessions[s]
    BY <2>2 DEF RowAdded
  <2>4. QED
    BY <2>3 DEF e
<1>2. CASE ~ Fits(d, row)
  BY <1>2 DEF SessionsCreate, Refused
<1>3. QED
  BY <1>1, <1>2

LEMMA CreateFresh ==
  ASSUME NEW d, TablesTyped(d), Apart(d.sessions), NEW row,
         \A s \in DOMAIN d.sessions : ~ SameSession(d.sessions[s], row)
  PROVE  Apart(SessionsCreate(d, row).db.sessions)
<1> DEFINE e == SessionsCreate(d, row).db
<1>1. \/ e.sessions = d.sessions
      \/ \E n : /\ n \notin DOMAIN d.sessions /\ DOMAIN e.sessions = DOMAIN d.sessions \cup {n}
                /\ e.sessions[n] = row /\ \A s \in DOMAIN d.sessions : e.sessions[s] = d.sessions[s]
  BY CreatedRow
<1> HIDE DEF e
<1>2. Apart(e.sessions)
  BY <1>1 DEF Apart, SameSession
<1>3. QED
  BY <1>2 DEF e

(* An input is added under the identity it came with.                      *)
LEMMA RowAlike ==
  ASSUME NEW input \in InputRows, NEW ids, WithKey(input, ids) \in InputRows, NEW g
  PROVE  SameSession([Row(WithKey(input, ids)) EXCEPT !.group = g, !.password = FALSE], input)
<1> DEFINE keyed == WithKey(input, ids)
<1>1. /\ keyed.name = input.name /\ keyed.protocol = input.protocol
      /\ keyed.host = input.host /\ keyed.user = input.user
  BY DEF WithKey, InputRows
<1> HIDE DEF keyed
<1>2. /\ Row(keyed).name = keyed.name /\ Row(keyed).protocol = keyed.protocol
      /\ Row(keyed).host = keyed.host /\ Row(keyed).user = keyed.user
  BY BlankColumns DEF Row, Columns
<1>3. QED
  BY <1>1, <1>2 DEF SameSession, keyed

(* What a batch has made of its first k inputs: the old rows are there,    *)
(* and each new one comes of an input of its own.                          *)
Added(existing, inputs, k, rows) ==
  /\ \A e \in DOMAIN existing : e \in DOMAIN rows /\ rows[e] = existing[e]
  /\ \A s \in DOMAIN rows \ DOMAIN existing : \E j \in 1 .. k : SameSession(rows[s], inputs[j])
  /\ Apart(rows)

LEMMA AddedOne ==
  ASSUME NEW existing, NEW inputs, NEW k \in Nat \ {0},
         k \in DOMAIN inputs, 1 .. k \subseteq DOMAIN inputs, Apart(inputs),
         NEW rows, Added(existing, inputs, k - 1, rows),
         NEW row, SameSession(row, inputs[k]), \A e \in DOMAIN existing : ~ SameSession(existing[e], row),
         NEW more,
         \/ more = rows
         \/ \E n : /\ n \notin DOMAIN rows /\ DOMAIN more = DOMAIN rows \cup {n}
                   /\ more[n] = row /\ \A s \in DOMAIN rows : more[s] = rows[s]
  PROVE  Added(existing, inputs, k, more)
<1>1. CASE more = rows
  BY <1>1 DEF Added
<1>2. CASE \E n : /\ n \notin DOMAIN rows /\ DOMAIN more = DOMAIN rows \cup {n}
                  /\ more[n] = row /\ \A s \in DOMAIN rows : more[s] = rows[s]
  <2>1. PICK n : /\ n \notin DOMAIN rows /\ DOMAIN more = DOMAIN rows \cup {n}
                 /\ more[n] = row /\ \A s \in DOMAIN rows : more[s] = rows[s]
    BY <1>2
  <2>2. ASSUME NEW s \in DOMAIN rows PROVE ~ SameSession(rows[s], row)
    <3>1. CASE s \in DOMAIN existing
      BY <3>1 DEF Added
    <3>2. CASE s \notin DOMAIN existing
      <4>1. PICK j \in 1 .. (k - 1) : SameSession(rows[s], inputs[j])
        BY <3>2 DEF Added
      <4>2. j # k /\ j \in DOMAIN inputs
        BY <4>1
      <4>3. ~ SameSession(inputs[j], inputs[k])
        BY <4>2 DEF Apart
      <4>4. QED
        BY <4>1, <4>3 DEF SameSession
    <3>3. QED
      BY <3>1, <3>2
  <2>3. Apart(more)
    BY <2>1, <2>2 DEF Added, Apart, SameSession
  <2>4. \A e \in DOMAIN existing : e \in DOMAIN more /\ more[e] = existing[e]
    BY <2>1 DEF Added
  <2>5. \A s \in DOMAIN more \ DOMAIN existing : \E j \in 1 .. k : SameSession(more[s], inputs[j])
    BY <2>1 DEF Added
  <2>6. QED
    BY <2>3, <2>4, <2>5 DEF Added
<1>3. QED
  BY <1>1, <1>2

LEMMA AddedApart ==
  ASSUME NEW existing, NEW once, NEW inputs, NEW k \in Nat \ {0}, k \in DOMAIN inputs, 1 .. k \subseteq DOMAIN inputs,
         Apart(inputs), NEW ids, inputs[k] \in InputRows, WithKey(inputs[k], ids) \in InputRows,
         NEW acc, GoodTables(acc.db, once), {"ok", "db"} \subseteq DOMAIN acc,
         Added(existing, inputs, k - 1, acc.db.sessions)
  PROVE  Added(existing, inputs, k, AddSession(acc, existing, WithKey(inputs[k], ids)).db.sessions)
<1> DEFINE input == inputs[k]
           keyed == WithKey(input, ids)
           placed == Place(acc.db, keyed)
           row == [Row(keyed) EXCEPT !.group = placed.id, !.password = FALSE]
           made == SessionsCreate(placed.db, row)
           e == AddRow(acc, existing, placed.db, row)
           g == placed.id
<1>1. SameSession(row, input)
  <2>1. SameSession([Row(keyed) EXCEPT !.group = g, !.password = FALSE], input)
    <3> HIDE DEF g, input
    <3>1. input \in InputRows /\ WithKey(input, ids) \in InputRows
      BY DEF input
    <3>2. QED
      BY <3>1, RowAlike
  <2>2. QED
    BY <2>1
<1>2. GoodAnswer(placed, once) /\ placed.db.sessions = acc.db.sessions
  BY PlacedGrows
<1> HIDE DEF placed
<1>3. TablesTyped(placed.db)
  BY <1>2 DEF GoodAnswer, GoodTables
<1> HIDE DEF row
<1>4. \/ made.db.sessions = placed.db.sessions
      \/ \E n : /\ n \notin DOMAIN placed.db.sessions /\ DOMAIN made.db.sessions = DOMAIN placed.db.sessions \cup {n}
                /\ made.db.sessions[n] = row
                /\ \A s \in DOMAIN placed.db.sessions : made.db.sessions[s] = placed.db.sessions[s]
  BY <1>3, CreatedRow
<1> HIDE DEF made
<1>5. Added(existing, inputs, k, acc.db.sessions)
  BY DEF Added
<1>6. Added(existing, inputs, k, e.db.sessions)
  <2>1. CASE \E x \in DOMAIN existing : SameSession(existing[x], row)
    <3>1. e = [acc EXCEPT !.db = placed.db]
      BY <2>1 DEF AddRow
    <3>2. e.db = placed.db
      BY <3>1
    <3>3. QED
      BY <1>2, <1>5, <3>2
  <2>2. CASE ~ \E x \in DOMAIN existing : SameSession(existing[x], row)
    <3>1. e.db = made.db
      BY <2>2 DEF AddRow, Counted, made
    <3> DEFINE rows == acc.db.sessions
               more == made.db.sessions
    <3>2. Added(existing, inputs, k - 1, rows)
      OBVIOUS
    <3>3. \/ more = rows
          \/ \E n : /\ n \notin DOMAIN rows /\ DOMAIN more = DOMAIN rows \cup {n}
                    /\ more[n] = row /\ \A s \in DOMAIN rows : more[s] = rows[s]
      BY <1>2, <1>4
    <3>4. SameSession(row, inputs[k])
      BY <1>1
    <3> HIDE DEF rows, more, e
    <3>5. Added(existing, inputs, k, more)
      BY <2>2, <3>2, <3>3, <3>4, AddedOne
    <3>6. QED
      BY <3>1, <3>5 DEF more
  <2>3. QED
    BY <2>1, <2>2
<1>7. AddSession(acc, existing, keyed) = IF acc.ok THEN e ELSE acc
  BY DEF AddSession, AddPlaced, e, row, placed
<1> HIDE DEF e, keyed
<1>8. Added(existing, inputs, k, AddSession(acc, existing, keyed).db.sessions)
  BY <1>5, <1>6, <1>7
<1>9. QED
  BY <1>8 DEF keyed, input

LEMMA CommitApart ==
  ASSUME NEW d, NEW once, GoodTables(d, once), NEW fs, FilesTyped(fs), NEW located,
         NEW inputs \in Seq(InputRows), Apart(inputs), Apart(d.sessions)
  PROVE  Apart(Commit(d, fs, inputs, located).db.sessions)
<1> DEFINE n == Len(inputs)
           keys == ResolveKeys(d, fs, inputs, located)
           existing == d.sessions
           base == [ok |-> TRUE, made |-> 0, db |-> keys.db]
           par == [existing |-> existing, ids |-> keys.ids]
<1>1. n \in Nat /\ DOMAIN inputs = 1 .. n /\ \A i \in 1 .. n : inputs[i] \in InputRows
  OBVIOUS
<1>0. GoodKeys(keys, inputs, Len(inputs), once) /\ KeysAnswer(d, keys)
  BY KeysGood, KeysGrow
<1> HIDE DEF keys
<1>2. PICK at : Chain(at, "add", par, base, inputs, n) /\ AddAll(existing, inputs, keys) = at[n]
  BY <1>1, AddFold
<1>a. base.db = keys.db /\ {"ok", "db"} \subseteq DOMAIN base /\ keys.db.sessions = existing
  BY <1>0 DEF KeysAnswer, SameList
<1>b. par.existing = existing /\ par.ids = keys.ids
  OBVIOUS
<1>c. \A i \in 1 .. n : inputs[i].keyPath = NoText
                        \/ (keys.ids[inputs[i].keyPath] \in Nat /\ Names_(keys.db["keys"], keys.ids[inputs[i].keyPath]))
  BY <1>0 DEF GoodKeys, KeysAnswer
<1>d. GoodTables(keys.db, once) /\ TablesTyped(keys.db)
  BY <1>0 DEF GoodKeys, GoodTables
<1>e. Apart(existing)
  OBVIOUS
<1> HIDE DEF n, base, par, existing
<1> DEFINE Far(r, k) == GoodTables(r.db, once) /\ AddAnswer(keys.db, r) /\ Added(existing, inputs, k, r.db.sessions)
           H == {k \in 0 .. n : Far(at[k], k)}
<1>3. 0 \in H
  <2>1. at[0] = base
    BY <1>2 DEF Chain
  <2>2. Added(existing, inputs, 0, existing)
    BY <1>e DEF Added
  <2>3. QED
    BY <1>d, <1>1, <1>a, <2>1, <2>2, NothingGrows DEF AddAnswer
<1>4. ASSUME NEW k \in 1 .. n, k - 1 \in H PROVE k \in H
  <2> DEFINE x == inputs[k]
             keyed == WithKey(x, keys.ids)
             r == at[k - 1]
             e == at[k]
             ids == keys.ids
  <2>1. e = AddSession(r, existing, keyed)
    BY <1>2, <1>b DEF Chain, StepOf
  <2>2. x \in InputRows /\ keyed \in InputRows
    BY <1>1, <1>c, Keyed
  <2>3. Far(r, k - 1)
    BY <1>4
  <2>4. k \in Nat \ {0} /\ k \in DOMAIN inputs /\ 1 .. k \subseteq DOMAIN inputs
    BY <1>1
  <2> HIDE DEF r, e, ids
  <2>5. Added(existing, inputs, k, AddSession(r, existing, WithKey(inputs[k], ids)).db.sessions)
    <3>1. {"ok", "db"} \subseteq DOMAIN r /\ inputs[k] \in InputRows /\ WithKey(inputs[k], ids) \in InputRows
      BY <2>2, <2>3 DEF AddAnswer, ids
    <3>2. QED
      BY <2>3, <2>4, <3>1, AddedApart
  <2>6. Added(existing, inputs, k, e.db.sessions)
    BY <2>1, <2>5 DEF ids
  <2> HIDE DEF keyed, x
  <2>7. GoodTables(e.db, once)
    BY <2>1, <2>2, <2>3, AddedGood
  <2>8. AddAnswer(keys.db, e)
    BY <1>d, <2>1, <2>2, <2>3, AddedGrows
  <2>9. QED
    BY <2>6, <2>7, <2>8 DEF e
<1> HIDE DEF H
<1>5. n \in H
  BY <1>1, <1>3, <1>4, Climb
<1>6. Apart(AddAll(existing, inputs, keys).db.sessions)
  BY <1>2, <1>5 DEF H, Added
<1>7. QED
  BY <1>6 DEF Commit, keys, existing

-----------------------------------------------------------------------------
(* Importing twice. What an import has put into the tables is found again  *)
(* by the next one.                                                        *)

(* Nothing that was there is another, and what is new came later.          *)
Extends(d, e) ==
  \A t \in UserTables :
     /\ \A i \in DOMAIN d[t] : i \in DOMAIN e[t] /\ e[t][i] = d[t][i]
     /\ \A j \in DOMAIN e[t] \ DOMAIN d[t] : \A i \in DOMAIN d[t] : i < j

LEMMA ExtendsSelf == \A d : Extends(d, d)
<1>1. QED
  BY DEF Extends

LEMMA ExtendsOn ==
  ASSUME NEW d, NEW e, NEW f, Extends(d, e), Extends(e, f)
  PROVE  Extends(d, f)
<1>1. ASSUME NEW t \in UserTables
      PROVE  /\ \A i \in DOMAIN d[t] : i \in DOMAIN f[t] /\ f[t][i] = d[t][i]
             /\ \A j \in DOMAIN f[t] \ DOMAIN d[t] : \A i \in DOMAIN d[t] : i < j
  <2>1. \A i \in DOMAIN d[t] : i \in DOMAIN e[t] /\ e[t][i] = d[t][i]
    BY DEF Extends
  <2>2. \A i \in DOMAIN e[t] : i \in DOMAIN f[t] /\ f[t][i] = e[t][i]
    BY DEF Extends
  <2>3. \A j \in DOMAIN e[t] \ DOMAIN d[t] : \A i \in DOMAIN d[t] : i < j
    BY DEF Extends
  <2>4. \A j \in DOMAIN f[t] \ DOMAIN e[t] : \A i \in DOMAIN e[t] : i < j
    BY DEF Extends
  <2>5. QED
    BY <2>1, <2>2, <2>3, <2>4
<1>2. QED
  BY <1>1 DEF Extends

LEMMA ExtendsInserted ==
  ASSUME NEW d, TablesTyped(d), NEW t \in Tables, NEW row
  PROVE  Extends(d, Inserted(d, t, row).db)
<1> DEFINE e == Inserted(d, t, row).db
           n == d.next[t]
<1>1. RowAdded(e, d, t, row)
  BY InsertedRows
<1>2. n \in Nat \ {0} /\ DOMAIN d[t] \subseteq 1 .. (n - 1)
  BY DEF TablesTyped
<1> HIDE DEF e
<1>3. /\ \A u \in Tables \ {t} : e[u] = d[u]
      /\ DOMAIN e[t] = DOMAIN d[t] \cup {n} /\ \A i \in DOMAIN d[t] : e[t][i] = d[t][i]
  BY <1>1 DEF RowAdded
<1>4. \A i \in DOMAIN d[t] : i < n
  BY <1>2
<1> HIDE DEF n
<1>5. \A u \in UserTables : u \in Tables
  BY DEF UserTables, Tables
<1>6. Extends(d, e)
  BY <1>3, <1>4, <1>5 DEF Extends
<1>7. QED
  BY <1>6 DEF e

(* The key of a file is in the vault, if it can be read.                   *)
Tells(seen, name, row) == IF seen.encrypted THEN row.name = name ELSE row.fp = seen.fp
Held(d, seen, name) == seen.read => \E k \in DOMAIN d["keys"] : Tells(seen, name, d["keys"][k])

LEMMA HeldOn ==
  ASSUME NEW d, NEW e, Extends(d, e), NEW seen, NEW name, Held(d, seen, name)
  PROVE  Held(e, seen, name)
<1>1. \A i \in DOMAIN d["keys"] : i \in DOMAIN e["keys"] /\ e["keys"][i] = d["keys"][i]
  BY DEF Extends, UserTables
<1>2. QED
  BY <1>1 DEF Held

LEMMA KnownKey ==
  ASSUME NEW d, TablesTyped(d), NEW seen, NEW name
  PROVE  LET known == IF seen.encrypted THEN KeysByName(d, name) ELSE KeysByFingerprint(d, seen.fp)
         IN  known # None <=> \E k \in DOMAIN d["keys"] : Tells(seen, name, d["keys"][k])
<1> DEFINE F == {k \in DOMAIN d["keys"] : d["keys"][k].fp = seen.fp}
           N == {k \in DOMAIN d["keys"] : d["keys"][k].name = name}
<1>1. KeysByFingerprint(d, seen.fp) = First(F) /\ KeysByName(d, name) = First(N)
  BY DEF KeysByFingerprint, KeysByName, Find, First
<1>2. F \subseteq Nat \ {0} /\ N \subseteq Nat \ {0}
  BY TableNames DEF TablesTyped
<1>3. (First(F) = None <=> F = {}) /\ (First(N) = None <=> N = {})
  BY <1>2, FirstFound
<1>4. QED
  BY <1>1, <1>3 DEF Tells

LEMMA EnsureHolds ==
  ASSUME NEW d, TablesTyped(d), NEW seen, NEW name
  PROVE  LET r == EnsureKey(d, seen, name)
         IN  /\ Extends(d, r.db) /\ Held(r.db, seen, name)
             /\ r.id = None => r.db = d
             /\ Held(d, seen, name) => r.db = d
<1> DEFINE known == IF seen.encrypted THEN KeysByName(d, name) ELSE KeysByFingerprint(d, seen.fp)
           row == [name |-> name, fp |-> seen.fp]
           made == Inserted(d, "keys", row)
           r == EnsureKey(d, seen, name)
<1>1. known # None <=> \E k \in DOMAIN d["keys"] : Tells(seen, name, d["keys"][k])
  BY KnownKey
<1>2. CASE ~ seen.read
  <2>1. r.db = d
    BY <1>2 DEF EnsureKey
  <2> HIDE DEF r
  <2>2. Extends(d, r.db) /\ Held(r.db, seen, name)
    BY <1>2, <2>1, ExtendsSelf DEF Held
  <2>3. QED
    BY <2>1, <2>2 DEF r
<1>3. CASE seen.read /\ known # None
  <2>1. r.db = d
    BY <1>3 DEF EnsureKey, Keep
  <2> HIDE DEF r
  <2>2. Extends(d, r.db) /\ Held(r.db, seen, name)
    BY <1>1, <1>3, <2>1, ExtendsSelf DEF Held
  <2>3. QED
    BY <2>1, <2>2 DEF r
<1>4. CASE seen.read /\ known = None
  <2>1. r = made
    BY <1>4 DEF EnsureKey, Keep, KeysInsert
  <2>2. made.id \in Nat \ {0}
    BY InsertedId, TableNames
  <2>3. Extends(d, made.db) /\ RowAdded(made.db, d, "keys", row)
    BY ExtendsInserted, InsertedRows, TableNames
  <2>4. row.name = name /\ row.fp = seen.fp
    OBVIOUS
  <2>5. Tells(seen, name, row)
    BY <2>4 DEF Tells
  <2> HIDE DEF made, row, r, known
  <2>6. \E k \in DOMAIN made.db["keys"] : made.db["keys"][k] = row
    BY <2>3 DEF RowAdded
  <2>7. Held(made.db, seen, name)
    BY <2>5, <2>6 DEF Held
  <2>8. ~ Held(d, seen, name)
    BY <1>1, <1>4 DEF Held
  <2>9. QED
    BY <2>1, <2>2, <2>3, <2>7, <2>8 DEF r, None
<1>5. QED
  BY <1>2, <1>3, <1>4

(* What the commit of a batch sees of a key file.                          *)
SeenOf(fs, located, raw) ==
  InspectKeyFile(fs, IF located[raw] # NoText THEN located[raw] ELSE NormalizeKeyPath(fs, raw))
Resolved(d, fs, located, raw) == Held(d, SeenOf(fs, located, raw), BaseOf[raw])

LEMMA ResolvedOn ==
  ASSUME NEW d, NEW e, Extends(d, e), NEW fs, NEW located, NEW raw, Resolved(d, fs, located, raw)
  PROVE  Resolved(e, fs, located, raw)
<1> DEFINE seen == SeenOf(fs, located, raw)
           name == BaseOf[raw]
<1>1. Held(d, seen, name)
  BY DEF Resolved
<1> HIDE DEF seen, name
<1>2. Held(e, seen, name)
  BY <1>1, HeldOn
<1>3. QED
  BY <1>2 DEF Resolved, seen, name

LEMMA ResolvedHolds ==
  ASSUME NEW d, TablesTyped(d), NEW fs, NEW raw, NEW located
  PROVE  LET r == ResolveKeyToVault(d, fs, raw, located)
         IN  /\ Extends(d, r.db) /\ Resolved(r.db, fs, located, raw)
             /\ Resolved(d, fs, located, raw) => r.db = d
<1> DEFINE name == BaseOf[raw]
           seen == SeenOf(fs, located, raw)
           kept == EnsureKey(d, seen, name)
           found == [id |-> KeysByName(d, name), db |-> d]
           r == ResolveKeyToVault(d, fs, raw, located)
<1>1. r = IF kept.id # None THEN kept ELSE found
  BY DEF ResolveKeyToVault, OrByName, EnsureKeyFromFile, SeenOf
<1>2. found.db = d
  OBVIOUS
<1> HIDE DEF seen, name
<1>3. /\ Extends(d, kept.db) /\ Held(kept.db, seen, name)
      /\ kept.id = None => kept.db = d
      /\ Held(d, seen, name) => kept.db = d
  BY EnsureHolds
<1> HIDE DEF kept, found, r
<1>4. r.db = kept.db
  BY <1>1, <1>2, <1>3
<1>5. QED
  BY <1>3, <1>4 DEF Resolved, seen, name, r

(* The keys of a batch, once and again.                                    *)
LEMMA KeysHold ==
  ASSUME NEW d, NEW once, GoodTables(d, once), NEW fs, FilesTyped(fs), NEW located,
         NEW inputs \in Seq(InputRows)
  PROVE  LET r == ResolveKeys(d, fs, inputs, located)
         IN  /\ Extends(d, r.db)
             /\ \A i \in DOMAIN inputs : inputs[i].keyPath = NoText \/ Resolved(r.db, fs, located, inputs[i].keyPath)
             /\ (\A i \in DOMAIN inputs : inputs[i].keyPath = NoText \/ Resolved(d, fs, located, inputs[i].keyPath))
                => r.db = d
<1> DEFINE n == Len(inputs)
           base == [ids |-> <<>>, db |-> d]
           par == [files |-> fs, located |-> located]
           known == \A i \in DOMAIN inputs : inputs[i].keyPath = NoText \/ Resolved(d, fs, located, inputs[i].keyPath)
<1>1. n \in Nat /\ DOMAIN inputs = 1 .. n /\ \A i \in 1 .. n : inputs[i] \in InputRows
  OBVIOUS
<1>2. PICK at : Chain(at, "keys", par, base, inputs, n) /\ ResolveKeys(d, fs, inputs, located) = at[n]
  BY <1>1, KeysFold
<1>a. GoodKeys(base, inputs, 0, once) /\ base.db = d /\ DOMAIN base.ids = {}
  <2>1. base.db = d /\ base.ids = <<>> /\ DOMAIN <<>> = {}
    OBVIOUS
  <2> HIDE DEF base
  <2>2. QED
    BY <2>1 DEF GoodKeys
<1>b. \A i \in 1 .. n : inputs[i].keyPath \in Paths
  BY <1>1 DEF InputRows
<1>c. \A i \in 1 .. n : known => inputs[i].keyPath = NoText \/ Resolved(d, fs, located, inputs[i].keyPath)
  BY <1>1
<1> HIDE DEF n, base, known
<1> DEFINE Far(r, k) == /\ GoodKeys(r, inputs, k, once) /\ Extends(d, r.db)
                        /\ \A p \in DOMAIN r.ids : Resolved(r.db, fs, located, p)
                        /\ known => r.db = d
           H == {k \in 0 .. n : Far(at[k], k)}
<1>3. 0 \in H
  BY <1>1, <1>2, <1>a, ExtendsSelf DEF Chain
<1>4. ASSUME NEW k \in 1 .. n, k - 1 \in H PROVE k \in H
  <2> DEFINE r == at[k - 1]
             e == at[k]
             p == inputs[k].keyPath
             got == ResolveKeyToVault(r.db, fs, p, located)
             ids == Patched(r.ids, Single(p, got.id))
  <2>1. e = StepOf("keys", par, r, inputs[k]) /\ p \in Paths /\ k \in Nat \ {0}
    BY <1>1, <1>2, <1>b DEF Chain
  <2>2. Far(r, k - 1)
    BY <1>4
  <2>3. e = IF p \in {NoText} \cup DOMAIN r.ids THEN r ELSE [ids |-> ids, db |-> got.db]
    BY <2>1 DEF StepOf
  <2>4. DOMAIN ids = DOMAIN r.ids \cup {p}
    BY DEF Patched, Single
  <2>5. known => p = NoText \/ Resolved(d, fs, located, p)
    BY <1>c
  <2> HIDE DEF r, e, p, ids
  <2>6. GoodKeys(e, inputs, k, once)
    BY <2>1, <2>2, KeyNoted DEF p
  <2>7. TablesTyped(r.db)
    BY <2>2 DEF GoodKeys, GoodTables
  <2>8. /\ Extends(r.db, got.db) /\ Resolved(got.db, fs, located, p)
        /\ Resolved(r.db, fs, located, p) => got.db = r.db
    BY <2>7, ResolvedHolds
  <2> HIDE DEF got
  <2>9. CASE p \in {NoText} \cup DOMAIN r.ids
    <3>1. e = r
      BY <2>3, <2>9
    <3>2. Extends(d, e.db) /\ (\A q \in DOMAIN e.ids : Resolved(e.db, fs, located, q)) /\ (known => e.db = d)
      BY <2>2, <3>1
    <3>3. QED
      BY <2>6, <3>2 DEF e
  <2>10. CASE p \notin {NoText} \cup DOMAIN r.ids
    <3>1. e.ids = ids /\ e.db = got.db
      BY <2>3, <2>10
    <3>2. Extends(d, e.db)
      BY <2>2, <2>8, <3>1, ExtendsOn
    <3>3. \A q \in DOMAIN r.ids : Resolved(e.db, fs, located, q)
      BY <2>2, <2>8, <3>1, ResolvedOn
    <3>4. \A q \in DOMAIN e.ids : Resolved(e.db, fs, located, q)
      BY <2>4, <2>8, <3>1, <3>3
    <3>5. known => e.db = d
      BY <2>2, <2>5, <2>8, <2>10, <3>1
    <3>6. QED
      BY <2>6, <3>2, <3>4, <3>5 DEF e
  <2>11. QED
    BY <2>9, <2>10
<1> HIDE DEF H
<1>5. n \in H
  BY <1>1, <1>3, <1>4, Climb
<1>6. Far(ResolveKeys(d, fs, inputs, located), n)
  BY <1>2, <1>5 DEF H
<1> DEFINE all == ResolveKeys(d, fs, inputs, located)
<1> HIDE DEF all
<1>7. /\ Extends(d, all.db) /\ (known => all.db = d)
      /\ \A i \in DOMAIN inputs : inputs[i].keyPath = NoText \/ Resolved(all.db, fs, located, inputs[i].keyPath)
  BY <1>1, <1>6 DEF GoodKeys, all
<1>8. QED
  BY <1>7 DEF all, known

(* A folder path whose groups are there: way names them.                   *)
Leads(d, name, parent, g) ==
  /\ g \in DOMAIN d["groups"] /\ d["groups"][g].name = name /\ d["groups"][g].parent = parent
  /\ \A h \in DOMAIN d["groups"] : d["groups"][h].name = name /\ d["groups"][h].parent = parent => g <= h
Led(d, path, n, way) == way[0] = None /\ \A k \in 1 .. n : Leads(d, path[k], way[k - 1], way[k])
Laid(d, path) == \E way : Led(d, path, Len(path), way)

LEMMA LeadsOn ==
  ASSUME NEW d, NEW e, Extends(d, e), TablesTyped(e), NEW name, NEW parent, NEW g, Leads(d, name, parent, g)
  PROVE  Leads(e, name, parent, g)
<1>1. /\ \A i \in DOMAIN d["groups"] : i \in DOMAIN e["groups"] /\ e["groups"][i] = d["groups"][i]
      /\ \A j \in DOMAIN e["groups"] \ DOMAIN d["groups"] : \A i \in DOMAIN d["groups"] : i < j
  BY DEF Extends, UserTables
<1>2. \A i \in DOMAIN e["groups"] : i \in Nat
  BY TableNames DEF TablesTyped
<1>3. \A h \in DOMAIN e["groups"] : e["groups"][h].name = name /\ e["groups"][h].parent = parent => g <= h
  BY <1>1, <1>2 DEF Leads
<1>4. QED
  BY <1>1, <1>3 DEF Leads

LEMMA LedOn ==
  ASSUME NEW d, NEW e, Extends(d, e), TablesTyped(e), NEW path, NEW n, NEW way, Led(d, path, n, way)
  PROVE  Led(e, path, n, way)
<1>1. ASSUME NEW k \in 1 .. n PROVE Leads(e, path[k], way[k - 1], way[k])
  <2>1. Leads(d, path[k], way[k - 1], way[k])
    BY DEF Led
  <2>2. QED
    BY <2>1, LeadsOn
<1>2. QED
  BY <1>1 DEF Led

(* Entering a group, found or made.                                        *)
LEMMA EnteredLeads ==
  ASSUME NEW d, TablesTyped(d), NEW id, Names_(d.groups, id), NEW name, NEW r, r.id = id, r.db = d,
         NEW e, e = StepOf("path", {}, r, name)
  PROVE  /\ Extends(d, e.db) /\ Leads(e.db, name, id, e.id)
         /\ \A g : Leads(d, name, id, g) => e.db = d /\ e.id = g
<1> DEFINE F == {g \in DOMAIN d["groups"] : d["groups"][g].name = name /\ d["groups"][g].parent = id}
           row == [name |-> name, parent |-> id]
           made == Inserted(d, "groups", row)
           there == First(F)
<1>1. e = IF there # None THEN [id |-> there, db |-> d] ELSE GroupsCreate(d, name, id)
  BY DEF StepOf, Find, First
<1>2. GroupsCreate(d, name, id) = made
  BY DEF GroupsCreate
<1>3. F \subseteq Nat \ {0}
  BY TableNames DEF TablesTyped
<1>4. (there = None <=> F = {}) /\ (F # {} => there \in F)
  BY <1>3, FirstFound
<1>5. CASE F # {}
  <2>1. e.db = d /\ e.id = there
    BY <1>1, <1>4, <1>5
  <2>2. PICK m \in F : \A k \in F : m <= k
    BY <1>3, <1>5, Least
  <2>3. there = Min(F)
    BY <1>5 DEF First
  <2>4. \A x \in F : (\A y \in F : x <= y) => x = m
    BY <1>3, <2>2
  <2>5. there = m
    BY <2>2, <2>3, <2>4 DEF Min
  <2>6. ASSUME NEW g, Leads(d, name, id, g) PROVE g = there
    <3>1. g \in F /\ \A y \in F : g <= y
      BY <2>6 DEF Leads
    <3>2. QED
      BY <2>4, <2>5, <3>1
  <2>7. Leads(d, name, id, there)
    BY <2>2, <2>5 DEF Leads
  <2>8. QED
    BY <2>1, <2>6, <2>7, ExtendsSelf
<1>6. CASE F = {}
  <2>1. e = made
    BY <1>1, <1>2, <1>4, <1>6
  <2>2. Extends(d, made.db) /\ RowAdded(made.db, d, "groups", row)
    BY ExtendsInserted, InsertedRows, TableNames
  <2>3. made.id = d.next["groups"]
    BY DEF Inserted
  <2>4. row.name = name /\ row.parent = id
    OBVIOUS
  <2>5. d.next["groups"] \in Nat
    BY TableNames DEF TablesTyped
  <2> HIDE DEF made, row, there
  <2>6. /\ made.id \in DOMAIN made.db["groups"] /\ made.db["groups"][made.id] = row
        /\ \A h \in DOMAIN made.db["groups"] :
              h = made.id \/ (h \in DOMAIN d["groups"] /\ made.db["groups"][h] = d["groups"][h])
    BY <2>2, <2>3 DEF RowAdded
  <2>7. \A h \in DOMAIN made.db["groups"] :
           made.db["groups"][h].name = name /\ made.db["groups"][h].parent = id => h = made.id
    BY <1>6, <2>6
  <2>8. Leads(made.db, name, id, made.id)
    BY <2>3, <2>4, <2>5, <2>6, <2>7 DEF Leads
  <2>9. \A g : ~ Leads(d, name, id, g)
    BY <1>6 DEF Leads
  <2>10. QED
    BY <2>1, <2>2, <2>8, <2>9
<1>7. QED
  BY <1>5, <1>6

LEMMA PathLaid ==
  ASSUME NEW d, NEW once, GoodTables(d, once), NEW path \in Seq(Names)
  PROVE  LET r == ResolveGroupPath(d, path)
         IN  Extends(d, r.db) /\ Laid(r.db, path) /\ (Laid(d, path) => r.db = d)
<1> DEFINE n == Len(path)
           base == [id |-> None, db |-> d]
<1>1. n \in Nat /\ DOMAIN path = 1 .. n /\ \A i \in 1 .. n : path[i] \in Names
  OBVIOUS
<1>2. PICK at : Chain(at, "path", {}, base, path, n) /\ ResolveGroupPath(d, path) = at[n]
  BY <1>1, PathFold
<1>a. TablesTyped(d)
  BY DEF GoodTables
<1>b. GoodAnswer(base, once) /\ PathAnswer(d, base) /\ base.id = None /\ base.db = d
  BY <1>a, NothingGrows DEF GoodAnswer, PathAnswer, Names_, None
<1> HIDE DEF base
<1> DEFINE Far(r, k) == /\ GoodAnswer(r, once) /\ PathAnswer(d, r) /\ Extends(d, r.db)
                        /\ \E way : Led(r.db, path, k, way) /\ way[k] = r.id
           H == {k \in 0 .. n : Far(at[k], k)}
<1>3. 0 \in H
  <2> DEFINE way == [i \in {0} |-> None]
  <2>1. at[0] = base
    BY <1>2 DEF Chain
  <2>2. way[0] = None
    OBVIOUS
  <2> HIDE DEF way
  <2>3. Led(d, path, 0, way)
    BY <2>2 DEF Led
  <2>4. QED
    BY <1>1, <1>b, <2>1, <2>2, <2>3, ExtendsSelf
<1>4. ASSUME NEW k \in 1 .. n, k - 1 \in H PROVE k \in H
  <2> DEFINE r == at[k - 1]
             e == at[k]
             rd == r.db
             id == r.id
             name == path[k]
  <2>1. e = StepOf("path", {}, r, name) /\ name \in Names
    BY <1>1, <1>2 DEF Chain
  <2>2. Far(r, k - 1) /\ r.db = rd /\ r.id = id
    BY <1>4
  <2>n. k \in Nat \ {0} /\ \A i \in 1 .. k : i = k \/ i \in 1 .. (k - 1)
    BY <1>1
  <2> HIDE DEF r, e, rd, id, name
  <2>3. GoodAnswer(e, once)
    BY <2>1, <2>2, GroupEntered
  <2>4. TablesTyped(rd) /\ TablesTyped(e.db)
    BY <2>2, <2>3 DEF GoodAnswer, GoodTables
  <2>5. PathAnswer(d, e)
    BY <1>a, <2>1, <2>2, <2>4, EnteredGrows
  <2>6. Names_(rd.groups, id)
    BY <2>2 DEF PathAnswer
  <2>7. Extends(rd, e.db) /\ Leads(e.db, name, id, e.id)
    BY <2>1, <2>2, <2>4, <2>6, EnteredLeads
  <2>8. PICK way : Led(rd, path, k - 1, way) /\ way[k - 1] = id
    BY <2>2
  <2>9. Led(e.db, path, k - 1, way)
    BY <2>4, <2>7, <2>8, LedOn
  <2> DEFINE on == [i \in 0 .. k |-> IF i = k THEN e.id ELSE way[i]]
  <2>10. on[k] = e.id /\ \A i \in 0 .. (k - 1) : on[i] = way[i]
    BY <2>n
  <2> HIDE DEF on
  <2>11. Led(e.db, path, k, on)
    <3>1. on[0] = None
      BY <2>n, <2>9, <2>10 DEF Led
    <3>2. ASSUME NEW i \in 1 .. k PROVE Leads(e.db, path[i], on[i - 1], on[i])
      <4>1. CASE i = k
        BY <2>n, <2>7, <2>8, <2>10, <4>1 DEF name
      <4>2. CASE i \in 1 .. (k - 1)
        <5>1. on[i - 1] = way[i - 1] /\ on[i] = way[i]
          BY <2>n, <2>10, <4>2
        <5>2. QED
          BY <2>9, <4>2, <5>1 DEF Led
      <4>3. QED
        BY <2>n, <4>1, <4>2
    <3>3. QED
      BY <3>1, <3>2 DEF Led
  <2>12. Extends(d, e.db)
    BY <2>2, <2>7, ExtendsOn
  <2>13. Far(e, k)
    BY <2>3, <2>5, <2>10, <2>11, <2>12
  <2>14. QED
    BY <2>13 DEF e
<1> HIDE DEF H
<1>5. n \in H
  BY <1>1, <1>3, <1>4, Climb
<1>6. Extends(d, at[n].db) /\ Laid(at[n].db, path)
  BY <1>5 DEF H, Laid
<1>7. ASSUME Laid(d, path) PROVE at[n].db = d
  <2>1. PICK way : Led(d, path, n, way)
    BY <1>7 DEF Laid
  <2> DEFINE G == {k \in 0 .. n : at[k].db = d /\ at[k].id = way[k]}
  <2>2. 0 \in G
    BY <1>1, <1>2, <1>b, <2>1 DEF Chain, Led
  <2>3. ASSUME NEW k \in 1 .. n, k - 1 \in G PROVE k \in G
    <3> DEFINE r == at[k - 1]
               e == at[k]
               id == way[k - 1]
               name == path[k]
               g == way[k]
    <3>1. e = StepOf("path", {}, r, name)
      BY <1>2 DEF Chain
    <3>2. r.db = d /\ r.id = id
      BY <2>3
    <3>3. Leads(d, name, id, g)
      BY <2>1 DEF Led
    <3>4. Names_(d.groups, id)
      <4>1. CASE k = 1
        BY <2>1, <4>1 DEF Led, Names_
      <4>2. CASE k # 1
        <5>1. k - 1 \in 1 .. n
          BY <1>1, <4>2
        <5> DEFINE j == k - 1
        <5> HIDE DEF j
        <5>2. Leads(d, path[j], way[j - 1], way[j])
          BY <2>1, <5>1 DEF Led, j
        <5>3. way[j] \in DOMAIN d.groups
          BY <5>2 DEF Leads
        <5>4. QED
          BY <5>3 DEF Names_, j
      <4>3. QED
        BY <4>1, <4>2
    <3> HIDE DEF r, e, id, name, g
    <3>5. e.db = d /\ e.id = g
      BY <1>a, <3>1, <3>2, <3>3, <3>4, EnteredLeads
    <3>6. QED
      BY <3>5 DEF e, g
  <2> HIDE DEF G
  <2>4. n \in G
    BY <1>1, <2>2, <2>3, Climb
  <2>5. QED
    BY <2>4 DEF G
<1>8. QED
  BY <1>2, <1>6, <1>7

(* An input that was imported: its folders and its session are there.      *)
InPlace(d, input) ==
  /\ Laid(d, input.groupPath)
  /\ \E s \in DOMAIN d["sessions"] : SameSession(d["sessions"][s], input)

LEMMA InPlaceOn ==
  ASSUME NEW d, NEW e, Extends(d, e), TablesTyped(e), NEW input, InPlace(d, input)
  PROVE  InPlace(e, input)
<1> DEFINE path == input.groupPath
           n == Len(path)
<1>1. PICK way : Led(d, path, n, way)
  BY DEF InPlace, Laid
<1> HIDE DEF n, path
<1>2. Led(e, path, n, way)
  BY <1>1, LedOn
<1>3. \A i \in DOMAIN d["sessions"] : i \in DOMAIN e["sessions"] /\ e["sessions"][i] = d["sessions"][i]
  BY DEF Extends, UserTables
<1>4. \E s \in DOMAIN e["sessions"] : SameSession(e["sessions"][s], input)
  BY <1>3 DEF InPlace
<1>5. QED
  BY <1>2, <1>4 DEF InPlace, Laid, n, path

LEMMA NoPathLaid == \A d : Laid(d, NoFolder)
<1> SUFFICES ASSUME NEW d PROVE Laid(d, NoFolder)
  OBVIOUS
<1> DEFINE way == [i \in {0} |-> None]
           n == Len(NoFolder)
<1>1. n = 0 /\ way[0] = None
  BY DEF NoFolder
<1> HIDE DEF n, way
<1>2. Led(d, NoFolder, n, way)
  BY <1>1 DEF Led
<1>3. QED
  BY <1>2 DEF Laid, n

LEMMA PlaceLaid ==
  ASSUME NEW d, NEW once, GoodTables(d, once), NEW keyed \in InputRows
  PROVE  LET r == Place(d, keyed)
         IN  Extends(d, r.db) /\ Laid(r.db, keyed.groupPath) /\ (Laid(d, keyed.groupPath) => r.db = d)
<1> DEFINE r == Place(d, keyed)
           p == ResolveGroupPath(d, keyed.groupPath)
<1>1. keyed.groupPath \in Seq(Names)
  BY InputColumns
<1>2. CASE keyed.groupPath = NoFolder
  <2>1. r.db = d
    BY <1>2 DEF Place
  <2> HIDE DEF r
  <2>2. QED
    BY <1>2, <2>1, ExtendsSelf, NoPathLaid DEF r
<1>3. CASE keyed.groupPath # NoFolder
  <2>1. r = p
    BY <1>3 DEF Place
  <2> HIDE DEF r, p
  <2> DEFINE path == keyed.groupPath
  <2>2. path \in Seq(Names) /\ p = ResolveGroupPath(d, path)
    BY <1>1 DEF p
  <2> HIDE DEF path
  <2>3. Extends(d, p.db) /\ Laid(p.db, path) /\ (Laid(d, path) => p.db = d)
    BY <2>2, PathLaid
  <2>4. QED
    BY <2>1, <2>3 DEF r, path
<1>4. QED
  BY <1>2, <1>3

LEMMA CreateExtends ==
  ASSUME NEW d, TablesTyped(d), NEW row
  PROVE  LET r == SessionsCreate(d, row)
         IN  /\ Extends(d, r.db) /\ r.ok \in BOOLEAN
             /\ r.ok = TRUE => \E s \in DOMAIN r.db["sessions"] : r.db["sessions"][s] = row
<1> DEFINE r == SessionsCreate(d, row)
           made == Inserted(d, "sessions", row)
<1>1. CASE Fits(d, row)
  <2>1. r = made
    BY <1>1 DEF SessionsCreate
  <2>2. Extends(d, made.db) /\ RowAdded(made.db, d, "sessions", row)
    BY ExtendsInserted, InsertedRows, TableNames
  <2>3. made.ok = TRUE
    BY DEF Inserted
  <2> HIDE DEF r, made
  <2>4. QED
    BY <2>1, <2>2, <2>3 DEF RowAdded, r
<1>2. CASE ~ Fits(d, row)
  <2>1. r.db = d /\ r.ok = FALSE
    BY <1>2 DEF SessionsCreate, Refused
  <2> HIDE DEF r
  <2>2. QED
    BY <2>1, ExtendsSelf DEF r
<1>3. QED
  BY <1>1, <1>2

(* One input is added, or known.                                           *)
LEMMA AddedSettles ==
  ASSUME NEW acc, NEW once, GoodTables(acc.db, once), {"ok", "db", "made"} \subseteq DOMAIN acc, acc.ok \in BOOLEAN,
         NEW existing, \A x \in DOMAIN existing : x \in DOMAIN acc.db["sessions"] /\ acc.db["sessions"][x] = existing[x],
         NEW input \in InputRows, NEW ids, WithKey(input, ids) \in InputRows
  PROVE  LET e == AddSession(acc, existing, WithKey(input, ids))
         IN  /\ Extends(acc.db, e.db) /\ {"ok", "db", "made"} \subseteq DOMAIN e /\ e.ok \in BOOLEAN
             /\ e.ok = TRUE => acc.ok = TRUE /\ InPlace(e.db, input)
             /\ (\E x \in DOMAIN existing : SameSession(existing[x], input)) /\ Laid(acc.db, input.groupPath)
                => e.db = acc.db
<1> DEFINE keyed == WithKey(input, ids)
           placed == Place(acc.db, keyed)
           g == placed.id
           row == [Row(keyed) EXCEPT !.group = g, !.password = FALSE]
           made == SessionsCreate(placed.db, row)
           e == AddRow(acc, existing, placed.db, row)
           path == input.groupPath
<1>1. SameSession(row, input)
  <2> HIDE DEF g
  <2>1. QED
    BY RowAlike
<1>2. keyed.groupPath = path
  BY DEF WithKey, InputRows
<1>3. GoodAnswer(placed, once) /\ placed.db.sessions = acc.db.sessions
  <2> HIDE DEF keyed
  <2>1. keyed \in InputRows
    BY DEF keyed
  <2>2. QED
    BY <2>1, PlacedGrows
<1>4. Extends(acc.db, placed.db) /\ Laid(placed.db, path) /\ (Laid(acc.db, path) => placed.db = acc.db)
  <2> HIDE DEF keyed, path
  <2>1. keyed \in InputRows
    BY DEF keyed
  <2>2. QED
    BY <1>2, <2>1, PlaceLaid
<1>5. TablesTyped(placed.db)
  BY <1>3 DEF GoodAnswer, GoodTables
<1> HIDE DEF placed, row, keyed
<1>6. /\ Extends(placed.db, made.db) /\ made.ok \in BOOLEAN
      /\ made.ok = TRUE => \E s \in DOMAIN made.db["sessions"] : made.db["sessions"][s] = row
  BY <1>5, CreateExtends
<1>7. GoodTables(made.db, once)
  <2>1. row \in SessionRows
    <3>1. Row(keyed) \in SessionRows /\ placed.id \in Nat
      BY <1>3, RowTyped DEF GoodAnswer, keyed
    <3>2. QED
      BY <3>1 DEF SessionRows, row
  <2>2. QED
    BY <1>3, <2>1, SessionsCreateGood DEF GoodAnswer
<1> HIDE DEF made, path
<1>8. /\ Extends(acc.db, e.db) /\ {"ok", "db", "made"} \subseteq DOMAIN e /\ e.ok \in BOOLEAN
      /\ e.ok = TRUE => InPlace(e.db, input)
      /\ (\E x \in DOMAIN existing : SameSession(existing[x], input)) /\ Laid(acc.db, path) => e.db = acc.db
  <2>1. CASE \E x \in DOMAIN existing : SameSession(existing[x], row)
    <3>1. e = [acc EXCEPT !.db = placed.db]
      BY <2>1 DEF AddRow
    <3> HIDE DEF e
    <3>2. e.db = placed.db /\ e.ok = acc.ok /\ DOMAIN e = DOMAIN acc
      BY <3>1
    <3>3. \E s \in DOMAIN acc.db["sessions"] : SameSession(acc.db["sessions"][s], input)
      BY <1>1, <2>1 DEF SameSession
    <3>4. InPlace(placed.db, input)
      BY <1>3, <1>4, <3>3 DEF InPlace, path
    <3>5. QED
      BY <1>4, <3>2, <3>4
  <2>2. CASE ~ \E x \in DOMAIN existing : SameSession(existing[x], row)
    <3>1. e.db = made.db /\ e.ok = made.ok /\ {"ok", "db", "made"} \subseteq DOMAIN e
      BY <2>2 DEF AddRow, Counted, made
    <3> HIDE DEF e
    <3>2. Extends(acc.db, made.db)
      BY <1>4, <1>6, ExtendsOn
    <3>3. Laid(made.db, path)
      <4> DEFINE n == Len(path)
      <4>1. PICK way : Led(placed.db, path, n, way)
        BY <1>4 DEF Laid
      <4>2. TablesTyped(made.db)
        BY <1>7 DEF GoodTables
      <4> HIDE DEF n
      <4>3. Led(made.db, path, n, way)
        BY <1>6, <4>1, <4>2, LedOn
      <4>4. QED
        BY <4>3 DEF Laid, n
    <3>4. made.ok = TRUE => InPlace(made.db, input)
      BY <1>1, <1>6, <3>3 DEF InPlace, path
    <3>5. ~ \E x \in DOMAIN existing : SameSession(existing[x], input)
      BY <1>1, <2>2 DEF SameSession
    <3>6. QED
      BY <1>6, <3>1, <3>2, <3>4, <3>5
  <2>3. QED
    BY <2>1, <2>2
<1>9. AddSession(acc, existing, keyed) = IF acc.ok THEN e ELSE acc
  BY DEF AddSession, AddPlaced, e, row, placed
<1> DEFINE r == AddSession(acc, existing, keyed)
<1> HIDE DEF e
<1>10. r = IF acc.ok THEN e ELSE acc
  BY <1>9
<1> HIDE DEF r
<1>11. /\ Extends(acc.db, r.db) /\ {"ok", "db", "made"} \subseteq DOMAIN r /\ r.ok \in BOOLEAN
       /\ r.ok = TRUE => acc.ok = TRUE /\ InPlace(r.db, input)
       /\ (\E x \in DOMAIN existing : SameSession(existing[x], input)) /\ Laid(acc.db, path) => r.db = acc.db
  <2>1. CASE acc.ok = TRUE
    BY <1>8, <1>10, <2>1
  <2>2. CASE acc.ok = FALSE
    BY <1>10, <2>2, ExtendsSelf
  <2>3. QED
    BY <2>1, <2>2
<1>12. QED
  BY <1>11 DEF r, keyed, path

(* A batch that was not refused is settled; and one that was settled       *)
(* before it was committed changes nothing.                                *)
LEMMA AllSettle ==
  ASSUME NEW d, NEW once, NEW inputs \in Seq(InputRows), NEW keys, GoodKeys(keys, inputs, Len(inputs), once),
         Extends(d, keys.db)
  PROVE  LET r == AddAll(d.sessions, inputs, keys)
         IN  /\ Extends(keys.db, r.db)
             /\ r.ok => \A i \in DOMAIN inputs : InPlace(r.db, inputs[i])
             /\ keys.db = d /\ (\A i \in DOMAIN inputs : InPlace(d, inputs[i])) => r.db = d
<1> DEFINE n == Len(inputs)
           kd == keys.db
           base == [ok |-> TRUE, made |-> 0, db |-> kd]
           existing == d.sessions
           par == [existing |-> existing, ids |-> keys.ids]
           again == kd = d /\ \A i \in DOMAIN inputs : InPlace(d, inputs[i])
<1>1. n \in Nat /\ DOMAIN inputs = 1 .. n /\ \A i \in 1 .. n : inputs[i] \in InputRows
  OBVIOUS
<1>2. PICK at : Chain(at, "add", par, base, inputs, n) /\ AddAll(existing, inputs, keys) = at[n]
  BY <1>1, AddFold
<1>a. base.db = kd /\ base.ok = TRUE /\ {"ok", "db", "made"} \subseteq DOMAIN base
  OBVIOUS
<1>b. par.existing = existing /\ par.ids = keys.ids
  OBVIOUS
<1>c. \A i \in 1 .. n : inputs[i].keyPath = NoText \/ keys.ids[inputs[i].keyPath] \in Nat
  BY DEF GoodKeys
<1>d. GoodTables(kd, once)
  BY DEF GoodKeys
<1>e. \A x \in DOMAIN existing : x \in DOMAIN kd["sessions"] /\ kd["sessions"][x] = existing[x]
  BY DEF Extends, UserTables
<1>f. again => kd = d /\ existing = d.sessions /\ \A i \in 1 .. n : InPlace(d, inputs[i])
  BY <1>1
<1> HIDE DEF n, base, par, existing, again, kd
<1> DEFINE Far(r, k) == /\ GoodTables(r.db, once) /\ Extends(kd, r.db)
                        /\ {"ok", "db", "made"} \subseteq DOMAIN r /\ r.ok \in BOOLEAN
                        /\ r.ok = TRUE => \A i \in 1 .. k : InPlace(r.db, inputs[i])
                        /\ again => r.db = kd
           H == {k \in 0 .. n : Far(at[k], k)}
<1>3. 0 \in H
  <2> DEFINE z == at[0]
  <2>1. z = base
    BY <1>2 DEF Chain
  <2>2. \A i \in 1 .. 0 : InPlace(z.db, inputs[i])
    OBVIOUS
  <2>3. Extends(kd, kd)
    BY ExtendsSelf
  <2> HIDE DEF z
  <2>4. Far(z, 0)
    BY <1>a, <1>d, <2>1, <2>2, <2>3
  <2> HIDE DEF Far
  <2>5. QED
    BY <1>1, <2>4 DEF z
<1>4. ASSUME NEW k \in 1 .. n, k - 1 \in H PROVE k \in H
  <2> DEFINE x == inputs[k]
             ids == keys.ids
             keyed == WithKey(x, ids)
             r == at[k - 1]
             e == at[k]
  <2>1. e = AddSession(r, existing, keyed)
    BY <1>2, <1>b DEF Chain, StepOf
  <2>2. x \in InputRows /\ keyed \in InputRows
    BY <1>1, <1>c, Keyed
  <2>3. Far(r, k - 1)
    BY <1>4
  <2>n. \A i \in 1 .. k : i = k \/ i \in 1 .. (k - 1)
    BY <1>1
  <2>4. again => InPlace(kd, x)
    BY <1>f
  <2> HIDE DEF r, e, x, ids
  <2>5. GoodTables(e.db, once)
    BY <2>1, <2>2, <2>3, AddedGood
  <2>6. \A y \in DOMAIN existing : y \in DOMAIN r.db["sessions"] /\ r.db["sessions"][y] = existing[y]
    BY <1>e, <2>3 DEF Extends, UserTables
  <2>7. /\ Extends(r.db, e.db) /\ {"ok", "db", "made"} \subseteq DOMAIN e /\ e.ok \in BOOLEAN
        /\ e.ok = TRUE => r.ok = TRUE /\ InPlace(e.db, x)
        /\ (\E y \in DOMAIN existing : SameSession(existing[y], x)) /\ Laid(r.db, x.groupPath) => e.db = r.db
    <3> DEFINE m == AddSession(r, existing, WithKey(x, ids))
    <3>1. GoodTables(r.db, once) /\ {"ok", "db", "made"} \subseteq DOMAIN r /\ r.ok \in BOOLEAN
      BY <2>3
    <3>2. x \in InputRows /\ WithKey(x, ids) \in InputRows
      BY <2>2
    <3>3. /\ Extends(r.db, m.db) /\ {"ok", "db", "made"} \subseteq DOMAIN m /\ m.ok \in BOOLEAN
          /\ m.ok = TRUE => r.ok = TRUE /\ InPlace(m.db, x)
          /\ (\E y \in DOMAIN existing : SameSession(existing[y], x)) /\ Laid(r.db, x.groupPath) => m.db = r.db
      BY <2>6, <3>1, <3>2, AddedSettles
    <3>4. m = e
      BY <2>1
    <3> HIDE DEF m
    <3>5. QED
      BY <3>3, <3>4
  <2> HIDE DEF keyed
  <2>8. TablesTyped(e.db)
    BY <2>5 DEF GoodTables
  <2>9. e.ok = TRUE => \A i \in 1 .. k : InPlace(e.db, inputs[i])
    <3>1. ASSUME e.ok = TRUE, NEW i \in 1 .. k PROVE InPlace(e.db, inputs[i])
      <4>1. CASE i = k
        BY <2>7, <3>1, <4>1 DEF x
      <4>2. CASE i \in 1 .. (k - 1)
        <5> DEFINE y == inputs[i]
        <5>1. InPlace(r.db, y)
          BY <2>3, <2>7, <3>1, <4>2
        <5> HIDE DEF y
        <5>2. InPlace(e.db, y)
          BY <2>7, <2>8, <5>1, InPlaceOn
        <5>3. QED
          BY <5>2 DEF y
      <4>3. QED
        BY <2>n, <4>1, <4>2
    <3>2. QED
      BY <3>1
  <2>10. again => e.db = kd
    <3>1. ASSUME again PROVE e.db = r.db
      <4>1. r.db = kd /\ kd = d /\ InPlace(kd, x) /\ existing = d.sessions
        BY <1>f, <2>3, <2>4, <3>1
      <4>2. QED
        BY <2>7, <4>1 DEF InPlace
    <3>2. QED
      BY <2>3, <3>1
  <2>11. Extends(kd, e.db)
    BY <2>3, <2>7, ExtendsOn
  <2>12. Far(e, k)
    BY <2>5, <2>7, <2>9, <2>10, <2>11
  <2>13. QED
    BY <2>12 DEF e
<1> HIDE DEF H
<1>5. n \in H
  BY <1>1, <1>3, <1>4, Climb
<1>6. Far(at[n], n)
  BY <1>5 DEF H
<1>7. QED
  BY <1>1, <1>2, <1>6 DEF existing, again, kd

(* An import that was not refused changes nothing a second time.           *)
LEMMA CommitTwice ==
  ASSUME NEW d, NEW once, GoodTables(d, once), NEW fs, FilesTyped(fs), NEW located,
         NEW inputs \in Seq(InputRows), Commit(d, fs, inputs, located).ok
  PROVE  LET e == Commit(d, fs, inputs, located).db
         IN  Commit(e, fs, inputs, located).db = e
<1> DEFINE keys == ResolveKeys(d, fs, inputs, located)
           first == Commit(d, fs, inputs, located)
           e == first.db
           keys2 == ResolveKeys(e, fs, inputs, located)
           second == Commit(e, fs, inputs, located)
<1>1. first = AddAll(d.sessions, inputs, keys) /\ second = AddAll(e.sessions, inputs, keys2)
  BY DEF Commit
<1>2. GoodTables(e, once)
  BY CommitGood
<1>3. GoodKeys(keys, inputs, Len(inputs), once)
  BY KeysGood
<1>4. /\ Extends(d, keys.db)
      /\ \A i \in DOMAIN inputs : inputs[i].keyPath = NoText \/ Resolved(keys.db, fs, located, inputs[i].keyPath)
  BY KeysHold
<1>5. first.ok
  OBVIOUS
<1> HIDE DEF keys, first
<1>6. Extends(keys.db, e) /\ \A i \in DOMAIN inputs : InPlace(e, inputs[i])
  <2> DEFINE r == AddAll(d.sessions, inputs, keys)
  <2>1. Extends(keys.db, r.db) /\ (r.ok => \A i \in DOMAIN inputs : InPlace(r.db, inputs[i]))
    BY <1>3, <1>4, AllSettle
  <2>2. QED
    BY <1>1, <1>5, <2>1
<1>7. \A i \in DOMAIN inputs : inputs[i].keyPath = NoText \/ Resolved(e, fs, located, inputs[i].keyPath)
  <2>1. ASSUME NEW raw, Resolved(keys.db, fs, located, raw) PROVE Resolved(e, fs, located, raw)
    BY <1>6, <2>1, ResolvedOn
  <2>2. QED
    BY <1>4, <2>1
<1> HIDE DEF e
<1>8. GoodKeys(keys2, inputs, Len(inputs), once)
  BY <1>2, KeysGood
<1>9. keys2.db = e
  BY <1>2, <1>7, KeysHold
<1> HIDE DEF keys2
<1>10. AddAll(e.sessions, inputs, keys2).db = e
  <2>1. Extends(e, keys2.db)
    BY <1>9, ExtendsSelf
  <2>2. QED
    BY <1>6, <1>8, <1>9, <2>1, AllSettle
<1>11. QED
  BY <1>1, <1>10 DEF e, first

-----------------------------------------------------------------------------
(* An export is recognised. An input is known when it names no key file and*)
(* its session is there.                                                   *)
Recognised(d, x) == x.keyPath = NoText /\ \E s \in DOMAIN d.sessions : SameSession(d.sessions[s], x)

LEMMA KnownAddsNone ==
  ASSUME NEW acc, "made" \in DOMAIN acc, "db" \in DOMAIN acc, NEW d, NEW x, Recognised(d, x), NEW ids
  PROVE  LET r == AddSession(acc, d.sessions, WithKey(x, ids))
         IN  "made" \in DOMAIN r /\ "db" \in DOMAIN r /\ r.made = acc.made
<1> DEFINE placed == Place(acc.db, x)
           base == Row(x)
           g == placed.id
           row == [base EXCEPT !.group = g, !.password = FALSE]
           e == [acc EXCEPT !.db = placed.db]
           r == AddSession(acc, d.sessions, WithKey(x, ids))
<1>1. WithKey(x, ids) = x
  BY DEF WithKey, Recognised
<1>2. base.name = x.name /\ base.protocol = x.protocol /\ base.host = x.host /\ base.user = x.user
  BY BlankColumns DEF Row, Columns
<1>3. AddSession(acc, d.sessions, x) = IF acc.ok THEN AddRow(acc, d.sessions, placed.db, row) ELSE acc
  BY DEF AddSession, AddPlaced
<1> HIDE DEF base, g
<1>4. SameSession(row, x)
  BY <1>2 DEF SameSession
<1> HIDE DEF row
<1>5. \E s \in DOMAIN d.sessions : SameSession(d.sessions[s], row)
  BY <1>4 DEF Recognised, SameSession
<1>6. AddRow(acc, d.sessions, placed.db, row) = e
  BY <1>5 DEF AddRow
<1>7. "made" \in DOMAIN e /\ "db" \in DOMAIN e /\ e.made = acc.made
  OBVIOUS
<1> HIDE DEF e
<1>8. r = e \/ r = acc
  BY <1>1, <1>3, <1>6
<1> HIDE DEF r
<1>9. "made" \in DOMAIN r /\ "db" \in DOMAIN r /\ r.made = acc.made
  BY <1>7, <1>8
<1>10. QED
  BY <1>9 DEF r

LEMMA KnownBatch ==
  ASSUME NEW d, NEW fs, NEW located, NEW inputs, NEW S, inputs \in Seq(S), \A x \in S : Recognised(d, x)
  PROVE  Commit(d, fs, inputs, located).made = 0
<1> DEFINE n == Len(inputs)
           keys == ResolveKeys(d, fs, inputs, located)
           base == [ok |-> TRUE, made |-> 0, db |-> keys.db]
           existing == d.sessions
           par == [existing |-> existing, ids |-> keys.ids]
<1>1. n \in Nat /\ DOMAIN inputs = 1 .. n /\ \A i \in 1 .. n : Recognised(d, inputs[i])
  OBVIOUS
<1>2. Commit(d, fs, inputs, located) = AddAll(existing, inputs, keys)
  BY DEF Commit
<1> HIDE DEF keys
<1>3. PICK at : Chain(at, "add", par, base, inputs, n) /\ AddAll(existing, inputs, keys) = at[n]
  BY <1>1, AddFold
<1>a. "made" \in DOMAIN base /\ "db" \in DOMAIN base /\ base.made = 0
  OBVIOUS
<1>b. par.existing = d.sessions
  OBVIOUS
<1> HIDE DEF n, base, par, existing
<1> DEFINE Still(r) == "made" \in DOMAIN r /\ "db" \in DOMAIN r /\ r.made = 0
           H == {k \in 0 .. n : Still(at[k])}
<1>4. 0 \in H
  BY <1>1, <1>3, <1>a DEF Chain
<1>5. ASSUME NEW k \in 1 .. n, k - 1 \in H PROVE k \in H
  <2> DEFINE r == at[k - 1]
             x == inputs[k]
             e == at[k]
             ids == par.ids
  <2>1. e = AddSession(r, d.sessions, WithKey(x, ids))
    BY <1>3, <1>b DEF Chain, StepOf
  <2>2. Still(r) /\ Recognised(d, x)
    BY <1>1, <1>5
  <2> HIDE DEF r, e, x, ids
  <2>3. Still(e)
    BY <2>1, <2>2, KnownAddsNone
  <2>4. QED
    BY <2>3 DEF e
<1> HIDE DEF H
<1>6. n \in H
  BY <1>1, <1>4, <1>5, Climb
<1>7. QED
  BY <1>2, <1>3, <1>6 DEF H

(* The rows of an export, in the order of their ids.                       *)
StoredRows(d) == {d.sessions[s] : s \in DOMAIN d.sessions}

LEMMA RowsListed ==
  ASSUME NEW d, TablesTyped(d)
  PROVE  RowsOf(d) \in Seq(StoredRows(d))
<1> DEFINE m == d.next["sessions"] - 1
           s == Counting(m)
           n == Len(s)
<1>1. n \in Nat /\ DOMAIN s = 1 .. n
  <2>1. m \in Nat
    BY TableNames DEF TablesTyped
  <2>2. QED
    BY <2>1, CountingSeq
<1>2. PICK at : Chain(at, "rows", d.sessions, <<>>, s, n) /\ RowsOf(d) = at[n]
  BY <1>1, RowsFold
<1> HIDE DEF s, n, m
<1> DEFINE S == StoredRows(d)
           H == {k \in 0 .. n : at[k] \in Seq(S)}
<1>a. \A x \in DOMAIN d.sessions : d.sessions[x] \in S
  BY DEF StoredRows
<1> HIDE DEF S
<1>3. 0 \in H
  <2>1. at[0] = <<>>
    BY <1>2 DEF Chain
  <2>2. at[0] \in Seq(S)
    BY <2>1
  <2>3. QED
    BY <1>1, <2>2
<1>4. ASSUME NEW k \in 1 .. n, k - 1 \in H PROVE k \in H
  <2> DEFINE x == s[k]
  <2>1. at[k] = IF x \in DOMAIN d.sessions THEN Append(at[k - 1], d.sessions[x]) ELSE at[k - 1]
    BY <1>2 DEF Chain, StepOf
  <2>2. x \in DOMAIN d.sessions => d.sessions[x] \in S
    BY <1>a
  <2>3. at[k - 1] \in Seq(S)
    BY <1>4
  <2> HIDE DEF x
  <2>4. at[k] \in Seq(S)
    BY <2>1, <2>2, <2>3
  <2>5. QED
    BY <2>4
<1> HIDE DEF H
<1>5. n \in H
  BY <1>1, <1>3, <1>4, Climb
<1>6. QED
  BY <1>2, <1>5 DEF H, S

(* What is written of a row under the identity it has.                     *)
LEMMA InputAlike ==
  ASSUME NEW row, DOMAIN row = Columns, NEW groupPath
  PROVE  LET x == Input(row, NoText, groupPath) IN x.keyPath = NoText /\ SameSession(row, x)
<1> DEFINE x == Input(row, NoText, groupPath)
           more == [keyPath |-> NoText, groupPath |-> groupPath]
<1>1. \A c \in Columns \cup {"keyPath", "groupPath"} : Patched(row, more)[c] = IF c \in Columns THEN row[c] ELSE more[c]
  BY DEF Patched
<1>2. x = Patched(row, more)
  BY DEF Input
<1>3. x.keyPath = NoText /\ x.name = row.name /\ x.protocol = row.protocol /\ x.host = row.host /\ x.user = row.user
  BY <1>1, <1>2 DEF Columns
<1> HIDE DEF x
<1>4. x.keyPath = NoText /\ SameSession(row, x)
  BY <1>3 DEF SameSession
<1>5. QED
  BY <1>4 DEF x

LEMMA EntryAlike ==
  ASSUME NEW e, NEW protocol, NEW port
  PROVE  LET x == EntryRow(e, protocol, port)
         IN  /\ DOMAIN x = Columns
             /\ x.name = e.name /\ x.protocol = protocol /\ x.host = e.host /\ x.user = e.user
<1> DEFINE b == Blank
           x == EntryRow(e, protocol, port)
<1>1. DOMAIN b = Columns
  BY BlankColumns
<1>2. x = [b EXCEPT !.name = e.name, !.protocol = protocol, !.host = e.host, !.port = port, !.user = e.user]
  BY DEF EntryRow
<1> HIDE DEF b
<1>3. /\ DOMAIN x = Columns
      /\ x.name = e.name /\ x.protocol = protocol /\ x.host = e.host /\ x.user = e.user
  BY <1>1, <1>2 DEF Columns
<1>4. QED
  BY <1>3 DEF x

(* A session read from an entry that names no key file.                    *)
Entered(e, protocol, port, auth, groupPath) ==
  Input([EntryRow(e, protocol, port) EXCEPT !.auth = auth], NoText, groupPath)

LEMMA EntryRecognised ==
  ASSUME NEW e, NEW protocol, NEW port, NEW auth, NEW groupPath,
         NEW r, r.name = e.name, r.protocol = protocol, r.host = e.host, r.user = e.user
  PROVE  LET x == Entered(e, protocol, port, auth, groupPath)
         IN  x.keyPath = NoText /\ SameSession(r, x)
<1> DEFINE b == EntryRow(e, protocol, port)
           row == [b EXCEPT !.auth = auth]
           x == Input(row, NoText, groupPath)
<1>1. DOMAIN b = Columns /\ b.name = r.name /\ b.protocol = r.protocol /\ b.host = r.host /\ b.user = r.user
  BY EntryAlike
<1> HIDE DEF b
<1>2. DOMAIN row = Columns /\ row.name = r.name /\ row.protocol = r.protocol /\ row.host = r.host /\ row.user = r.user
  BY <1>1 DEF Columns
<1> HIDE DEF row
<1>3. x.keyPath = NoText /\ SameSession(row, x)
  BY <1>2, InputAlike
<1> HIDE DEF x
<1>4. x.keyPath = NoText /\ SameSession(r, x)
  BY <1>2, <1>3 DEF SameSession
<1>5. QED
  BY <1>4 DEF x, row, b, Entered

LEMMA StoredRecognised ==
  ASSUME NEW d, TablesTyped(d), NEW r \in StoredRows(d)
  PROVE  /\ r \in SessionRows
         /\ \A x : x.keyPath = NoText /\ SameSession(r, x) => Recognised(d, x)
<1>1. PICK s \in DOMAIN d.sessions : r = d.sessions[s]
  BY DEF StoredRows
<1>2. QED
  BY <1>1 DEF TablesTyped, Recognised

(* A Ternix backup.                                                        *)
LEMMA BackupRecognised ==
  ASSUME NEW d, TablesTyped(d), NEW fs, NEW located
  PROVE  Commit(d, fs, FromTernix(ToTernix(d)), located).made = 0
<1> DEFINE R == StoredRows(d)
           rows == RowsOf(d)
           n == Len(rows)
           Given(r) == Input([r EXCEPT !.password = FALSE], NoText, NoFolder)
           S == {Given(r) : r \in R}
           q == FromTernix(ToTernix(d))
<1>1. rows \in Seq(R)
  BY RowsListed
<1>2. \A x \in S : Recognised(d, x)
  <2>1. ASSUME NEW r \in R PROVE Recognised(d, Given(r))
    <3> DEFINE row == [r EXCEPT !.password = FALSE]
               x == Input(row, NoText, NoFolder)
    <3>1. r \in SessionRows /\ \A y : y.keyPath = NoText /\ SameSession(r, y) => Recognised(d, y)
      BY StoredRecognised
    <3>2. DOMAIN row = Columns /\ SameSession(r, row)
      BY <3>1 DEF SessionRows, Columns, SameSession
    <3> HIDE DEF row
    <3>3. x.keyPath = NoText /\ SameSession(row, x)
      BY <3>2, InputAlike
    <3> HIDE DEF x
    <3>4. Recognised(d, x)
      BY <3>1, <3>2, <3>3 DEF SameSession
    <3>5. QED
      BY <3>4 DEF x, row
  <2>2. QED
    BY <2>1
<1> HIDE DEF rows, R
<1>3. n \in Nat /\ DOMAIN rows = 1 .. n /\ \A i \in 1 .. n : rows[i] \in R
  BY <1>1
<1>4. q = [i \in 1 .. n |-> Given(rows[i])]
  BY <1>3 DEF FromTernix, ToTernix, Each, rows
<1> HIDE DEF Given
<1>5. DOMAIN q = 1 .. n /\ q = [i \in 1 .. n |-> q[i]] /\ \A i \in 1 .. n : q[i] \in S
  BY <1>3, <1>4
<1> HIDE DEF q, n, S
<1>6. q \in Seq(S)
  BY <1>3, <1>5, MakesSeq
<1>7. Commit(d, fs, q, located).made = 0
  BY <1>2, <1>6, KnownBatch
<1>8. QED
  BY <1>7 DEF q

(* A CSV file.                                                             *)
LEMMA CsvRecognised ==
  ASSUME NEW d, TablesTyped(d), NEW fs, NEW located, \A s \in DOMAIN d.sessions : d.sessions[s].name # NoText
  PROVE  Commit(d, fs, FromCsv(ToCsv(d)), located).made = 0
<1> DEFINE R == StoredRows(d)
           rows == RowsOf(d)
           n == Len(rows)
           body == ToCsv(d)
           s == Each(body, Named)
           S == {x \in {CsvRow(EntryOf(r)) : r \in R} : Recognised(d, x)}
<1>1. rows \in Seq(R)
  BY RowsListed
<1>a. \A r \in R : r.name # NoText
  BY DEF StoredRows
<1>2. ASSUME NEW r \in R PROVE CsvRow(EntryOf(r)) \in S
  <2> DEFINE e == EntryOf(r)
             protocol == IF e.protocol \in Protocols THEN e.protocol ELSE "ssh"
             port == IF e.port = 0 THEN 22 ELSE e.port
             auth == NoText
             path == NoFolder
             x == Entered(e, protocol, port, auth, path)
  <2>1. r \in SessionRows /\ \A y : y.keyPath = NoText /\ SameSession(r, y) => Recognised(d, y)
    BY StoredRecognised
  <2>2. r.name = e.name /\ r.protocol = protocol /\ r.host = e.host /\ r.user = e.user
    BY <2>1 DEF SessionRows, EntryOf
  <2>3. CsvRow(e) = x
    BY DEF CsvRow, Entered
  <2> HIDE DEF e, protocol, port, auth, path
  <2>4. x.keyPath = NoText /\ SameSession(r, x)
    BY <2>2, EntryRecognised
  <2> HIDE DEF x
  <2>5. Recognised(d, x)
    BY <2>1, <2>4
  <2>6. QED
    BY <2>3, <2>5 DEF e
<1> HIDE DEF rows, R
<1>3. n \in Nat /\ DOMAIN rows = 1 .. n /\ \A i \in 1 .. n : rows[i] \in R
  BY <1>1
<1>4. body = [i \in 1 .. n |-> EntryOf(rows[i])]
  BY <1>3 DEF ToCsv, Each, rows
<1>5. \A r \in R : EntryOf(r).name # NoText /\ Named(EntryOf(r)) = EntryOf(r)
  BY <1>a DEF EntryOf, Named
<1>6. s = [i \in 1 .. n |-> EntryOf(rows[i])]
  <2>1. \A i \in 1 .. n : Named(body[i]) = EntryOf(rows[i])
    BY <1>3, <1>4, <1>5
  <2>2. DOMAIN body = 1 .. n
    BY <1>4
  <2> HIDE DEF body, n
  <2>3. QED
    BY <2>1, <2>2 DEF Each
<1>7. \A i \in 1 .. n : s[i].name # NoText /\ CsvRow(s[i]) \in S
  BY <1>2, <1>3, <1>5, <1>6
<1>8. Len(s) = n /\ DOMAIN s = 1 .. n
  BY <1>3, <1>6
<1> HIDE DEF s, n, S
<1>9. PICK at : Chain(at, "csv", {}, <<>>, s, n) /\ FromCsv(body) = at[n]
  <2>1. Len(s) \in Nat /\ DOMAIN s = 1 .. Len(s)
    BY <1>3, <1>8
  <2>2. QED
    BY <1>8, <2>1, CsvFold DEF s
<1> DEFINE H == {k \in 0 .. n : at[k] \in Seq(S)}
<1>10. 0 \in H
  <2>1. at[0] = <<>>
    BY <1>9 DEF Chain
  <2>2. at[0] \in Seq(S)
    BY <2>1
  <2>3. QED
    BY <1>3, <2>2
<1>11. ASSUME NEW k \in 1 .. n, k - 1 \in H PROVE k \in H
  <2> DEFINE row == CsvRow(s[k])
  <2>1. at[k] = Append(at[k - 1], row)
    BY <1>7, <1>9 DEF Chain, StepOf
  <2>2. row \in S
    BY <1>7
  <2> HIDE DEF row
  <2>3. at[k - 1] \in Seq(S)
    BY <1>11
  <2>4. at[k] \in Seq(S)
    BY <2>1, <2>2, <2>3
  <2>5. QED
    BY <2>4
<1> HIDE DEF H
<1>12. n \in H
  BY <1>3, <1>10, <1>11, Climb
<1> DEFINE q == FromCsv(body)
<1>13. q \in Seq(S)
  BY <1>9, <1>12 DEF H
<1>14. \A x \in S : Recognised(d, x)
  BY DEF S
<1> HIDE DEF q
<1>15. Commit(d, fs, q, located).made = 0
  BY <1>13, <1>14, KnownBatch
<1>16. QED
  BY <1>15 DEF q

(* A Tabby profile of a session: of the other kinds none is read.          *)
Profile(r) ==
  CASE r.protocol = "ssh" -> [EntryOf(r) EXCEPT !.port = IF @ = 0 THEN 22 ELSE @]
    [] r.protocol \in {"serial", "telnet"} -> [EntryOf(r) EXCEPT !.user = NoText]
    [] OTHER -> [EntryOf(r) EXCEPT !.host = NoText, !.port = 0, !.user = NoText]

LEMMA ProfileFields ==
  ASSUME NEW r
  PROVE  /\ Profile(r).name = r.name /\ Profile(r).protocol = r.protocol /\ Profile(r).keyPath = NoText
         /\ r.protocol \in {"ssh", "serial", "telnet"} => Profile(r).host = r.host
         /\ r.protocol = "ssh" => Profile(r).user = r.user
<1>1. CASE r.protocol = "ssh"
  BY <1>1 DEF Profile, EntryOf
<1>2. CASE r.protocol \in {"serial", "telnet"}
  BY <1>2 DEF Profile, EntryOf
<1>3. CASE r.protocol \notin {"ssh", "serial", "telnet"}
  BY <1>3 DEF Profile, EntryOf
<1>4. QED
  BY <1>1, <1>2, <1>3

LEMMA ProfileRecognised ==
  ASSUME NEW d, TablesTyped(d), NEW r \in StoredRows(d), Carries("tabby", r),
         r.protocol \in {"ssh", "local", "telnet", "serial"}
  PROVE  Recognised(d, TabbyRow(Profile(r)))
<1> DEFINE e == Profile(r)
<1>1. r \in SessionRows /\ \A y : y.keyPath = NoText /\ SameSession(r, y) => Recognised(d, y)
  BY StoredRecognised
<1>2. /\ e.name = r.name /\ e.protocol = r.protocol /\ e.keyPath = NoText
      /\ r.protocol \in {"ssh", "serial", "telnet"} => e.host = r.host
      /\ r.protocol = "ssh" => e.user = r.user
  BY ProfileFields
<1> HIDE DEF e
<1>3. CASE r.protocol = "ssh"
  <2> DEFINE port == IF e.port = 0 THEN 22 ELSE e.port
             auth == IF e.agent THEN "agent" ELSE "password"
             protocol == "ssh"
             path == NoFolder
             x == Entered(e, protocol, port, auth, path)
  <2>1. TabbyRow(e) = x
    BY <1>2, <1>3 DEF TabbyRow, KeyFields, Entered
  <2>2. r.protocol = protocol
    BY <1>3
  <2> HIDE DEF port, auth, protocol, path
  <2>3. x.keyPath = NoText /\ SameSession(r, x)
    BY <1>2, <1>3, <2>2, EntryRecognised
  <2> HIDE DEF x
  <2>4. QED
    BY <1>1, <2>1, <2>3 DEF e
<1>4. CASE r.protocol = "local"
  <2> DEFINE b == Blank
             name == e.name
             row == [b EXCEPT !.name = name, !.protocol = "local", !.port = 0, !.auth = "none"]
             path == NoFolder
             x == Input(row, NoText, path)
  <2>1. TabbyRow(e) = x
    BY <1>2, <1>4 DEF TabbyRow
  <2>2. DOMAIN b = Columns /\ b.host = NoText /\ b.user = NoText
    BY BlankColumns DEF Blank
  <2>3. r.host = NoText /\ r.user = NoText
    BY <1>4 DEF Carries
  <2> HIDE DEF b
  <2>4. DOMAIN row = Columns /\ SameSession(r, row)
    BY <1>2, <1>4, <2>2, <2>3 DEF Columns, SameSession
  <2> HIDE DEF row, path
  <2>5. x.keyPath = NoText /\ SameSession(row, x)
    BY <2>4, InputAlike
  <2> HIDE DEF x
  <2>6. Recognised(d, x)
    BY <1>1, <2>4, <2>5 DEF SameSession
  <2>7. QED
    BY <2>1, <2>6 DEF e
<1>5. CASE r.protocol \in {"telnet", "serial"}
  <2> DEFINE u == [e EXCEPT !.user = NoText]
             protocol == e.protocol
             port == IF e.port = 0 /\ protocol = "telnet" THEN 23 ELSE e.port
             auth == NoText
             path == NoFolder
             x == Entered(u, protocol, port, auth, path)
  <2>1. TabbyRow(e) = x
    BY <1>2, <1>5 DEF TabbyRow, Entered
  <2>2. r.user = NoText
    BY <1>5 DEF Carries
  <2>3. DOMAIN e = DOMAIN EntryOf(r)
    BY <1>5 DEF e, Profile
  <2>4. u.name = r.name /\ u.host = r.host /\ u.user = r.user /\ protocol = r.protocol
    BY <1>2, <1>5, <2>2, <2>3 DEF EntryOf
  <2> HIDE DEF u, port, auth, protocol, path
  <2>5. x.keyPath = NoText /\ SameSession(r, x)
    BY <2>4, EntryRecognised
  <2> HIDE DEF x
  <2>6. QED
    BY <1>1, <2>1, <2>5 DEF e
<1>6. QED
  BY <1>3, <1>4, <1>5

LEMMA TabbyRecognised ==
  ASSUME NEW d, TablesTyped(d), NEW fs, NEW located, \A s \in DOMAIN d.sessions : Carries("tabby", d.sessions[s])
  PROVE  Commit(d, fs, FromTabby(ToTabby(d)), located).made = 0
<1> DEFINE R == StoredRows(d)
           rows == RowsOf(d)
           n == Len(rows)
           body == ToTabby(d)
           s == Each(body, Named)
           S == {x \in {TabbyRow(Profile(r)) : r \in R} : Recognised(d, x)}
           read == {"ssh", "local", "telnet", "serial"}
<1>1. rows \in Seq(R)
  BY RowsListed
<1>a. \A r \in R : Carries("tabby", r)
  BY DEF StoredRows
<1>2. ASSUME NEW r \in R, r.protocol \in read PROVE TabbyRow(Profile(r)) \in S
  BY <1>2, <1>a, ProfileRecognised
<1> HIDE DEF rows, R
<1>3. n \in Nat /\ DOMAIN rows = 1 .. n /\ \A i \in 1 .. n : rows[i] \in R
  BY <1>1
<1>4. body = [i \in 1 .. n |-> Profile(rows[i])]
  BY <1>3 DEF ToTabby, Each, rows, Profile
<1>5. \A r \in R : Profile(r).protocol = r.protocol /\ Named(Profile(r)) = Profile(r)
  <2>1. \A r \in R : r.name # NoText
    BY <1>a DEF Carries
  <2>2. QED
    BY <2>1, ProfileFields DEF Named
<1>6. s = [i \in 1 .. n |-> Profile(rows[i])]
  <2>1. \A i \in 1 .. n : Named(body[i]) = Profile(rows[i])
    BY <1>3, <1>4, <1>5
  <2>2. DOMAIN body = 1 .. n
    BY <1>4
  <2> HIDE DEF body, n
  <2>3. QED
    BY <2>1, <2>2 DEF Each
<1> HIDE DEF S, read
<1>7. \A i \in 1 .. n : s[i].protocol \in read => TabbyRow(s[i]) \in S
  <2>1. ASSUME NEW i \in 1 .. n, s[i].protocol \in read PROVE TabbyRow(s[i]) \in S
    <3> DEFINE r == rows[i]
    <3>1. s[i] = Profile(r) /\ r \in R
      BY <1>3, <1>6
    <3> HIDE DEF r
    <3>2. QED
      BY <1>2, <1>5, <2>1, <3>1
  <2>2. QED
    BY <2>1
<1>8. Len(s) = n /\ DOMAIN s = 1 .. n
  BY <1>3, <1>6
<1> HIDE DEF s, n
<1>9. PICK at : Chain(at, "tabby", {}, <<>>, s, n) /\ FromTabby(body) = at[n]
  <2>1. Len(s) \in Nat /\ DOMAIN s = 1 .. Len(s)
    BY <1>3, <1>8
  <2>2. QED
    BY <1>8, <2>1, TabbyFold DEF s
<1> DEFINE H == {k \in 0 .. n : at[k] \in Seq(S)}
<1>10. 0 \in H
  <2>1. at[0] = <<>>
    BY <1>9 DEF Chain
  <2>2. at[0] \in Seq(S)
    BY <2>1
  <2>3. QED
    BY <1>3, <2>2
<1>11. ASSUME NEW k \in 1 .. n, k - 1 \in H PROVE k \in H
  <2> DEFINE row == TabbyRow(s[k])
             kept == s[k].protocol \in {"ssh", "local", "telnet", "serial"}
  <2>1. at[k] = IF kept THEN Append(at[k - 1], row) ELSE at[k - 1]
    BY <1>9 DEF Chain, StepOf
  <2>2. kept => row \in S
    BY <1>7 DEF read
  <2> HIDE DEF row, kept
  <2>3. at[k - 1] \in Seq(S)
    BY <1>11
  <2>4. at[k] \in Seq(S)
    BY <2>1, <2>2, <2>3
  <2>5. QED
    BY <2>4
<1> HIDE DEF H
<1>12. n \in H
  BY <1>3, <1>10, <1>11, Climb
<1> DEFINE q == FromTabby(body)
<1>13. q \in Seq(S)
  BY <1>9, <1>12 DEF H
<1>14. \A x \in S : Recognised(d, x)
  BY DEF S
<1> HIDE DEF q
<1>15. Commit(d, fs, q, located).made = 0
  BY <1>13, <1>14, KnownBatch
<1>16. QED
  BY <1>15 DEF q

(* A MobaXterm file, where every session is SSH.                           *)
Bookmark(r) ==
  [Patched(EntryOf(r), [kind |-> "entry", type |-> 0]) EXCEPT !.port = IF @ = 0 THEN 22 ELSE @]
Bookmarks == [kind |-> "section", bookmarks |-> TRUE]

LEMMA BookmarkFields ==
  ASSUME NEW r
  PROVE  LET l == Bookmark(r)
         IN  /\ l.kind = "entry" /\ l.type = 0 /\ l.keyPath = NoText
             /\ l.name = r.name /\ l.host = r.host /\ l.user = r.user
<1> DEFINE more == [kind |-> "entry", type |-> 0]
           e == EntryOf(r)
           p == Patched(e, more)
           l == Bookmark(r)
           All == {"name", "protocol", "host", "port", "user", "keyPath", "agent"}
<1>1. /\ DOMAIN e = All /\ e.keyPath = NoText /\ e.name = r.name /\ e.host = r.host /\ e.user = r.user
  BY DEF EntryOf
<1>2. DOMAIN more = {"kind", "type"} /\ more.kind = "entry" /\ more.type = 0
  OBVIOUS
<1> HIDE DEF e, more
<1>3. /\ p.kind = "entry" /\ p.type = 0 /\ p.keyPath = NoText /\ p.name = r.name /\ p.host = r.host /\ p.user = r.user
  BY <1>1, <1>2 DEF Patched
<1>4. l = [p EXCEPT !.port = IF @ = 0 THEN 22 ELSE @]
  BY DEF Bookmark, e, more
<1> HIDE DEF p
<1>5. /\ l.kind = "entry" /\ l.type = 0 /\ l.keyPath = NoText
      /\ l.name = r.name /\ l.host = r.host /\ l.user = r.user
  <2>1. \A c \in {"kind", "type", "keyPath", "name", "host", "user"} : c \in DOMAIN p
    BY <1>1, <1>2 DEF p, Patched
  <2>2. QED
    BY <1>3, <1>4, <2>1
<1>6. QED
  BY <1>5 DEF l

BookmarkRow(r) ==
  Entered(Bookmark(r), MobaProtocol(Bookmark(r)), MobaPort(Bookmark(r)), "password", NoFolder)

LEMMA BookmarkRecognised ==
  ASSUME NEW d, TablesTyped(d), NEW r \in StoredRows(d), r.protocol = "ssh"
  PROVE  /\ Recognised(d, BookmarkRow(r))
         /\ \A acc : acc.bookmarks = TRUE /\ acc.path = NoFolder =>
               ReadMobaLine(acc, Bookmark(r)) = [acc EXCEPT !.done = Append(acc.done, BookmarkRow(r))]
<1> DEFINE l == Bookmark(r)
           protocol == MobaProtocol(l)
           port == MobaPort(l)
           auth == "password"
           path == NoFolder
           x == Entered(l, protocol, port, auth, path)
<1>1. \A y : y.keyPath = NoText /\ SameSession(r, y) => Recognised(d, y)
  BY StoredRecognised
<1>2. /\ l.kind = "entry" /\ l.type = 0 /\ l.keyPath = NoText
      /\ l.name = r.name /\ l.host = r.host /\ l.user = r.user
  BY BookmarkFields
<1> HIDE DEF l
<1>3. protocol = "ssh"
  BY <1>2 DEF MobaProtocol
<1>4. "ssh" # NoText
  BY Zenon DEF NoText
<1>5. x = KeyFields(EntryRow(l, protocol, port), l.keyPath, auth, path)
  BY <1>2 DEF KeyFields, Entered
<1>6. BookmarkRow(r) = x
  BY DEF BookmarkRow, l
<1> HIDE DEF x
<1>7. ASSUME NEW acc, acc.bookmarks = TRUE, acc.path = path
      PROVE  ReadMobaLine(acc, l) = [acc EXCEPT !.done = Append(acc.done, x)]
  <2>1. protocol # NoText
    BY <1>3, <1>4
  <2> HIDE DEF protocol, port
  <2>2. MobaProtocol(l) = protocol /\ MobaPort(l) = port
    BY DEF protocol, port
  <2>3. QED
    BY <1>2, <1>5, <1>7, <2>1, <2>2 DEF ReadMobaLine
<1> HIDE DEF protocol, port, auth, path
<1>8. x.keyPath = NoText /\ SameSession(r, x)
  BY <1>2, <1>3, EntryRecognised DEF x
<1>9. QED
  BY <1>1, <1>6, <1>7, <1>8 DEF l, path

LEMMA MobaXtermRecognised ==
  ASSUME NEW d, TablesTyped(d), NEW fs, NEW located, \A s \in DOMAIN d.sessions : d.sessions[s].protocol = "ssh"
  PROVE  Commit(d, fs, FromMobaXterm(ToMobaXterm(d)), located).made = 0
<1> DEFINE R == StoredRows(d)
           rows == RowsOf(d)
           n == Len(rows)
           marks == [i \in 1 .. n |-> Bookmark(rows[i])]
           body == ToMobaXterm(d)
           base == [done |-> <<>>, bookmarks |-> FALSE, path |-> NoFolder]
<1>1. rows \in Seq(R)
  BY RowsListed
<1>a. \A r \in R : r.protocol = "ssh"
  BY DEF StoredRows
<1> HIDE DEF rows, R
<1>3. n \in Nat /\ DOMAIN rows = 1 .. n /\ \A i \in 1 .. n : rows[i] \in R
  BY <1>1
<1>4. body = <<Bookmarks>> \o marks
  BY <1>3 DEF ToMobaXterm, Each, rows, Bookmark, Bookmarks
<1>5. Len(body) = n + 1 /\ DOMAIN body = 1 .. (n + 1) /\ body[1] = Bookmarks /\ \A i \in 1 .. n : body[i + 1] = Bookmark(rows[i])
  <2> DEFINE T == {Bookmark(rows[i]) : i \in 1 .. n} \cup {Bookmarks}
             top == Bookmarks
  <2>1. marks \in Seq(T) /\ Len(marks) = n /\ \A i \in 1 .. n : marks[i] = Bookmark(rows[i])
    BY <1>3
  <2>2. top \in T
    OBVIOUS
  <2> HIDE DEF marks, T, top, n
  <2>3. <<top>> \in Seq(T)
    BY <2>2
  <2> DEFINE w == <<top>> \o marks
  <2>4. Len(w) = n + 1 /\ DOMAIN w = 1 .. (n + 1) /\ w[1] = top /\ \A i \in 1 .. n : w[i + 1] = marks[i]
    BY <1>3, <2>1, <2>3
  <2>5. QED
    BY <1>4, <2>1, <2>4 DEF top
<1> HIDE DEF body, n, base
<1>6. PICK at : Chain(at, "mobaxterm", {}, base, body, n + 1) /\ FromMobaXterm(body) = at[n + 1].done
  <2>1. Len(body) \in Nat /\ DOMAIN body = 1 .. Len(body)
    BY <1>3, <1>5
  <2>2. QED
    BY <1>5, <2>1, MobaXtermFold DEF base
<1> DEFINE S == {BookmarkRow(r) : r \in R}
           Ready(r) == /\ DOMAIN r = {"done", "bookmarks", "path"}
                       /\ r.done \in Seq(S) /\ r.bookmarks = TRUE /\ r.path = NoFolder
           H == {k \in 0 .. n : Ready(at[k + 1])}
<1>7. \A r \in R : BookmarkRow(r) \in S
  OBVIOUS
<1>8. \A x \in S : Recognised(d, x)
  BY <1>a, BookmarkRecognised DEF R
<1>b. base.done = <<>> /\ DOMAIN base = {"done", "bookmarks", "path"}
  BY DEF base
<1> HIDE DEF S
<1>9. 0 \in H
  <2>1. at[1] = ReadMobaLine(at[0], body[1]) /\ at[0] = base
    BY <1>3, <1>6 DEF Chain, StepOf
  <2>2. ReadMobaLine(base, Bookmarks) = [base EXCEPT !.bookmarks = TRUE, !.path = NoFolder]
    BY DEF ReadMobaLine, Bookmarks
  <2> DEFINE e == at[1]
  <2>3. e = [base EXCEPT !.bookmarks = TRUE, !.path = NoFolder]
    BY <1>5, <2>1, <2>2
  <2>4. base.done \in Seq(S)
    BY <1>b, NothingIn
  <2> HIDE DEF e
  <2>5. Ready(e)
    BY <1>b, <2>3, <2>4
  <2> HIDE DEF Ready
  <2>6. Ready(at[0 + 1])
    BY <2>5 DEF e
  <2>7. QED
    BY <1>3, <2>6
<1>10. ASSUME NEW k \in 1 .. n, k - 1 \in H PROVE k \in H
  <2> DEFINE r == rows[k]
             x == BookmarkRow(r)
             acc == at[k]
             e == at[k + 1]
  <2>1. k + 1 \in 1 .. (n + 1) /\ (k + 1) - 1 = k /\ (k - 1) + 1 = k
    BY <1>3
  <2>2. e = ReadMobaLine(acc, Bookmark(r))
    BY <1>5, <1>6, <2>1 DEF Chain, StepOf
  <2>3. Ready(acc)
    BY <1>10, <2>1
  <2>4. r \in R /\ r.protocol = "ssh" /\ x \in S
    BY <1>3, <1>7, <1>a
  <2> HIDE DEF r, acc, e
  <2>5. acc.bookmarks = TRUE /\ acc.path = NoFolder /\ acc.done \in Seq(S)
    BY <2>3
  <2>6. e = [acc EXCEPT !.done = Append(acc.done, x)]
    BY <2>2, <2>4, <2>5, BookmarkRecognised DEF R
  <2> HIDE DEF x
  <2>7. Ready(e)
    BY <2>3, <2>4, <2>5, <2>6
  <2> HIDE DEF Ready
  <2>8. QED
    BY <2>7 DEF e
<1> HIDE DEF H
<1>11. n \in H
  BY <1>3, <1>9, <1>10, Climb
<1> DEFINE q == FromMobaXterm(body)
<1>12. q \in Seq(S)
  BY <1>6, <1>11 DEF H
<1> HIDE DEF q
<1>13. Commit(d, fs, q, located).made = 0
  BY <1>8, <1>12, KnownBatch
<1>14. QED
  BY <1>13 DEF q, body

(* An OpenSSH config: the lines of a session, and what they are read as.   *)
HostRow(r) ==
  LET named == [NewHost(Dashed(r.name)) EXCEPT !.host = r.host]
      open == IF r.port # 0 THEN [named EXCEPT !.port = r.port] ELSE named
  IN  IF r.user # NoText THEN [open EXCEPT !.user = r.user] ELSE open

LEMMA HostRecognised ==
  ASSUME NEW r, r.protocol = "ssh", r.name = Dashed(r.name)
  PROVE  HostRow(r).keyPath = NoText /\ SameSession(r, HostRow(r))
<1> DEFINE value == Dashed(r.name)
           b == Blank
           row == [b EXCEPT !.name = value, !.host = value, !.auth = "agent"]
           first == NewHost(value)
           named == [first EXCEPT !.host = r.host]
           open == IF r.port # 0 THEN [named EXCEPT !.port = r.port] ELSE named
           last == IF r.user # NoText THEN [open EXCEPT !.user = r.user] ELSE open
           All == {"name", "protocol", "host", "port", "user", "keyPath"}
<1>1. DOMAIN b = Columns /\ b.protocol = "ssh" /\ b.user = NoText
  BY BlankColumns DEF Blank
<1>2. value = r.name
  OBVIOUS
<1> HIDE DEF b, value
<1>3. DOMAIN row = Columns /\ row.name = value /\ row.protocol = "ssh" /\ row.user = NoText
  BY <1>1 DEF Columns
<1>4. first = Input(row, NoText, NoFolder)
  BY DEF NewHost, b
<1> HIDE DEF row, first
<1>5. /\ All \subseteq DOMAIN first /\ first.keyPath = NoText
      /\ first.name = value /\ first.protocol = "ssh" /\ first.user = NoText
  <2> DEFINE path == NoFolder
             x == Input(row, NoText, path)
  <2>1. DOMAIN x = Columns \cup {"keyPath", "groupPath"}
    BY <1>3 DEF Input, Patched
  <2> HIDE DEF path
  <2>2. x.keyPath = NoText /\ SameSession(row, x)
    BY <1>3, InputAlike
  <2>3. first = x
    BY <1>4 DEF path
  <2> HIDE DEF x
  <2>4. QED
    BY <1>3, <2>1, <2>2, <2>3 DEF SameSession, Columns
<1>6. /\ All \subseteq DOMAIN named /\ named.keyPath = NoText
      /\ named.name = value /\ named.protocol = "ssh" /\ named.user = NoText /\ named.host = r.host
  BY <1>5
<1> HIDE DEF named
<1>7. /\ All \subseteq DOMAIN open /\ open.keyPath = NoText
      /\ open.name = value /\ open.protocol = "ssh" /\ open.user = NoText /\ open.host = r.host
  BY <1>6
<1> HIDE DEF open
<1>8. last.keyPath = NoText /\ last.name = value /\ last.protocol = "ssh" /\ last.user = r.user /\ last.host = r.host
  BY <1>7
<1>9. HostRow(r) = last
  BY DEF HostRow, open, named, first, value
<1> HIDE DEF last
<1>10. QED
  BY <1>2, <1>8, <1>9 DEF SameSession

LEMMA EndToEnd ==
  ASSUME NEW L, NEW s \in Seq(L), NEW t \in Seq(L)
  PROVE  /\ s \o t \in Seq(L) /\ Len(s) \in Nat /\ Len(t) \in Nat /\ Len(s \o t) = Len(s) + Len(t)
         /\ DOMAIN (s \o t) = 1 .. Len(s \o t)
         /\ \A i \in 1 .. Len(s) : (s \o t)[i] = s[i]
         /\ \A i \in 1 .. Len(t) : (s \o t)[Len(s) + i] = t[i]
<1>1. QED
  OBVIOUS

LEMMA ThreeParts ==
  ASSUME NEW L, NEW h \in Seq(L), NEW P \in Seq(L), NEW U \in Seq(L)
  PROVE  LET w == h \o P \o U
         IN  /\ w \in Seq(L) /\ Len(h) \in Nat /\ Len(P) \in Nat /\ Len(U) \in Nat
             /\ Len(w) = Len(h) + Len(P) + Len(U)
             /\ \A i \in 1 .. Len(h) : w[i] = h[i]
             /\ \A i \in 1 .. Len(P) : w[Len(h) + i] = P[i]
             /\ \A i \in 1 .. Len(U) : w[Len(h) + Len(P) + i] = U[i]
<1> DEFINE v == h \o P
           w == v \o U
<1>2. v \in Seq(L) /\ Len(v) = Len(h) + Len(P)
  BY EndToEnd
<1>3. Len(h) \in Nat /\ Len(P) \in Nat /\ Len(U) \in Nat
  BY EndToEnd
<1>4. \A i \in 1 .. Len(h) : v[i] = h[i]
  BY EndToEnd
<1>5. \A i \in 1 .. Len(P) : v[Len(h) + i] = P[i]
  BY EndToEnd
<1> HIDE DEF v
<1>6. w \in Seq(L) /\ Len(w) = Len(v) + Len(U)
  BY <1>2, EndToEnd
<1>7. \A i \in 1 .. Len(v) : w[i] = v[i]
  BY <1>2, EndToEnd
<1>8. \A i \in 1 .. Len(U) : w[Len(v) + i] = U[i]
  BY <1>2, EndToEnd
<1> HIDE DEF w
<1>9. \A i \in 1 .. Len(h) : w[i] = h[i]
  BY <1>2, <1>3, <1>4, <1>7
<1>10. \A i \in 1 .. Len(P) : w[Len(h) + i] = P[i]
  <2>1. \A i \in 1 .. Len(P) : Len(h) + i \in 1 .. Len(v)
    BY <1>2, <1>3
  <2>2. QED
    BY <1>5, <1>7, <2>1
<1>11. QED
  BY <1>2, <1>3, <1>6, <1>8, <1>9, <1>10 DEF w, v

LEMMA HostBlock ==
  ASSUME NEW r, r.host # NoText, NEW L,
         SshLine("host", Dashed(r.name), 0) \in L, SshLine("hostname", r.host, 0) \in L,
         SshLine("port", NoText, r.port) \in L, SshLine("user", r.user, 0) \in L
  PROVE  LET p == IF r.port # 0 THEN 1 ELSE 0
             u == IF r.user # NoText THEN 1 ELSE 0
             s == HostLines(r)
         IN  /\ s \in Seq(L) /\ Len(s) = 2 + p + u
             /\ s[1] = SshLine("host", Dashed(r.name), 0) /\ s[2] = SshLine("hostname", r.host, 0)
             /\ r.port # 0 => s[3] = SshLine("port", NoText, r.port)
             /\ r.user # NoText => s[2 + p + 1] = SshLine("user", r.user, 0)
<1> DEFINE a == SshLine("host", Dashed(r.name), 0)
           b == SshLine("hostname", r.host, 0)
           c == SshLine("port", NoText, r.port)
           e == SshLine("user", r.user, 0)
           hasPort == r.port # 0
           hasUser == r.user # NoText
           s == HostLines(r)
<1>1. s = <<a>> \o <<b>> \o (IF hasPort THEN <<c>> ELSE <<>>) \o (IF hasUser THEN <<e>> ELSE <<>>)
  BY DEF HostLines
<1>2. {a, b, c, e} \subseteq L
  OBVIOUS
<1> HIDE DEF a, b, c, e, s, hasPort, hasUser
<1>3. /\ s \in Seq(L) /\ Len(s) = 2 + (IF hasPort THEN 1 ELSE 0) + (IF hasUser THEN 1 ELSE 0)
      /\ s[1] = a /\ s[2] = b /\ (hasPort => s[3] = c)
      /\ (hasUser => s[2 + (IF hasPort THEN 1 ELSE 0) + 1] = e)
  <2> DEFINE P == IF hasPort THEN <<c>> ELSE <<>>
             U == IF hasUser THEN <<e>> ELSE <<>>
  <2>1. P \in Seq(L) /\ Len(P) = (IF hasPort THEN 1 ELSE 0) /\ (hasPort => P[1] = c)
    BY <1>2
  <2>2. U \in Seq(L) /\ Len(U) = (IF hasUser THEN 1 ELSE 0) /\ (hasUser => U[1] = e)
    BY <1>2
  <2> DEFINE t == <<a>> \o <<b>>
  <2>t. t \in Seq(L) /\ Len(t) = 2 /\ t[1] = a /\ t[2] = b
    BY <1>2
  <2>3. s = t \o P \o U
    BY <1>1
  <2> HIDE DEF P, U, t
  <2>4. /\ s \in Seq(L) /\ Len(s) = 2 + Len(P) + Len(U)
        /\ s[1] = t[1] /\ s[2] = t[2]
        /\ \A i \in 1 .. Len(P) : s[2 + i] = P[i]
        /\ \A i \in 1 .. Len(U) : s[2 + Len(P) + i] = U[i]
    <3> DEFINE w == t \o P \o U
    <3>1. t \in Seq(L) /\ P \in Seq(L) /\ U \in Seq(L)
      BY <2>1, <2>2, <2>t
    <3>2. /\ w \in Seq(L) /\ Len(P) \in Nat /\ Len(U) \in Nat
          /\ Len(w) = Len(t) + Len(P) + Len(U)
          /\ \A i \in 1 .. Len(t) : w[i] = t[i]
          /\ \A i \in 1 .. Len(P) : w[Len(t) + i] = P[i]
          /\ \A i \in 1 .. Len(U) : w[Len(t) + Len(P) + i] = U[i]
      BY <3>1, ThreeParts
    <3>3. s = w
      BY <2>3
    <3> HIDE DEF w
    <3>4. Len(t) = 2 /\ 1 \in 1 .. Len(t) /\ 2 \in 1 .. Len(t)
      BY <2>t
    <3>5. QED
      BY <3>2, <3>3, <3>4
  <2>5. hasPort => s[3] = c
    BY <2>1, <2>4
  <2>6. hasUser => s[2 + Len(P) + 1] = e
    BY <2>2, <2>4
  <2>7. QED
    BY <2>1, <2>2, <2>4, <2>5, <2>6, <2>t
<1>4. QED
  BY <1>3 DEF a, b, c, e, s, hasPort, hasUser

(* A reader in the middle of a session.                                    *)
Within(acc, done, x) == DOMAIN acc = {"done", "current"} /\ acc.done = done /\ acc.current = <<x>>

LEMMA FieldRead ==
  ASSUME NEW acc, NEW done, NEW x, Within(acc, done, x), NEW l, l.kw # "host"
  PROVE  Within(ReadSshLine(acc, l), done, SshField(x, l))
<1> DEFINE y == SshField(x, l)
           cur == acc.current
<1>1. cur = <<x>> /\ cur # <<>> /\ cur[1] = x
  BY DEF Within
<1>2. ReadSshLine(acc, l) = [acc EXCEPT !.current = [cur EXCEPT ![1] = y]]
  BY <1>1 DEF ReadSshLine
<1> HIDE DEF y, cur
<1>3. [cur EXCEPT ![1] = y] = <<y>>
  BY <1>1
<1>4. QED
  BY <1>2, <1>3 DEF Within, y

LEMMA HostRead ==
  ASSUME NEW acc, NEW value, value # "*"
  PROVE  Within(ReadSshLine(acc, SshLine("host", value, 0)), Flushed(acc), NewHost(value))
<1>1. ReadSshLine(acc, SshLine("host", value, 0)) = [done |-> Flushed(acc), current |-> <<NewHost(value)>>]
  BY DEF ReadSshLine, SshLine
<1>2. QED
  BY <1>1 DEF Within

(* The lines of a session, read from where the lines before them end.      *)
LEMMA BlockRead ==
  ASSUME NEW r, r.host # NoText, Dashed(r.name) # "*",
         NEW lines, NEW n \in Nat, NEW at, Chain(at, "sshconfig", {}, [done |-> <<>>, current |-> <<>>], lines, n),
         NEW L, HostLines(r) \in Seq(L),
         SshLine("host", Dashed(r.name), 0) \in L, SshLine("hostname", r.host, 0) \in L,
         SshLine("port", NoText, r.port) \in L, SshLine("user", r.user, 0) \in L,
         NEW m \in Nat, m + Len(HostLines(r)) <= n,
         \A i \in 1 .. Len(HostLines(r)) : lines[m + i] = HostLines(r)[i]
  PROVE  Within(at[m + Len(HostLines(r))], Flushed(at[m]), HostRow(r))
<1> DEFINE s == HostLines(r)
           k == Len(s)
           p == IF r.port # 0 THEN 1 ELSE 0
           u == IF r.user # NoText THEN 1 ELSE 0
           value == Dashed(r.name)
           done == Flushed(at[m])
           first == NewHost(value)
           named == [first EXCEPT !.host = r.host]
           open == IF r.port # 0 THEN [named EXCEPT !.port = r.port] ELSE named
           last == IF r.user # NoText THEN [open EXCEPT !.user = r.user] ELSE open
<1>1. /\ k = 2 + p + u
      /\ s[1] = SshLine("host", value, 0) /\ s[2] = SshLine("hostname", r.host, 0)
      /\ r.port # 0 => s[3] = SshLine("port", NoText, r.port)
      /\ r.user # NoText => s[2 + p + 1] = SshLine("user", r.user, 0)
  BY HostBlock
<1>2. \A i \in 1 .. k : at[m + i] = ReadSshLine(at[m + i - 1], s[i])
  <2>1. k \in Nat /\ \A i \in 1 .. k : m + i \in 1 .. n
    BY <1>1
  <2>2. \A j \in 1 .. n : at[j] = ReadSshLine(at[j - 1], lines[j])
    BY DEF Chain, StepOf
  <2>3. ASSUME NEW i \in 1 .. k PROVE at[m + i] = ReadSshLine(at[m + i - 1], s[i])
    <3> DEFINE j == m + i
    <3>1. j \in 1 .. n /\ lines[j] = s[i]
      BY <2>1
    <3> HIDE DEF j, s
    <3>2. at[j] = ReadSshLine(at[j - 1], s[i])
      BY <2>2, <3>1
    <3>3. QED
      BY <3>2 DEF j
  <2>4. QED
    BY <2>3
<1>3. p \in {0, 1} /\ u \in {0, 1} /\ (p = 1 <=> r.port # 0) /\ (u = 1 <=> r.user # NoText)
  OBVIOUS
<1>4. HostRow(r) = last
  BY DEF HostRow
<1>a. value # "*"
  OBVIOUS
<1> HIDE DEF s, k, p, u, value, done
<1>5. Within(at[m + 1], done, first)
  <2>1. at[m + 1] = ReadSshLine(at[m], SshLine("host", value, 0))
    BY <1>1, <1>2, <1>3
  <2>2. QED
    BY <1>a, <2>1, HostRead DEF done
<1>6. Within(at[m + 2], done, named)
  <2> DEFINE l == SshLine("hostname", r.host, 0)
  <2>1. at[m + 2] = ReadSshLine(at[m + 1], l)
    BY <1>1, <1>2, <1>3
  <2>2. l.kw # "host" /\ SshField(first, l) = named
    BY DEF SshLine, SshField
  <2> HIDE DEF l, first, named
  <2>3. QED
    BY <1>5, <2>1, <2>2, FieldRead
<1>7. Within(at[m + 2 + p], done, open)
  <2>1. CASE r.port # 0
    <3> DEFINE l == SshLine("port", NoText, r.port)
    <3>1. at[m + 2 + p] = ReadSshLine(at[m + 2], l)
      BY <1>1, <1>2, <1>3, <2>1
    <3>2. l.kw # "host" /\ SshField(named, l) = open
      BY <2>1 DEF SshLine, SshField
    <3> HIDE DEF l, named, open
    <3>3. QED
      BY <1>6, <3>1, <3>2, FieldRead
  <2>2. CASE r.port = 0
    <3>1. m + 2 + p = m + 2 /\ open = named
      BY <1>3, <2>2
    <3> HIDE DEF named, open
    <3>2. QED
      BY <1>6, <3>1
  <2>3. QED
    BY <2>1, <2>2
<1>8. Within(at[m + k], done, last)
  <2>1. CASE r.user # NoText
    <3> DEFINE l == SshLine("user", r.user, 0)
    <3>1. at[m + k] = ReadSshLine(at[m + 2 + p], l)
      BY <1>1, <1>2, <1>3, <2>1
    <3>2. l.kw # "host" /\ SshField(open, l) = last
      BY <2>1 DEF SshLine, SshField
    <3> HIDE DEF l, open, last
    <3>3. QED
      BY <1>7, <3>1, <3>2, FieldRead
  <2>2. CASE r.user = NoText
    <3>1. m + k = m + 2 + p /\ last = open
      BY <1>1, <1>3, <2>2
    <3> HIDE DEF open, last
    <3>2. QED
      BY <1>7, <3>1
  <2>3. QED
    BY <2>1, <2>2
<1>9. QED
  BY <1>4, <1>8 DEF done, k, s

(* What an export wrote before a row is the beginning of what it wrote.    *)
LEMMA Beginnings ==
  ASSUME NEW at, NEW n \in Nat, NEW L, \A k \in 0 .. n : at[k] \in Seq(L),
         \A k \in 1 .. n : at[k] = at[k - 1] \/ \E b \in Seq(L) : at[k] = at[k - 1] \o b
  PROVE  \A k \in 0 .. n : /\ Len(at[k]) \in Nat /\ Len(at[k]) <= Len(at[n])
                           /\ \A i \in 1 .. Len(at[k]) : at[n][i] = at[k][i]
<1> DEFINE Begins(k) == /\ Len(at[k]) \in Nat /\ Len(at[k]) <= Len(at[n])
                        /\ \A i \in 1 .. Len(at[k]) : at[n][i] = at[k][i]
           H == {j \in 0 .. n : Begins(n - j)}
<1>1. \A k \in 0 .. n : Len(at[k]) \in Nat
  OBVIOUS
<1>2. 0 \in H
  <2>1. Begins(n)
    BY <1>1
  <2>2. n - 0 = n
    OBVIOUS
  <2> HIDE DEF Begins
  <2>3. QED
    BY <2>1, <2>2
<1>3. ASSUME NEW j \in 1 .. n, j - 1 \in H PROVE j \in H
  <2> DEFINE k == n - (j - 1)
             short == at[k - 1]
             long == at[k]
             all == at[n]
  <2>1. k \in 1 .. n /\ k - 1 = n - j /\ k - 1 \in 0 .. n /\ k \in 0 .. n
    OBVIOUS
  <2>2. Begins(k)
    BY <1>3
  <2>3. long = short \/ \E b \in Seq(L) : long = short \o b
    BY <2>1
  <2>4. short \in Seq(L) /\ Len(short) \in Nat /\ Len(long) \in Nat
    BY <1>1, <2>1
  <2>5. Len(long) <= Len(all) /\ \A i \in 1 .. Len(long) : all[i] = long[i]
    BY <2>2
  <2>n. Len(all) \in Nat
    BY <1>1
  <2> HIDE DEF k, short, long, all
  <2>6. Len(short) <= Len(long) /\ \A i \in 1 .. Len(short) : long[i] = short[i]
    <3>1. CASE long = short
      BY <2>4, <3>1
    <3>2. ASSUME NEW b \in Seq(L), long = short \o b PROVE Len(short) <= Len(long) /\ \A i \in 1 .. Len(short) : long[i] = short[i]
      <4> DEFINE w == short \o b
      <4>1. Len(w) = Len(short) + Len(b) /\ Len(b) \in Nat /\ \A i \in 1 .. Len(short) : w[i] = short[i]
        BY <2>4, EndToEnd
      <4>2. long = w
        BY <3>2
      <4> HIDE DEF w
      <4>3. QED
        BY <2>4, <4>1, <4>2
    <3>3. QED
      BY <2>3, <3>1, <3>2
  <2>7. Len(short) <= Len(all) /\ \A i \in 1 .. Len(short) : all[i] = short[i]
    <3>1. \A i \in 1 .. Len(short) : i \in 1 .. Len(long)
      BY <2>4, <2>6
    <3>2. QED
      BY <2>4, <2>5, <2>6, <2>n, <3>1
  <2>8. Begins(k - 1)
    BY <2>4, <2>7 DEF short, all
  <2> HIDE DEF Begins
  <2>9. QED
    BY <2>1, <2>8
<1>4. \A k \in 0 .. n : Begins(k)
  <2>1. ASSUME NEW k \in 0 .. n PROVE Begins(k)
    <3> DEFINE N == n - k
               G == {j \in 0 .. N : j \in H}
    <3>1. N \in Nat /\ N \in 0 .. n /\ n - N = k /\ \A j \in 1 .. N : j \in 1 .. n /\ j - 1 \in 0 .. N
      OBVIOUS
    <3> HIDE DEF N, H
    <3>2. 0 \in G
      BY <1>2, <3>1
    <3>3. \A j \in 1 .. N : j - 1 \in G => j \in G
      BY <1>3, <3>1
    <3> HIDE DEF G
    <3>4. N \in G
      BY <3>1, <3>2, <3>3, Climb
    <3>5. N \in H
      BY <3>4 DEF G
    <3> HIDE DEF Begins
    <3>6. QED
      BY <3>1, <3>5 DEF H
  <2>2. QED
    BY <2>1
<1>5. QED
  BY <1>4

LinesOf(R) ==
  {SshLine("host", Dashed(r.name), 0) : r \in R} \cup {SshLine("hostname", r.host, 0) : r \in R}
  \cup {SshLine("port", NoText, r.port) : r \in R} \cup {SshLine("user", r.user, 0) : r \in R}

LEMMA BlockLines ==
  ASSUME NEW R, NEW r \in R, r.host # NoText
  PROVE  /\ HostLines(r) \in Seq(LinesOf(R))
         /\ SshLine("host", Dashed(r.name), 0) \in LinesOf(R) /\ SshLine("hostname", r.host, 0) \in LinesOf(R)
         /\ SshLine("port", NoText, r.port) \in LinesOf(R) /\ SshLine("user", r.user, 0) \in LinesOf(R)
<1> DEFINE L == LinesOf(R)
<1>1. /\ SshLine("host", Dashed(r.name), 0) \in L /\ SshLine("hostname", r.host, 0) \in L
      /\ SshLine("port", NoText, r.port) \in L /\ SshLine("user", r.user, 0) \in L
  BY DEF LinesOf
<1> HIDE DEF L
<1>2. HostLines(r) \in Seq(L)
  BY <1>1, HostBlock
<1>3. QED
  BY <1>1, <1>2 DEF L

LEMMA SshConfigRecognised ==
  ASSUME NEW d, TablesTyped(d), NEW fs, NEW located, \A s \in DOMAIN d.sessions : Carries("sshconfig", d.sessions[s])
  PROVE  Commit(d, fs, FromSshConfig(ToSshConfig(d)), located).made = 0
<1> DEFINE R == StoredRows(d)
           rows == RowsOf(d)
           n == Len(rows)
           body == ToSshConfig(d)
           N == Len(body)
           L == LinesOf(R)
           base == [done |-> <<>>, current |-> <<>>]
           S == {x \in {HostRow(r) : r \in R} : Recognised(d, x)}
<1>1. rows \in Seq(R)
  BY RowsListed
<1>2. ASSUME NEW r \in R, r.protocol = "ssh"
      PROVE  r.host # NoText /\ Dashed(r.name) # "*" /\ HostRow(r) \in S
  <2>1. Carries("sshconfig", r)
    BY DEF StoredRows
  <2>2. r.host # NoText /\ r.name = Dashed(r.name) /\ r.name # "*"
    BY <1>2, <2>1 DEF Carries
  <2>3. Recognised(d, HostRow(r))
    BY <1>2, <2>2, HostRecognised, StoredRecognised
  <2>4. QED
    BY <2>2, <2>3
<1> HIDE DEF rows, R
<1>3. n \in Nat /\ DOMAIN rows = 1 .. n /\ \A i \in 1 .. n : rows[i] \in R
  BY <1>1
<1>4. PICK out : Chain(out, "hosts", {}, <<>>, rows, n) /\ body = out[n]
  BY <1>3, HostsFold DEF rows
<1>5. \A k \in 1 .. n : out[k] = IF rows[k].protocol = "ssh" THEN out[k - 1] \o HostLines(rows[k]) ELSE out[k - 1]
  BY <1>4 DEF Chain, StepOf
<1> HIDE DEF n, body, L, S
<1>6. \A k \in 1 .. n : rows[k].protocol = "ssh" => HostLines(rows[k]) \in Seq(L)
  BY <1>2, <1>3, BlockLines DEF L
<1>7. \A k \in 0 .. n : out[k] \in Seq(L)
  <2> DEFINE H == {k \in 0 .. n : out[k] \in Seq(L)}
  <2>1. 0 \in H
    <3>1. out[0] = <<>>
      BY <1>4 DEF Chain
    <3>2. out[0] \in Seq(L)
      BY <3>1
    <3>3. QED
      BY <1>3, <3>2
  <2>2. ASSUME NEW k \in 1 .. n, k - 1 \in H PROVE k \in H
    <3> DEFINE b == HostLines(rows[k])
    <3>1. out[k - 1] \in Seq(L)
      BY <2>2
    <3>2. CASE rows[k].protocol = "ssh"
      <4>1. out[k] = out[k - 1] \o b /\ b \in Seq(L)
        BY <1>5, <1>6, <3>2
      <4> HIDE DEF b
      <4>2. out[k] \in Seq(L)
        BY <3>1, <4>1
      <4>3. QED
        BY <4>2
    <3>3. CASE rows[k].protocol # "ssh"
      <4>1. out[k] = out[k - 1]
        BY <1>5, <3>3
      <4>2. QED
        BY <3>1, <4>1
    <3>4. QED
      BY <3>2, <3>3
  <2>3. \A k \in 0 .. n : k \in H
    <3>1. ASSUME NEW k \in 0 .. n PROVE k \in H
      <4> DEFINE G == {j \in 0 .. k : j \in H}
      <4> HIDE DEF H
      <4>1. k \in Nat /\ \A j \in 1 .. k : j \in 1 .. n /\ j - 1 \in 0 .. k
        BY <1>3
      <4>2. 0 \in G
        BY <2>1, <4>1
      <4>3. \A j \in 1 .. k : j - 1 \in G => j \in G
        BY <2>2, <4>1
      <4> HIDE DEF G
      <4>4. k \in G
        BY <4>1, <4>2, <4>3, Climb
      <4>5. QED
        BY <4>4 DEF G
    <3>2. QED
      BY <3>1
  <2>4. QED
    BY <2>3
<1>8. \A k \in 0 .. n : /\ Len(out[k]) \in Nat /\ Len(out[k]) <= N
                        /\ \A i \in 1 .. Len(out[k]) : body[i] = out[k][i]
  <2>1. \A k \in 1 .. n : out[k] = out[k - 1] \/ \E b \in Seq(L) : out[k] = out[k - 1] \o b
    <3>1. ASSUME NEW k \in 1 .. n PROVE out[k] = out[k - 1] \/ \E b \in Seq(L) : out[k] = out[k - 1] \o b
      <4> DEFINE b == HostLines(rows[k])
      <4>1. out[k] = out[k - 1] \/ (out[k] = out[k - 1] \o b /\ b \in Seq(L))
        BY <1>5, <1>6
      <4> HIDE DEF b
      <4>2. QED
        BY <4>1
    <3>2. QED
      BY <3>1
  <2>2. \A k \in 0 .. n : /\ Len(out[k]) \in Nat /\ Len(out[k]) <= Len(out[n])
                          /\ \A i \in 1 .. Len(out[k]) : out[n][i] = out[k][i]
    BY <1>3, <1>7, <2>1, Beginnings
  <2>3. QED
    BY <1>4, <2>2
<1>9. N \in Nat /\ DOMAIN body = 1 .. N /\ N = Len(out[n])
  <2>1. body \in Seq(L)
    BY <1>3, <1>4, <1>7
  <2>2. QED
    BY <1>4, <2>1
<1>10. PICK at : Chain(at, "sshconfig", {}, base, body, N) /\ FromSshConfig(body) = Flushed(at[N])
  BY <1>9, SshConfigFold
<1> DEFINE Open(acc) == acc.done \in Seq(S) /\ acc.current \in Seq(S)
           H == {k \in 0 .. n : Open(at[Len(out[k])])}
<1>a. base.done = <<>> /\ base.current = <<>>
  OBVIOUS
<1>b. \A x \in S : Recognised(d, x)
  BY DEF S
<1> HIDE DEF N, base
<1>11. 0 \in H
  <2>1. out[0] = <<>> /\ at[0] = base
    BY <1>4, <1>10 DEF Chain
  <2>2. Len(out[0]) = 0
    BY <2>1
  <2>3. Open(base)
    BY <1>a, NothingIn
  <2> HIDE DEF Open
  <2>4. QED
    BY <1>3, <2>1, <2>2, <2>3
<1>12. ASSUME NEW k \in 1 .. n, k - 1 \in H PROVE k \in H
  <2> DEFINE r == rows[k]
             m == Len(out[k - 1])
             acc == at[m]
             b == HostLines(r)
             last == at[m + Len(b)]
             row == HostRow(r)
             done == Flushed(acc)
  <2>1. Open(acc)
    BY <1>12
  <2>2. CASE r.protocol = "ssh"
    <3>1. out[k] = out[k - 1] \o b
      BY <1>5, <2>2
    <3>2. r \in R /\ b \in Seq(L) /\ out[k - 1] \in Seq(L) /\ k - 1 \in 0 .. n
      BY <1>3, <1>6, <1>7, <2>2
    <3>3. m \in Nat /\ Len(out[k]) = m + Len(b) /\ Len(b) \in Nat /\ \A i \in 1 .. Len(b) : out[k][m + i] = b[i]
      <4> DEFINE p == out[k - 1]
                 w == p \o b
      <4>1. out[k] = w /\ p \in Seq(L) /\ b \in Seq(L)
        BY <3>1, <3>2
      <4> HIDE DEF b, p
      <4>2. Len(w) = Len(p) + Len(b)
        BY <4>1, EndToEnd
      <4>3. Len(p) \in Nat /\ Len(b) \in Nat
        BY <4>1, EndToEnd
      <4>4. \A i \in 1 .. Len(b) : w[Len(p) + i] = b[i]
        BY <4>1, EndToEnd
      <4> HIDE DEF w
      <4>5. QED
        BY <4>1, <4>2, <4>3, <4>4 DEF p
    <3>4. m + Len(b) <= N /\ \A i \in 1 .. Len(b) : body[m + i] = b[i]
      <4>1. Len(out[k]) <= N /\ \A i \in 1 .. Len(out[k]) : body[i] = out[k][i]
        BY <1>8
      <4>2. \A i \in 1 .. Len(b) : m + i \in 1 .. Len(out[k])
        <5> DEFINE size == Len(b)
                   all == Len(out[k])
        <5>1. m \in Nat /\ size \in Nat /\ all = m + size
          BY <3>3
        <5> HIDE DEF m, size, all
        <5>2. \A i \in 1 .. size : m + i \in 1 .. all
          BY <5>1
        <5>3. QED
          BY <5>2 DEF size, all
      <4>3. QED
        BY <3>3, <4>1, <4>2
    <3>5. /\ r.host # NoText /\ Dashed(r.name) # "*" /\ row \in S
          /\ SshLine("host", Dashed(r.name), 0) \in L /\ SshLine("hostname", r.host, 0) \in L
          /\ SshLine("port", NoText, r.port) \in L /\ SshLine("user", r.user, 0) \in L
      BY <1>2, <2>2, <3>2, BlockLines DEF L
    <3> HIDE DEF r, m
    <3>6. Within(last, done, row)
      BY <1>9, <1>10, <3>2, <3>3, <3>4, <3>5, BlockRead DEF base
    <3>7. done \in Seq(S)
      BY <2>1 DEF Flushed
    <3> HIDE DEF last, done, row
    <3>8. Open(last)
      <4>1. last.done = done /\ last.current = <<row>>
        BY <3>6 DEF Within
      <4>2. QED
        BY <3>5, <3>7, <4>1
    <3> HIDE DEF Open
    <3>9. Open(at[Len(out[k])])
      BY <3>3, <3>8 DEF last
    <3>10. QED
      BY <3>9
  <2>3. CASE r.protocol # "ssh"
    <3>1. out[k] = out[k - 1]
      BY <1>5, <2>3
    <3> HIDE DEF Open
    <3>2. QED
      BY <2>1, <3>1
  <2>4. QED
    BY <2>2, <2>3
<1> HIDE DEF H
<1>13. n \in H
  BY <1>3, <1>11, <1>12, Climb
<1> DEFINE q == FromSshConfig(body)
<1>14. q \in Seq(S)
  <2>1. Open(at[N])
    BY <1>9, <1>13 DEF H
  <2>2. QED
    BY <1>10, <2>1 DEF Flushed
<1> HIDE DEF q
<1>15. Commit(d, fs, q, located).made = 0
  BY <1>14, <1>b, KnownBatch
<1>16. QED
  BY <1>15 DEF q, body
=============================================================================
