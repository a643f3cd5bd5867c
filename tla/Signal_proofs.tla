----------------------------- MODULE Signal_proofs -----------------------------
(* Proofs about the callbacks of a signal, for any finite set of threads, any *)
(* callbacks and any number of calls.                                         *)
EXTENDS Signal, SumTheorems, SequenceTheorems, TLAPS

Entry == [cb : Callbacks, remove : BOOLEAN, keep_ref : BOOLEAN]

-----------------------------------------------------------------------------
(* The entries that End leaves.                                               *)

\* One step of the recursion of Unmarked.
KeepStep(entries, kept, n) ==
    IF n = 0 THEN <<>>
    ELSE IF entries[n].remove THEN kept[n - 1]
    ELSE Append(kept[n - 1], entries[n])

\* kept holds what is kept of the first n entries, for every n up to m.
IsKept(entries, kept, m) == kept = [n \in 0..m |-> KeepStep(entries, kept, n)]

\* The definition of the recursion, by its choice,
LEMMA UnmarkedUnfold ==
    ASSUME NEW entries
    PROVE  Unmarked(entries) =
             (CHOOSE kept : IsKept(entries, kept, Len(entries)))[Len(entries)]
  BY Zenon DEF Unmarked, IsKept, KeepStep

\* which there is.
LEMMA KeptExists ==
    ASSUME NEW entries, NEW m \in Nat
    PROVE  \E kept : IsKept(entries, kept, m)
<1> DEFINE P == {k \in Nat : \E kept : IsKept(entries, kept, k)}
<1>1. 0 \in P
  <2> DEFINE g == [n \in 0..0 |-> <<>>]
  <2>1. IsKept(entries, g, 0)
    BY DEF IsKept, KeepStep
  <2> QED  BY <2>1
<1>2. ASSUME NEW k \in Nat, k \in P  PROVE k + 1 \in P
  <2>1. PICK g : IsKept(entries, g, k)
    BY <1>2
  <2> DEFINE h == [n \in 0..k + 1 |-> KeepStep(entries, g, n)]
  <2>2. ASSUME NEW n \in 0..k + 1  PROVE KeepStep(entries, g, n) = KeepStep(entries, h, n)
    <3>1. CASE n = 0
      BY <3>1 DEF KeepStep
    <3>2. CASE n # 0
      <4>1. n - 1 \in 0..k /\ n - 1 \in 0..k + 1
        BY <3>2
      <4>2. g[n - 1] = KeepStep(entries, g, n - 1)
        BY <2>1, <4>1 DEF IsKept
      <4>3. h[n - 1] = g[n - 1]
        BY <4>1, <4>2
      <4> HIDE DEF h
      <4> QED  BY <3>2, <4>3 DEF KeepStep
    <3> QED  BY <3>1, <3>2
  <2>3. h = [n \in 0..k + 1 |-> KeepStep(entries, h, n)]
    BY <2>2
  <2> HIDE DEF h
  <2>4. IsKept(entries, h, k + 1)
    BY <2>3 DEF IsKept
  <2> QED  BY <2>4
<1> HIDE DEF P
<1>3. Nat \subseteq P
  BY <1>1, <1>2, Induction
<1> QED  BY <1>3 DEF P

\* What the recursion returns for the first n entries.
LEMMA KeptUpTo ==
    ASSUME NEW entries \in Seq(Entry), NEW kept, IsKept(entries, kept, Len(entries)),
           NEW n \in 0..Len(entries)
    PROVE  /\ kept[n] \in Seq(Entry)
           /\ \A k \in DOMAIN kept[n] : \E i \in 1..n :
                 kept[n][k] = entries[i] /\ ~entries[i].remove
           /\ \A i \in 1..n : ~entries[i].remove => \E k \in DOMAIN kept[n] :
                 kept[n][k] = entries[i]
           /\ Cardinality(Keeping(kept[n])) + Cardinality(Leaving(entries) \cap (1..n))
                = Cardinality(Keeping(entries) \cap (1..n))
<1> DEFINE Kept(j) ==
             /\ kept[j] \in Seq(Entry)
             /\ \A k \in DOMAIN kept[j] : \E i \in 1..j :
                   kept[j][k] = entries[i] /\ ~entries[i].remove
             /\ \A i \in 1..j : ~entries[i].remove => \E k \in DOMAIN kept[j] :
                   kept[j][k] = entries[i]
           Count(j) ==
             Cardinality(Keeping(kept[j])) + Cardinality(Leaving(entries) \cap (1..j))
                = Cardinality(Keeping(entries) \cap (1..j))
           P == {j \in Nat : j <= Len(entries) => Kept(j) /\ Count(j)}
<1>0. \A m \in Nat : IsFiniteSet(1..m)
  BY FS_Interval
<1>1. 0 \in P
  <2>1. kept[0] = <<>>
    BY LenProperties DEF IsKept, KeepStep
  <2>2. Keeping(kept[0]) = {}
    BY <2>1 DEF Keeping
  <2>3. Leaving(entries) \cap (1..0) = {} /\ Keeping(entries) \cap (1..0) = {}
    OBVIOUS
  <2>4. Kept(0)
    BY <2>1
  <2>5. Count(0)
    BY <2>2, <2>3, FS_EmptySet
  <2> QED  BY <2>4, <2>5
<1>2. ASSUME NEW j \in Nat, j \in P  PROVE j + 1 \in P
  <2> SUFFICES ASSUME j + 1 <= Len(entries)  PROVE Kept(j + 1) /\ Count(j + 1)
    OBVIOUS
  <2>1. Kept(j) /\ Count(j)
    BY <1>2, LenProperties
  <2> DEFINE e == entries[j + 1]
             K(m) == Keeping(entries) \cap (1..m)
             L(m) == Leaving(entries) \cap (1..m)
             R(m) == Keeping(kept[m])
  <2>2. kept[j + 1] = IF e.remove THEN kept[j] ELSE Append(kept[j], e)
    <3>1. j + 1 \in 0..Len(entries) /\ j + 1 # 0 /\ (j + 1) - 1 = j
      BY LenProperties
    <3>2. kept[j + 1] = KeepStep(entries, kept, j + 1)
      BY <3>1, Zenon DEF IsKept
    <3> HIDE DEF Kept, Count
    <3> QED  BY <3>1, <3>2 DEF KeepStep
  <2>3. e \in Entry /\ j + 1 \in DOMAIN entries
    BY LenProperties
  <2>4. /\ IsFiniteSet(K(j)) /\ j + 1 \notin K(j)
        /\ IsFiniteSet(L(j)) /\ j + 1 \notin L(j)
    <3>1. IsFiniteSet(1..j)
      BY FS_Interval
    <3>2. K(j) \in SUBSET (1..j) /\ L(j) \in SUBSET (1..j)
      OBVIOUS
    <3> QED  BY <3>1, <3>2, FS_Subset
  <2>5. /\ K(j + 1) = IF e.keep_ref THEN K(j) \cup {j + 1} ELSE K(j)
        /\ L(j + 1) = IF e.keep_ref /\ e.remove THEN L(j) \cup {j + 1} ELSE L(j)
    <3>1. 1..j + 1 = (1..j) \cup {j + 1}
      OBVIOUS
    <3> QED  BY <3>1, <2>3 DEF Keeping, Leaving
  <2>6. /\ Len(kept[j]) \in Nat /\ DOMAIN kept[j] = 1..Len(kept[j])
        /\ IsFiniteSet(R(j)) /\ Len(kept[j]) + 1 \notin R(j)
    <3>1. Len(kept[j]) \in Nat /\ DOMAIN kept[j] = 1..Len(kept[j])
      BY <2>1, LenProperties
    <3>2. IsFiniteSet(1..Len(kept[j]))
      BY <3>1, <1>0, Zenon
    <3>3. R(j) \in SUBSET (1..Len(kept[j]))
      BY <3>1 DEF Keeping
    <3> QED  BY <3>1, <3>2, <3>3, FS_Subset
  <2>7. CASE e.remove
    <3>1. kept[j + 1] = kept[j]
      BY <2>2, <2>7
    <3>2. Kept(j + 1)
      <4>1. \A i \in 1..j + 1 : ~entries[i].remove => i \in 1..j
        BY <2>7
      <4>2. \A i \in 1..j : i \in 1..j + 1
        OBVIOUS
      <4> QED  BY <2>1, <3>1, <4>1, <4>2
    <3>3. Cardinality(K(j)) \in Nat /\ Cardinality(L(j)) \in Nat /\ Cardinality(R(j)) \in Nat
      BY <2>4, <2>6, FS_CardinalityType
    <3>4. Cardinality(R(j + 1)) = Cardinality(R(j))
      BY <3>1
    <3>5. CASE e.keep_ref
      <4>1. /\ Cardinality(K(j + 1)) = Cardinality(K(j)) + 1
            /\ Cardinality(L(j + 1)) = Cardinality(L(j)) + 1
        BY <3>5, <2>7, <2>4, <2>5, FS_AddElement
      <4>2. Cardinality(R(j)) + Cardinality(L(j)) = Cardinality(K(j))
        BY <2>1
      <4> HIDE DEF K, L, R, Kept, e
      <4>3. Cardinality(R(j + 1)) + Cardinality(L(j + 1)) = Cardinality(K(j + 1))
        BY <3>3, <3>4, <4>1, <4>2
      <4> QED  BY <3>2, <4>3 DEF K, L, R
    <3>6. CASE ~e.keep_ref
      <4>1. K(j + 1) = K(j) /\ L(j + 1) = L(j)
        BY <3>6, <2>5
      <4> QED  BY <2>1, <3>1, <3>2, <4>1
    <3> QED  BY <3>5, <3>6
  <2>8. CASE ~e.remove
    <3> DEFINE l == Len(kept[j])
    <3>1. kept[j + 1] = Append(kept[j], e)
      BY <2>2, <2>8
    <3>2. /\ kept[j + 1] \in Seq(Entry)
          /\ Len(kept[j + 1]) = l + 1 /\ DOMAIN kept[j + 1] = 1..l + 1
          /\ \A k \in 1..l : kept[j + 1][k] = kept[j][k]
          /\ kept[j + 1][l + 1] = e
      <4>1. Append(kept[j], e) \in Seq(Entry)
        BY <2>1, <2>3, AppendProperties
      <4>2. DOMAIN Append(kept[j], e) = 1..Len(Append(kept[j], e))
        BY <4>1, LenProperties
      <4> QED  BY <2>1, <2>3, <3>1, <4>1, <4>2, AppendProperties
    <3> HIDE DEF l
    <3>3. l \in Nat /\ DOMAIN kept[j] = 1..l
      BY <2>6 DEF l
    <3>4. \A k \in 1..l + 1 : k \in 1..l \/ k = l + 1
      BY <3>3
    <3>5. \A i \in 1..j + 1 : i \in 1..j \/ i = j + 1
      OBVIOUS
    <3>6. /\ \A i \in 1..j : i \in 1..j + 1
          /\ \A k \in 1..l : k \in 1..l + 1
          /\ j + 1 \in 1..j + 1 /\ l + 1 \in 1..l + 1
      BY <3>3
    <3>7. Kept(j + 1)
      <4>1. ASSUME NEW k \in DOMAIN kept[j + 1]
            PROVE  \E i \in 1..j + 1 : kept[j + 1][k] = entries[i] /\ ~entries[i].remove
        <5>1. CASE k \in 1..l
          BY <5>1, <2>1, <3>2, <3>3, <3>6
        <5>2. CASE k = l + 1
          BY <5>2, <2>8, <3>2, <3>6
        <5> QED  BY <3>2, <3>4, <5>1, <5>2
      <4>2. ASSUME NEW i \in 1..j + 1, ~entries[i].remove
            PROVE  \E k \in DOMAIN kept[j + 1] : kept[j + 1][k] = entries[i]
        <5>1. CASE i \in 1..j
          BY <5>1, <4>2, <2>1, <3>2, <3>3, <3>6
        <5>2. CASE i = j + 1
          BY <5>2, <3>2, <3>6
        <5> QED  BY <3>5, <5>1, <5>2
      <4> QED  BY <3>2, <4>1, <4>2
    <3>8. L(j + 1) = L(j)
      BY <2>5, <2>8
    <3>9. R(j + 1) = IF e.keep_ref THEN R(j) \cup {l + 1} ELSE R(j)
      <4>1. 1..l + 1 = (1..l) \cup {l + 1}
        BY <3>3
      <4> HIDE DEF e
      <4> QED  BY <3>2, <3>3, <4>1 DEF Keeping
    <3>10. Cardinality(K(j)) \in Nat /\ Cardinality(L(j)) \in Nat /\ Cardinality(R(j)) \in Nat
      BY <2>4, <2>6, FS_CardinalityType
    <3>11. Cardinality(R(j)) + Cardinality(L(j)) = Cardinality(K(j))
      BY <2>1
    <3>12. CASE e.keep_ref
      <4>1. Cardinality(K(j + 1)) = Cardinality(K(j)) + 1
        BY <3>12, <2>4, <2>5, FS_AddElement
      <4>2. Cardinality(R(j + 1)) = Cardinality(R(j)) + 1
        BY <3>12, <2>6, <3>9, FS_AddElement DEF l
      <4> HIDE DEF K, L, R, Kept, e
      <4>3. Cardinality(R(j + 1)) + Cardinality(L(j + 1)) = Cardinality(K(j + 1))
        BY <3>8, <3>10, <3>11, <4>1, <4>2
      <4> QED  BY <3>7, <4>3 DEF K, L, R
    <3>13. CASE ~e.keep_ref
      <4>1. K(j + 1) = K(j) /\ R(j + 1) = R(j)
        BY <3>13, <2>5, <3>9
      <4> HIDE DEF Kept
      <4> QED  BY <3>7, <3>8, <3>11, <4>1
    <3> QED  BY <3>12, <3>13
  <2> QED  BY <2>7, <2>8
<1> HIDE DEF P
<1>3. Nat \subseteq P
  BY <1>1, <1>2, Induction
<1>4. n \in P /\ n \in Nat /\ n <= Len(entries)
  BY <1>3, LenProperties
<1> QED  BY <1>4 DEF P

\* What is left are the entries that are not marked, and the references that
\* entries keep are those of the ones left and of the ones erased.
LEMMA UnmarkedProperties ==
    ASSUME NEW entries \in Seq(Entry)
    PROVE  /\ Unmarked(entries) \in Seq(Entry)
           /\ \A k \in DOMAIN Unmarked(entries) : \E i \in DOMAIN entries :
                 Unmarked(entries)[k] = entries[i] /\ ~entries[i].remove
           /\ \A i \in DOMAIN entries : ~entries[i].remove =>
                 \E k \in DOMAIN Unmarked(entries) : Unmarked(entries)[k] = entries[i]
           /\ Cardinality(Keeping(Unmarked(entries))) + Cardinality(Leaving(entries))
                = Cardinality(Keeping(entries))
<1> DEFINE n == Len(entries)
           kept == CHOOSE g : IsKept(entries, g, n)
           u == Unmarked(entries)
<1>1. n \in Nat /\ n \in 0..n /\ DOMAIN entries = 1..n
  BY LenProperties
<1>2. IsKept(entries, kept, n)
  BY <1>1, KeptExists
<1>3. kept[n] = u
  BY UnmarkedUnfold
<1> HIDE DEF kept
<1>4. Leaving(entries) \cap (1..n) = Leaving(entries) /\ Keeping(entries) \cap (1..n) = Keeping(entries)
  BY <1>1 DEF Leaving, Keeping
<1>5. /\ kept[n] \in Seq(Entry)
      /\ \A k \in DOMAIN kept[n] : \E i \in 1..n :
            kept[n][k] = entries[i] /\ ~entries[i].remove
      /\ \A i \in 1..n : ~entries[i].remove => \E k \in DOMAIN kept[n] :
            kept[n][k] = entries[i]
      /\ Cardinality(Keeping(kept[n])) + Cardinality(Leaving(entries) \cap (1..n))
           = Cardinality(Keeping(entries) \cap (1..n))
  BY <1>1, <1>2, KeptUpTo, Zenon
<1> HIDE DEF n, u
<1>6. Cardinality(Keeping(u)) + Cardinality(Leaving(entries))
        = Cardinality(Keeping(entries))
  BY <1>3, <1>4, <1>5
<1>7. /\ u \in Seq(Entry)
      /\ \A k \in DOMAIN u : \E i \in DOMAIN entries :
            u[k] = entries[i] /\ ~entries[i].remove
      /\ \A i \in DOMAIN entries : ~entries[i].remove => \E k \in DOMAIN u :
            u[k] = entries[i]
  BY <1>1, <1>3, <1>5
<1> QED  BY <1>6, <1>7 DEF u

-----------------------------------------------------------------------------
(* The entries that connect, disconnect and a mark leave.                     *)

\* The entries that keep a reference are finitely many.
LEMMA KeepingFinite ==
    ASSUME NEW entries \in Seq(Entry)
    PROVE  /\ IsFiniteSet(Keeping(entries)) /\ Cardinality(Keeping(entries)) \in Nat
           /\ Cardinality(Leaving(entries)) \in Nat
<1>1. Len(entries) \in Nat /\ DOMAIN entries = 1..Len(entries)
  BY LenProperties
<1>2. IsFiniteSet(1..Len(entries))
  BY <1>1, FS_Interval
<1>3. Keeping(entries) \in SUBSET (1..Len(entries)) /\ Leaving(entries) \in SUBSET (1..Len(entries))
  BY <1>1 DEF Keeping, Leaving
<1>4. IsFiniteSet(Keeping(entries)) /\ IsFiniteSet(Leaving(entries))
  BY <1>2, <1>3, FS_Subset
<1> QED  BY <1>4, FS_CardinalityType

\* The first entry of a callback.
LEMMA IndexProperties ==
    ASSUME callbacks \in Seq(Entry), NEW c
    PROVE  \/ Index(c) = 0 /\ \A i \in DOMAIN callbacks : callbacks[i].cb # c
           \/ Index(c) \in DOMAIN callbacks /\ callbacks[Index(c)].cb = c
<1> DEFINE found == {i \in DOMAIN callbacks : callbacks[i].cb = c}
<1>1. DOMAIN callbacks \subseteq Nat
  BY LenProperties
<1>2. CASE found = {}
  BY <1>2 DEF Index
<1>3. CASE found # {}
  <2>1. Index(c) = Min(found)
    BY <1>3 DEF Index
  <2>2. PICK x \in found : \A y \in found : x <= y
    <3>1. found \subseteq Nat
      BY <1>1
    <3> HIDE DEF found
    <3> QED  BY <1>3, <3>1, LeastOf
  <2>3. Min(found) \in found
    BY <2>2 DEF Min
  <2> QED  BY <2>1, <2>3
<1> QED  BY <1>2, <1>3

\* The entries with one more at the end,
LEMMA EntryAppended ==
    ASSUME NEW entries \in Seq(Entry), NEW e \in Entry
    PROVE  LET longer == Append(entries, e)
           IN  /\ longer \in Seq(Entry) /\ Len(longer) = Len(entries) + 1
               /\ DOMAIN longer = 1..Len(entries) + 1
               /\ \A k \in DOMAIN entries : k \in DOMAIN longer /\ longer[k] = entries[k]
               /\ longer[Len(entries) + 1] = e
               /\ Cardinality(Keeping(longer))
                    = Cardinality(Keeping(entries)) + (IF e.keep_ref THEN 1 ELSE 0)
<1> DEFINE longer == Append(entries, e)
           l == Len(entries)
<1>1. l \in Nat /\ DOMAIN entries = 1..l
  BY LenProperties
<1>2. /\ longer \in Seq(Entry) /\ Len(longer) = l + 1
      /\ \A k \in 1..l : longer[k] = entries[k]
      /\ longer[l + 1] = e
  BY AppendProperties
<1>3. DOMAIN longer = 1..l + 1
  BY <1>2, LenProperties
<1> HIDE DEF longer, l
<1>4. 1..l + 1 = (1..l) \cup {l + 1} /\ l + 1 \notin 1..l
  BY <1>1
<1>5. Keeping(longer) = IF e.keep_ref THEN Keeping(entries) \cup {l + 1} ELSE Keeping(entries)
  BY <1>1, <1>2, <1>3, <1>4 DEF Keeping
<1>6. l + 1 \notin Keeping(entries)
  BY <1>1, <1>4 DEF Keeping
<1>7. IsFiniteSet(Keeping(entries)) /\ Cardinality(Keeping(entries)) \in Nat
  BY KeepingFinite
<1>8. Cardinality(Keeping(longer))
        = Cardinality(Keeping(entries)) + (IF e.keep_ref THEN 1 ELSE 0)
  <2>1. CASE e.keep_ref
    BY <2>1, <1>5, <1>6, <1>7, FS_AddElement
  <2>2. CASE ~e.keep_ref
    <3>1. Keeping(longer) = Keeping(entries)
      BY <1>5, <2>2
    <3> QED  BY <2>2, <3>1, <1>7
  <2> QED  BY <2>1, <2>2
<1>9. \A k \in DOMAIN entries : k \in DOMAIN longer /\ longer[k] = entries[k]
  BY <1>1, <1>2, <1>3, <1>4
<1> QED  BY <1>2, <1>3, <1>8, <1>9 DEF longer, l

\* with one marked for removal,
LEMMA EntryMarked ==
    ASSUME NEW entries \in Seq(Entry), NEW i \in DOMAIN entries
    PROVE  LET marked == [entries EXCEPT ![i].remove = TRUE]
           IN  /\ marked \in Seq(Entry) /\ Len(marked) = Len(entries)
               /\ DOMAIN marked = DOMAIN entries
               /\ marked[i].remove
               /\ \A k \in DOMAIN entries : marked[k].cb = entries[k].cb
               /\ \A k \in DOMAIN entries \ {i} : marked[k] = entries[k]
               /\ Keeping(marked) = Keeping(entries)
<1> DEFINE e == [entries[i] EXCEPT !.remove = TRUE]
           marked == [entries EXCEPT ![i] = e]
<1>1. DOMAIN entries = 1..Len(entries) /\ entries[i] \in Entry
  BY LenProperties, ElementOfSeq
<1>2. e \in Entry /\ e.remove = TRUE /\ e.cb = entries[i].cb /\ e.keep_ref = entries[i].keep_ref
  BY <1>1 DEF Entry
<1> HIDE DEF e
<1>3. /\ marked \in Seq(Entry) /\ Len(marked) = Len(entries)
      /\ \A j \in 1..Len(entries) : marked[j] = IF j = i THEN e ELSE entries[j]
  BY <1>1, <1>2, ExceptSeq
<1>4. DOMAIN marked = DOMAIN entries
  OBVIOUS
<1> HIDE DEF marked
<1>5. Keeping(marked) = Keeping(entries)
  BY <1>1, <1>2, <1>3, <1>4 DEF Keeping
<1>6. /\ marked[i].remove
      /\ \A k \in DOMAIN entries : marked[k].cb = entries[k].cb
      /\ \A k \in DOMAIN entries \ {i} : marked[k] = entries[k]
  BY <1>1, <1>2, <1>3
<1>7. [entries EXCEPT ![i].remove = TRUE] = marked
  BY DEF marked, e
<1> QED  BY <1>3, <1>4, <1>5, <1>6, <1>7

\* and with one taken out.
LEMMA EntryErased ==
    ASSUME NEW entries \in Seq(Entry), NEW i \in DOMAIN entries
    PROVE  LET rest == RemoveAt(entries, i)
           IN  /\ rest \in Seq(Entry)
               /\ \A k \in DOMAIN rest : \E j \in DOMAIN entries \ {i} : rest[k] = entries[j]
               /\ \A j \in DOMAIN entries \ {i} : \E k \in DOMAIN rest : rest[k] = entries[j]
               /\ Cardinality(Keeping(rest)) = Cardinality(Keeping(entries))
                                               - (IF entries[i].keep_ref THEN 1 ELSE 0)
<1> DEFINE rest == RemoveAt(entries, i)
           l == Len(entries)
           a == SubSeq(entries, 1, i - 1)
           b == SubSeq(entries, i + 1, l)
<1>1. l \in Nat /\ DOMAIN entries = 1..l /\ i \in 1..l /\ i \in Int /\ l \in Int
  BY LenProperties
<1>2. \A k \in 1..l : entries[k] \in Entry
  BY ElementOfSeq
<1>3. /\ a \in Seq(Entry) /\ Len(a) = i - 1
      /\ \A k \in 1..i - 1 : a[k] = entries[k]
  <2>1. \A k \in 1..i - 1 : entries[k] \in Entry
    BY <1>1, <1>2
  <2>2. /\ SubSeq(entries, 1, i - 1) \in Seq(Entry)
        /\ Len(SubSeq(entries, 1, i - 1)) = IF 1 <= i - 1 THEN (i - 1) - 1 + 1 ELSE 0
        /\ \A k \in 1..(i - 1) - 1 + 1 : SubSeq(entries, 1, i - 1)[k] = entries[1 + k - 1]
    <3>1. 1 \in Int /\ i - 1 \in Int
      BY <1>1
    <3> QED  BY <2>1, <3>1, SubSeqProperties
  <2>3. (i - 1) - 1 + 1 = i - 1 /\ \A k \in 1..i - 1 : 1 + k - 1 = k
    BY <1>1
  <2> QED  BY <1>1, <2>2, <2>3
<1>4. /\ b \in Seq(Entry) /\ Len(b) = l - i
      /\ \A k \in 1..l - i : b[k] = entries[i + k]
  <2>1. \A k \in i + 1..l : entries[k] \in Entry
    BY <1>1, <1>2
  <2>2. /\ SubSeq(entries, i + 1, l) \in Seq(Entry)
        /\ Len(SubSeq(entries, i + 1, l)) = IF i + 1 <= l THEN l - (i + 1) + 1 ELSE 0
        /\ \A k \in 1..l - (i + 1) + 1 : SubSeq(entries, i + 1, l)[k] = entries[(i + 1) + k - 1]
    <3>1. i + 1 \in Int
      BY <1>1
    <3> HIDE DEF l
    <3> QED  BY <1>1, <2>1, <3>1, SubSeqProperties
  <2>3. l - (i + 1) + 1 = l - i /\ \A k \in 1..l - i : (i + 1) + k - 1 = i + k
    BY <1>1
  <2> QED  BY <1>1, <2>2, <2>3
<1>5. rest = a \o b
  BY DEF RemoveAt
<1> HIDE DEF rest, a, b, l
<1>6. /\ rest \in Seq(Entry) /\ Len(rest) = l - 1 /\ DOMAIN rest = 1..l - 1
      /\ \A k \in 1..l - 1 : rest[k] = IF k < i THEN entries[k] ELSE entries[k + 1]
  <2>1. /\ a \o b \in Seq(Entry) /\ Len(a \o b) = Len(a) + Len(b)
        /\ \A k \in 1..Len(a) + Len(b) : (a \o b)[k] = IF k <= Len(a) THEN a[k] ELSE b[k - Len(a)]
    BY <1>3, <1>4, ConcatProperties
  <2>2. Len(a) + Len(b) = l - 1
    BY <1>1, <1>3, <1>4
  <2>3. DOMAIN (a \o b) = 1..Len(a \o b)
    BY <2>1, LenProperties
  <2>4. ASSUME NEW k \in 1..l - 1
        PROVE  (a \o b)[k] = IF k < i THEN entries[k] ELSE entries[k + 1]
    <3>1. (a \o b)[k] = IF k <= Len(a) THEN a[k] ELSE b[k - Len(a)]
      BY <2>1, <2>2
    <3>2. CASE k < i
      <4>1. k <= i - 1 /\ k \in 1..i - 1
        BY <3>2, <1>1
      <4> QED  BY <3>1, <3>2, <4>1, <1>3
    <3>3. CASE ~(k < i)
      <4>1. ~(k <= i - 1) /\ k - (i - 1) \in 1..l - i /\ i + (k - (i - 1)) = k + 1
        BY <3>3, <1>1
      <4>2. (a \o b)[k] = b[k - (i - 1)]
        BY <3>1, <4>1, <1>3
      <4> QED  BY <3>3, <4>1, <4>2, <1>4
    <3> QED  BY <3>2, <3>3
  <2> QED  BY <1>5, <2>1, <2>2, <2>3, <2>4
<1> DEFINE Into(k) == IF k < i THEN k ELSE k + 1
<1>7. \A k \in 1..l - 1 : Into(k) \in (1..l) \ {i} /\ rest[k] = entries[Into(k)]
  BY <1>1, <1>6
<1>8. \A j \in (1..l) \ {i} : \E k \in 1..l - 1 : Into(k) = j
  <2> SUFFICES ASSUME NEW j \in (1..l) \ {i}  PROVE \E k \in 1..l - 1 : Into(k) = j
    OBVIOUS
  <2>1. CASE j < i
    <3>1. j \in 1..l - 1
      BY <2>1, <1>1
    <3> QED  BY <2>1, <3>1
  <2>2. CASE ~(j < i)
    <3>1. j - 1 \in 1..l - 1 /\ ~(j - 1 < i) /\ (j - 1) + 1 = j
      BY <2>2, <1>1
    <3> QED  BY <3>1
  <2> QED  BY <2>1, <2>2
<1>9. \A k, m \in 1..l - 1 : Into(k) = Into(m) => k = m
  BY <1>1
<1> HIDE DEF Into
<1>10. Cardinality(Keeping(rest)) = Cardinality(Keeping(entries) \ {i})
  <2> DEFINE S == Keeping(rest)
             T == Keeping(entries) \ {i}
             f == [k \in S |-> Into(k)]
  <2>1. S = {k \in 1..l - 1 : entries[Into(k)].keep_ref}
    BY <1>6, <1>7 DEF Keeping
  <2>2. T = {j \in (1..l) \ {i} : entries[j].keep_ref}
    BY <1>1 DEF Keeping
  <2>3. \A k \in S : k \in 1..l - 1
    BY <2>1
  <2>4. f \in [S -> T]
    BY <2>1, <2>2, <1>7
  <2>5. \A j \in T : \E k \in S : f[k] = j
    BY <2>1, <2>2, <1>8
  <2>6. \A k, m \in S : f[k] = f[m] => k = m
    BY <2>3, <1>9
  <2>7. IsFiniteSet(S)
    BY <1>6, KeepingFinite
  <2> HIDE DEF f, S, T
  <2>8. f \in Bijection(S, T)
    BY <2>4, <2>5, <2>6 DEF Bijection, Injection, Surjection, IsInjective
  <2>9. ExistsBijection(S, T)
    BY <2>8 DEF ExistsBijection
  <2>10. Cardinality(T) = Cardinality(S)
    BY <2>7, <2>9, FS_Bijection
  <2> QED  BY <2>10 DEF S, T
<1>11. IsFiniteSet(Keeping(entries)) /\ Cardinality(Keeping(entries)) \in Nat
  BY KeepingFinite
<1>12. Cardinality(Keeping(entries) \ {i})
         = IF i \in Keeping(entries) THEN Cardinality(Keeping(entries)) - 1
                                     ELSE Cardinality(Keeping(entries))
  BY <1>11, FS_RemoveElement
<1>13. i \in Keeping(entries) <=> entries[i].keep_ref
  BY DEF Keeping
<1>14. Cardinality(Keeping(rest))
         = Cardinality(Keeping(entries)) - (IF entries[i].keep_ref THEN 1 ELSE 0)
  BY <1>10, <1>11, <1>12, <1>13
<1>15. \A k \in DOMAIN rest : \E j \in DOMAIN entries \ {i} : rest[k] = entries[j]
  BY <1>1, <1>6, <1>7
<1>16. \A j \in DOMAIN entries \ {i} : \E k \in DOMAIN rest : rest[k] = entries[j]
  <2> TAKE j \in DOMAIN entries \ {i}
  <2>1. PICK k \in 1..l - 1 : Into(k) = j
    BY <1>1, <1>8
  <2> QED  BY <1>6, <1>7, <2>1
<1> QED  BY <1>6, <1>14, <1>15, <1>16 DEF rest

-----------------------------------------------------------------------------
(* The stack of a thread.                                                     *)

\* A frame below the last one is in a callback; a frame that walks the array is
\* at an entry or past the last one; a disconnect drops one reference.
Fits(s) ==
    /\ \A k \in DOMAIN s : k < Len(s) => s[k].at = "call"
    /\ \A k \in DOMAIN s : Walks(s[k]) => s[k].i >= 1
    /\ \A k \in DOMAIN s : s[k].at = "call" => s[k].cb \in Callbacks
    /\ \A k \in DOMAIN s : s[k].at = "drop" => s[k].n = 1

WalksIn(s) == \E k \in DOMAIN s : Walks(s[k])

Owes(frame) == IF frame.at \in {"refs", "store", "drop"} THEN frame.n ELSE 0
OwedOf(s) == IF s = <<>> THEN 0 ELSE Owes(s[Len(s)])

\* Frames that may be put on a stack.
Proper(frame) ==
    /\ frame \in Frame
    /\ Walks(frame) => frame.i >= 1
    /\ frame.at = "call" => frame.cb \in Callbacks
    /\ frame.at = "drop" => frame.n = 1

LEMMA OwesType == ASSUME NEW f \in Frame PROVE Owes(f) \in Nat
  BY DEF Owes, Frame

LEMMA TopReplaced ==
    ASSUME NEW s \in Seq(Frame), s # <<>>, Fits(s), NEW f, Proper(f)
    PROVE  LET r == Append(Front(s), f)
           IN  /\ r \in Seq(Frame) /\ Len(r) = Len(s) /\ r # <<>> /\ Last(r) = f
               /\ \A k \in DOMAIN s : k < Len(s) => r[k] = s[k]
               /\ Fits(r)
               /\ OwedOf(r) = Owes(f)
               /\ WalksIn(r) => WalksIn(s) \/ Walks(f)
<1> DEFINE r == Append(Front(s), f)
           l == Len(s)
<1>1. l \in Nat /\ l >= 1 /\ DOMAIN s = 1..l /\ f \in Frame
  BY EmptySeq, LenProperties DEF Proper
<1>2. /\ Front(s) \in Seq(Frame) /\ Len(Front(s)) = l - 1
      /\ \A k \in 1..l - 1 : Front(s)[k] = s[k]
  <2>1. \A k \in 1..l - 1 : s[k] \in Frame
    BY <1>1, ElementOfSeq
  <2>2. 1 \in Int /\ l - 1 \in Int
    BY <1>1
  <2> HIDE DEF l
  <2>3. /\ SubSeq(s, 1, l - 1) \in Seq(Frame)
        /\ Len(SubSeq(s, 1, l - 1)) = IF 1 <= l - 1 THEN (l - 1) - 1 + 1 ELSE 0
        /\ \A k \in 1..(l - 1) - 1 + 1 : SubSeq(s, 1, l - 1)[k] = s[1 + k - 1]
    BY <2>1, <2>2, SubSeqProperties
  <2>4. (l - 1) - 1 + 1 = l - 1 /\ \A k \in 1..l - 1 : 1 + k - 1 = k
    BY <1>1
  <2>5. Front(s) = SubSeq(s, 1, l - 1)
    BY DEF Front, l
  <2> QED  BY <1>1, <2>3, <2>4, <2>5
<1>3. /\ r \in Seq(Frame) /\ Len(r) = (l - 1) + 1 /\ r # <<>>
      /\ \A k \in 1..l - 1 : r[k] = Front(s)[k]
      /\ r[(l - 1) + 1] = f
  <2> DEFINE a == Front(s)
  <2>1. /\ Append(a, f) \in Seq(Frame) /\ Append(a, f) # <<>>
        /\ Len(Append(a, f)) = Len(a) + 1
        /\ \A k \in 1..Len(a) : Append(a, f)[k] = a[k]
        /\ Append(a, f)[Len(a) + 1] = f
    <3> HIDE DEF a
    <3>1. a \in Seq(Frame) /\ f \in Frame
      BY <1>1, <1>2 DEF a
    <3> QED  BY <3>1, AppendProperties
  <2> QED  BY <1>2, <2>1
<1> HIDE DEF r, l
<1>4. Len(r) = l /\ r[l] = f /\ DOMAIN r = 1..l /\ (\A k \in 1..l : k < l => r[k] = s[k])
  <2>1. (l - 1) + 1 = l /\ \A k \in 1..l : k < l => k \in 1..l - 1
    BY <1>1
  <2>2. DOMAIN r = 1..Len(r)
    BY <1>3, LenProperties
  <2> QED  BY <1>2, <1>3, <2>1, <2>2
<1>5. \A k \in 1..l : k < l \/ k = l
  BY <1>1
<1>6. Fits(r)
  BY <1>1, <1>4, <1>5 DEF Fits, Proper, l
<1>7. WalksIn(r) => WalksIn(s) \/ Walks(f)
  BY <1>1, <1>4, <1>5 DEF WalksIn
<1>8. OwedOf(r) = Owes(f)
  BY <1>3, <1>4 DEF OwedOf
<1> QED  BY <1>1, <1>3, <1>4, <1>6, <1>7, <1>8 DEF Last, r, l

LEMMA FramePushed ==
    ASSUME NEW s \in Seq(Frame), s = <<>> \/ Last(s).at = "call", Fits(s), NEW f, Proper(f)
    PROVE  LET r == Append(s, f)
           IN  /\ r \in Seq(Frame) /\ Len(r) = Len(s) + 1 /\ r # <<>> /\ Last(r) = f
               /\ \A k \in DOMAIN s : r[k] = s[k]
               /\ Fits(r)
               /\ OwedOf(r) = Owes(f)
               /\ WalksIn(r) => WalksIn(s) \/ Walks(f)
<1> DEFINE r == Append(s, f)
           l == Len(s)
<1>1. l \in Nat /\ DOMAIN s = 1..l /\ f \in Frame
  BY LenProperties DEF Proper
<1>2. /\ r \in Seq(Frame) /\ Len(r) = l + 1 /\ r # <<>>
      /\ \A k \in 1..l : r[k] = s[k]
      /\ r[l + 1] = f
  BY <1>1, AppendProperties
<1>3. DOMAIN r = 1..l + 1
  BY <1>2, LenProperties
<1>4. \A k \in DOMAIN s : s[k].at = "call"
  <2>1. CASE s = <<>>
    BY <2>1
  <2>2. CASE s # <<>>
    BY <2>2, <1>1 DEF Fits, Last
  <2> QED  BY <2>1, <2>2
<1> HIDE DEF r, l
<1>5. \A k \in 1..l + 1 : k \in 1..l \/ k = l + 1
  BY <1>1
<1>6. Fits(r)
  BY <1>1, <1>2, <1>3, <1>4, <1>5 DEF Fits, Proper, l
<1>7. WalksIn(r) => WalksIn(s) \/ Walks(f)
  BY <1>1, <1>2, <1>3, <1>5 DEF WalksIn
<1>8. OwedOf(r) = Owes(f)
  BY <1>2 DEF OwedOf
<1> QED  BY <1>1, <1>2, <1>6, <1>7, <1>8 DEF Last, r, l

LEMMA FramePopped ==
    ASSUME NEW s \in Seq(Frame), s # <<>>, Fits(s)
    PROVE  /\ Front(s) \in Seq(Frame) /\ Len(Front(s)) = Len(s) - 1
           /\ Fits(Front(s))
           /\ OwedOf(Front(s)) = 0
           /\ WalksIn(Front(s)) => WalksIn(s)
<1> DEFINE r == Front(s)
           l == Len(s)
<1>1. l \in Nat /\ l >= 1 /\ DOMAIN s = 1..l
  BY EmptySeq, LenProperties
<1>2. /\ r \in Seq(Frame) /\ Len(r) = l - 1
      /\ \A k \in 1..l - 1 : r[k] = s[k]
  <2>1. \A k \in 1..l - 1 : s[k] \in Frame
    BY <1>1, ElementOfSeq
  <2>2. 1 \in Int /\ l - 1 \in Int
    BY <1>1
  <2> HIDE DEF l
  <2>3. /\ SubSeq(s, 1, l - 1) \in Seq(Frame)
        /\ Len(SubSeq(s, 1, l - 1)) = IF 1 <= l - 1 THEN (l - 1) - 1 + 1 ELSE 0
        /\ \A k \in 1..(l - 1) - 1 + 1 : SubSeq(s, 1, l - 1)[k] = s[1 + k - 1]
    BY <2>1, <2>2, SubSeqProperties
  <2>4. (l - 1) - 1 + 1 = l - 1 /\ \A k \in 1..l - 1 : 1 + k - 1 = k
    BY <1>1
  <2>5. Front(s) = SubSeq(s, 1, l - 1)
    BY DEF Front, l
  <2> QED  BY <1>1, <2>3, <2>4, <2>5
<1>3. DOMAIN r = 1..l - 1
  BY <1>2, LenProperties
<1> HIDE DEF r, l
<1>4. \A k \in 1..l - 1 : k \in 1..l /\ k < l /\ s[k].at = "call"
  <2>1. \A k \in 1..l - 1 : k \in 1..l /\ k < l
    BY <1>1
  <2> QED  BY <1>1, <2>1 DEF Fits, l
<1>5. Fits(r)
  BY <1>1, <1>2, <1>3, <1>4 DEF Fits
<1>6. WalksIn(r) => WalksIn(s)
  BY <1>1, <1>2, <1>3, <1>4 DEF WalksIn
<1>7. OwedOf(r) = 0
  <2>1. CASE r = <<>>
    BY <2>1 DEF OwedOf
  <2>2. CASE r # <<>>
    <3>1. Len(r) # 0
      BY <1>2, <2>2, EmptySeq
    <3>2. l - 1 \in 1..l - 1
      BY <3>1, <1>1, <1>2
    <3>3. r[Len(r)].at = "call"
      BY <3>2, <1>2, <1>4
    <3> QED  BY <2>2, <3>3 DEF OwedOf, Owes
  <2> QED  BY <2>1, <2>2
<1> QED  BY <1>2, <1>5, <1>6, <1>7 DEF r, l

\* The frames of s when callback c is due in none of them.
Without(s, c) == [k \in DOMAIN s |-> [s[k] EXCEPT !.due = @ \ {c}]]

LEMMA FrameWithout ==
    ASSUME NEW f \in Frame, NEW c
    PROVE  LET g == [f EXCEPT !.due = @ \ {c}]
           IN  /\ g \in Frame /\ g.at = f.at /\ g.i = f.i /\ g.cb = f.cb /\ g.n = f.n
               /\ g.due = f.due \ {c} /\ g.done = f.done
  BY DEF Frame

LEMMA DueDropped ==
    ASSUME NEW s \in Seq(Frame), Fits(s), NEW c
    PROVE  LET r == Without(s, c)
           IN  /\ r \in Seq(Frame) /\ Len(r) = Len(s) /\ DOMAIN r = DOMAIN s
               /\ \A k \in DOMAIN s : /\ r[k].at = s[k].at /\ r[k].i = s[k].i
                                      /\ r[k].cb = s[k].cb /\ r[k].n = s[k].n
                                      /\ r[k].due = s[k].due \ {c} /\ r[k].done = s[k].done
               /\ Fits(r)
               /\ OwedOf(r) = OwedOf(s)
               /\ WalksIn(r) => WalksIn(s)
<1> DEFINE r == Without(s, c)
           l == Len(s)
           g(k) == [s[k] EXCEPT !.due = @ \ {c}]
<1>1. l \in Nat /\ DOMAIN s = 1..l /\ \A k \in 1..l : s[k] \in Frame
  BY LenProperties, ElementOfSeq
<1>2. \A k \in 1..l : /\ g(k) \in Frame /\ g(k).at = s[k].at /\ g(k).i = s[k].i
                      /\ g(k).cb = s[k].cb /\ g(k).n = s[k].n
                      /\ g(k).due = s[k].due \ {c} /\ g(k).done = s[k].done
  BY <1>1, FrameWithout
<1>3. r = [k \in 1..l |-> g(k)]
  BY <1>1 DEF Without
<1> HIDE DEF g, r, l
<1>4. r \in Seq(Frame) /\ Len(r) = l
  BY <1>1, <1>2, <1>3
<1>5. DOMAIN r = 1..l /\ \A k \in 1..l : r[k] = g(k)
  BY <1>3
<1>6. \A k \in 1..l : /\ r[k].at = s[k].at /\ r[k].i = s[k].i
                      /\ r[k].cb = s[k].cb /\ r[k].n = s[k].n
                      /\ r[k].due = s[k].due \ {c} /\ r[k].done = s[k].done
  BY <1>2, <1>5
<1>7. Fits(r)
  BY <1>1, <1>4, <1>5, <1>6 DEF Fits, Walks, l
<1>8. WalksIn(r) => WalksIn(s)
  BY <1>1, <1>5, <1>6 DEF WalksIn, Walks
<1>9. OwedOf(r) = OwedOf(s)
  <2>1. CASE s = <<>>
    <3>1. l = 0
      BY <2>1, EmptySeq DEF l
    <3>2. r = <<>>
      BY <3>1, <1>4, EmptySeq
    <3> QED  BY <2>1, <3>2 DEF OwedOf
  <2>2. CASE s # <<>>
    <3>1. l \in 1..l
      BY <2>2, <1>1, EmptySeq DEF l
    <3>2. r # <<>>
      BY <3>1, <1>4, EmptySeq
    <3> QED  BY <2>2, <3>1, <3>2, <1>4, <1>6 DEF OwedOf, Owes, l
  <2> QED  BY <2>1, <2>2
<1> QED  BY <1>1, <1>4, <1>5, <1>6, <1>7, <1>8, <1>9 DEF r, l

-----------------------------------------------------------------------------
(* The inductive invariant: the types, stacks that fit and the count.         *)

StacksFit == \A t \in Threads : Fits(stack[t])

IInv == TypeOK /\ StacksFit /\ Counted

\* The types of what is no stack.
RestOK ==
    /\ callbacks \in Seq(Entry)
    /\ signalling \in BOOLEAN
    /\ refs \in Int
    /\ owned \in BOOLEAN /\ freed \in BOOLEAN /\ raced \in BOOLEAN
    /\ current \in [Threads -> Nat]
    /\ status \in [Callbacks -> Threads \cup {"never", "connected"}]

StackOK ==
    /\ stack \in [Threads -> Seq(Frame)]
    /\ StacksFit
    /\ \A t \in Threads : WalksIn(stack[t]) => MutexFree(t)

Total == SumFunction([t \in Threads |-> Owed(t)])

LEMMA TypeParts == TypeOK /\ StacksFit <=> RestOK /\ StackOK
  BY DEF TypeOK, RestOK, StackOK, Entry, WalksIn

LEMMA TypePartsNext == (TypeOK /\ StacksFit)' <=> RestOK' /\ StackOK'
<1>1. TypeOK' <=> RestOK' /\ stack' \in [Threads -> Seq(Frame)]
                  /\ \A t \in Threads : WalksIn(stack'[t]) => MutexFree(t)'
  BY DEF TypeOK, RestOK, Entry, WalksIn
<1> QED  BY <1>1 DEF StackOK

LEMMA OwedIs ==
    ASSUME NEW t \in Threads
    PROVE  Owed(t) = OwedOf(stack[t])
  BY DEF Owed, OwedOf, Owes, AtTop, Top, Last

LEMMA OwedIsNext ==
    ASSUME NEW t \in Threads
    PROVE  Owed(t)' = OwedOf(stack'[t])
  BY DEF Owed, OwedOf, Owes, AtTop, Top, Last

LEMMA OwedOfType ==
    ASSUME NEW s \in Seq(Frame)
    PROVE  OwedOf(s) \in Nat
<1>1. CASE s = <<>>
  BY <1>1 DEF OwedOf
<1>2. CASE s # <<>>
  <2>1. Len(s) \in 1..Len(s)
    BY <1>2, EmptySeq
  <2>2. s[Len(s)] \in Frame
    BY <2>1, ElementOfSeq
  <2> QED  BY <1>2, <2>2, OwesType DEF OwedOf
<1> QED  BY <1>1, <1>2

LEMMA FreeIs ==
    ASSUME NEW t \in Threads
    PROVE  MutexFree(t) <=> \A u \in Threads \ {t} : ~WalksIn(stack[u])
  BY DEF MutexFree, WalksIn

LEMMA FreeIsNext ==
    ASSUME NEW t \in Threads
    PROVE  MutexFree(t)' <=> \A u \in Threads \ {t} : ~WalksIn(stack'[u])
  BY DEF MutexFree, WalksIn

LEMMA TotalType ==
    ASSUME StackOK
    PROVE  Total \in Int
<1> DEFINE f == [t \in Threads |-> Owed(t)]
<1>1. \A t \in Threads : f[t] \in Int
  BY OwedIs, OwedOfType DEF StackOK
<1>2. DOMAIN f = Threads
  OBVIOUS
<1>3. IsFiniteSet(Threads)
  BY SignalAssumption
<1>4. Total = SumFunctionOnSet(f, Threads)
  BY <1>2 DEF Total, SumFunction
<1> HIDE DEF f
<1> QED  BY <1>1, <1>3, <1>4, SumType

\* A thread's stack changes; a frame that now walks the array has the mutex.
LEMMA StackStep ==
    ASSUME StackOK, NEW t \in Threads, NEW s \in Seq(Frame), Fits(s),
           stack' = [stack EXCEPT ![t] = s],
           WalksIn(s) => WalksIn(stack[t]) \/ MutexFree(t)
    PROVE  /\ StackOK'
           /\ stack'[t] = s /\ \A u \in Threads \ {t} : stack'[u] = stack[u]
           /\ Total' = Total + OwedOf(s) - OwedOf(stack[t])
<1>1. /\ stack' \in [Threads -> Seq(Frame)]
      /\ stack'[t] = s
      /\ \A u \in Threads \ {t} : stack'[u] = stack[u]
  BY DEF StackOK
<1>2. StacksFit'
  <2>1. ASSUME NEW u \in Threads  PROVE Fits(stack'[u])
    BY <1>1 DEF StackOK, StacksFit
  <2> QED  BY <2>1 DEF StacksFit
<1>3. ASSUME NEW u \in Threads, WalksIn(stack'[u])  PROVE MutexFree(u)'
  <2> SUFFICES ASSUME NEW v \in Threads \ {u}, WalksIn(stack'[v])  PROVE FALSE
    BY FreeIsNext
  <2>1. WalksIn(s) => \A w \in Threads \ {t} : ~WalksIn(stack[w])
    BY FreeIs DEF StackOK
  <2>2. \A w \in Threads : WalksIn(stack[w]) => \A x \in Threads \ {w} : ~WalksIn(stack[x])
    BY FreeIs DEF StackOK
  <2>3. CASE u = t
    BY <2>3, <1>1, <1>3, <2>1
  <2>4. CASE v = t
    BY <2>4, <1>1, <1>3, <2>1
  <2>5. CASE u # t /\ v # t
    BY <2>5, <1>1, <1>3, <2>2
  <2> QED  BY <2>3, <2>4, <2>5
<1>4. StackOK'
  BY <1>1, <1>2, <1>3 DEF StackOK
<1>5. Total' = Total + OwedOf(s) - OwedOf(stack[t])
  <2> DEFINE f == [u \in Threads |-> Owed(u)]
             g == [u \in Threads |-> Owed(u)']
  <2>1. \A u \in Threads : f[u] = OwedOf(stack[u]) /\ g[u] = OwedOf(stack'[u])
    BY OwedIs, OwedIsNext
  <2>2. \A u \in Threads : f[u] \in Int
    BY <2>1, OwedOfType DEF StackOK
  <2>3. g[t] = OwedOf(s) /\ g[t] \in Int /\ f[t] = OwedOf(stack[t])
    BY <1>1, <2>1, OwedOfType
  <2>4. \A u \in Threads \ {t} : g[u] = f[u]
    BY <1>1, <2>1
  <2>5. IsFiniteSet(Threads)
    BY SignalAssumption
  <2>6. Total = SumFunctionOnSet(f, Threads)
    BY DEF Total, SumFunction
  <2>7. Total' = SumFunctionOnSet(g, Threads)
    BY DEF Total, SumFunction
  <2> HIDE DEF f, g
  <2>8. SumFunctionOnSet(g, Threads) = SumFunctionOnSet(f, Threads) + g[t] - f[t]
    BY <2>2, <2>3, <2>4, <2>5, SumChanged
  <2> QED  BY <2>3, <2>6, <2>7, <2>8
<1> QED  BY <1>1, <1>4, <1>5

-----------------------------------------------------------------------------
(* The frames that the steps put on a stack.                                  *)

LEMMA FrameBegun ==
    ASSUME status \in [Callbacks -> Threads \cup {"never", "connected"}]
    PROVE  LET f == [at |-> "loop", i |-> 1, cb |-> NoCallback, n |-> 0,
                     due |-> Connected, done |-> {}]
           IN  Proper(f) /\ Owes(f) = 0 /\ Walks(f)
  BY DEF Proper, Frame, Owes, Walks, Connected

LEMMA FrameDropping ==
    ASSUME NEW c \in Callbacks
    PROVE  Proper(DropFrame(c)) /\ Owes(DropFrame(c)) = 1 /\ ~Walks(DropFrame(c))
  BY DEF Proper, Frame, Owes, Walks, DropFrame

LEMMA FramePassed ==
    ASSUME NEW f, Proper(f), f.at = "loop"
    PROVE  LET g == [f EXCEPT !.i = @ + 1]
           IN  /\ Proper(g) /\ Owes(g) = 0 /\ g.at = "loop" /\ g.i = f.i + 1
               /\ g.due = f.due /\ g.done = f.done
  BY DEF Proper, Frame, Owes, Walks

LEMMA FrameCalled ==
    ASSUME NEW f, Proper(f), f.at = "loop", NEW c \in Callbacks, NEW n \in Nat
    PROVE  LET g == [f EXCEPT !.at = "call", !.cb = c, !.n = n, !.done = @ \cup {c}]
           IN  /\ Proper(g) /\ Owes(g) = 0 /\ g.at = "call" /\ g.i = f.i /\ g.cb = c
               /\ g.n = n /\ g.due = f.due /\ g.done = f.done \cup {c}
  BY DEF Proper, Frame, Owes, Walks

LEMMA FrameReturned ==
    ASSUME NEW f, Proper(f), f.at = "call"
    PROVE  LET g == [f EXCEPT !.at = "loop", !.i = @ + 1, !.cb = NoCallback, !.n = 0]
           IN  /\ Proper(g) /\ Owes(g) = 0 /\ g.at = "loop" /\ g.i = f.i + 1
               /\ g.due = f.due /\ g.done = f.done
<1> DEFINE j == f.i + 1
           g == [f EXCEPT !.at = "loop", !.i = j, !.cb = NoCallback, !.n = 0]
<1>1. f \in Frame /\ f.i \in Int /\ f.i >= 1
  BY DEF Proper, Frame, Walks
<1>2. j \in Int /\ j >= 1
  BY <1>1
<1>3. g = [f EXCEPT !.at = "loop", !.i = @ + 1, !.cb = NoCallback, !.n = 0]
  OBVIOUS
<1> HIDE DEF j
<1>4. /\ g \in Frame /\ g.at = "loop" /\ g.i = j /\ g.due = f.due /\ g.done = f.done
  BY <1>1, <1>2 DEF Frame
<1> HIDE DEF g
<1>5. Proper(g) /\ Owes(g) = 0
  BY <1>2, <1>4 DEF Proper, Owes, Walks
<1> QED  BY <1>3, <1>4, <1>5 DEF j

LEMMA FrameEnded ==
    ASSUME NEW f, Proper(f), NEW n \in Nat
    PROVE  LET g == [f EXCEPT !.at = "refs", !.n = n]
           IN  Proper(g) /\ Owes(g) = n /\ ~Walks(g)
  BY DEF Proper, Frame, Owes, Walks

LEMMA FrameLoaded ==
    ASSUME NEW f, Proper(f), f.at = "refs", NEW i \in Int
    PROVE  LET g == [f EXCEPT !.at = "store", !.i = i]
           IN  Proper(g) /\ Owes(g) = Owes(f) /\ ~Walks(g)
  BY DEF Proper, Frame, Owes, Walks

\* What is known of a thread whose last frame is at some place.
LEMMA TopProperties ==
    ASSUME StackOK, NEW t \in Threads, NEW at, AtTop(t, at)
    PROVE  /\ stack[t] \in Seq(Frame) /\ stack[t] # <<>> /\ Fits(stack[t])
           /\ Proper(Top(t)) /\ Top(t).at = at
           /\ OwedOf(stack[t]) = Owes(Top(t))
           /\ Walks(Top(t)) => WalksIn(stack[t])
<1> DEFINE s == stack[t]
<1>1. s \in Seq(Frame) /\ s # <<>> /\ Fits(s) /\ Top(t) = s[Len(s)]
  BY DEF StackOK, StacksFit, AtTop, Top, Last
<1>2. Len(s) \in 1..Len(s) /\ DOMAIN s = 1..Len(s)
  BY <1>1, EmptySeq, LenProperties
<1>3. Top(t) \in Frame
  BY <1>1, <1>2, ElementOfSeq
<1> HIDE DEF s
<1>4. Proper(Top(t))
  BY <1>1, <1>2, <1>3 DEF Proper, Fits
<1>5. OwedOf(s) = Owes(Top(t)) /\ (Walks(Top(t)) => WalksIn(s))
  BY <1>1, <1>2 DEF OwedOf, WalksIn
<1> QED  BY <1>1, <1>4, <1>5 DEF AtTop, s

\* Thread t replaces its last frame.
LEMMA SetTopStep ==
    ASSUME StackOK, NEW t \in Threads, NEW at, AtTop(t, at),
           NEW f, Proper(f), SetTop(t, f), Walks(f) => at \in {"loop", "call"}
    PROVE  /\ StackOK'
           /\ stack'[t] = Append(Front(stack[t]), f)
           /\ Len(stack'[t]) = Len(stack[t]) /\ stack'[t] # <<>> /\ Top(t)' = f
           /\ \A u \in Threads \ {t} : stack'[u] = stack[u]
           /\ Total' = Total + Owes(f) - Owes(Top(t))
<1> DEFINE s == Append(Front(stack[t]), f)
<1>1. stack' = [stack EXCEPT ![t] = s]
  BY DEF SetTop
<1>2. /\ stack[t] \in Seq(Frame) /\ stack[t] # <<>> /\ Fits(stack[t])
      /\ Proper(Top(t)) /\ Top(t).at = at
      /\ OwedOf(stack[t]) = Owes(Top(t))
      /\ Walks(Top(t)) => WalksIn(stack[t])
  BY TopProperties
<1>3. /\ s \in Seq(Frame) /\ Len(s) = Len(stack[t]) /\ s # <<>> /\ Last(s) = f
      /\ Fits(s) /\ OwedOf(s) = Owes(f) /\ (WalksIn(s) => WalksIn(stack[t]) \/ Walks(f))
  BY <1>2, TopReplaced
<1> HIDE DEF s
<1>4. WalksIn(s) => WalksIn(stack[t])
  BY <1>2, <1>3 DEF Walks
<1>5. /\ StackOK'
      /\ stack'[t] = s /\ \A u \in Threads \ {t} : stack'[u] = stack[u]
      /\ Total' = Total + OwedOf(s) - OwedOf(stack[t])
  BY <1>1, <1>3, <1>4, StackStep
<1>6. Top(t)' = f
  BY <1>3, <1>5 DEF Top
<1> QED  BY <1>2, <1>3, <1>5, <1>6 DEF s

\* Thread t leaves its last frame.
LEMMA PopStep ==
    ASSUME StackOK, NEW t \in Threads, NEW at, AtTop(t, at), Pop(t)
    PROVE  /\ StackOK'
           /\ stack'[t] = Front(stack[t]) /\ Len(stack'[t]) = Len(stack[t]) - 1
           /\ \A u \in Threads \ {t} : stack'[u] = stack[u]
           /\ Total' = Total - Owes(Top(t))
<1> DEFINE s == Front(stack[t])
<1>1. stack' = [stack EXCEPT ![t] = s]
  BY DEF Pop
<1>2. /\ stack[t] \in Seq(Frame) /\ stack[t] # <<>> /\ Fits(stack[t])
      /\ Proper(Top(t)) /\ OwedOf(stack[t]) = Owes(Top(t))
  BY TopProperties
<1>3. /\ s \in Seq(Frame) /\ Len(s) = Len(stack[t]) - 1
      /\ Fits(s) /\ OwedOf(s) = 0 /\ (WalksIn(s) => WalksIn(stack[t]))
  BY <1>2, FramePopped
<1> HIDE DEF s
<1>4. /\ StackOK'
      /\ stack'[t] = s /\ \A u \in Threads \ {t} : stack'[u] = stack[u]
      /\ Total' = Total + OwedOf(s) - OwedOf(stack[t])
  BY <1>1, <1>3, StackStep
<1>5. Owes(Top(t)) \in Nat /\ Total \in Int
  BY <1>2, OwesType, TotalType DEF Proper
<1>6. Total' = Total - Owes(Top(t))
  BY <1>2, <1>3, <1>4, <1>5
<1> QED  BY <1>3, <1>4, <1>6 DEF s

-----------------------------------------------------------------------------
(* Each step keeps the invariant.                                             *)

LEMMA IInvParts ==
    IInv <=> /\ RestOK /\ StackOK
             /\ raced \/ refs = (IF owned THEN 1 ELSE 0) + Cardinality(Keeping(callbacks)) + Total
  BY TypeParts DEF IInv, Counted, Total

LEMMA IInvPartsNext ==
    IInv' <=> /\ RestOK' /\ StackOK'
              /\ raced' \/ refs' = (IF owned' THEN 1 ELSE 0) + Cardinality(Keeping(callbacks')) + Total'
<1>1. Counted' <=> (raced' \/ refs' = (IF owned' THEN 1 ELSE 0)
                                       + Cardinality(Keeping(callbacks')) + Total')
  BY DEF Counted, Total, Keeping
<1> QED  BY <1>1, TypePartsNext DEF IInv

\* A step that changes neither refs nor an entry, and owes what it owed.
LEMMA CountKept ==
    ASSUME IInv, StackOK', Total' = Total,
           UNCHANGED <<info, refs, owned, freed, count, status, raced>>,
           current' \in [Threads -> Nat]
    PROVE  IInv'
<1>1. RestOK'
  BY IInvParts DEF RestOK, info
<1>2. raced' = raced /\ refs' = refs /\ owned' = owned /\ callbacks' = callbacks
  BY DEF info
<1>3. raced' \/ refs' = (IF owned' THEN 1 ELSE 0) + Cardinality(Keeping(callbacks')) + Total'
  BY <1>2, IInvParts
<1> QED  BY <1>1, <1>3, IInvPartsNext

LEMMA CallStep ==
    ASSUME IInv, NEW t \in Threads, Call(t)
    PROVE  /\ IInv'
           /\ Len(stack'[t]) = Len(stack[t]) /\ stack'[t] # <<>>
           /\ \A u \in Threads \ {t} : stack'[u] = stack[u]
           /\ Top(t).i \in DOMAIN callbacks
           /\ IF callbacks[Top(t).i].remove
              THEN /\ Top(t)' = [Top(t) EXCEPT !.i = @ + 1]
                   /\ UNCHANGED current
              ELSE /\ Top(t)' = [Top(t) EXCEPT !.at = "call", !.cb = callbacks[Top(t).i].cb,
                                     !.n = Len(callbacks), !.done = @ \cup {callbacks[Top(t).i].cb}]
                   /\ current' = [current EXCEPT ![t] = Top(t).i]
<1> DEFINE f == Top(t)
           entry == callbacks[f.i]
           passed == [f EXCEPT !.i = @ + 1]
           called == [f EXCEPT !.at = "call", !.cb = entry.cb, !.n = Len(callbacks),
                               !.done = @ \cup {entry.cb}]
<1>1. RestOK /\ StackOK
  BY IInvParts
<1>2. AtTop(t, "loop") /\ f.i <= Len(callbacks)
  BY DEF Call
<1>3. Proper(f) /\ f.at = "loop" /\ Owes(f) = 0
  BY <1>1, <1>2, TopProperties DEF Owes
<1>4. f.i \in DOMAIN callbacks /\ f.i \in Nat /\ Len(callbacks) \in Nat /\ entry \in Entry
  <2>1. Len(callbacks) \in Nat /\ DOMAIN callbacks = 1..Len(callbacks)
    BY <1>1, LenProperties DEF RestOK
  <2>2. f.i \in Int /\ f.i >= 1
    BY <1>3 DEF Proper, Frame, Walks
  <2>3. f.i \in 1..Len(callbacks)
    BY <1>2, <2>1, <2>2
  <2> QED  BY <1>1, <2>1, <2>3, ElementOfSeq DEF RestOK
<1>5. UNCHANGED <<info, refs, owned, freed, count, status, raced>>
  BY DEF Call
<1>6. CASE entry.remove
  <2>1. SetTop(t, passed) /\ UNCHANGED current
    BY <1>6 DEF Call
  <2>2. Proper(passed) /\ Owes(passed) = 0
    BY <1>3, FramePassed
  <2> HIDE DEF passed
  <2>3. /\ StackOK'
        /\ Len(stack'[t]) = Len(stack[t]) /\ stack'[t] # <<>> /\ Top(t)' = passed
        /\ \A u \in Threads \ {t} : stack'[u] = stack[u]
        /\ Total' = Total + Owes(passed) - Owes(f)
    BY <1>1, <1>2, <2>1, <2>2, SetTopStep
  <2>4. Total' = Total /\ current' \in [Threads -> Nat]
    BY <1>1, <1>3, <2>1, <2>2, <2>3, TotalType DEF RestOK
  <2>5. IInv'
    BY <1>5, <2>3, <2>4, CountKept
  <2> QED  BY <1>4, <1>6, <2>1, <2>3, <2>5 DEF passed
<1>7. CASE ~entry.remove
  <2>1. SetTop(t, called) /\ current' = [current EXCEPT ![t] = f.i]
    BY <1>7 DEF Call
  <2>2. Proper(called) /\ Owes(called) = 0
    <3>1. entry.cb \in Callbacks
      BY <1>4 DEF Entry
    <3> DEFINE c == entry.cb
               n == Len(callbacks)
    <3>2. c \in Callbacks /\ n \in Nat
      BY <1>4, <3>1
    <3>3. called = [f EXCEPT !.at = "call", !.cb = c, !.n = n, !.done = @ \cup {c}]
      OBVIOUS
    <3> HIDE DEF called, entry, c, n, f
    <3>4. Proper(f) /\ f.at = "loop"
      BY <1>3
    <3> DEFINE g == [f EXCEPT !.at = "call", !.cb = c, !.n = n, !.done = @ \cup {c}]
    <3>5. Proper(g) /\ Owes(g) = 0
      BY <3>2, <3>4 DEF Proper, Frame, Owes, Walks
    <3> HIDE DEF g
    <3>6. called = g
      BY <3>3 DEF g
    <3> QED  BY <3>5, <3>6
  <2> HIDE DEF called
  <2>3. /\ StackOK'
        /\ Len(stack'[t]) = Len(stack[t]) /\ stack'[t] # <<>> /\ Top(t)' = called
        /\ \A u \in Threads \ {t} : stack'[u] = stack[u]
        /\ Total' = Total + Owes(called) - Owes(f)
    BY <1>1, <1>2, <2>1, <2>2, SetTopStep
  <2>4. Total' = Total /\ current' \in [Threads -> Nat]
    BY <1>1, <1>3, <1>4, <2>1, <2>2, <2>3, TotalType DEF RestOK
  <2>5. IInv'
    BY <1>5, <2>3, <2>4, CountKept
  <2> QED  BY <1>4, <1>7, <2>1, <2>3, <2>5 DEF called
<1> QED  BY <1>6, <1>7

LEMMA ReturnStep ==
    ASSUME IInv, NEW t \in Threads, Return(t)
    PROVE  /\ IInv'
           /\ Len(stack'[t]) = Len(stack[t]) /\ stack'[t] # <<>>
           /\ \A u \in Threads \ {t} : stack'[u] = stack[u]
           /\ Top(t)' = [Top(t) EXCEPT !.at = "loop", !.i = @ + 1, !.cb = NoCallback, !.n = 0]
<1> DEFINE f == Top(t)
           g == [f EXCEPT !.at = "loop", !.i = @ + 1, !.cb = NoCallback, !.n = 0]
<1>1. RestOK /\ StackOK
  BY IInvParts
<1>2. AtTop(t, "call") /\ SetTop(t, g)
  BY DEF Return
<1>3. Proper(f) /\ f.at = "call" /\ Owes(f) = 0
  BY <1>1, <1>2, TopProperties DEF Owes
<1>4. Proper(g) /\ Owes(g) = 0
  BY <1>3, FrameReturned
<1> HIDE DEF g
<1>5. /\ StackOK'
      /\ Len(stack'[t]) = Len(stack[t]) /\ stack'[t] # <<>> /\ Top(t)' = g
      /\ \A u \in Threads \ {t} : stack'[u] = stack[u]
      /\ Total' = Total + Owes(g) - Owes(f)
  BY <1>1, <1>2, <1>4, SetTopStep
<1>6. Total' = Total /\ current' \in [Threads -> Nat]
  BY <1>1, <1>3, <1>4, <1>5, TotalType DEF RestOK, Return
<1>7. UNCHANGED <<info, refs, owned, freed, count, status, raced>>
  BY DEF Return
<1>8. IInv'
  BY <1>5, <1>6, <1>7, CountKept
<1> QED  BY <1>5, <1>8 DEF g

LEMMA LoadRefsStep ==
    ASSUME IInv, NEW t \in Threads, LoadRefs(t)
    PROVE  /\ IInv'
           /\ Len(stack'[t]) = Len(stack[t]) /\ stack'[t] # <<>> /\ ~Walks(Top(t)')
           /\ \A u \in Threads \ {t} : stack'[u] = stack[u]
<1> DEFINE f == Top(t)
           g == [f EXCEPT !.at = "store", !.i = refs]
<1>1. RestOK /\ StackOK
  BY IInvParts
<1>2. AtTop(t, "refs") /\ SetTop(t, g) /\ refs \in Int
  BY <1>1 DEF LoadRefs, RestOK
<1>3. Proper(f) /\ f.at = "refs" /\ Owes(f) \in Nat
  BY <1>1, <1>2, TopProperties, OwesType DEF Proper
<1>4. Proper(g) /\ Owes(g) = Owes(f) /\ ~Walks(g)
  BY <1>2, <1>3, FrameLoaded
<1> HIDE DEF g
<1>5. /\ StackOK'
      /\ Len(stack'[t]) = Len(stack[t]) /\ stack'[t] # <<>> /\ Top(t)' = g
      /\ \A u \in Threads \ {t} : stack'[u] = stack[u]
      /\ Total' = Total + Owes(g) - Owes(f)
  BY <1>1, <1>2, <1>4, SetTopStep
<1>6. Total' = Total /\ current' \in [Threads -> Nat]
  BY <1>1, <1>3, <1>4, <1>5, TotalType DEF RestOK, LoadRefs
<1>7. UNCHANGED <<info, refs, owned, freed, count, status, raced>>
  BY DEF LoadRefs
<1>8. IInv'
  BY <1>5, <1>6, <1>7, CountKept
<1> QED  BY <1>4, <1>5, <1>8

LEMMA SignalBeginStep ==
    ASSUME IInv, NEW t \in Threads, SignalBegin(t)
    PROVE  /\ IInv'
           /\ Len(stack'[t]) = Len(stack[t]) + 1 /\ stack'[t] # <<>>
           /\ \A u \in Threads \ {t} : stack'[u] = stack[u]
           /\ Top(t)' = [at |-> "loop", i |-> 1, cb |-> NoCallback, n |-> 0,
                         due |-> Connected, done |-> {}]
<1> DEFINE g == [at |-> "loop", i |-> 1, cb |-> NoCallback, n |-> 0,
                 due |-> Connected, done |-> {}]
           s == Append(stack[t], g)
<1>1. RestOK /\ StackOK
  BY IInvParts
<1>2. Proper(g) /\ Owes(g) = 0
  BY <1>1, FrameBegun DEF RestOK
<1>3. stack' = [stack EXCEPT ![t] = s] /\ MutexFree(t) /\ May(t, "signal")
  BY DEF SignalBegin, Push
<1> HIDE DEF g
<1>4. /\ stack[t] \in Seq(Frame) /\ Fits(stack[t])
      /\ stack[t] = <<>> \/ Last(stack[t]).at = "call"
  BY <1>1, <1>3 DEF StackOK, StacksFit, May, AtTop, Top
<1>5. /\ s \in Seq(Frame) /\ Len(s) = Len(stack[t]) + 1 /\ s # <<>> /\ Last(s) = g
      /\ Fits(s) /\ OwedOf(s) = Owes(g)
  BY <1>2, <1>4, FramePushed
<1> HIDE DEF s
<1>6. /\ StackOK'
      /\ stack'[t] = s /\ \A u \in Threads \ {t} : stack'[u] = stack[u]
      /\ Total' = Total + OwedOf(s) - OwedOf(stack[t])
  BY <1>1, <1>3, <1>5, StackStep
<1>7. OwedOf(stack[t]) = 0
  BY <1>4 DEF OwedOf, Owes, Last
<1>8. Total' = Total
  BY <1>1, <1>2, <1>5, <1>6, <1>7, TotalType
<1>9. Top(t)' = g
  BY <1>5, <1>6 DEF Top
<1>10. IInv'
  <2>1. /\ callbacks' = callbacks /\ refs' = refs /\ owned' = owned /\ raced' = raced
        /\ signalling' = TRUE /\ UNCHANGED <<freed, current, status>>
    BY DEF SignalBegin
  <2>2. RestOK'
    BY <1>1, <2>1 DEF RestOK
  <2>3. raced' \/ refs' = (IF owned' THEN 1 ELSE 0) + Cardinality(Keeping(callbacks')) + Total'
    BY <1>8, <2>1, IInvParts
  <2> QED  BY <1>6, <2>2, <2>3, IInvPartsNext
<1> QED  BY <1>5, <1>6, <1>9, <1>10 DEF g

LEMMA StoreRefsStep ==
    ASSUME IInv, NEW t \in Threads, StoreRefs(t)
    PROVE  /\ IInv'
           /\ Len(stack'[t]) = Len(stack[t]) - 1
           /\ \A u \in Threads \ {t} : stack'[u] = stack[u]
<1> DEFINE f == Top(t)
<1>1. RestOK /\ StackOK
  BY IInvParts
<1>2. AtTop(t, "store") /\ Pop(t)
  BY DEF StoreRefs
<1>3. Proper(f) /\ f.at = "store" /\ Owes(f) = f.n /\ f.n \in Nat /\ f.i \in Int
  BY <1>1, <1>2, TopProperties DEF Owes, Proper, Frame
<1>4. /\ StackOK'
      /\ Len(stack'[t]) = Len(stack[t]) - 1
      /\ \A u \in Threads \ {t} : stack'[u] = stack[u]
      /\ Total' = Total - Owes(f)
  BY <1>1, <1>2, PopStep
<1>5. /\ refs' = f.i - f.n
      /\ raced' = (raced \/ refs # f.i)
      /\ UNCHANGED <<info, owned, freed, current, count, status>>
  BY DEF StoreRefs
<1>6. RestOK'
  <2>1. raced' \in BOOLEAN
    BY <1>5
  <2>2. refs' \in Int
    BY <1>3, <1>5
  <2> QED  BY <1>1, <1>5, <2>1, <2>2 DEF RestOK, info
<1>7. raced' \/ refs' = (IF owned' THEN 1 ELSE 0) + Cardinality(Keeping(callbacks')) + Total'
  <2> SUFFICES ASSUME ~raced'
               PROVE  refs' = (IF owned' THEN 1 ELSE 0) + Cardinality(Keeping(callbacks')) + Total'
    OBVIOUS
  <2>1. ~raced /\ refs = f.i
    BY <1>5
  <2>2. refs = (IF owned THEN 1 ELSE 0) + Cardinality(Keeping(callbacks)) + Total
    BY <2>1, IInvParts
  <2>3. Cardinality(Keeping(callbacks)) \in Nat /\ Total \in Int
    BY <1>1, KeepingFinite, TotalType DEF RestOK
  <2>4. owned' = owned /\ callbacks' = callbacks
    BY <1>5 DEF info
  <2> DEFINE o == IF owned THEN 1 ELSE 0
             k == Cardinality(Keeping(callbacks))
             n == f.n
             i == f.i
  <2>5. o \in Int
    OBVIOUS
  <2>6. refs = o + k + Total /\ refs' = i - n /\ Total' = Total - n /\ refs = i /\ n \in Int
    BY <1>3, <1>4, <1>5, <2>1, <2>2
  <2> HIDE DEF o, k, n, i
  <2>7. refs' = o + k + Total'
    BY <2>3, <2>5, <2>6 DEF k
  <2> QED  BY <2>4, <2>7 DEF o, k
<1> QED  BY <1>4, <1>6, <1>7, IInvPartsNext

LEMMA DropRefStep ==
    ASSUME IInv, NEW t \in Threads, DropRef(t)
    PROVE  /\ IInv'
           /\ Len(stack'[t]) = Len(stack[t]) - 1
           /\ \A u \in Threads \ {t} : stack'[u] = stack[u]
<1> DEFINE f == Top(t)
<1>1. RestOK /\ StackOK
  BY IInvParts
<1>2. AtTop(t, "drop") /\ Pop(t)
  BY DEF DropRef
<1>3. Owes(f) = 1
  <2>1. Proper(f) /\ f.at = "drop"
    BY <1>1, <1>2, TopProperties
  <2> QED  BY <2>1 DEF Owes, Proper
<1>4. /\ StackOK'
      /\ Len(stack'[t]) = Len(stack[t]) - 1
      /\ \A u \in Threads \ {t} : stack'[u] = stack[u]
      /\ Total' = Total - Owes(f)
  BY <1>1, <1>2, PopStep
<1>5. /\ refs' = refs - 1 /\ freed' = (freed \/ refs' = 0)
      /\ UNCHANGED <<info, owned, current, count, status, raced>>
  BY DEF DropRef
<1>6. RestOK'
  BY <1>1, <1>5 DEF RestOK, info
<1>7. raced' \/ refs' = (IF owned' THEN 1 ELSE 0) + Cardinality(Keeping(callbacks')) + Total'
  <2>1. raced' = raced /\ owned' = owned /\ callbacks' = callbacks
    BY <1>5 DEF info
  <2>2. Cardinality(Keeping(callbacks)) \in Nat /\ Total \in Int /\ refs \in Int
    BY <1>1, KeepingFinite, TotalType DEF RestOK
  <2> DEFINE o == IF owned THEN 1 ELSE 0
             k == Cardinality(Keeping(callbacks))
  <2>3. raced \/ refs = o + k + Total
    BY IInvParts
  <2>4. o \in Int
    OBVIOUS
  <2> HIDE DEF o, k
  <2>5. refs = o + k + Total => refs' = o + k + Total'
    BY <1>3, <1>4, <1>5, <2>2, <2>4 DEF k
  <2> QED  BY <2>1, <2>3, <2>5 DEF o, k
<1> QED  BY <1>4, <1>6, <1>7, IInvPartsNext

LEMMA DestroyStep ==
    ASSUME IInv, Destroy
    PROVE  IInv' /\ stack' = stack
<1>1. RestOK /\ StackOK
  BY IInvParts
<1>2. /\ owned /\ owned' = FALSE /\ refs' = refs - 1 /\ freed' = (refs' = 0)
      /\ UNCHANGED <<info, current, stack, count, status, raced>>
  BY DEF Destroy
<1>3. RestOK'
  <2>1. freed' \in BOOLEAN /\ owned' \in BOOLEAN
    BY <1>2
  <2>2. refs' \in Int
    BY <1>1, <1>2 DEF RestOK
  <2> QED  BY <1>1, <1>2, <2>1, <2>2, Zenon DEF RestOK, info
<1>4. StackOK'
  <2>1. stack' = stack
    BY <1>2
  <2> QED  BY <1>1, <2>1 DEF StackOK, StacksFit, MutexFree
<1>5. Total' = Total
  <2>1. \A t \in Threads : Owed(t)' = Owed(t)
    BY <1>2, OwedIs, OwedIsNext
  <2> QED  BY <2>1 DEF Total
<1>6. raced' \/ refs' = (IF owned' THEN 1 ELSE 0) + Cardinality(Keeping(callbacks')) + Total'
  <2>1. raced' = raced /\ callbacks' = callbacks
    BY <1>2 DEF info
  <2>2. Cardinality(Keeping(callbacks)) \in Nat /\ Total \in Int /\ refs \in Int
    BY <1>1, KeepingFinite, TotalType DEF RestOK
  <2> DEFINE k == Cardinality(Keeping(callbacks))
  <2>3. raced \/ refs = 1 + k + Total
    BY <1>2, IInvParts
  <2> HIDE DEF k
  <2>4. refs = 1 + k + Total => refs' = 0 + k + Total'
    BY <1>2, <1>5, <2>2 DEF k
  <2> QED  BY <1>2, <2>1, <2>3, <2>4 DEF k
<1> QED  BY <1>2, <1>3, <1>4, <1>6, IInvPartsNext

\* End, with what the erasing of the marked entries does.
LEMMA EndStep ==
    ASSUME IInv, NEW t \in Threads, End(t)
    PROVE  /\ IInv'
           /\ \A u \in Threads \ {t} : stack'[u] = stack[u]
           /\ \/ Len(stack'[t]) = Len(stack[t]) - 1
              \/ Len(stack'[t]) = Len(stack[t]) /\ ~Walks(Top(t)')
<1> DEFINE f == Top(t)
           m == Cardinality(Leaving(callbacks))
           g == [f EXCEPT !.at = "refs", !.n = m]
<1>1. RestOK /\ StackOK
  BY IInvParts
<1>2. AtTop(t, "loop") /\ callbacks' = Unmarked(callbacks) /\ signalling' = FALSE
      /\ UNCHANGED <<refs, owned, freed, current, count, status, raced>>
  BY DEF End
<1>3. Proper(f) /\ Owes(f) = 0
  BY <1>1, <1>2, TopProperties DEF Owes
<1>4. /\ callbacks' \in Seq(Entry)
      /\ Cardinality(Keeping(callbacks')) + m = Cardinality(Keeping(callbacks))
  BY <1>1, <1>2, UnmarkedProperties DEF RestOK
<1>5. m \in Nat
  BY <1>1, KeepingFinite DEF RestOK
<1>6. RestOK'
  BY <1>1, <1>2, <1>4 DEF RestOK
<1>7. /\ StackOK' /\ Total' = Total + m
      /\ \A u \in Threads \ {t} : stack'[u] = stack[u]
      /\ \/ Len(stack'[t]) = Len(stack[t]) - 1
         \/ Len(stack'[t]) = Len(stack[t]) /\ ~Walks(Top(t)')
  <2>0. Total \in Int
    BY <1>1, TotalType
  <2>1. CASE m = 0 /\ Pop(t)
    <3>1. /\ StackOK'
          /\ Len(stack'[t]) = Len(stack[t]) - 1
          /\ \A u \in Threads \ {t} : stack'[u] = stack[u]
          /\ Total' = Total - Owes(f)
      BY <1>1, <1>2, <2>1, PopStep
    <3>2. Total' = Total + m
      <4> HIDE DEF m
      <4> QED  BY <2>0, <1>3, <2>1, <3>1
    <3> QED  BY <3>1, <3>2
  <2>2. CASE SetTop(t, g)
    <3> HIDE DEF m
    <3>1. Proper(g) /\ Owes(g) = m /\ ~Walks(g)
      BY <1>3, <1>5, FrameEnded
    <3> HIDE DEF g
    <3>2. /\ StackOK'
          /\ Len(stack'[t]) = Len(stack[t]) /\ stack'[t] # <<>> /\ Top(t)' = g
          /\ \A u \in Threads \ {t} : stack'[u] = stack[u]
          /\ Total' = Total + Owes(g) - Owes(f)
      BY <1>1, <1>2, <2>2, <3>1, SetTopStep
    <3>3. Total' = Total + m
      BY <2>0, <1>3, <1>5, <3>1, <3>2
    <3> QED  BY <3>1, <3>2, <3>3
  <2> QED  BY <2>1, <2>2 DEF End
<1>8. raced' \/ refs' = (IF owned' THEN 1 ELSE 0) + Cardinality(Keeping(callbacks')) + Total'
  <2>1. raced' = raced /\ owned' = owned /\ refs' = refs
    BY <1>2
  <2>2. Cardinality(Keeping(callbacks)) \in Nat /\ Total \in Int
        /\ Cardinality(Keeping(callbacks')) \in Nat
    BY <1>1, <1>4, KeepingFinite, TotalType DEF RestOK
  <2> DEFINE o == IF owned THEN 1 ELSE 0
             k == Cardinality(Keeping(callbacks))
             j == Cardinality(Keeping(callbacks'))
  <2>3. raced \/ refs = o + k + Total
    BY IInvParts
  <2>4. o \in Int
    OBVIOUS
  <2>5. k \in Int /\ j \in Int /\ j + m = k /\ Total' = Total + m /\ Total \in Int
    BY <1>4, <1>7, <2>2
  <2> HIDE DEF o, k, j, m
  <2>6. o + j + Total' = o + k + Total
    BY <1>5, <2>4, <2>5
  <2>7. raced \/ refs = o + j + Total'
    BY <2>3, <2>6
  <2> QED  BY <2>1, <2>7 DEF o, j
<1> QED  BY <1>6, <1>7, <1>8, IInvPartsNext

\* An entry is marked as removed: it still keeps its reference.
LEMMA MarkStep ==
    ASSUME IInv, NEW i \in DOMAIN callbacks,
           callbacks' = [callbacks EXCEPT ![i].remove = TRUE],
           NEW t \in Threads, NEW c, NEW s, s \in {stack[t], Without(stack[t], c)},
           stack' = [stack EXCEPT ![t] = s],
           status' \in [Callbacks -> Threads \cup {"never", "connected"}],
           UNCHANGED <<signalling, refs, owned, freed, current, count, raced>>
    PROVE  /\ IInv'
           /\ stack'[t] = s /\ \A u \in Threads \ {t} : stack'[u] = stack[u]
<1>1. RestOK /\ StackOK
  BY IInvParts
<1>2. stack[t] \in Seq(Frame) /\ Fits(stack[t])
  BY <1>1 DEF StackOK, StacksFit
<1>3. /\ s \in Seq(Frame) /\ Fits(s) /\ OwedOf(s) = OwedOf(stack[t])
      /\ WalksIn(s) => WalksIn(stack[t])
  BY <1>2, DueDropped
<1>4. /\ StackOK'
      /\ stack'[t] = s /\ \A u \in Threads \ {t} : stack'[u] = stack[u]
      /\ Total' = Total + OwedOf(s) - OwedOf(stack[t])
  BY <1>1, <1>3, StackStep
<1>5. Total' = Total
  <2>1. OwedOf(s) \in Nat /\ Total \in Int
    BY <1>1, <1>3, OwedOfType, TotalType
  <2> QED  BY <1>3, <1>4, <2>1
<1>6. callbacks' \in Seq(Entry) /\ Keeping(callbacks') = Keeping(callbacks)
  BY <1>1, EntryMarked DEF RestOK
<1>7. RestOK'
  BY <1>1, <1>6 DEF RestOK
<1>8. raced' \/ refs' = (IF owned' THEN 1 ELSE 0) + Cardinality(Keeping(callbacks')) + Total'
  <2>1. raced' = raced /\ refs' = refs /\ owned' = owned
    OBVIOUS
  <2> QED  BY <1>5, <1>6, <2>1, IInvParts
<1> QED  BY <1>4, <1>7, <1>8, IInvPartsNext

LEMMA SameStack ==
    ASSUME StackOK, NEW t \in Threads
    PROVE  stack = [stack EXCEPT ![t] = stack[t]]
  BY DEF StackOK

\* A callback is no longer due: the references that are owed are the same.
LEMMA DueStep ==
    ASSUME IInv, NEW t \in Threads, NEW c, NEW s, s \in {stack[t], Without(stack[t], c)},
           stack' = [stack EXCEPT ![t] = s],
           status' \in [Callbacks -> Threads \cup {"never", "connected"}],
           UNCHANGED <<callbacks, signalling, refs, owned, freed, current, count, raced>>
    PROVE  /\ IInv'
           /\ stack'[t] = s /\ \A u \in Threads \ {t} : stack'[u] = stack[u]
<1>1. RestOK /\ StackOK
  BY IInvParts
<1>2. stack[t] \in Seq(Frame) /\ Fits(stack[t])
  BY <1>1 DEF StackOK, StacksFit
<1>3. /\ s \in Seq(Frame) /\ Fits(s) /\ OwedOf(s) = OwedOf(stack[t])
      /\ WalksIn(s) => WalksIn(stack[t])
  BY <1>2, DueDropped
<1>4. /\ StackOK'
      /\ stack'[t] = s /\ \A u \in Threads \ {t} : stack'[u] = stack[u]
      /\ Total' = Total + OwedOf(s) - OwedOf(stack[t])
  BY <1>1, <1>3, StackStep
<1>5. Total' = Total
  <2>1. OwedOf(s) \in Nat /\ Total \in Int
    BY <1>1, <1>3, OwedOfType, TotalType
  <2> QED  BY <1>3, <1>4, <2>1
<1>6. RestOK'
  BY <1>1 DEF RestOK
<1>7. raced' \/ refs' = (IF owned' THEN 1 ELSE 0) + Cardinality(Keeping(callbacks')) + Total'
  <2>1. raced' = raced /\ refs' = refs /\ owned' = owned /\ callbacks' = callbacks
    OBVIOUS
  <2> QED  BY <1>5, <2>1, IInvParts
<1> QED  BY <1>4, <1>6, <1>7, IInvPartsNext

\* What a mark of the current callback leaves.
LEMMA RemoveCurrentStep ==
    ASSUME IInv, NEW t \in Threads, RemoveCurrent(t)
    PROVE  /\ IInv'
           /\ \A u \in Threads \ {t} : stack'[u] = stack[u]
<1>1. RestOK /\ StackOK
  BY IInvParts
<1> DEFINE i == current[t]
           c == Top(t).cb
<1>2. /\ AtTop(t, "call") /\ i \in DOMAIN callbacks
      /\ UNCHANGED <<signalling, refs, owned, freed, current, count, raced>>
  BY DEF RemoveCurrent
<1>3. c \in Callbacks
  BY <1>1, <1>2, TopProperties DEF Proper
<1>4. PICK s \in {stack[t], Without(stack[t], c)} : stack' = [stack EXCEPT ![t] = s]
  <2>1. CASE UNCHANGED stack
    BY <1>1, <2>1, SameStack
  <2>2. CASE stack' = [stack EXCEPT ![t] = NotDue(t, c)]
    <3>1. NotDue(t, c) = Without(stack[t], c)
      BY DEF NotDue, Without
    <3> QED  BY <2>2, <3>1
  <2> QED  BY <2>1, <2>2 DEF RemoveCurrent
<1>5. status' \in [Callbacks -> Threads \cup {"never", "connected"}]
  BY <1>1, <1>3 DEF RestOK, RemoveCurrent
<1>6. CASE callbacks' = [callbacks EXCEPT ![i].remove = TRUE]
  <2> HIDE DEF i, c
  <2> QED  BY <1>2, <1>4, <1>5, <1>6, MarkStep
<1>7. CASE UNCHANGED callbacks
  <2> HIDE DEF i, c
  <2> QED  BY <1>2, <1>4, <1>5, <1>7, DueStep
<1> QED  BY <1>6, <1>7 DEF RemoveCurrent

LEMMA ConnectStep ==
    ASSUME IInv, NEW t \in Threads, NEW c \in Callbacks, NEW k \in BOOLEAN, Connect(t, c, k)
    PROVE  IInv' /\ stack' = stack
<1> DEFINE e == [cb |-> c, remove |-> FALSE, keep_ref |-> k]
           new == k \/ Index(c) = 0
<1>1. RestOK /\ StackOK
  BY IInvParts
<1>2. /\ refs' = IF k THEN refs + 1 ELSE refs
      /\ callbacks' = IF new THEN Append(callbacks, e) ELSE callbacks
      /\ UNCHANGED <<signalling, owned, freed, current, stack, signals, raced>>
      /\ status' \in {status, [status EXCEPT ![c] = "connected"]}
  BY DEF Connect
<1>3. e \in Entry /\ e.keep_ref = k
  BY DEF Entry
<1> HIDE DEF e
<1>4. callbacks' \in Seq(Entry)
      /\ Cardinality(Keeping(callbacks')) = Cardinality(Keeping(callbacks)) + (IF k THEN 1 ELSE 0)
  <2>1. CASE new
    <3>1. callbacks' = Append(callbacks, e) /\ callbacks \in Seq(Entry)
      BY <1>1, <1>2, <2>1 DEF RestOK
    <3> QED  BY <1>3, <3>1, EntryAppended
  <2>2. CASE ~new
    <3>1. callbacks' = callbacks /\ ~k /\ callbacks \in Seq(Entry)
      BY <1>1, <1>2, <2>2 DEF RestOK
    <3>2. Cardinality(Keeping(callbacks)) \in Nat
      BY <3>1, KeepingFinite
    <3> QED  BY <3>1, <3>2
  <2> QED  BY <2>1, <2>2
<1>5. RestOK'
  <2>1. status' \in [Callbacks -> Threads \cup {"never", "connected"}]
    BY <1>1, <1>2 DEF RestOK
  <2>2. refs' \in Int
    BY <1>1, <1>2 DEF RestOK
  <2> QED  BY <1>1, <1>2, <1>4, <2>1, <2>2 DEF RestOK
<1>6. StackOK'
  BY <1>1, <1>2 DEF StackOK, StacksFit, MutexFree
<1>7. Total' = Total
  <2>1. \A u \in Threads : Owed(u)' = Owed(u)
    BY <1>2, OwedIs, OwedIsNext
  <2> QED  BY <2>1 DEF Total
<1>8. raced' \/ refs' = (IF owned' THEN 1 ELSE 0) + Cardinality(Keeping(callbacks')) + Total'
  <2>1. raced' = raced /\ owned' = owned
    BY <1>2
  <2>2. Cardinality(Keeping(callbacks)) \in Nat /\ Total \in Int /\ refs \in Int
    BY <1>1, KeepingFinite, TotalType DEF RestOK
  <2> DEFINE o == IF owned THEN 1 ELSE 0
             j == IF k THEN 1 ELSE 0
             kept == Cardinality(Keeping(callbacks))
             next == Cardinality(Keeping(callbacks'))
  <2>3. raced \/ refs = o + kept + Total
    BY IInvParts
  <2>4. o \in Int /\ j \in Int /\ kept \in Int
    BY <2>2
  <2>5. refs' = refs + j
    BY <1>2, <2>2
  <2>6. next = kept + j
    BY <1>4
  <2> HIDE DEF o, j, kept, next
  <2>7. raced \/ refs' = o + next + Total'
    BY <1>7, <2>2, <2>3, <2>4, <2>5, <2>6
  <2> QED  BY <2>1, <2>7 DEF o, next
<1> QED  BY <1>2, <1>5, <1>6, <1>8, IInvPartsNext

\* What a disconnect makes of the stack of its thread.
LEMMA DisconnectStep ==
    ASSUME IInv, NEW t \in Threads, NEW c \in Callbacks, Disconnect(t, c)
    PROVE  LET i == Index(c)
               b == IF StaysConnected(c) THEN stack[t] ELSE Without(stack[t], c)
           IN  /\ IInv'
               /\ i \in DOMAIN callbacks /\ callbacks[i].cb = c
               /\ stack'[t] = IF ~signalling /\ callbacks[i].keep_ref
                              THEN Append(b, DropFrame(c)) ELSE b
               /\ \A u \in Threads \ {t} : stack'[u] = stack[u]
<1> DEFINE i == Index(c)
           entry == callbacks[i]
           drop == ~signalling /\ entry.keep_ref
           b == IF StaysConnected(c) THEN stack[t] ELSE Without(stack[t], c)
           s == IF drop THEN Append(b, DropFrame(c)) ELSE b
<1>1. RestOK /\ StackOK
  BY IInvParts
<1>2. i \in DOMAIN callbacks /\ callbacks[i].cb = c
  <2>1. Index(c) # 0 /\ callbacks \in Seq(Entry)
    BY <1>1 DEF Disconnect, RestOK
  <2> QED  BY <2>1, IndexProperties
<1>3. stack[t] \in Seq(Frame) /\ Fits(stack[t])
  BY <1>1 DEF StackOK, StacksFit
<1>4. stack[t] = <<>> \/ (stack[t] # <<>> /\ Last(stack[t]).at = "call")
  BY DEF Disconnect, May, AtTop, Top
<1>5. /\ b \in Seq(Frame) /\ Fits(b) /\ OwedOf(b) = 0 /\ (WalksIn(b) => WalksIn(stack[t]))
      /\ b = <<>> \/ Last(b).at = "call"
  <2>1. OwedOf(stack[t]) = 0
    BY <1>4 DEF OwedOf, Owes, Last
  <2>2. CASE b = stack[t]
    BY <1>3, <1>4, <2>1, <2>2
  <2>3. CASE b = Without(stack[t], c)
    <3> DEFINE r == Without(stack[t], c)
    <3>1. /\ r \in Seq(Frame) /\ Len(r) = Len(stack[t])
          /\ \A k \in DOMAIN stack[t] : r[k].at = stack[t][k].at
          /\ Fits(r) /\ OwedOf(r) = OwedOf(stack[t])
          /\ WalksIn(r) => WalksIn(stack[t])
      BY <1>3, DueDropped
    <3> HIDE DEF r
    <3>2. CASE stack[t] = <<>>
      <4>1. r = <<>>
        BY <3>1, <3>2, EmptySeq
      <4> QED  BY <2>1, <2>3, <3>1, <4>1 DEF r
    <3>3. CASE stack[t] # <<>> /\ Last(stack[t]).at = "call"
      <4>1. Len(stack[t]) \in DOMAIN stack[t]
        BY <1>3, <3>3, EmptySeq, LenProperties
      <4>2. Last(r).at = "call"
        BY <3>1, <3>3, <4>1 DEF Last
      <4> QED  BY <2>1, <2>3, <3>1, <4>2 DEF r
    <3> QED  BY <1>4, <3>2, <3>3
  <2> QED  BY <2>2, <2>3
<1>6. Proper(DropFrame(c)) /\ Owes(DropFrame(c)) = 1 /\ ~Walks(DropFrame(c))
  BY FrameDropping
<1>7. /\ callbacks' = IF signalling THEN [callbacks EXCEPT ![i].remove = TRUE]
                                    ELSE RemoveAt(callbacks, i)
      /\ status' \in {status, [status EXCEPT ![c] = t]}
      /\ stack' = [stack EXCEPT ![t] = b \o (IF drop THEN <<DropFrame(c)>> ELSE <<>>)]
      /\ UNCHANGED <<signalling, refs, owned, freed, current, count, raced>>
  BY DEF Disconnect, NotDue, Without
<1> HIDE DEF b
<1>8. b \o (IF drop THEN <<DropFrame(c)>> ELSE <<>>) = s
  <2>1. DropFrame(c) \in Frame
    BY <1>6 DEF Proper
  <2>2. b \o <<DropFrame(c)>> = Append(b, DropFrame(c))
    BY <1>5, <2>1, AppendIsConcat
  <2>3. b \o <<>> = b
    BY <1>5, ConcatEmptySeq
  <2> QED  BY <2>2, <2>3
<1>9. stack' = [stack EXCEPT ![t] = s]
  BY <1>7, <1>8
<1>10. /\ s \in Seq(Frame) /\ Fits(s) /\ OwedOf(s) = (IF drop THEN 1 ELSE 0)
       /\ WalksIn(s) => WalksIn(stack[t])
  <2>1. CASE drop
    <3> DEFINE a == Append(b, DropFrame(c))
    <3>1. a \in Seq(Frame) /\ Fits(a) /\ OwedOf(a) = Owes(DropFrame(c))
          /\ (WalksIn(a) => WalksIn(b) \/ Walks(DropFrame(c)))
      BY <1>5, <1>6, FramePushed
    <3> QED  BY <1>5, <1>6, <2>1, <3>1
  <2>2. CASE ~drop
    BY <1>5, <2>2
  <2> QED  BY <2>1, <2>2
<1> HIDE DEF s
<1>11. /\ StackOK'
       /\ stack'[t] = s /\ \A u \in Threads \ {t} : stack'[u] = stack[u]
       /\ Total' = Total + OwedOf(s) - OwedOf(stack[t])
  BY <1>1, <1>9, <1>10, StackStep
<1>12. OwedOf(stack[t]) = 0
  BY <1>4 DEF OwedOf, Owes, Last
<1>13. /\ callbacks' \in Seq(Entry)
       /\ Cardinality(Keeping(callbacks')) = Cardinality(Keeping(callbacks)) - (IF drop THEN 1 ELSE 0)
  <2>0. callbacks \in Seq(Entry) /\ Cardinality(Keeping(callbacks)) \in Nat
    BY <1>1, KeepingFinite DEF RestOK
  <2>1. CASE signalling
    <3>1. callbacks' = [callbacks EXCEPT ![i].remove = TRUE]
      BY <1>7, <2>1
    <3>2. callbacks' \in Seq(Entry) /\ Keeping(callbacks') = Keeping(callbacks)
      <4> HIDE DEF i
      <4> QED  BY <1>2, <2>0, <3>1, EntryMarked
    <3> QED  BY <2>0, <2>1, <3>2
  <2>2. CASE ~signalling
    <3>1. callbacks' = RemoveAt(callbacks, i)
      BY <1>7, <2>2
    <3>2. /\ RemoveAt(callbacks, i) \in Seq(Entry)
          /\ Cardinality(Keeping(RemoveAt(callbacks, i)))
               = Cardinality(Keeping(callbacks)) - (IF callbacks[i].keep_ref THEN 1 ELSE 0)
      <4> HIDE DEF i
      <4> QED  BY <1>2, <2>0, EntryErased
    <3> QED  BY <2>2, <3>1, <3>2
  <2> QED  BY <2>1, <2>2
<1>14. RestOK'
  <2>1. status' \in [Callbacks -> Threads \cup {"never", "connected"}]
    BY <1>1, <1>7 DEF RestOK
  <2> QED  BY <1>1, <1>7, <1>13, <2>1 DEF RestOK
<1>15. raced' \/ refs' = (IF owned' THEN 1 ELSE 0) + Cardinality(Keeping(callbacks')) + Total'
  <2>1. raced' = raced /\ owned' = owned /\ refs' = refs
    BY <1>7
  <2>2. Cardinality(Keeping(callbacks)) \in Nat /\ Total \in Int
    BY <1>1, KeepingFinite, TotalType DEF RestOK
  <2> DEFINE o == IF owned THEN 1 ELSE 0
             j == IF drop THEN 1 ELSE 0
             kept == Cardinality(Keeping(callbacks))
             next == Cardinality(Keeping(callbacks'))
  <2>3. raced \/ refs = o + kept + Total
    BY IInvParts
  <2>4. o \in Int /\ j \in Int /\ kept \in Int
    BY <2>2
  <2>5. Total' = Total + j
    BY <1>10, <1>11, <1>12, <2>2
  <2>6. next = kept - j
    BY <1>13
  <2> HIDE DEF o, j, kept, next
  <2>7. o + next + Total' = o + kept + Total
    BY <2>2, <2>4, <2>5, <2>6
  <2>8. raced \/ refs = o + next + Total'
    BY <2>3, <2>7
  <2> QED  BY <2>1, <2>8 DEF o, next
<1>16. IInv'
  BY <1>11, <1>14, <1>15, IInvPartsNext
<1> QED  BY <1>2, <1>11, <1>16 DEF s, b

\* The counts fit at first,
LEMMA InvariantInit == ASSUME Init PROVE IInv
<1>1. /\ callbacks = <<>> /\ signalling = FALSE
      /\ refs = 1 /\ owned = TRUE /\ freed = FALSE /\ raced = FALSE
      /\ current = [t \in Threads |-> 0]
      /\ stack = [t \in Threads |-> <<>>]
      /\ status = [c \in Callbacks |-> "never"]
  BY DEF Init
<1>2. RestOK
  <2>1. callbacks \in Seq(Entry) /\ refs \in Int
    BY <1>1
  <2>2. current \in [Threads -> Nat]
    BY <1>1
  <2>3. status \in [Callbacks -> Threads \cup {"never", "connected"}]
    BY <1>1
  <2>4. /\ signalling \in BOOLEAN
        /\ owned \in BOOLEAN /\ freed \in BOOLEAN /\ raced \in BOOLEAN
    BY <1>1
  <2> QED  BY <2>1, <2>2, <2>3, <2>4 DEF RestOK
<1>3. \A t \in Threads : stack[t] = <<>> /\ Fits(stack[t]) /\ ~WalksIn(stack[t])
  BY <1>1 DEF Fits, WalksIn
<1>4. stack \in [Threads -> Seq(Frame)]
  BY <1>1
<1>5. StackOK
  BY <1>3, <1>4 DEF StackOK, StacksFit
<1>6. Total = 0
  <2> DEFINE f == [t \in Threads |-> Owed(t)]
  <2>1. \A t \in Threads : f[t] = 0
    BY <1>3, OwedIs DEF OwedOf
  <2>2. Total = SumFunctionOnSet(f, Threads)
    BY DEF Total, SumFunction
  <2> HIDE DEF f
  <2>3. SumFunctionOnSet(f, Threads) = 0
    BY <2>1, SignalAssumption, SumOfZeros
  <2> QED  BY <2>2, <2>3
<1>7. Keeping(callbacks) = {}
  BY <1>1 DEF Keeping
<1>8. refs = (IF owned THEN 1 ELSE 0) + Cardinality(Keeping(callbacks)) + Total
  BY <1>1, <1>6, <1>7, FS_EmptySet
<1> QED  BY <1>2, <1>5, <1>8, IInvParts

\* and after every step.
LEMMA InvariantNext == ASSUME IInv, [Next]_vars PROVE IInv'
<1>1. CASE Destroy
  BY <1>1, DestroyStep
<1>2. ASSUME NEW t \in Threads, DropRef(t)  PROVE IInv'
  BY <1>2, DropRefStep
<1>3. ASSUME NEW t \in Threads, SignalBegin(t)  PROVE IInv'
  BY <1>3, SignalBeginStep
<1>4. ASSUME NEW t \in Threads, Call(t)  PROVE IInv'
  BY <1>4, CallStep
<1>5. ASSUME NEW t \in Threads, RemoveCurrent(t)  PROVE IInv'
  BY <1>5, RemoveCurrentStep
<1>6. ASSUME NEW t \in Threads, Return(t)  PROVE IInv'
  BY <1>6, ReturnStep
<1>7. ASSUME NEW t \in Threads, End(t)  PROVE IInv'
  BY <1>7, EndStep
<1>8. ASSUME NEW t \in Threads, LoadRefs(t)  PROVE IInv'
  BY <1>8, LoadRefsStep
<1>9. ASSUME NEW t \in Threads, StoreRefs(t)  PROVE IInv'
  BY <1>9, StoreRefsStep
<1>10. ASSUME NEW t \in Threads, NEW c \in Callbacks, Disconnect(t, c)  PROVE IInv'
  BY <1>10, DisconnectStep
<1>11. ASSUME NEW t \in Threads, NEW c \in Callbacks, NEW k \in BOOLEAN, Connect(t, c, k)
       PROVE  IInv'
  BY <1>11, ConnectStep
<1>12. CASE UNCHANGED vars
  <2>1. UNCHANGED <<info, refs, owned, freed, count, status, raced>> /\ stack' = stack
        /\ current' = current
    BY <1>12 DEF vars
  <2>2. RestOK /\ StackOK
    BY IInvParts
  <2>3. StackOK'
    BY <2>1, <2>2 DEF StackOK, StacksFit, MutexFree
  <2>4. Total' = Total
    <3>1. \A u \in Threads : Owed(u)' = Owed(u)
      BY <2>1, OwedIs, OwedIsNext
    <3> QED  BY <3>1 DEF Total
  <2>5. current' \in [Threads -> Nat]
    BY <2>1, <2>2 DEF RestOK
  <2> QED  BY <2>1, <2>3, <2>4, <2>5, CountKept
<1> QED  BY <1>1, <1>2, <1>3, <1>4, <1>5, <1>6, <1>7, <1>8, <1>9, <1>10, <1>11, <1>12 DEF Next

\* The inductive invariant of the counts, in every state.
THEOREM Invariant == Spec => []IInv
<1>1. Init => IInv
  BY InvariantInit
<1>2. IInv /\ [Next]_vars => IInv'
  BY InvariantNext
<1> QED  BY <1>1, <1>2, PTL DEF Spec

\* The variables keep their types, and one thread at most walks the array, even
\* when callbacks send the signal again.
THEOREM TypeCorrect == Spec => []TypeOK
<1>1. IInv => TypeOK
  BY DEF IInv
<1> QED  BY <1>1, Invariant, PTL

\* The references of the handler are those of its creator, of the connections
\* that keep one and of those about to be dropped, until a store of refs (as
\* signal_handler_signal does it, after its load) undoes a change.
THEOREM ReferencesCounted == Spec => []Counted
<1>1. IInv => Counted
  BY DEF IInv
<1> QED  BY <1>1, Invariant, PTL

-----------------------------------------------------------------------------
(* Callbacks that do not send the signal themselves: a thread sends one       *)
(* signal at a time.  Callers that make none of the calls the handler loses.  *)

NotNested == "signal" \notin Inside

Careful == Careless = {}

\* The callbacks that count as connected are those with an entry that is not
\* marked.
LiveIn(entries, settled) ==
    \A c \in Callbacks :
        settled[c] = "connected" <=> (\E i \in DOMAIN entries :
                                         entries[i].cb = c /\ ~entries[i].remove)

\* While thread t walks the array, the callbacks that are due are connected, and
\* those of the entries it passed are called unless they are marked.
WalkFits(t) ==
    /\ signalling
    /\ Top(t).due \subseteq Connected
    /\ \A j \in DOMAIN callbacks :
          ~callbacks[j].remove /\ (j < Top(t).i \/ (Top(t).at = "call" /\ j = Top(t).i))
              => callbacks[j].cb \in Top(t).done
    /\ Top(t).at = "call" =>
          /\ current[t] = Top(t).i /\ Top(t).i \in DOMAIN callbacks
          /\ callbacks[Top(t).i].cb = Top(t).cb
          /\ status[Top(t).cb] \in {"connected", t}

OneFrame == \A t \in Threads : Len(stack[t]) <= 1
AllLive == LiveIn(callbacks, status)
WalksFit == \A t \in Threads : stack[t] # <<>> /\ Walks(Top(t)) => WalkFits(t)

WInv == OneFrame /\ AllLive /\ WalksFit

Settled == [Callbacks -> Threads \cup {"never", "connected"}]

\* The callbacks that are connected, after one is marked,
LEMMA LiveMarked ==
    ASSUME NEW entries \in Seq(Entry), NEW i \in DOMAIN entries, NEW settled \in Settled,
           LiveIn(entries, settled), NEW t \in Threads, NEW next,
           LET c == entries[i].cb
           IN  next = IF \E j \in DOMAIN entries \ {i} : entries[j].cb = c /\ ~entries[j].remove
                      THEN settled ELSE [settled EXCEPT ![c] = t]
    PROVE  LiveIn([entries EXCEPT ![i].remove = TRUE], next)
<1> DEFINE marked == [entries EXCEPT ![i].remove = TRUE]
           c == entries[i].cb
<1>1. /\ DOMAIN marked = DOMAIN entries /\ marked[i].remove
      /\ \A k \in DOMAIN entries : marked[k].cb = entries[k].cb
      /\ \A k \in DOMAIN entries \ {i} : marked[k] = entries[k]
  BY EntryMarked
<1>2. t # "connected"
  BY SignalAssumption
<1> HIDE DEF marked
<1> SUFFICES ASSUME NEW d \in Callbacks
             PROVE  next[d] = "connected" <=> (\E k \in DOMAIN marked :
                                                  marked[k].cb = d /\ ~marked[k].remove)
  BY DEF LiveIn, marked
<1>3. (\E k \in DOMAIN marked : marked[k].cb = d /\ ~marked[k].remove)
        <=> (\E k \in DOMAIN entries \ {i} : entries[k].cb = d /\ ~entries[k].remove)
  BY <1>1
<1>4. settled[d] = "connected" <=> (\E k \in DOMAIN entries : entries[k].cb = d /\ ~entries[k].remove)
  BY DEF LiveIn
<1>5. CASE d # c
  <2>1. next[d] = settled[d]
    BY <1>5 DEF Settled
  <2> QED  BY <1>3, <1>4, <1>5, <2>1
<1>6. CASE d = c
  <2>1. CASE \E j \in DOMAIN entries \ {i} : entries[j].cb = c /\ ~entries[j].remove
    BY <1>3, <1>4, <1>6, <2>1
  <2>2. CASE ~ \E j \in DOMAIN entries \ {i} : entries[j].cb = c /\ ~entries[j].remove
    <3>1. next[d] = t
      BY <1>6, <2>2 DEF Settled
    <3> QED  BY <1>2, <1>3, <1>6, <2>2, <3>1
  <2> QED  BY <2>1, <2>2
<1> QED  BY <1>5, <1>6

\* after one is taken out,
LEMMA LiveErased ==
    ASSUME NEW entries \in Seq(Entry), NEW i \in DOMAIN entries, NEW settled \in Settled,
           LiveIn(entries, settled), NEW t \in Threads, NEW next,
           LET c == entries[i].cb
           IN  next = IF \E j \in DOMAIN entries \ {i} : entries[j].cb = c /\ ~entries[j].remove
                      THEN settled ELSE [settled EXCEPT ![c] = t]
    PROVE  LiveIn(RemoveAt(entries, i), next)
<1> DEFINE rest == RemoveAt(entries, i)
           c == entries[i].cb
<1>1. /\ \A k \in DOMAIN rest : \E j \in DOMAIN entries \ {i} : rest[k] = entries[j]
      /\ \A j \in DOMAIN entries \ {i} : \E k \in DOMAIN rest : rest[k] = entries[j]
  BY EntryErased
<1>2. t # "connected"
  BY SignalAssumption
<1> HIDE DEF rest
<1> SUFFICES ASSUME NEW d \in Callbacks
             PROVE  next[d] = "connected" <=> (\E k \in DOMAIN rest :
                                                  rest[k].cb = d /\ ~rest[k].remove)
  BY DEF LiveIn, rest
<1>3. (\E k \in DOMAIN rest : rest[k].cb = d /\ ~rest[k].remove)
        <=> (\E k \in DOMAIN entries \ {i} : entries[k].cb = d /\ ~entries[k].remove)
  BY <1>1
<1>4. settled[d] = "connected" <=> (\E k \in DOMAIN entries : entries[k].cb = d /\ ~entries[k].remove)
  BY DEF LiveIn
<1>5. CASE d # c
  <2>1. next[d] = settled[d]
    BY <1>5 DEF Settled
  <2> QED  BY <1>3, <1>4, <1>5, <2>1
<1>6. CASE d = c
  <2>1. CASE \E j \in DOMAIN entries \ {i} : entries[j].cb = c /\ ~entries[j].remove
    BY <1>3, <1>4, <1>6, <2>1
  <2>2. CASE ~ \E j \in DOMAIN entries \ {i} : entries[j].cb = c /\ ~entries[j].remove
    <3>1. next[d] = t
      BY <1>6, <2>2 DEF Settled
    <3> QED  BY <1>2, <1>3, <1>6, <2>2, <3>1
  <2> QED  BY <2>1, <2>2
<1> QED  BY <1>5, <1>6

\* after one is added,
LEMMA LiveAppended ==
    ASSUME NEW entries \in Seq(Entry), NEW e \in Entry, ~e.remove, NEW settled \in Settled,
           LiveIn(entries, settled)
    PROVE  LiveIn(Append(entries, e), [settled EXCEPT ![e.cb] = "connected"])
<1> DEFINE longer == Append(entries, e)
           l == Len(entries) + 1
           next == [settled EXCEPT ![e.cb] = "connected"]
<1>1. /\ DOMAIN longer = 1..l /\ l \in 1..l
      /\ \A k \in DOMAIN entries : k \in DOMAIN longer /\ longer[k] = entries[k]
      /\ longer[l] = e
  BY EntryAppended, LenProperties
<1>2. \A k \in DOMAIN longer : k \in DOMAIN entries \/ k = l
  <2>1. Len(entries) \in Nat /\ DOMAIN entries = 1..Len(entries)
    BY LenProperties
  <2> HIDE DEF longer
  <2> QED  BY <1>1, <2>1
<1>3. e.cb \in Callbacks
  BY DEF Entry
<1> HIDE DEF longer, l
<1> SUFFICES ASSUME NEW d \in Callbacks
             PROVE  next[d] = "connected" <=> (\E k \in DOMAIN longer :
                                                  longer[k].cb = d /\ ~longer[k].remove)
  BY DEF LiveIn, longer
<1>4. settled[d] = "connected" <=> (\E k \in DOMAIN entries : entries[k].cb = d /\ ~entries[k].remove)
  BY DEF LiveIn
<1>5. CASE d = e.cb
  <2>1. next[d] = "connected"
    BY <1>5 DEF Settled
  <2> QED  BY <1>1, <1>5, <2>1
<1>6. CASE d # e.cb
  <2>1. next[d] = settled[d]
    BY <1>6 DEF Settled
  <2> QED  BY <1>1, <1>2, <1>4, <1>6, <2>1
<1> QED  BY <1>5, <1>6

\* and after those marked are taken out.
LEMMA LiveUnmarked ==
    ASSUME NEW entries \in Seq(Entry), NEW settled, LiveIn(entries, settled)
    PROVE  LiveIn(Unmarked(entries), settled)
<1> DEFINE u == Unmarked(entries)
<1>1. /\ \A k \in DOMAIN u : \E i \in DOMAIN entries :
            u[k] = entries[i] /\ ~entries[i].remove
      /\ \A i \in DOMAIN entries : ~entries[i].remove =>
            \E k \in DOMAIN u : u[k] = entries[i]
  BY UnmarkedProperties
<1> HIDE DEF u
<1>2. LiveIn(u, settled)
  BY <1>1 DEF LiveIn
<1> QED  BY <1>2 DEF u

\* While thread t holds the mutex, or could take it, nobody else walks.
LEMMA Alone ==
    ASSUME StackOK, NEW t \in Threads, WalksIn(stack[t]) \/ MutexFree(t)
    PROVE  \A u \in Threads \ {t} : ~(stack[u] # <<>> /\ Walks(Top(u)))
<1>1. \A u \in Threads \ {t} : ~WalksIn(stack[u])
  BY FreeIs DEF StackOK
<1> SUFFICES ASSUME NEW u \in Threads \ {t}, stack[u] # <<>>, Walks(Top(u))  PROVE FALSE
  OBVIOUS
<1>2. Len(stack[u]) \in DOMAIN stack[u]
  BY EmptySeq, LenProperties DEF StackOK
<1> QED  BY <1>1, <1>2 DEF WalksIn, Top, Last

\* A step of thread t keeps the invariant if it keeps it for t itself: it has the
\* mutex, or leaves alone what the mutex guards.
LEMMA WalksKept ==
    ASSUME StackOK, WInv, NEW t \in Threads,
           \A u \in Threads \ {t} : stack'[u] = stack[u],
           \/ WalksIn(stack[t]) \/ MutexFree(t)
           \/ /\ UNCHANGED <<callbacks, signalling, status>>
              /\ \A u \in Threads \ {t} : current'[u] = current[u],
           Len(stack'[t]) <= 1, AllLive',
           stack'[t] # <<>> /\ Walks(Top(t)') => WalkFits(t)'
    PROVE  WInv'
<1>1. OneFrame'
  <2>1. \A u \in Threads : Len(stack'[u]) <= 1
    BY DEF WInv, OneFrame
  <2> QED  BY <2>1 DEF OneFrame
<1>2. ASSUME NEW u \in Threads, stack'[u] # <<>>, Walks(Top(u)')  PROVE WalkFits(u)'
  <2>1. CASE u = t
    BY <1>2, <2>1
  <2>2. CASE u # t
    <3>1. stack'[u] = stack[u] /\ Top(u)' = Top(u)
      BY <2>2 DEF Top
    <3>2. stack[u] # <<>> /\ Walks(Top(u))
      BY <1>2, <3>1
    <3>3. ~(WalksIn(stack[t]) \/ MutexFree(t))
      BY <2>2, <3>2, Alone
    <3>4. UNCHANGED <<callbacks, signalling, status>> /\ current'[u] = current[u]
      BY <2>2, <3>3
    <3>5. WalkFits(u)
      BY <3>2 DEF WInv, WalksFit
    <3> QED  BY <3>1, <3>4, <3>5 DEF WalkFits, Connected
  <2> QED  BY <2>1, <2>2
<1>3. WalksFit'
  BY <1>2 DEF WalksFit
<1> QED  BY <1>1, <1>3 DEF WInv

\* The walk of a thread whose last frame is in the array or in a callback.
LEMMA WalkOf ==
    ASSUME StackOK, WInv, NEW t \in Threads, NEW at \in {"loop", "call"}, AtTop(t, at)
    PROVE  /\ WalkFits(t) /\ WalksIn(stack[t]) /\ Len(stack[t]) = 1
           /\ Proper(Top(t)) /\ Top(t).at = at
<1>1. stack[t] \in Seq(Frame) /\ stack[t] # <<>> /\ Proper(Top(t)) /\ Top(t).at = at
      /\ (Walks(Top(t)) => WalksIn(stack[t]))
  BY TopProperties
<1>2. Walks(Top(t))
  BY <1>1 DEF Walks
<1>3. Len(stack[t]) \in Nat /\ Len(stack[t]) # 0 /\ Len(stack[t]) <= 1
  BY <1>1, EmptySeq, LenProperties DEF WInv, OneFrame
<1> DEFINE l == Len(stack[t])
<1>4. l = 1
  <2>1. l \in Nat /\ l # 0 /\ l <= 1
    BY <1>3
  <2> HIDE DEF l
  <2> QED  BY <2>1
<1> QED  BY <1>1, <1>2, <1>4 DEF WInv, WalksFit

LEMMA WalkFitsNext ==
    ASSUME NEW t \in Threads, NEW f, Top(t)' = f,
           NEW cs, callbacks' = cs, NEW st, status' = st, signalling',
           f.due \subseteq {c \in Callbacks : st[c] = "connected"},
           \A j \in DOMAIN cs : ~cs[j].remove /\ (j < f.i \/ (f.at = "call" /\ j = f.i))
                                  => cs[j].cb \in f.done,
           f.at = "call" => /\ current'[t] = f.i /\ f.i \in DOMAIN cs
                            /\ cs[f.i].cb = f.cb /\ st[f.cb] \in {"connected", t}
    PROVE  WalkFits(t)'
  BY DEF WalkFits, Connected

LEMMA CallWalks ==
    ASSUME IInv, WInv, NEW t \in Threads, Call(t)
    PROVE  /\ WInv'
           /\ AtTop(t, "call")' => status[Top(t)'.cb] = "connected"
<1> DEFINE f == Top(t)
           i == f.i
           entry == callbacks[i]
<1>1. RestOK /\ StackOK
  BY IInvParts
<1>2. AtTop(t, "loop") /\ UNCHANGED <<callbacks, signalling, status>>
  BY DEF Call, info
<1>3. WalkFits(t) /\ WalksIn(stack[t]) /\ Len(stack[t]) = 1 /\ Proper(f) /\ f.at = "loop"
  BY <1>1, <1>2, WalkOf
<1>4. /\ Len(stack'[t]) = Len(stack[t]) /\ stack'[t] # <<>>
      /\ \A u \in Threads \ {t} : stack'[u] = stack[u]
      /\ i \in DOMAIN callbacks
  BY CallStep
<1>5. Len(stack'[t]) <= 1
  BY <1>3, <1>4
<1>6. AllLive'
  BY <1>2 DEF WInv, AllLive
<1>7. entry \in Entry /\ entry.cb \in Callbacks /\ DOMAIN callbacks \subseteq Nat
  <2>1. DOMAIN callbacks = 1..Len(callbacks)
    BY <1>1, LenProperties DEF RestOK
  <2>2. entry \in Entry
    BY <1>1, <1>4, <2>1, ElementOfSeq DEF RestOK
  <2> QED  BY <2>1, <2>2 DEF Entry
<1>8. f.due \subseteq {c \in Callbacks : status[c] = "connected"} /\ signalling
  BY <1>3 DEF WalkFits, Connected
<1>9. \A j \in DOMAIN callbacks : ~callbacks[j].remove /\ j < i => callbacks[j].cb \in f.done
  BY <1>3 DEF WalkFits
<1>10. CASE entry.remove
  <2> DEFINE g == [f EXCEPT !.i = @ + 1]
  <2>1. Top(t)' = g
    BY <1>10, CallStep
  <2>2. g.at = "loop" /\ g.i = i + 1 /\ g.due = f.due /\ g.done = f.done
    BY <1>3, FramePassed
  <2> HIDE DEF g
  <2>3. \A j \in DOMAIN callbacks : ~callbacks[j].remove /\ j < g.i => callbacks[j].cb \in g.done
    <3> SUFFICES ASSUME NEW j \in DOMAIN callbacks, ~callbacks[j].remove, j < g.i
                 PROVE  callbacks[j].cb \in g.done
      OBVIOUS
    <3>1. j < i \/ j = i
      <4>1. j \in Nat /\ i \in Nat
        BY <1>4, <1>7
      <4> HIDE DEF i
      <4> QED  BY <2>2, <4>1
    <3>2. j # i
      BY <1>10
    <3> QED  BY <1>9, <2>2, <3>1, <3>2
  <2>4. WalkFits(t)'
    BY <1>2, <1>8, <2>1, <2>2, <2>3, WalkFitsNext
  <2>5. WInv'
    BY <1>1, <1>3, <1>4, <1>5, <1>6, <2>4, WalksKept
  <2>6. ~AtTop(t, "call")'
    BY <2>1, <2>2 DEF AtTop
  <2> QED  BY <2>5, <2>6
<1>11. CASE ~entry.remove
  <2> DEFINE c == entry.cb
             n == Len(callbacks)
             g == [f EXCEPT !.at = "call", !.cb = c, !.n = n, !.done = @ \cup {c}]
  <2>1. Top(t)' = g /\ current' = [current EXCEPT ![t] = i]
    BY <1>11, CallStep
  <2>2. g.at = "call" /\ g.i = i /\ g.cb = c /\ g.due = f.due /\ g.done = f.done \cup {c}
    <3>1. f \in Frame
      BY <1>3 DEF Proper
    <3> HIDE DEF c, n, f
    <3> QED  BY <3>1 DEF Frame, i
  <2> HIDE DEF g
  <2>3. status[c] = "connected"
    BY <1>4, <1>7, <1>11 DEF WInv, AllLive, LiveIn
  <2>4. current'[t] = i
    BY <1>1, <2>1 DEF RestOK
  <2>5. \A j \in DOMAIN callbacks : ~callbacks[j].remove /\ (j < i \/ j = i)
                                       => callbacks[j].cb \in f.done \cup {c}
    BY <1>9
  <2>6. WalkFits(t)'
    <3> DEFINE d == f.due
               o == f.done \cup {c}
    <3>1. d \subseteq {x \in Callbacks : status[x] = "connected"}
      BY <1>8
    <3>2. \A j \in DOMAIN callbacks : ~callbacks[j].remove /\ (j < i \/ j = i)
                                         => callbacks[j].cb \in o
      BY <2>5
    <3>3. callbacks[i].cb = c /\ i \in DOMAIN callbacks
      BY <1>4
    <3>4. g.due = d /\ g.done = o
      BY <2>2
    <3> HIDE DEF d, o, c, i
    <3> QED  BY <1>2, <1>8, <2>1, <2>2, <2>3, <2>4, <3>1, <3>2, <3>3, <3>4, WalkFitsNext
  <2>7. WInv'
    BY <1>1, <1>3, <1>4, <1>5, <1>6, <2>6, WalksKept
  <2>8. status[Top(t)'.cb] = "connected"
    BY <2>1, <2>2, <2>3
  <2> QED  BY <2>7, <2>8
<1> QED  BY <1>10, <1>11

LEMMA ReturnWalks ==
    ASSUME IInv, WInv, NEW t \in Threads, Return(t)
    PROVE  WInv'
<1> DEFINE f == Top(t)
           i == f.i
           g == [f EXCEPT !.at = "loop", !.i = @ + 1, !.cb = NoCallback, !.n = 0]
<1>1. RestOK /\ StackOK
  BY IInvParts
<1>2. AtTop(t, "call") /\ UNCHANGED <<callbacks, signalling, status>>
  BY DEF Return, info
<1>3. WalkFits(t) /\ WalksIn(stack[t]) /\ Len(stack[t]) = 1 /\ Proper(f) /\ f.at = "call"
  BY <1>1, <1>2, WalkOf
<1>4. /\ Len(stack'[t]) = Len(stack[t]) /\ stack'[t] # <<>>
      /\ \A u \in Threads \ {t} : stack'[u] = stack[u]
      /\ Top(t)' = g
  BY ReturnStep
<1>5. Len(stack'[t]) <= 1
  BY <1>3, <1>4
<1>6. AllLive'
  BY <1>2 DEF WInv, AllLive
<1>7. g.at = "loop" /\ g.i = i + 1 /\ g.due = f.due /\ g.done = f.done
  BY <1>3, FrameReturned
<1> HIDE DEF g
<1>8. f.due \subseteq {c \in Callbacks : status[c] = "connected"} /\ signalling
  BY <1>3 DEF WalkFits, Connected
<1>9. \A j \in DOMAIN callbacks : ~callbacks[j].remove /\ j < g.i => callbacks[j].cb \in g.done
  <2> SUFFICES ASSUME NEW j \in DOMAIN callbacks, ~callbacks[j].remove, j < g.i
               PROVE  callbacks[j].cb \in g.done
    OBVIOUS
  <2>1. j \in Nat /\ i \in Int
    <3>1. DOMAIN callbacks = 1..Len(callbacks)
      BY <1>1, LenProperties DEF RestOK
    <3> QED  BY <1>3, <3>1 DEF Proper, Frame
  <2>2. j < i \/ j = i
    <3> HIDE DEF i
    <3> QED  BY <1>7, <2>1
  <2> QED  BY <1>3, <1>7, <2>2 DEF WalkFits
<1>10. WalkFits(t)'
  BY <1>2, <1>4, <1>7, <1>8, <1>9, WalkFitsNext
<1> QED  BY <1>1, <1>3, <1>4, <1>5, <1>6, <1>10, WalksKept

LEMMA SignalBeginWalks ==
    ASSUME NotNested, IInv, WInv, NEW t \in Threads, SignalBegin(t)
    PROVE  WInv'
<1> DEFINE g == [at |-> "loop", i |-> 1, cb |-> NoCallback, n |-> 0,
                 due |-> Connected, done |-> {}]
<1>1. RestOK /\ StackOK
  BY IInvParts
<1>2. /\ MutexFree(t) /\ May(t, "signal") /\ signalling' = TRUE
      /\ UNCHANGED <<callbacks, status>>
  BY DEF SignalBegin
<1>3. stack[t] = <<>>
  BY <1>2 DEF May, NotNested
<1>4. /\ Len(stack'[t]) = Len(stack[t]) + 1
      /\ \A u \in Threads \ {t} : stack'[u] = stack[u]
      /\ Top(t)' = g
  BY SignalBeginStep
<1>5. Len(stack'[t]) <= 1
  <2>1. Len(stack[t]) = 0
    BY <1>3, EmptySeq
  <2> QED  BY <1>4, <2>1
<1>6. AllLive'
  BY <1>2 DEF WInv, AllLive
<1>7. \A j \in DOMAIN callbacks : ~(j < 1)
  <2>1. DOMAIN callbacks = 1..Len(callbacks) /\ Len(callbacks) \in Nat
    BY <1>1, LenProperties DEF RestOK
  <2> QED  BY <2>1
<1>8. g.at = "loop" /\ g.i = 1 /\ g.due = Connected /\ g.done = {}
  OBVIOUS
<1> HIDE DEF g
<1>9. WalkFits(t)'
  BY <1>2, <1>4, <1>7, <1>8, WalkFitsNext DEF Connected
<1> QED  BY <1>1, <1>2, <1>4, <1>5, <1>6, <1>9, WalksKept

\* When a signal ends, what was due is done.
LEMMA EndWalks ==
    ASSUME IInv, WInv, NEW t \in Threads, End(t)
    PROVE  /\ WInv'
           /\ Top(t).due \subseteq Top(t).done
<1> DEFINE f == Top(t)
<1>1. RestOK /\ StackOK
  BY IInvParts
<1>2. AtTop(t, "loop") /\ f.i > Len(callbacks)
      /\ callbacks' = Unmarked(callbacks) /\ status' = status
  BY DEF End
<1>3. WalkFits(t) /\ WalksIn(stack[t]) /\ Len(stack[t]) = 1 /\ Proper(f) /\ f.at = "loop"
  BY <1>1, <1>2, WalkOf
<1>4. callbacks \in Seq(Entry) /\ DOMAIN callbacks = 1..Len(callbacks) /\ Len(callbacks) \in Nat
  BY <1>1, LenProperties DEF RestOK
<1>5. ASSUME NEW c \in f.due  PROVE c \in f.done
  <2>1. c \in Callbacks /\ status[c] = "connected"
    BY <1>3, <1>5 DEF WalkFits, Connected
  <2>2. PICK j \in DOMAIN callbacks : callbacks[j].cb = c /\ ~callbacks[j].remove
    BY <2>1 DEF WInv, AllLive, LiveIn
  <2>3. j < f.i
    <3> DEFINE i == f.i
               l == Len(callbacks)
    <3>1. i \in Int /\ l \in Nat /\ j \in 1..l /\ i > l
      BY <1>2, <1>3, <1>4, <2>2 DEF Proper, Frame
    <3> HIDE DEF i, l
    <3>2. j < i
      BY <3>1
    <3> QED  BY <3>2 DEF i
  <2> QED  BY <1>3, <2>2, <2>3 DEF WalkFits
<1>6. AllLive'
  <2>1. LiveIn(Unmarked(callbacks), status)
    BY <1>4, LiveUnmarked DEF WInv, AllLive
  <2> QED  BY <1>2, <2>1 DEF AllLive
<1>7. /\ \A u \in Threads \ {t} : stack'[u] = stack[u]
      /\ \/ Len(stack'[t]) = Len(stack[t]) - 1
         \/ Len(stack'[t]) = Len(stack[t]) /\ ~Walks(Top(t)')
  BY EndStep
<1>8. Len(stack'[t]) <= 1 /\ ~(stack'[t] # <<>> /\ Walks(Top(t)'))
  <2>1. CASE Len(stack'[t]) = Len(stack[t]) - 1
    <3>1. Len(stack'[t]) = 0
      BY <1>3, <2>1
    <3>2. stack'[t] \in Seq(Frame)
      BY EndStep, IInvPartsNext DEF StackOK
    <3>3. stack'[t] = <<>>
      BY <3>1, <3>2, EmptySeq
    <3> QED  BY <3>1, <3>3
  <2>2. CASE Len(stack'[t]) = Len(stack[t]) /\ ~Walks(Top(t)')
    BY <1>3, <2>2
  <2> QED  BY <1>7, <2>1, <2>2
<1>9. WInv'
  BY <1>1, <1>3, <1>6, <1>7, <1>8, WalksKept
<1> QED  BY <1>5, <1>9

\* Steps on refs by thread t.
LEMMA RefsWalks ==
    ASSUME IInv, IInv', WInv, NEW t \in Threads, NEW at, AtTop(t, at),
           \A u \in Threads \ {t} : stack'[u] = stack[u],
           UNCHANGED <<callbacks, signalling, status, current>>,
           \/ Len(stack'[t]) = Len(stack[t]) - 1
           \/ Len(stack'[t]) = Len(stack[t]) /\ ~Walks(Top(t)')
    PROVE  WInv'
<1>1. StackOK /\ StackOK'
  BY IInvParts, IInvPartsNext
<1>2. Len(stack[t]) <= 1 /\ stack[t] \in Seq(Frame) /\ stack'[t] \in Seq(Frame)
  BY <1>1 DEF StackOK, WInv, OneFrame
<1> DEFINE l == Len(stack[t])
           m == Len(stack'[t])
<1>3. l \in Nat /\ m \in Nat /\ l <= 1 /\ (m = l - 1 \/ m = l)
  BY <1>2, LenProperties
<1>4. m <= 1 /\ (m = l - 1 => m = 0)
  <2> HIDE DEF l, m
  <2> QED  BY <1>3
<1>5. ~(stack'[t] # <<>> /\ Walks(Top(t)'))
  <2>1. m = 0 => stack'[t] = <<>>
    BY <1>2, EmptySeq
  <2> QED  BY <1>4, <2>1
<1>6. AllLive'
  BY DEF WInv, AllLive
<1> QED  BY <1>1, <1>4, <1>5, <1>6, WalksKept

LEMMA DestroyWalks ==
    ASSUME IInv, WInv, Destroy
    PROVE  WInv'
<1>1. UNCHANGED <<callbacks, signalling, stack, status, current>>
  BY DEF Destroy, info
<1> QED  BY <1>1 DEF WInv, OneFrame, AllLive, WalksFit, WalkFits, Top, Connected

LEMMA WithoutNothing == ASSUME NEW c PROVE Without(<<>>, c) = <<>>
  BY DEF Without

\* The frame at the top of a stack in which a callback is no longer due.
LEMMA TopWithout ==
    ASSUME NEW s \in Seq(Frame), s # <<>>, Fits(s), NEW c
    PROVE  LET r == Without(s, c)
           IN  /\ r # <<>> /\ Len(r) = Len(s)
               /\ Last(r).at = Last(s).at /\ Last(r).i = Last(s).i /\ Last(r).cb = Last(s).cb
               /\ Last(r).due = Last(s).due \ {c} /\ Last(r).done = Last(s).done
<1> DEFINE r == Without(s, c)
<1>1. /\ r \in Seq(Frame) /\ Len(r) = Len(s)
      /\ \A k \in DOMAIN s : /\ r[k].at = s[k].at /\ r[k].i = s[k].i
                             /\ r[k].cb = s[k].cb /\ r[k].n = s[k].n
                             /\ r[k].due = s[k].due \ {c} /\ r[k].done = s[k].done
  BY DueDropped
<1> HIDE DEF r
<1>2. Len(s) \in DOMAIN s /\ Len(s) # 0
  BY EmptySeq, LenProperties
<1>3. r # <<>>
  BY <1>1, <1>2, EmptySeq
<1> QED  BY <1>1, <1>2, <1>3 DEF Last, r

\* An entry of callback c is marked by thread t, from a callback or from outside.
LEMMA MarkWalks ==
    ASSUME IInv, WInv, NEW t \in Threads, NEW c \in Callbacks, NEW i \in DOMAIN callbacks,
           callbacks[i].cb = c,
           callbacks' = [callbacks EXCEPT ![i].remove = TRUE],
           status' = IF OtherEntry(c, i) THEN status ELSE [status EXCEPT ![c] = t],
           stack'[t] = IF OtherEntry(c, i) THEN stack[t] ELSE Without(stack[t], c),
           \A u \in Threads \ {t} : stack'[u] = stack[u],
           UNCHANGED <<signalling, current>>,
           MutexFree(t) \/ AtTop(t, "call"),
           stack[t] = <<>> \/ AtTop(t, "call")
    PROVE  WInv'
<1>1. RestOK /\ StackOK
  BY IInvParts
<1>2. stack[t] \in Seq(Frame) /\ Fits(stack[t]) /\ Len(stack[t]) <= 1
  BY <1>1 DEF StackOK, StacksFit, WInv, OneFrame
<1>3. Len(stack'[t]) = Len(stack[t])
  BY <1>2, DueDropped
<1>4. AllLive'
  <2>1. LiveIn([callbacks EXCEPT ![i].remove = TRUE], status')
    BY <1>1, LiveMarked DEF OtherEntry, RestOK, WInv, AllLive, Settled
  <2> QED  BY <2>1 DEF AllLive
<1>5. WalksIn(stack[t]) \/ MutexFree(t)
  BY <1>1, WalkOf
<1>6. ASSUME stack'[t] # <<>>, Walks(Top(t)')  PROVE WalkFits(t)'
  <2>1. AtTop(t, "call")
    <3>1. stack[t] # <<>>
      BY <1>3, <1>6, EmptySeq, WithoutNothing
    <3> QED  BY <3>1
  <2>2. WalkFits(t) /\ Top(t).at = "call"
    BY <1>1, <2>1, WalkOf
  <2> DEFINE f == Top(t)
             g == Top(t)'
             st == IF OtherEntry(c, i) THEN status ELSE [status EXCEPT ![c] = t]
             cs == [callbacks EXCEPT ![i].remove = TRUE]
  <2>3. g.at = "call" /\ g.i = f.i /\ g.cb = f.cb /\ g.done = f.done
        /\ g.due = IF OtherEntry(c, i) THEN f.due ELSE f.due \ {c}
    <3>1. stack[t] # <<>>
      BY <2>1 DEF AtTop
    <3>2. CASE OtherEntry(c, i)
      BY <2>2, <3>2 DEF Top
    <3>3. CASE ~OtherEntry(c, i)
      BY <1>2, <2>2, <3>1, <3>3, TopWithout DEF Top
    <3> QED  BY <3>2, <3>3
  <2>4. /\ DOMAIN cs = DOMAIN callbacks /\ cs[i].remove
        /\ \A k \in DOMAIN callbacks : cs[k].cb = callbacks[k].cb
        /\ \A k \in DOMAIN callbacks \ {i} : cs[k] = callbacks[k]
    BY <1>1, EntryMarked DEF RestOK
  <2>5. status \in Settled
    BY <1>1 DEF RestOK, Settled
  <2>6. /\ signalling /\ f.due \subseteq {d \in Callbacks : status[d] = "connected"}
        /\ \A j \in DOMAIN callbacks :
              ~callbacks[j].remove /\ (j < f.i \/ j = f.i) => callbacks[j].cb \in f.done
        /\ current[t] = f.i /\ f.i \in DOMAIN callbacks
        /\ callbacks[f.i].cb = f.cb /\ status[f.cb] \in {"connected", t}
    BY <2>2 DEF WalkFits, Connected
  <2>7. callbacks' = cs /\ status' = st /\ signalling' /\ current'[t] = current[t]
    BY <2>6
  <2>8. f.cb \in Callbacks
    BY <1>1, <2>1, WalkOf DEF Proper
  <2>9. g.due \subseteq {d \in Callbacks : st[d] = "connected"} /\ st[f.cb] \in {"connected", t}
    BY <2>3, <2>5, <2>6, <2>8 DEF Settled
  <2> HIDE DEF cs, st, f, g
  <2>10. \A j \in DOMAIN cs : ~cs[j].remove /\ (j < g.i \/ (g.at = "call" /\ j = g.i))
                                 => cs[j].cb \in g.done
    BY <2>3, <2>4, <2>6
  <2>11. current'[t] = g.i /\ g.i \in DOMAIN cs /\ cs[g.i].cb = g.cb /\ st[g.cb] \in {"connected", t}
    BY <2>3, <2>4, <2>6, <2>7, <2>9
  <2> QED  BY <2>7, <2>9, <2>10, <2>11 DEF WalkFits, Connected, g
<1>7. Len(stack'[t]) <= 1
  BY <1>2, <1>3
<1> QED  BY <1>1, <1>4, <1>5, <1>6, <1>7, WalksKept

LEMMA RemoveCurrentWalks ==
    ASSUME Careful, IInv, WInv, NEW t \in Threads, RemoveCurrent(t)
    PROVE  WInv'
<1> DEFINE i == current[t]
           c == Top(t).cb
<1>1. RestOK /\ StackOK
  BY IInvParts
<1>2. /\ AtTop(t, "call") /\ i \in DOMAIN callbacks /\ UNCHANGED <<signalling, current>>
      /\ callbacks' = [callbacks EXCEPT ![i].remove = TRUE]
      /\ IF OtherEntry(c, i)
         THEN UNCHANGED <<status, stack>>
         ELSE /\ status' = [status EXCEPT ![c] = t]
              /\ stack' = [stack EXCEPT ![t] = NotDue(t, c)]
  BY DEF RemoveCurrent, Careful
<1>3. c \in Callbacks /\ callbacks[i].cb = c
  <2>1. WalkFits(t) /\ Proper(Top(t)) /\ Top(t).at = "call"
    BY <1>1, <1>2, WalkOf
  <2> QED  BY <2>1 DEF WalkFits, Proper
<1>4. \A u \in Threads \ {t} : stack'[u] = stack[u]
  BY RemoveCurrentStep
<1>5. NotDue(t, c) = Without(stack[t], c)
  BY DEF NotDue, Without
<1>6. stack'[t] = IF OtherEntry(c, i) THEN stack[t] ELSE Without(stack[t], c)
  BY <1>1, <1>2, <1>5 DEF StackOK
<1>7. status' = IF OtherEntry(c, i) THEN status ELSE [status EXCEPT ![c] = t]
  BY <1>2
<1> HIDE DEF i, c
<1> QED  BY <1>2, <1>3, <1>4, <1>6, <1>7, MarkWalks

LEMMA ConnectWalks ==
    ASSUME Careful, IInv, WInv, NEW t \in Threads, NEW c \in Callbacks, NEW k \in BOOLEAN, Connect(t, c, k)
    PROVE  WInv'
<1> DEFINE e == [cb |-> c, remove |-> FALSE, keep_ref |-> k]
           i == Index(c)
           new == k \/ i = 0
           marked == ~new /\ callbacks[i].remove
           connected == [status EXCEPT ![c] = "connected"]
<1>1. RestOK /\ StackOK
  BY IInvParts
<1>2. /\ callbacks' = IF new THEN Append(callbacks, e) ELSE callbacks
      /\ ~marked /\ status' = connected
      /\ UNCHANGED <<signalling, current, stack>>
      /\ MutexFree(t) /\ May(t, "connect")
  BY DEF Connect, Careful
<1>3. e \in Entry /\ e.cb = c /\ ~e.remove
  BY DEF Entry
<1>4. callbacks \in Seq(Entry) /\ status \in Settled /\ LiveIn(callbacks, status)
  BY <1>1 DEF RestOK, Settled, WInv, AllLive
<1>5. status' \in Settled /\ Connected \subseteq {d \in Callbacks : status'[d] = "connected"}
  BY <1>2, <1>4 DEF Settled, Connected
<1>6. /\ DOMAIN callbacks \subseteq DOMAIN callbacks'
      /\ \A j \in DOMAIN callbacks : callbacks'[j] = callbacks[j]
      /\ \A j \in DOMAIN callbacks' : j \in DOMAIN callbacks \/ j > Len(callbacks)
      /\ LiveIn(callbacks', status')
  <2>1. CASE new
    <3> DEFINE longer == Append(callbacks, e)
    <3>1. callbacks' = longer /\ status' = connected
      BY <1>2, <2>1
    <3>2. LiveIn(longer, [status EXCEPT ![e.cb] = "connected"])
      <4> HIDE DEF e
      <4> QED  BY <1>3, <1>4, LiveAppended
    <3>3. /\ DOMAIN longer = 1..Len(callbacks) + 1
          /\ \A j \in DOMAIN callbacks : j \in DOMAIN longer /\ longer[j] = callbacks[j]
      <4> HIDE DEF e
      <4> QED  BY <1>3, <1>4, EntryAppended
    <3>4. \A j \in 1..Len(callbacks) + 1 : j \in DOMAIN callbacks \/ j > Len(callbacks)
      BY <1>4, LenProperties
    <3> QED  BY <3>1, <3>2, <3>3, <3>4
  <2>2. CASE ~new
    <3>1. callbacks' = callbacks
      BY <1>2, <2>2
    <3>2. i \in DOMAIN callbacks /\ callbacks[i].cb = c
      BY <1>4, <2>2, IndexProperties
    <3>3. status[c] = "connected"
      <4>1. ~callbacks[i].remove
        BY <1>2, <2>2
      <4> HIDE DEF i, marked
      <4> QED  BY <1>4, <3>2, <4>1 DEF LiveIn
    <3>4. status' = status
      BY <1>2, <1>4, <3>3 DEF Settled
    <3> QED  BY <1>4, <3>1, <3>4
  <2> QED  BY <2>1, <2>2
<1>7. AllLive'
  BY <1>6 DEF AllLive
<1>8. ASSUME stack'[t] # <<>>, Walks(Top(t)')  PROVE WalkFits(t)'
  <2>1. AtTop(t, "call") /\ Top(t)' = Top(t)
    BY <1>2, <1>8 DEF May, Top
  <2>2. WalkFits(t) /\ Proper(Top(t)) /\ Top(t).at = "call"
    BY <1>1, <2>1, WalkOf
  <2> DEFINE f == Top(t)
             cs == callbacks'
             st == status'
  <2>3. /\ signalling /\ f.due \subseteq Connected
        /\ \A j \in DOMAIN callbacks :
              ~callbacks[j].remove /\ (j < f.i \/ j = f.i) => callbacks[j].cb \in f.done
        /\ current[t] = f.i /\ f.i \in DOMAIN callbacks
        /\ callbacks[f.i].cb = f.cb /\ status[f.cb] \in {"connected", t}
    BY <2>2 DEF WalkFits
  <2>4. \A j \in DOMAIN cs : j < f.i \/ j = f.i => j \in DOMAIN callbacks
    <3> SUFFICES ASSUME NEW j \in DOMAIN cs, j < f.i \/ j = f.i  PROVE j \in DOMAIN callbacks
      OBVIOUS
    <3> DEFINE m == f.i
               l == Len(callbacks)
    <3>1. m \in 1..l /\ l \in Nat
      BY <1>4, <2>3, LenProperties
    <3>2. j \in Int
      <4>1. callbacks' \in Seq(Entry)
        BY ConnectStep, IInvPartsNext DEF RestOK
      <4>2. DOMAIN callbacks' = 1..Len(callbacks')
        BY <4>1, LenProperties
      <4> QED  BY <4>2
    <3>3. j < m \/ j = m
      OBVIOUS
    <3> HIDE DEF m, l
    <3>4. ~(j > l)
      BY <3>1, <3>2, <3>3
    <3> QED  BY <1>6, <3>4 DEF l
  <2>5. st[f.cb] \in {"connected", t}
    <3>1. f.cb \in Callbacks
      BY <2>2 DEF Proper
    <3> QED  BY <1>2, <1>4, <2>3, <3>1 DEF Settled
  <2>6. f.due \subseteq {d \in Callbacks : st[d] = "connected"}
    BY <1>5, <2>3
  <2>7. cs = callbacks' /\ st = status' /\ Top(t)' = f /\ f.at = "call"
        /\ signalling' /\ current'[t] = current[t]
    BY <1>2, <2>1, <2>2, <2>3
  <2> HIDE DEF cs, st, f
  <2>8. \A j \in DOMAIN cs : ~cs[j].remove /\ (j < f.i \/ (f.at = "call" /\ j = f.i))
                                 => cs[j].cb \in f.done
    BY <1>6, <2>3, <2>4, <2>7
  <2>9. current'[t] = f.i /\ f.i \in DOMAIN cs /\ cs[f.i].cb = f.cb /\ st[f.cb] \in {"connected", t}
    BY <1>6, <2>3, <2>5, <2>7
  <2> QED  BY <2>6, <2>7, <2>8, <2>9 DEF WalkFits, Connected
<1>9. Len(stack'[t]) <= 1 /\ \A u \in Threads \ {t} : stack'[u] = stack[u]
  BY <1>2 DEF WInv, OneFrame
<1> QED  BY <1>1, <1>2, <1>7, <1>8, <1>9, WalksKept

\* A callback that a careful caller disconnects stays connected when it has
\* another entry that is not marked.
LEMMA StaysIs ==
    ASSUME Careful, NEW t \in Threads, NEW c \in Callbacks, Disconnect(t, c),
           Index(c) \in DOMAIN callbacks, callbacks[Index(c)].cb = c
    PROVE  StaysConnected(c) <=> OtherEntry(c, Index(c))
<1> DEFINE i == Index(c)
<1>1. ~(callbacks[i].remove /\ OtherEntry(c, i))
  BY DEF Disconnect, Careful
<1> HIDE DEF i
<1> QED  BY <1>1 DEF StaysConnected, OtherEntry, i

LEMMA DisconnectWalks ==
    ASSUME Careful, IInv, WInv, NEW t \in Threads, NEW c \in Callbacks, Disconnect(t, c)
    PROVE  WInv'
<1> DEFINE i == Index(c)
           b == IF OtherEntry(c, i) THEN stack[t] ELSE Without(stack[t], c)
<1>1. RestOK /\ StackOK
  BY IInvParts
<1>2. /\ i \in DOMAIN callbacks /\ callbacks[i].cb = c
      /\ stack'[t] = IF ~signalling /\ callbacks[i].keep_ref
                     THEN Append(b, DropFrame(c)) ELSE b
      /\ \A u \in Threads \ {t} : stack'[u] = stack[u]
  <2>1. i \in DOMAIN callbacks /\ callbacks[i].cb = c
    BY DisconnectStep
  <2>2. StaysConnected(c) <=> OtherEntry(c, i)
    BY <2>1, StaysIs
  <2> QED  BY <2>2, DisconnectStep
<1>3. /\ callbacks' = IF signalling THEN [callbacks EXCEPT ![i].remove = TRUE]
                                    ELSE RemoveAt(callbacks, i)
      /\ status' = IF OtherEntry(c, i) THEN status ELSE [status EXCEPT ![c] = t]
      /\ UNCHANGED <<signalling, current>>
      /\ MutexFree(t)
      /\ stack[t] = <<>> \/ AtTop(t, "call")
  BY <1>2, StaysIs DEF Disconnect, May
<1>4. CASE signalling
  <2>1. callbacks' = [callbacks EXCEPT ![i].remove = TRUE] /\ stack'[t] = b
    BY <1>2, <1>3, <1>4
  <2> HIDE DEF i
  <2> QED  BY <1>2, <1>3, <2>1, MarkWalks
<1>5. CASE ~signalling
  <2>1. stack[t] = <<>>
    <3>1. ~AtTop(t, "call")
      BY <1>1, <1>5, WalkOf DEF WalkFits
    <3> QED  BY <1>3, <3>1
  <2>2. b = <<>>
    BY <2>1, WithoutNothing
  <2>3. Len(stack'[t]) <= 1 /\ ~(stack'[t] # <<>> /\ Walks(Top(t)'))
    <3>1. CASE stack'[t] = <<>>
      BY <3>1, EmptySeq
    <3>2. CASE stack'[t] = Append(<<>>, DropFrame(c))
      <4> DEFINE d == DropFrame(c)
      <4>1. d \in Frame /\ ~Walks(d)
        BY FrameDropping DEF Proper
      <4> HIDE DEF d
      <4>2. Append(<<>>, d) = <<d>>
        BY <4>1
      <4>3. Len(<<d>>) = 1 /\ <<d>>[1] = d
        OBVIOUS
      <4>4. Top(t)' = stack'[t][Len(stack'[t])]
        BY DEF Top, Last
      <4>5. stack'[t] = <<d>>
        BY <3>2, <4>2 DEF d
      <4> QED  BY <4>1, <4>3, <4>4, <4>5
    <3> QED  BY <1>2, <2>2, <3>1, <3>2
  <2>4. AllLive'
    <3>1. callbacks' = RemoveAt(callbacks, i)
      BY <1>3, <1>5
    <3>2. LiveIn(RemoveAt(callbacks, i), status')
      <4> HIDE DEF i
      <4> QED  BY <1>1, <1>2, <1>3, LiveErased DEF OtherEntry, RestOK, WInv, AllLive, Settled
    <3> QED  BY <3>1, <3>2 DEF AllLive
  <2> QED  BY <1>1, <1>2, <1>3, <2>3, <2>4, WalksKept
<1> QED  BY <1>4, <1>5

\* The walks fit at first,
LEMMA WalksInit == ASSUME Init PROVE WInv
<1>1. callbacks = <<>> /\ stack = [t \in Threads |-> <<>>] /\ status = [c \in Callbacks |-> "never"]
  BY DEF Init
<1>2. \A t \in Threads : stack[t] = <<>> /\ Len(stack[t]) = 0
  BY <1>1, EmptySeq
<1>3. DOMAIN callbacks = {}
  BY <1>1
<1>4. AllLive
  BY <1>1, <1>3 DEF AllLive, LiveIn
<1> QED  BY <1>2, <1>4 DEF WInv, OneFrame, WalksFit

\* and after every step.
LEMMA WalksNext == ASSUME NotNested, Careful, IInv, WInv, [Next]_vars PROVE WInv'
<1>0. IInv'
  BY InvariantNext
<1>1. CASE Destroy
  BY <1>1, DestroyWalks
<1>2. ASSUME NEW t \in Threads, DropRef(t)  PROVE WInv'
  <2>1. AtTop(t, "drop") /\ UNCHANGED <<callbacks, signalling, status, current>>
    BY <1>2 DEF DropRef, info
  <2> QED  BY <1>0, <1>2, <2>1, DropRefStep, RefsWalks
<1>3. ASSUME NEW t \in Threads, SignalBegin(t)  PROVE WInv'
  BY <1>3, SignalBeginWalks
<1>4. ASSUME NEW t \in Threads, Call(t)  PROVE WInv'
  BY <1>4, CallWalks
<1>5. ASSUME NEW t \in Threads, RemoveCurrent(t)  PROVE WInv'
  BY <1>5, RemoveCurrentWalks
<1>6. ASSUME NEW t \in Threads, Return(t)  PROVE WInv'
  BY <1>6, ReturnWalks
<1>7. ASSUME NEW t \in Threads, End(t)  PROVE WInv'
  BY <1>7, EndWalks
<1>8. ASSUME NEW t \in Threads, LoadRefs(t)  PROVE WInv'
  <2>1. AtTop(t, "refs") /\ UNCHANGED <<callbacks, signalling, status, current>>
    BY <1>8 DEF LoadRefs, info
  <2> QED  BY <1>0, <1>8, <2>1, LoadRefsStep, RefsWalks
<1>9. ASSUME NEW t \in Threads, StoreRefs(t)  PROVE WInv'
  <2>1. AtTop(t, "store") /\ UNCHANGED <<callbacks, signalling, status, current>>
    BY <1>9 DEF StoreRefs, info
  <2> QED  BY <1>0, <1>9, <2>1, StoreRefsStep, RefsWalks
<1>10. ASSUME NEW t \in Threads, NEW c \in Callbacks, Disconnect(t, c)  PROVE WInv'
  BY <1>10, DisconnectWalks
<1>11. ASSUME NEW t \in Threads, NEW c \in Callbacks, NEW k \in BOOLEAN, Connect(t, c, k)
       PROVE  WInv'
  BY <1>11, ConnectWalks
<1>12. CASE UNCHANGED vars
  <2>1. UNCHANGED <<callbacks, signalling, stack, status, current>>
    BY <1>12 DEF vars, info
  <2> QED  BY <2>1 DEF WInv, OneFrame, AllLive, WalksFit, WalkFits, Top, Connected
<1> QED  BY <1>1, <1>2, <1>3, <1>4, <1>5, <1>6, <1>7, <1>8, <1>9, <1>10, <1>11, <1>12 DEF Next

\* That of the walks through the callbacks, with no emission within another
\* and careful callers.
THEOREM InvariantWalks == ASSUME NotNested, Careful PROVE Spec => [](IInv /\ WInv)
<1>1. Init => IInv /\ WInv
  BY InvariantInit, WalksInit
<1>2. IInv /\ WInv /\ [Next]_vars => (IInv /\ WInv)'
  BY InvariantNext, WalksNext
<1> QED  BY <1>1, <1>2, PTL DEF Spec

\* A signal calls every callback that was connected when it began and was not
\* disconnected since: signal_handler_signal, whatever its callbacks connect and
\* disconnect, as long as they do not send it again and nobody makes a call that
\* the handler loses (connects a callback that is only marked as removed, takes
\* two connections of a callback away during one signal, or removes the current
\* callback after it connected another).
THEOREM EveryCallbackCalled == ASSUME NotNested, Careful PROVE Spec => CalledAll
<1>1. IInv /\ WInv /\ [Next]_vars
        => [\A t \in Threads : End(t) => Top(t).due \subseteq Top(t).done]_vars
  BY EndWalks
<1> QED  BY <1>1, InvariantWalks, PTL DEF Spec, CalledAll

\* Only Call starts a callback, and that callback is connected.
LEMMA StartsConnected ==
    ASSUME NotNested, Careful, IInv, WInv, Next, NEW t \in Threads, AtTop(t, "loop"), AtTop(t, "call")'
    PROVE  status[Top(t)'.cb] = "connected"
<1>1. ASSUME stack'[t] = stack[t]  PROVE FALSE
  <2>1. Top(t).at = "loop" /\ Top(t)'.at = "call" /\ Top(t)' = Top(t)
    BY <1>1 DEF AtTop, Top
  <2> QED  BY <2>1
<1>2. ~AtTop(t, "call") /\ stack[t] # <<>> /\ Top(t).at = "loop"
  BY DEF AtTop
<1>3. CASE Call(t)
  BY <1>3, CallWalks
<1>4. CASE End(t)
  <2>1. /\ \/ Len(stack'[t]) = Len(stack[t]) - 1
           \/ Len(stack'[t]) = Len(stack[t]) /\ ~Walks(Top(t)')
    BY <1>4, EndStep
  <2>2. Len(stack[t]) = 1
    BY IInvParts, WalkOf
  <2>3. stack'[t] \in Seq(Frame) /\ stack'[t] # <<>> /\ Walks(Top(t)')
    <3>1. stack'[t] \in Seq(Frame)
      BY <1>4, EndStep, IInvPartsNext DEF StackOK
    <3> QED  BY <3>1 DEF AtTop, Walks
  <2>4. Len(stack'[t]) # 0
    BY <2>3, EmptySeq
  <2> QED  BY <2>1, <2>2, <2>3, <2>4
<1>5. CASE Return(t) \/ RemoveCurrent(t) \/ DropRef(t) \/ LoadRefs(t) \/ StoreRefs(t)
  BY <1>2, <1>5 DEF Return, RemoveCurrent, DropRef, LoadRefs, StoreRefs, AtTop
<1>6. CASE SignalBegin(t)
  BY <1>2, <1>6 DEF SignalBegin, May
<1>7. CASE \E c \in Callbacks : Disconnect(t, c)
  BY <1>2, <1>7 DEF Disconnect, May
<1>8. CASE Destroy \/ \E u \in Threads, c \in Callbacks, k \in BOOLEAN : Connect(u, c, k)
  BY <1>1, <1>8, DestroyStep, ConnectStep
<1>9. ASSUME NEW u \in Threads \ {t},
             \/ DropRef(u) \/ SignalBegin(u) \/ Call(u) \/ RemoveCurrent(u) \/ Return(u)
             \/ End(u) \/ LoadRefs(u) \/ StoreRefs(u)
             \/ \E c \in Callbacks : Disconnect(u, c)
      PROVE  FALSE
  <2>1. t \in Threads \ {u}
    OBVIOUS
  <2>2. stack'[t] = stack[t]
    BY <1>9, <2>1, DropRefStep, SignalBeginStep, CallStep, RemoveCurrentStep, ReturnStep,
       EndStep, LoadRefsStep, StoreRefsStep, DisconnectStep
  <2> QED  BY <1>1, <2>2
<1> QED  BY <1>3, <1>4, <1>5, <1>6, <1>7, <1>8, <1>9 DEF Next

\* Once a callback is disconnected nobody calls it, and it runs on no thread but
\* the one that disconnected it, as long as callbacks do not send the signal
\* again and nobody makes a call that the handler loses: signal_handler_disconnect
\* waits for the mutex of a running signal.
THEOREM NoCallAfterDisconnect == ASSUME NotNested, Careful PROVE Spec => NotAfterDisconnect
<1> DEFINE Starts == \A t \in Threads : AtTop(t, "loop") /\ AtTop(t, "call")'
                                           => status[Top(t)'.cb] = "connected"
           Runs == \A t \in Threads, c \in Callbacks : Running(t, c) => status[c] \in {"connected", t}
<1>1. IInv /\ WInv /\ [Next]_vars => [Starts]_vars
  BY StartsConnected
<1>2. ASSUME IInv, WInv  PROVE Runs
  <2> SUFFICES ASSUME NEW t \in Threads, NEW c \in Callbacks, NEW k \in DOMAIN stack[t],
                      stack[t][k].at = "call", stack[t][k].cb = c
               PROVE  status[c] \in {"connected", t}
    BY DEF Running
  <2>1. stack[t] \in Seq(Frame) /\ Len(stack[t]) <= 1
    BY <1>2, IInvParts DEF StackOK, WInv, OneFrame
  <2>2. k = Len(stack[t])
    <3> DEFINE l == Len(stack[t])
    <3>1. l \in Nat /\ k \in 1..l /\ l <= 1
      BY <2>1, LenProperties
    <3> HIDE DEF l
    <3>2. k = l
      BY <3>1
    <3> QED  BY <3>2 DEF l
  <2>3. AtTop(t, "call") /\ Top(t).cb = c
    BY <2>1, <2>2, EmptySeq DEF AtTop, Top, Last
  <2> QED  BY <1>2, <2>3, IInvParts, WalkOf DEF WalkFits
<1> HIDE DEF Starts, Runs
<1>3. Spec => [][Starts]_vars
  BY <1>1, InvariantWalks, PTL DEF Spec
<1>4. IInv /\ WInv => Runs
  BY <1>2
<1>5. Spec => []Runs
  BY <1>4, InvariantWalks, PTL
<1>6. NotAfterDisconnect <=> [][Starts]_vars /\ []Runs
  BY DEF NotAfterDisconnect, Starts, Runs
<1> QED  BY <1>3, <1>5, <1>6, PTL
=============================================================================
