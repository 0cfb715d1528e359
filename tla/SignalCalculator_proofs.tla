----------------------- MODULE SignalCalculator_proofs ----------------------
(***************************************************************************)
(* Theorems about the signal calculator, for any signals, applications,     *)
(* delays and registrants.                                                  *)
(***************************************************************************)
EXTENDS SignalCalculator, Sublists_proofs, FiniteSetTheorems

-----------------------------------------------------------------------------
(* What the sort of the signals and the sums of their delays give, for any  *)
(* table of signals.                                                        *)

\* A table of raw signals rs and calculated ones cs: no id twice, inputs known.
Table(ins, rs, cs) ==
    /\ rs \in Seq(SignalIds) /\ cs \in Seq(SignalIds)
    /\ IsInjective(rs) /\ IsInjective(cs) /\ Range(rs) \cap Range(cs) = {}
    /\ ins \in [Range(cs) -> Seq(Input(SignalIds))]
    /\ \A s \in Range(cs) : InputIds(ins, s) \subseteq Range(rs) \cup Range(cs)

-----------------------------------------------------------------------------
(* The sort.                                                                *)

\* Whatever L lists comes after the others it reads.
Before(ins, L) ==
    \A i \in 1 .. Len(L) : \A x :
        L[i] \in DOMAIN ins /\ x \in InputIds(ins, L[i]) \ {L[i]} =>
            \E j \in 1 .. i - 1 : L[j] = x

\* All that v reads, but itself, is in L.
Satisfied(ins, rs, cs, L, v) == InputIds(ins, v) \cap Unsorted(cs, rs, L) \subseteq {v}

\* Between two rounds of the sort: S holds what can come next, all of it.
Kahn(ins, rs, cs, t) ==
    /\ t \in [S : Seq(Range(rs) \cup Range(cs)), L : Seq(Range(rs) \cup Range(cs))]
    /\ IsInjective(t.S) /\ IsInjective(t.L) /\ Range(t.S) \cap Range(t.L) = {}
    /\ Before(ins, t.L)
    /\ \A v \in Range(t.S) \cap DOMAIN ins : Satisfied(ins, rs, cs, t.L, v)
    /\ \A v \in (Range(rs) \cup Range(cs)) \ (Range(t.S) \cup Range(t.L)) :
          v \in DOMAIN ins /\ ~ Satisfied(ins, rs, cs, t.L, v)

LEMMA PreloadKahn ==
    ASSUME NEW ins, NEW rs, NEW cs, Table(ins, rs, cs)
    PROVE  Kahn(ins, rs, cs, Preload(ins, rs, cs))
<1> DEFINE V == Range(rs) \cup Range(cs)
<1> DEFINE able == {v \in V : IsLeaf(ins, v) \/ InputIds(ins, v) \cap Unsorted(cs, rs, <<>>) \subseteq {v}}
<1>1. PICK t : t = Preload(ins, rs, cs) OBVIOUS
<1>2. t = [S |-> Sublist(rs \o cs, able), L |-> <<>>] BY <1>1 DEF Preload
<1>3. rs \in Seq(V) /\ cs \in Seq(V)
  <2>1. Range(rs) \subseteq V /\ Range(cs) \subseteq V OBVIOUS
  <2>2. rs \in Seq(Range(rs)) /\ cs \in Seq(Range(cs)) BY SeqOfRange DEF Table
  <2> QED BY <2>1, <2>2, SeqMonotonic
<1>4. IsInjective(rs \o cs) BY <1>3, InjectiveConcat DEF Table
<1>5. rs \o cs \in Seq(V) /\ Range(rs \o cs) = V BY <1>3, ConcatProperties, RangeConcatenation
<1> HIDE DEF able
<1>6. t.S \in Seq(V) /\ Range(t.S) = V \cap able /\ IsInjective(t.S)
    BY <1>2, <1>4, <1>5, SublistKeeps
<1>7. t.L = <<>> /\ t.L \in Seq(V) /\ Len(t.L) = 0 BY <1>2, EmptySeq
<1>8. Range(t.L) = {} /\ IsInjective(t.L)
  <2>1. PICK l : l = t.L OBVIOUS
  <2>2. l \in Seq(V) /\ 1 .. Len(l) = {} BY <1>7, <2>1
  <2>3. Range(l) = {} BY <2>2, RangeIndex
  <2>4. IsInjective(l) BY <2>2, InjectiveIndex
  <2> QED BY <2>1, <2>3, <2>4
<1>10. t \in [S : Seq(V), L : Seq(V)] BY <1>2, <1>6, <1>7
<1>11. Before(ins, t.L) BY <1>7 DEF Before
<1>12. \A v \in V : v \in able <=> v \notin DOMAIN ins \/ Satisfied(ins, rs, cs, t.L, v)
    BY <1>7 DEF able, IsLeaf, Satisfied
<1>13. Kahn(ins, rs, cs, t) BY <1>6, <1>8, <1>10, <1>11, <1>12 DEF Kahn
<1> QED BY <1>1, <1>13

LEMMA TakeKahn ==
    ASSUME NEW ins, NEW rs, NEW cs, Table(ins, rs, cs), NEW t, Kahn(ins, rs, cs, t)
    PROVE  /\ Kahn(ins, rs, cs, TakeVertex(ins, rs, cs, t))
           /\ t.S = <<>> => TakeVertex(ins, rs, cs, t) = t
           /\ t.S # <<>> => Len(TakeVertex(ins, rs, cs, t).L) = Len(t.L) + 1
<1> SUFFICES ASSUME t.S # <<>>
             PROVE  /\ Kahn(ins, rs, cs, TakeVertex(ins, rs, cs, t))
                    /\ Len(TakeVertex(ins, rs, cs, t).L) = Len(t.L) + 1
    BY DEF TakeVertex
<1> DEFINE V == Range(rs) \cup Range(cs)
<1>1. PICK n, L2 : n = Head(t.S) /\ L2 = Append(t.L, n) OBVIOUS
<1> DEFINE reads == {c \in Range(cs) \ {n} : n \in InputIds(ins, c)}
           able == {m \in Range(cs) : InputIds(ins, m) \cap Unsorted(cs, rs, L2) \subseteq {m}}
<1>2. PICK next : next = Sublist(Sublist(cs, reads), able) OBVIOUS
<1>3. PICK u : u = [S |-> Tail(t.S) \o next, L |-> L2] OBVIOUS
<1>4. u = TakeVertex(ins, rs, cs, t) BY <1>1, <1>2, <1>3 DEF TakeVertex, Readers
<1>5. /\ t.S \in Seq(V) /\ t.L \in Seq(V) /\ Len(t.L) \in Nat
      /\ IsInjective(t.S) /\ IsInjective(t.L) /\ Range(t.S) \cap Range(t.L) = {}
      /\ Before(ins, t.L)
      /\ \A v \in Range(t.S) \cap DOMAIN ins : Satisfied(ins, rs, cs, t.L, v)
      /\ \A v \in V \ (Range(t.S) \cup Range(t.L)) :
            v \in DOMAIN ins /\ ~ Satisfied(ins, rs, cs, t.L, v)
    BY DEF Kahn
<1>6. n \in V /\ Tail(t.S) \in Seq(V) BY <1>1, <1>5, HeadTailProperties
<1>7. /\ Range(t.S) = {n} \cup Range(Tail(t.S)) /\ IsInjective(Tail(t.S))
      /\ n \notin Range(Tail(t.S))
    BY <1>1, <1>5, InjectiveTail
<1>8. /\ L2 \in Seq(V) /\ Len(L2) = Len(t.L) + 1 /\ L2[Len(t.L) + 1] = n
      /\ \A i \in 1 .. Len(t.L) : L2[i] = t.L[i]
    BY <1>1, <1>5, <1>6, AppendProperties
<1>9. Range(L2) = Range(t.L) \cup {n} /\ IsInjective(L2) BY <1>1, <1>5, <1>6, <1>7, InjectiveAppend
<1>10. DOMAIN ins = Range(cs) BY DEF Table
<1> HIDE DEF reads, able
<1>11. /\ next \in Seq(V) /\ IsInjective(next)
       /\ Range(next) = Range(cs) \cap reads \cap able
  <2>1. cs \in Seq(V) /\ IsInjective(cs)
    <3>1. Range(cs) \subseteq V OBVIOUS
    <3>2. cs \in Seq(Range(cs)) BY SeqOfRange DEF Table
    <3> QED BY <3>1, <3>2, SeqMonotonic DEF Table
  <2>2. PICK mid : mid = Sublist(cs, reads) OBVIOUS
  <2>3. mid \in Seq(V) /\ IsInjective(mid) /\ Range(mid) = Range(cs) \cap reads
      BY <2>1, <2>2, SublistKeeps
  <2> QED BY <1>2, <2>2, <2>3, SublistKeeps
<1>12. \A m : m \in Range(next) <=>
                 /\ m \in DOMAIN ins /\ m # n /\ n \in InputIds(ins, m)
                 /\ Satisfied(ins, rs, cs, L2, m)
    BY <1>10, <1>11 DEF reads, able, Satisfied
<1>13. Unsorted(cs, rs, L2) = Unsorted(cs, rs, t.L) \ {n} BY <1>9 DEF Unsorted
<1>14. n \in Unsorted(cs, rs, t.L) BY <1>5, <1>6, <1>7 DEF Unsorted
<1>15. ASSUME NEW m \in Range(next) PROVE m \notin Range(t.S) /\ m \notin Range(t.L) /\ m # n
  <2>1. m \in DOMAIN ins /\ m # n /\ n \in InputIds(ins, m) BY <1>12
  <2>2. ~ Satisfied(ins, rs, cs, t.L, m) BY <1>14, <2>1 DEF Satisfied
  <2>3. m \notin Range(t.S) BY <1>5, <2>1, <2>2
  <2>4. ASSUME m \in Range(t.L) PROVE FALSE
    <3>1. PICK i \in 1 .. Len(t.L) : t.L[i] = m BY <1>5, <2>4, RangeIndex
    <3>2. PICK j \in 1 .. i - 1 : t.L[j] = n BY <1>5, <2>1, <3>1 DEF Before
    <3>3. j \in 1 .. Len(t.L) BY <1>5
    <3>4. n \in Range(t.L) BY <1>5, <3>2, <3>3, RangeIndex
    <3> QED BY <1>14, <3>4 DEF Unsorted
  <2> QED BY <2>1, <2>3, <2>4
<1>16. /\ u.S \in Seq(V) /\ Range(u.S) = Range(Tail(t.S)) \cup Range(next) /\ IsInjective(u.S)
       /\ u.L = L2
  <2>1. Range(Tail(t.S)) \cap Range(next) = {} BY <1>7, <1>15
  <2>2. u.S = Tail(t.S) \o next /\ u.L = L2 BY <1>3
  <2>3. PICK a, b : a = Tail(t.S) /\ b = next OBVIOUS
  <2>4. a \in Seq(V) /\ b \in Seq(V) BY <1>6, <1>11, <2>3
  <2>5. a \o b \in Seq(V) BY <2>4, ConcatProperties
  <2>6. Range(a \o b) = Range(a) \cup Range(b) BY <2>4, RangeConcatenation
  <2>7. IsInjective(a \o b) BY <1>7, <1>11, <2>1, <2>3, <2>4, InjectiveConcat
  <2> QED BY <2>2, <2>3, <2>5, <2>6, <2>7
<1>17. u \in [S : Seq(V), L : Seq(V)] BY <1>3, <1>8, <1>16
<1>18. Range(u.S) \cap Range(u.L) = {} BY <1>5, <1>7, <1>9, <1>15, <1>16
<1>19. Before(ins, L2)
  <2> SUFFICES ASSUME NEW i \in 1 .. Len(L2), NEW x,
                      L2[i] \in DOMAIN ins, x \in InputIds(ins, L2[i]) \ {L2[i]}
               PROVE  \E j \in 1 .. i - 1 : L2[j] = x
      BY DEF Before
  <2>1. CASE i \in 1 .. Len(t.L)
    <3>1. L2[i] = t.L[i] BY <1>8, <2>1
    <3>2. PICK j \in 1 .. i - 1 : t.L[j] = x BY <1>5, <2>1, <3>1 DEF Before
    <3>3. j \in 1 .. Len(t.L) BY <1>5, <2>1
    <3> QED BY <1>8, <3>2, <3>3
  <2>2. CASE i = Len(t.L) + 1
    <3>1. L2[i] = n BY <1>8, <2>2
    <3>2. Satisfied(ins, rs, cs, t.L, n) BY <1>5, <1>7, <3>1
    <3>3. x \in V BY <1>10, <3>1 DEF Table
    <3>4. x \in Range(t.L) BY <3>1, <3>2, <3>3 DEF Satisfied, Unsorted
    <3>5. PICK j \in 1 .. Len(t.L) : t.L[j] = x BY <1>5, <3>4, RangeIndex
    <3>6. L2[j] = x /\ j \in 1 .. i - 1 BY <1>5, <1>8, <2>2, <3>5
    <3> QED BY <3>6
  <2> QED BY <1>5, <1>8, <2>1, <2>2
<1>20. ASSUME NEW v \in Range(u.S) \cap DOMAIN ins PROVE Satisfied(ins, rs, cs, L2, v)
    BY <1>5, <1>7, <1>12, <1>13, <1>16 DEF Satisfied
<1>21. ASSUME NEW v \in V \ (Range(u.S) \cup Range(u.L))
       PROVE  v \in DOMAIN ins /\ ~ Satisfied(ins, rs, cs, L2, v)
  <2>1. v \notin Range(t.S) /\ v \notin Range(t.L) /\ v # n /\ v \notin Range(next)
      BY <1>7, <1>9, <1>16
  <2>2. v \in DOMAIN ins /\ ~ Satisfied(ins, rs, cs, t.L, v) BY <1>5, <2>1
  <2>3. ASSUME Satisfied(ins, rs, cs, L2, v) PROVE FALSE
    <3>1. n \in InputIds(ins, v) BY <1>13, <2>2, <2>3 DEF Satisfied
    <3> QED BY <1>12, <2>1, <2>2, <2>3, <3>1
  <2> QED BY <2>2, <2>3
<1>22. Kahn(ins, rs, cs, u) BY <1>9, <1>16, <1>17, <1>18, <1>19, <1>20, <1>21 DEF Kahn
<1>23. Len(u.L) = Len(t.L) + 1 BY <1>8, <1>16
<1> QED BY <1>4, <1>22, <1>23

\* A list as long as one of everything leaves nothing out.
LEMMA InjectiveCovers ==
    ASSUME NEW T, NEW all \in Seq(T), Range(all) = T, IsInjective(all),
           NEW list \in Seq(T), IsInjective(list), Len(list) = Len(all)
    PROVE  T = Range(list)
<1>0. PICK n : n = Len(all) OBVIOUS
<1>1. n \in Nat /\ all \in [1 .. n -> T] /\ list \in [1 .. n -> T] BY <1>0, LenProperties
<1>2. all \in Bijection(1 .. n, T)
  <2>1. \A x \in T : \E i \in 1 .. n : all[i] = x BY <1>0, RangeIndex
  <2> QED BY <1>1, <2>1 DEF Bijection, Injection, Surjection
<1>3. IsFiniteSet(1 .. n) /\ Cardinality(1 .. n) = n
  <2>1. /\ IsFiniteSet(1 .. n)
        /\ Cardinality(1 .. n) = IF 1 > n THEN 0 ELSE n - 1 + 1
      BY <1>1, FS_Interval
  <2> QED BY <1>1, <2>1
<1>4. ExistsBijection(1 .. n, T) BY <1>2 DEF ExistsBijection
<1>5. IsFiniteSet(T) /\ Cardinality(T) = n BY <1>3, <1>4, FS_Bijection
<1>6. list \in Injection(1 .. n, T) BY <1>1 DEF Injection
<1>7. list \in Surjection(1 .. n, T) BY <1>3, <1>5, <1>6, FS_Injection
<1>8. \A x \in T : \E i \in 1 .. n : list[i] = x BY <1>7 DEF Surjection
<1>9. Len(list) = n BY <1>0
<1>10. \A x \in T : x \in Range(list) BY <1>8, <1>9, RangeIndex
<1>11. Range(list) \subseteq T BY RangeIndex
<1> QED BY <1>10, <1>11

\* L lists each of V at most once, after what it reads; what it leaves out is
\* a set of signals each of which reads another of the set.
SortedUpTo(ins, rs, cs, L) ==
    /\ L \in Seq(Range(rs) \cup Range(cs)) /\ IsInjective(L) /\ Before(ins, L)
    /\ \A v \in Unsorted(cs, rs, L) :
          v \in DOMAIN ins /\ (InputIds(ins, v) \cap Unsorted(cs, rs, L)) \ {v} # {}

LEMMA SortResult ==
    ASSUME NEW ins, NEW rs, NEW cs, Table(ins, rs, cs)
    PROVE  SortedUpTo(ins, rs, cs, TopologicalSort(ins, rs, cs))
<1> DEFINE V == Range(rs) \cup Range(cs)
<1>1. PICK all : all = rs \o cs OBVIOUS
<1>2. PICK N : N = Len(all) OBVIOUS
<1>3. rs \in Seq(V) /\ cs \in Seq(V)
  <2>1. Range(rs) \subseteq V /\ Range(cs) \subseteq V OBVIOUS
  <2>2. rs \in Seq(Range(rs)) /\ cs \in Seq(Range(cs)) BY SeqOfRange DEF Table
  <2> QED BY <2>1, <2>2, SeqMonotonic
<1>4. all \in Seq(V) /\ Range(all) = V /\ IsInjective(all)
    BY <1>1, <1>3, ConcatProperties, RangeConcatenation, InjectiveConcat DEF Table
<1>5. N \in Nat BY <1>2, <1>4, LenProperties
<1> DEFINE T == {t \in [S : Seq(V), L : Seq(V)] : Kahn(ins, rs, cs, t)}
           step == [p \in (1 .. N) \X T |-> TakeVertex(ins, rs, cs, p[2])]
           body(f) == [n \in 0 .. N |-> IF n = 0 THEN Preload(ins, rs, cs)
                                        ELSE TakeVertex(ins, rs, cs, f[n - 1])]
<1>6. Preload(ins, rs, cs) \in T BY PreloadKahn DEF Kahn
<1>7. \A t \in T : TakeVertex(ins, rs, cs, t) \in T
  <2> TAKE t \in T
  <2>1. Kahn(ins, rs, cs, TakeVertex(ins, rs, cs, t)) BY TakeKahn
  <2> QED BY <2>1 DEF Kahn
<1> HIDE DEF T
<1>8. step \in [(1 .. N) \X T -> T] BY <1>7
<1>9. PICK run \in [0 .. N -> T] : Follows(run, N, Preload(ins, rs, cs), step)
  <2> HIDE DEF step
  <2> QED BY <1>5, <1>6, <1>8, Recursion
<1>10. run = body(run)
  <2>1. ASSUME NEW n \in 0 .. N
        PROVE  run[n] = IF n = 0 THEN Preload(ins, rs, cs) ELSE TakeVertex(ins, rs, cs, run[n - 1])
    <3>1. CASE n = 0 BY <1>9, <3>1 DEF Follows
    <3>2. CASE n # 0
      <4>1. n \in 1 .. N /\ n - 1 \in 0 .. N BY <1>5, <3>2
      <4>2. <<n, run[n - 1]>> \in (1 .. N) \X T BY <4>1
      <4>3. run[n] = step[<<n, run[n - 1]>>] BY <1>9, <4>1 DEF Follows
      <4> QED BY <3>2, <4>2, <4>3
    <3> QED BY <3>1, <3>2
  <2> QED BY <2>1
<1> DEFINE takes == CHOOSE f : f = body(f)
<1>11. takes = body(takes) BY <1>10
<1>12. TopologicalSort(ins, rs, cs) = takes[N].L BY <1>1, <1>2 DEF TopologicalSort
<1> HIDE DEF takes
<1>13. takes[0] = Preload(ins, rs, cs) BY <1>5, <1>11
<1>14. ASSUME NEW n \in 0 .. N - 1
       PROVE  takes[n + 1] = TakeVertex(ins, rs, cs, takes[n])
  <2>1. n + 1 \in 0 .. N /\ n + 1 # 0 /\ (n + 1) - 1 = n BY <1>5
  <2> QED BY <1>11, <2>1
<1> DEFINE P == {n \in 0 .. N : /\ Kahn(ins, rs, cs, takes[n])
                                /\ takes[n].S = <<>> \/ Len(takes[n].L) = n}
<1>15. 0 \in P
  <2>1. Preload(ins, rs, cs).L = <<>> BY DEF Preload
  <2>2. Len(takes[0].L) = 0 BY <1>13, <2>1, EmptySeq
  <2> QED BY <1>5, <1>13, <2>2, PreloadKahn
<1>16. ASSUME NEW n \in 0 .. N - 1, n \in P PROVE n + 1 \in P
  <2>1. PICK t, u : t = takes[n] /\ u = TakeVertex(ins, rs, cs, t) OBVIOUS
  <2>2. Kahn(ins, rs, cs, t) /\ (t.S = <<>> \/ Len(t.L) = n) BY <1>16, <2>1
  <2>3. /\ Kahn(ins, rs, cs, u)
        /\ t.S = <<>> => u = t
        /\ t.S # <<>> => Len(u.L) = Len(t.L) + 1
      BY <2>1, <2>2, TakeKahn
  <2>4. takes[n + 1] = u BY <1>14, <2>1
  <2>5. n + 1 \in 0 .. N BY <1>5
  <2> QED BY <2>2, <2>3, <2>4, <2>5
<1> HIDE DEF P
<1>17. \A n \in 0 .. N : n \in P BY <1>5, <1>15, <1>16, UpTo
<1>18. PICK t : t = takes[N] OBVIOUS
<1>19. Kahn(ins, rs, cs, t) /\ (t.S = <<>> \/ Len(t.L) = N) BY <1>5, <1>17, <1>18 DEF P
<1>20. /\ t.S \in Seq(V) /\ t.L \in Seq(V) /\ IsInjective(t.L) /\ Before(ins, t.L)
       /\ \A v \in V \ (Range(t.S) \cup Range(t.L)) :
             v \in DOMAIN ins /\ ~ Satisfied(ins, rs, cs, t.L, v)
    BY <1>19 DEF Kahn
<1>21. ASSUME NEW v \in Unsorted(cs, rs, t.L)
       PROVE  v \in DOMAIN ins /\ (InputIds(ins, v) \cap Unsorted(cs, rs, t.L)) \ {v} # {}
  <2>1. v \in V /\ v \notin Range(t.L) BY DEF Unsorted
  <2>2. CASE t.S = <<>>
    <3>1. PICK s : s = t.S OBVIOUS
    <3>2. s \in Seq(V) /\ 1 .. Len(s) = {} BY <1>20, <2>2, <3>1, EmptySeq
    <3>3. Range(s) = {} BY <3>2, RangeIndex
    <3>4. v \in DOMAIN ins /\ ~ Satisfied(ins, rs, cs, t.L, v) BY <1>20, <2>1, <3>1, <3>3
    <3> QED BY <3>4 DEF Satisfied
  <2>3. CASE Len(t.L) = N
    <3>1. V = Range(t.L) BY <1>2, <1>4, <1>20, <2>3, InjectiveCovers
    <3> QED BY <2>1, <3>1
  <2> QED BY <1>19, <2>2, <2>3
<1> QED BY <1>12, <1>18, <1>20, <1>21 DEF SortedUpTo

\* Every calculated signal comes after the calculated signals it reads.
ReadsEarlier(ins, cs) ==
    \A i, j \in 1 .. Len(cs) : cs[j] \in InputIds(ins, cs[i]) => j < i

LEMMA CalcOrderResult ==
    ASSUME NEW ins, NEW rs, NEW cs, Table(ins, rs, cs),
           \A s \in Range(cs) : s \notin InputIds(ins, s),
           NEW L, SortedUpTo(ins, rs, cs, L), Sorted(rs, cs, L)
    PROVE  /\ CalcOrder(ins, L) \in Seq(SignalIds) /\ IsInjective(CalcOrder(ins, L))
           /\ Range(CalcOrder(ins, L)) = Range(cs)
           /\ ReadsEarlier(ins, CalcOrder(ins, L))
<1> DEFINE V == Range(rs) \cup Range(cs)
<1>1. /\ L \in Seq(V) /\ IsInjective(L) /\ Before(ins, L) /\ V \subseteq Range(L)
      /\ DOMAIN ins = Range(cs) /\ V \subseteq SignalIds
  <2>1. Range(rs) \subseteq SignalIds /\ Range(cs) \subseteq SignalIds BY RangeIndex DEF Table
  <2> QED BY <2>1 DEF SortedUpTo, Sorted, Unsorted, Table
<1>2. PICK c : c = CalcOrder(ins, L) OBVIOUS
<1>3. c \in Seq(V) /\ Range(c) = Range(L) \cap DOMAIN ins /\ IsInjective(c)
    BY <1>1, <1>2, SublistKeeps DEF CalcOrder
<1>4. Range(c) = Range(cs) /\ c \in Seq(SignalIds) BY <1>1, <1>3, SeqMonotonic
<1>5. ASSUME NEW i \in 1 .. Len(c), NEW j \in 1 .. Len(c), c[j] \in InputIds(ins, c[i])
      PROVE  j < i
  <2>1. c[i] \in Range(cs) /\ c[j] \in Range(cs) BY <1>3, <1>4, RangeIndex
  <2>2. c[i] # c[j] BY <1>5, <2>1
  <2>3. PICK b \in 1 .. Len(L) : L[b] = c[i] BY <1>1, <2>1, RangeIndex
  <2>4. PICK a \in 1 .. b - 1 : L[a] = c[j] BY <1>1, <1>5, <2>1, <2>2, <2>3 DEF Before
  <2>5. a \in 1 .. Len(L) /\ a < b BY <1>1, LenProperties
  <2>6. PICK S : S = DOMAIN ins OBVIOUS
  <2>7. c = Sublist(L, S) BY <1>2, <2>6 DEF CalcOrder
  <2> QED BY <1>1, <2>3, <2>4, <2>5, <2>7, SublistOrder
<1> QED BY <1>2, <1>3, <1>4, <1>5 DEF ReadsEarlier

-----------------------------------------------------------------------------
(* The delays.                                                              *)

LEMMA LargestBounds ==
    ASSUME NEW n \in Nat, NEW f \in [1 .. n -> Nat]
    PROVE  LET S == {f[i] : i \in 1 .. n} IN
           /\ Largest(S) \in Nat /\ Largest(S) \in S \cup {0}
           /\ \A i \in 1 .. n : f[i] <= Largest(S)
<1> DEFINE S(k) == {f[i] : i \in 1 .. k} \cup {0}
           P == {k \in 0 .. n : \E m \in S(k) : \A x \in S(k) : x <= m}
<1>1. 0 \in P
  <2>1. S(0) = {0} OBVIOUS
  <2>2. 0 \in 0 .. n OBVIOUS
  <2> QED BY <2>1, <2>2
<1>2. ASSUME NEW k \in 0 .. n - 1, k \in P PROVE k + 1 \in P
  <2>1. PICK m \in S(k) : \A x \in S(k) : x <= m BY <1>2
  <2>2. k + 1 \in 1 .. n /\ k + 1 \in 0 .. n OBVIOUS
  <2>3. S(k + 1) = S(k) \cup {f[k + 1]}
    <3>1. 1 .. k + 1 = (1 .. k) \cup {k + 1} OBVIOUS
    <3> QED BY <3>1
  <2>4. S(k) \subseteq Nat
    <3>1. \A i \in 1 .. k : f[i] \in Nat OBVIOUS
    <3> QED BY <3>1
  <2>5. f[k + 1] \in Nat BY <2>2
  <2> HIDE DEF S
  <2>6. CASE f[k + 1] <= m BY <2>1, <2>2, <2>3, <2>6
  <2>7. CASE ~ (f[k + 1] <= m)
    <3>1. \A x \in S(k + 1) : x <= f[k + 1] BY <2>1, <2>3, <2>4, <2>5, <2>7
    <3> QED BY <2>2, <2>3, <3>1
  <2> QED BY <2>6, <2>7
<1> HIDE DEF P
<1>3. n \in P
  <2>1. \A k \in 0 .. n : k \in P BY <1>1, <1>2, UpTo
  <2> QED BY <2>1
<1>4. PICK m \in S(n) : \A x \in S(n) : x <= m BY <1>3 DEF P
<1>5. S(n) \subseteq Nat OBVIOUS
<1> DEFINE R == {f[i] : i \in 1 .. n}
<1>6. S(n) = R \cup {0} OBVIOUS
<1> HIDE DEF S, R
<1>7. \A x \in R \cup {0} : m >= x BY <1>4, <1>5, <1>6
<1>8. Max(R \cup {0}) \in R \cup {0} /\ \A x \in R \cup {0} : Max(R \cup {0}) >= x
    BY <1>4, <1>6, <1>7 DEF Max
<1>9. Largest(R) \in Nat /\ Largest(R) \in R \cup {0} /\ \A x \in R : x <= Largest(R)
    BY <1>5, <1>6, <1>8 DEF Largest
<1>10. \A i \in 1 .. n : f[i] \in R BY DEF R
<1> QED BY <1>9, <1>10 DEF R

\* The sum of a delay w of each input and what f says of that input.
DelaySums(ins, w, f, s) == {w[s][i] + f[ins[s][i].id] : i \in DOMAIN ins[s]}

Weights(ins, w) == \A s \in DOMAIN ins : w[s] \in [DOMAIN ins[s] -> Nat]

LEMMA DelaySumsBounds ==
    ASSUME NEW ins, NEW rs, NEW cs, Table(ins, rs, cs), NEW w, Weights(ins, w),
           NEW f \in [SignalIds -> Nat], NEW s \in Range(cs)
    PROVE  /\ Largest(DelaySums(ins, w, f, s)) \in Nat
           /\ Largest(DelaySums(ins, w, f, s)) \in DelaySums(ins, w, f, s) \cup {0}
           /\ \A i \in DOMAIN ins[s] :
                 w[s][i] + f[ins[s][i].id] <= Largest(DelaySums(ins, w, f, s))
<1>1. PICK n : n = Len(ins[s]) OBVIOUS
<1>2. ins[s] \in Seq(Input(SignalIds)) /\ DOMAIN ins = Range(cs) BY DEF Table
<1>3. n \in Nat /\ DOMAIN ins[s] = 1 .. n BY <1>1, <1>2, LenProperties
<1>4. \A i \in 1 .. n : ins[s][i] \in Input(SignalIds) BY <1>1, <1>2, ElementOfSeq
<1>5. \A i \in 1 .. n : w[s][i] \in Nat BY <1>2, <1>3 DEF Weights
<1>6. \A i \in 1 .. n : w[s][i] + f[ins[s][i].id] \in Nat
  <2> TAKE i \in 1 .. n
  <2>1. ins[s][i].id \in SignalIds BY <1>4 DEF Input
  <2>2. f[ins[s][i].id] \in Nat BY <2>1
  <2> QED BY <1>5, <2>2
<1>7. PICK g : g = [i \in 1 .. n |-> w[s][i] + f[ins[s][i].id]] OBVIOUS
<1>8. g \in [1 .. n -> Nat] BY <1>6, <1>7
<1>9. DelaySums(ins, w, f, s) = {g[i] : i \in 1 .. n} BY <1>3, <1>7 DEF DelaySums
<1>10. \A i \in DOMAIN ins[s] : w[s][i] + f[ins[s][i].id] = g[i] BY <1>3, <1>7
<1> QED BY <1>3, <1>8, <1>9, <1>10, LargestBounds

\* The sums along the dependencies exist.
LEMMA DelaySumsExist ==
    ASSUME NEW ins, NEW rs, NEW cs, Table(ins, rs, cs), ReadsEarlier(ins, cs),
           NEW w, Weights(ins, w)
    PROVE  \E f \in [SignalIds -> Nat] :
              \A s \in SignalIds :
                 f[s] = IF s \in DOMAIN ins THEN Largest(DelaySums(ins, w, f, s)) ELSE 0
<1> DEFINE n == Len(cs)
           T == [SignalIds -> Nat]
           base == [s \in SignalIds |-> 0]
           step == [p \in (1 .. n) \X T |->
                       [p[2] EXCEPT ![cs[p[1]]] = Largest(DelaySums(ins, w, p[2], cs[p[1]]))]]
<1>1. /\ n \in Nat /\ \A i \in 1 .. n : cs[i] \in Range(cs) /\ cs[i] \in SignalIds
      /\ DOMAIN ins = Range(cs) /\ \A s \in Range(cs) : \E i \in 1 .. n : cs[i] = s
      /\ \A i, j \in 1 .. n : cs[i] = cs[j] => i = j
    BY LenProperties, RangeIndex, InjectiveIndex DEF Table
<1>2. \A i \in 1 .. n : \A f \in T : Largest(DelaySums(ins, w, f, cs[i])) \in Nat
    BY <1>1, DelaySumsBounds
<1> HIDE DEF n
<1>3. step \in [(1 .. n) \X T -> T] BY <1>2
<1>4. base \in T OBVIOUS
<1> HIDE DEF T
<1>5. PICK run \in [0 .. n -> T] : Follows(run, n, base, step)
  <2> HIDE DEF step, base
  <2> QED BY <1>1, <1>3, <1>4, Recursion
<1>6. run[0] = base BY <1>5 DEF Follows
<1>7. ASSUME NEW i \in 1 .. n
      PROVE  run[i] = [run[i - 1] EXCEPT ![cs[i]] = Largest(DelaySums(ins, w, run[i - 1], cs[i]))]
  <2>1. i - 1 \in 0 .. n BY <1>1
  <2>2. <<i, run[i - 1]>> \in (1 .. n) \X T BY <2>1
  <2>3. run[i] = step[<<i, run[i - 1]>>] BY <1>5 DEF Follows
  <2> QED BY <2>2, <2>3
<1> HIDE DEF step
\* Equal on what s reads, equal sums.
<1>8. ASSUME NEW f, NEW g, NEW s, \A x \in InputIds(ins, s) : f[x] = g[x]
      PROVE  DelaySums(ins, w, f, s) = DelaySums(ins, w, g, s)
  <2>1. \A i \in DOMAIN ins[s] : f[ins[s][i].id] = g[ins[s][i].id] BY <1>8 DEF InputIds
  <2> QED BY <2>1 DEF DelaySums
<1> DEFINE Done(k, f) ==
             /\ \A i \in 1 .. k : f[cs[i]] = Largest(DelaySums(ins, w, f, cs[i]))
             /\ \A s \in SignalIds : (\A i \in 1 .. k : cs[i] # s) => f[s] = 0
           P == {k \in 0 .. n : Done(k, run[k])}
<1>9. 0 \in P BY <1>1, <1>6
<1>10. ASSUME NEW k \in 0 .. n - 1, k \in P PROVE k + 1 \in P
  <2>1. k + 1 \in 1 .. n /\ (k + 1) - 1 = k /\ k \in 0 .. n /\ k + 1 \in 0 .. n BY <1>1
  <2>2. PICK f, g, c : f = run[k] /\ g = run[k + 1] /\ c = cs[k + 1] OBVIOUS
  <2>3. f \in T /\ g \in T /\ c \in SignalIds BY <1>1, <2>1, <2>2
  <2>4. g = [f EXCEPT ![c] = Largest(DelaySums(ins, w, f, c))] BY <1>7, <2>1, <2>2
  <2>5. g[c] = Largest(DelaySums(ins, w, f, c)) /\ \A s \in SignalIds \ {c} : g[s] = f[s]
      BY <2>3, <2>4 DEF T
  <2>6. Done(k, f) BY <1>10, <2>2
  <2>7. \A i \in 1 .. k + 1 : i \in 1 .. n BY <1>1, <2>1
  <2>8. ASSUME NEW i \in 1 .. k + 1 PROVE \A x \in InputIds(ins, cs[i]) : f[x] = g[x]
    <3> TAKE x \in InputIds(ins, cs[i])
    <3>1. x # c
      <4>1. c = cs[k + 1] /\ i <= k + 1 /\ i \in 1 .. n /\ k + 1 \in 1 .. n
          BY <2>1, <2>2, <2>7
      <4>2. x = c => k + 1 < i BY <4>1 DEF ReadsEarlier, n
      <4> QED BY <2>1, <4>1, <4>2
    <3>2. x \in SignalIds
      <4>1. cs[i] \in Range(cs) BY <1>1, <2>7
      <4>2. Range(rs) \subseteq SignalIds /\ Range(cs) \subseteq SignalIds BY RangeIndex DEF Table
      <4> QED BY <4>1, <4>2 DEF Table
    <3> QED BY <2>5, <3>1, <3>2
  <2>9. \A i \in 1 .. k + 1 : DelaySums(ins, w, f, cs[i]) = DelaySums(ins, w, g, cs[i])
      BY <1>8, <2>8
  <2>10. ASSUME NEW i \in 1 .. k + 1 PROVE g[cs[i]] = Largest(DelaySums(ins, w, g, cs[i]))
    <3>1. CASE i = k + 1 BY <2>2, <2>5, <2>9, <3>1
    <3>2. CASE i \in 1 .. k
      <4>1. cs[i] # c /\ cs[i] \in SignalIds
        <5>1. i \in 1 .. n /\ i # k + 1 BY <2>1, <2>7, <3>2
        <5> QED BY <1>1, <2>1, <2>2, <5>1
      <4> QED BY <2>5, <2>6, <2>9, <3>2, <4>1
    <3> QED BY <2>1, <3>1, <3>2
  <2>11. ASSUME NEW s \in SignalIds, \A i \in 1 .. k + 1 : cs[i] # s PROVE g[s] = 0
    <3>1. s # c /\ \A i \in 1 .. k : cs[i] # s BY <2>1, <2>2, <2>11
    <3> QED BY <2>5, <2>6, <3>1
  <2>12. Done(k + 1, g) BY <2>10, <2>11
  <2> QED BY <2>1, <2>2, <2>12
<1> HIDE DEF P
<1>11. n \in P
  <2>1. \A k \in 0 .. n : k \in P BY <1>1, <1>9, <1>10, UpTo
  <2> QED BY <1>1, <2>1
<1>12. PICK f : f = run[n] OBVIOUS
<1>13. Done(n, f) BY <1>11, <1>12 DEF P
<1>14. f \in T BY <1>1, <1>12
<1>15. \A s \in SignalIds :
          f[s] = IF s \in DOMAIN ins THEN Largest(DelaySums(ins, w, f, s)) ELSE 0
    BY <1>1, <1>13
<1> QED BY <1>14, <1>15 DEF T

\* f is what the searches for the delays w compute.
SumsOf(ins, w, f) ==
    \A s \in SignalIds :
        f[s] = IF s \in DOMAIN ins THEN Largest(DelaySums(ins, w, f, s)) ELSE 0

LEMMA DelaySumsUnique ==
    ASSUME NEW ins, NEW rs, NEW cs, Table(ins, rs, cs), ReadsEarlier(ins, cs),
           NEW w, NEW f, NEW g, SumsOf(ins, w, f), SumsOf(ins, w, g)
    PROVE  \A s \in SignalIds : g[s] = f[s]
<1> DEFINE n == Len(cs)
           P == {k \in 0 .. n : \A i \in 1 .. k : g[cs[i]] = f[cs[i]]}
<1>1. /\ n \in Nat /\ \A i \in 1 .. n : cs[i] \in Range(cs) /\ cs[i] \in SignalIds
      /\ DOMAIN ins = Range(cs) /\ \A s \in Range(cs) : \E i \in 1 .. n : cs[i] = s
    BY LenProperties, RangeIndex DEF Table
<1> HIDE DEF n
<1>2. 0 \in P BY <1>1
<1>3. ASSUME NEW k \in 0 .. n - 1, k \in P PROVE k + 1 \in P
  <2>1. k + 1 \in 1 .. n /\ k + 1 \in 0 .. n /\ \A i \in 1 .. k + 1 : i = k + 1 \/ i \in 1 .. k
      BY <1>1
  <2>2. \A x \in InputIds(ins, cs[k + 1]) : g[x] = f[x]
    <3> TAKE x \in InputIds(ins, cs[k + 1])
    <3>1. cs[k + 1] \in Range(cs) BY <1>1, <2>1
    <3>2. CASE x \in Range(cs)
      <4>1. PICK j \in 1 .. n : cs[j] = x BY <1>1, <3>2
      <4>2. j < k + 1 BY <2>1, <4>1 DEF ReadsEarlier, n
      <4>3. j \in 1 .. k BY <1>1, <4>2
      <4> QED BY <1>3, <4>1, <4>3
    <3>3. CASE x \notin Range(cs)
      <4>1. x \in SignalIds
        <5>1. x \in Range(rs) BY <3>1, <3>3 DEF Table
        <5>2. rs \in Seq(SignalIds) BY DEF Table
        <5> QED BY <5>1, <5>2, RangeIndex
      <4> QED BY <1>1, <3>3, <4>1 DEF SumsOf
    <3> QED BY <3>2, <3>3
  <2>3. \A i \in DOMAIN ins[cs[k + 1]] :
           f[ins[cs[k + 1]][i].id] = g[ins[cs[k + 1]][i].id]
      BY <2>2 DEF InputIds
  <2>4. DelaySums(ins, w, f, cs[k + 1]) = DelaySums(ins, w, g, cs[k + 1])
      BY <2>3 DEF DelaySums
  <2>5. cs[k + 1] \in SignalIds /\ cs[k + 1] \in DOMAIN ins BY <1>1, <2>1
  <2>6. g[cs[k + 1]] = f[cs[k + 1]] BY <2>4, <2>5 DEF SumsOf
  <2> QED BY <1>3, <2>1, <2>6
<1>4. \A k \in 0 .. n : k \in P BY <1>1, <1>2, <1>3, UpTo
<1>5. n \in P BY <1>1, <1>4
<1>6. ASSUME NEW s \in SignalIds PROVE g[s] = f[s]
  <2>1. CASE s \in DOMAIN ins BY <1>1, <1>5, <2>1
  <2>2. CASE s \notin DOMAIN ins BY <2>2 DEF SumsOf
  <2> QED BY <2>1, <2>2
<1> QED BY <1>6

\* d[s] bounds what s looks back and ahead, and adds up what its inputs do.
Adds(ins, w, f, s) ==
    /\ f[s] \in Nat
    /\ \A i \in DOMAIN ins[s] :
          w[s][i] + (IF ins[s][i].id \in DOMAIN ins THEN f[ins[s][i].id] ELSE 0) <= f[s]
    /\ f[s] = 0 \/ \E i \in DOMAIN ins[s] :
          f[s] = w[s][i] + (IF ins[s][i].id \in DOMAIN ins THEN f[ins[s][i].id] ELSE 0)

LEMMA DelaySumsAdd ==
    ASSUME NEW ins, NEW rs, NEW cs, Table(ins, rs, cs), ReadsEarlier(ins, cs),
           NEW w, Weights(ins, w), NEW g, SumsOf(ins, w, g)
    PROVE  \A s \in DOMAIN ins : Adds(ins, w, g, s)
<1>1. PICK f \in [SignalIds -> Nat] : SumsOf(ins, w, f)
    BY DelaySumsExist DEF SumsOf
<1>2. \A s \in SignalIds : g[s] = f[s] BY <1>1, DelaySumsUnique
<1>3. DOMAIN ins = Range(cs) /\ Range(cs) \subseteq SignalIds /\ Range(rs) \subseteq SignalIds
    BY RangeIndex DEF Table
<1> SUFFICES ASSUME NEW s \in DOMAIN ins PROVE Adds(ins, w, g, s) OBVIOUS
<1> DEFINE big == Largest(DelaySums(ins, w, f, s))
<1>4. /\ big \in Nat /\ big \in DelaySums(ins, w, f, s) \cup {0}
      /\ \A i \in DOMAIN ins[s] : w[s][i] + f[ins[s][i].id] <= big
    BY <1>3, DelaySumsBounds
<1>5. f[s] = big /\ g[s] = big BY <1>1, <1>2, <1>3 DEF SumsOf
<1>6. ASSUME NEW i \in DOMAIN ins[s]
      PROVE  f[ins[s][i].id] = IF ins[s][i].id \in DOMAIN ins THEN g[ins[s][i].id] ELSE 0
  <2>1. ins[s][i].id \in Range(rs) \cup Range(cs)
    <3>1. ins[s][i].id \in InputIds(ins, s) BY DEF InputIds
    <3> QED BY <1>3, <3>1 DEF Table
  <2>2. ins[s][i].id \in SignalIds BY <1>3, <2>1
  <2> QED BY <1>1, <1>2, <2>2 DEF SumsOf
<1> HIDE DEF big
<1>7. big = 0 \/ \E i \in DOMAIN ins[s] : big = w[s][i] + f[ins[s][i].id]
    BY <1>4 DEF DelaySums
<1> QED BY <1>4, <1>5, <1>6, <1>7 DEF Adds

Backs(ins) == [s \in DOMAIN ins |-> [i \in DOMAIN ins[s] |-> ins[s][i].back]]
Fwds(ins) == [s \in DOMAIN ins |-> [i \in DOMAIN ins[s] |-> ins[s][i].fwd]]

LEMMA InputTypes ==
    ASSUME NEW ins, NEW rs, NEW cs, Table(ins, rs, cs), NEW s \in DOMAIN ins
    PROVE  /\ DOMAIN ins[s] = 1 .. Len(ins[s]) /\ Len(ins[s]) \in Nat
           /\ \A i \in DOMAIN ins[s] :
                 /\ ins[s][i].id \in Range(rs) \cup Range(cs)
                 /\ ins[s][i].back \in Nat /\ ins[s][i].fwd \in Nat
<1>1. ins[s] \in Seq(Input(SignalIds)) /\ s \in Range(cs) BY DEF Table
<1>2. DOMAIN ins[s] = 1 .. Len(ins[s]) /\ Len(ins[s]) \in Nat BY <1>1, LenProperties
<1>3. \A i \in DOMAIN ins[s] : ins[s][i] \in Input(SignalIds) BY <1>1, <1>2, ElementOfSeq
<1>4. \A i \in DOMAIN ins[s] : ins[s][i].id \in Range(rs) \cup Range(cs)
    BY <1>1 DEF Table, InputIds
<1> QED BY <1>2, <1>3, <1>4 DEF Input

LEMMA AbsoluteDelaysAdd ==
    ASSUME NEW ins, NEW rs, NEW cs, Table(ins, rs, cs), ReadsEarlier(ins, cs)
    PROVE  \A s \in DOMAIN ins : /\ Adds(ins, Backs(ins), AbsoluteBack(ins), s)
                                 /\ Adds(ins, Fwds(ins), AbsoluteFwd(ins), s)
<1>1. Weights(ins, Backs(ins)) /\ Weights(ins, Fwds(ins)) BY InputTypes DEF Weights, Backs, Fwds
<1>2. DOMAIN ins = Range(cs) /\ Range(cs) \subseteq SignalIds
    BY RangeIndex DEF Table
<1> DEFINE body(f) == [s \in SignalIds |->
                          IF IsLeaf(ins, s) THEN 0
                          ELSE Largest({ins[s][i].back + f[ins[s][i].id] : i \in DOMAIN ins[s]})]
           back == CHOOSE f : f = body(f)
<1>3. \A f, s : s \in DOMAIN ins =>
          DelaySums(ins, Backs(ins), f, s)
             = {ins[s][i].back + f[ins[s][i].id] : i \in DOMAIN ins[s]}
    BY DEF DelaySums, Backs
<1>4. PICK f \in [SignalIds -> Nat] : SumsOf(ins, Backs(ins), f)
    BY <1>1, DelaySumsExist DEF SumsOf
<1>5. f = body(f) BY <1>3, <1>4 DEF SumsOf, IsLeaf
<1>6. back = body(back) BY <1>5
<1>7. AbsoluteBack(ins) = [s \in DOMAIN ins |-> back[s]] BY DEF AbsoluteBack
<1> HIDE DEF back
<1>8. SumsOf(ins, Backs(ins), back) BY <1>3, <1>6 DEF SumsOf, IsLeaf
<1>9. \A s \in DOMAIN ins : Adds(ins, Backs(ins), back, s) BY <1>1, <1>8, DelaySumsAdd
<1>10. \A s \in DOMAIN ins : Adds(ins, Backs(ins), AbsoluteBack(ins), s) BY <1>7, <1>9 DEF Adds
<1> DEFINE body2(g) == [s \in SignalIds |->
                          IF IsLeaf(ins, s) THEN 0
                          ELSE Largest({ins[s][i].fwd + g[ins[s][i].id] : i \in DOMAIN ins[s]})]
           fwd == CHOOSE g : g = body2(g)
<1>13. \A g, s : s \in DOMAIN ins =>
          DelaySums(ins, Fwds(ins), g, s)
             = {ins[s][i].fwd + g[ins[s][i].id] : i \in DOMAIN ins[s]}
    BY DEF DelaySums, Fwds
<1>14. PICK g \in [SignalIds -> Nat] : SumsOf(ins, Fwds(ins), g)
    BY <1>1, DelaySumsExist DEF SumsOf
<1>15. g = body2(g) BY <1>13, <1>14 DEF SumsOf, IsLeaf
<1>16. fwd = body2(fwd) BY <1>15
<1>17. AbsoluteFwd(ins) = [s \in DOMAIN ins |-> fwd[s]] BY DEF AbsoluteFwd
<1> HIDE DEF fwd
<1>18. SumsOf(ins, Fwds(ins), fwd) BY <1>13, <1>16 DEF SumsOf, IsLeaf
<1>19. \A s \in DOMAIN ins : Adds(ins, Fwds(ins), fwd, s) BY <1>1, <1>18, DelaySumsAdd
<1>20. \A s \in DOMAIN ins : Adds(ins, Fwds(ins), AbsoluteFwd(ins), s)
    BY <1>17, <1>19 DEF Adds
<1> QED BY <1>10, <1>20

\* What the delays d and a ring of M rows must be for the calculations of ins.
DelaysFit(ins, d, M) ==
    /\ DOMAIN d = DOMAIN ins
    /\ \A s \in DOMAIN ins :
          /\ d[s].relBack \in Nat /\ d[s].relFwd \in Nat
          /\ d[s].absBack \in Nat /\ d[s].absFwd \in Nat
          /\ d[s].relBack + d[s].absFwd < M
          /\ \A i \in DOMAIN ins[s] :
                /\ ins[s][i].back <= d[s].relBack
                /\ ins[s][i].back + (IF ins[s][i].id \in DOMAIN ins THEN d[ins[s][i].id].absBack
                                     ELSE 0) <= d[s].absBack
                /\ ins[s][i].fwd + (IF ins[s][i].id \in DOMAIN ins THEN d[ins[s][i].id].absFwd
                                    ELSE 0) <= d[s].absFwd
          /\ d[s].absBack = 0 \/ \E i \in DOMAIN ins[s] :
                d[s].absBack = ins[s][i].back + (IF ins[s][i].id \in DOMAIN ins
                                                 THEN d[ins[s][i].id].absBack ELSE 0)
          /\ d[s].absFwd = 0 \/ \E i \in DOMAIN ins[s] :
                d[s].absFwd = ins[s][i].fwd + (IF ins[s][i].id \in DOMAIN ins
                                               THEN d[ins[s][i].id].absFwd ELSE 0)
    /\ M \in Nat \ {0}

LEMMA DelaysResult ==
    ASSUME NEW ins, NEW rs, NEW cs, Table(ins, rs, cs), ReadsEarlier(ins, cs)
    PROVE  DelaysFit(ins, Delays(ins), Buffering(Delays(ins)))
<1>1. PICK d, M : d = Delays(ins) /\ M = Buffering(Delays(ins)) OBVIOUS
<1>2. DOMAIN d = DOMAIN ins BY <1>1 DEF Delays
<1>3. ASSUME NEW s \in DOMAIN ins
      PROVE  /\ d[s].relBack \in Nat /\ d[s].relFwd \in Nat
             /\ \A i \in DOMAIN ins[s] : ins[s][i].back <= d[s].relBack
  <2>1. PICK n : n = Len(ins[s]) OBVIOUS
  <2>2. /\ n \in Nat /\ DOMAIN ins[s] = 1 .. n
        /\ \A i \in 1 .. n : ins[s][i].back \in Nat /\ ins[s][i].fwd \in Nat
      BY <2>1, InputTypes
  <2>3. PICK f : f = [i \in 1 .. n |-> ins[s][i].back] OBVIOUS
  <2>4. PICK g : g = [i \in 1 .. n |-> ins[s][i].fwd] OBVIOUS
  <2>5. f \in [1 .. n -> Nat] /\ g \in [1 .. n -> Nat] BY <2>2, <2>3, <2>4
  <2>6. {ins[s][i].back : i \in DOMAIN ins[s]} = {f[i] : i \in 1 .. n} BY <2>2, <2>3
  <2>7. {ins[s][i].fwd : i \in DOMAIN ins[s]} = {g[i] : i \in 1 .. n} BY <2>2, <2>4
  <2>8. /\ RelativeBack(ins, s) \in Nat
        /\ \A i \in 1 .. n : f[i] <= RelativeBack(ins, s)
      BY <2>2, <2>5, <2>6, LargestBounds DEF RelativeBack
  <2>9. RelativeFwd(ins, s) \in Nat BY <2>2, <2>5, <2>7, LargestBounds DEF RelativeFwd
  <2>10. d[s].relBack = RelativeBack(ins, s) /\ d[s].relFwd = RelativeFwd(ins, s)
      BY <1>1 DEF Delays
  <2> QED BY <2>2, <2>3, <2>8, <2>9, <2>10
<1>4. \A s \in DOMAIN ins : /\ d[s].absBack = AbsoluteBack(ins)[s]
                            /\ d[s].absFwd = AbsoluteFwd(ins)[s]
    BY <1>1 DEF Delays
<1>5. ASSUME NEW s \in DOMAIN ins
      PROVE  /\ d[s].absBack \in Nat /\ d[s].absFwd \in Nat
             /\ \A i \in DOMAIN ins[s] :
                   /\ ins[s][i].back + (IF ins[s][i].id \in DOMAIN ins
                                        THEN d[ins[s][i].id].absBack ELSE 0) <= d[s].absBack
                   /\ ins[s][i].fwd + (IF ins[s][i].id \in DOMAIN ins
                                       THEN d[ins[s][i].id].absFwd ELSE 0) <= d[s].absFwd
             /\ d[s].absBack = 0 \/ \E i \in DOMAIN ins[s] :
                   d[s].absBack = ins[s][i].back + (IF ins[s][i].id \in DOMAIN ins
                                                    THEN d[ins[s][i].id].absBack ELSE 0)
             /\ d[s].absFwd = 0 \/ \E i \in DOMAIN ins[s] :
                   d[s].absFwd = ins[s][i].fwd + (IF ins[s][i].id \in DOMAIN ins
                                                  THEN d[ins[s][i].id].absFwd ELSE 0)
  <2>1. /\ Adds(ins, Backs(ins), AbsoluteBack(ins), s) /\ Adds(ins, Fwds(ins), AbsoluteFwd(ins), s)
      BY AbsoluteDelaysAdd
  <2>2. \A i \in DOMAIN ins[s] : Backs(ins)[s][i] = ins[s][i].back /\ Fwds(ins)[s][i] = ins[s][i].fwd
      BY DEF Backs, Fwds
  <2> QED BY <1>4, <2>1, <2>2 DEF Adds
<1>6. M \in Nat \ {0} /\ \A s \in DOMAIN ins : d[s].relBack + d[s].absFwd < M
  <2>1. PICK n : n = Len(cs) OBVIOUS
  <2>2. /\ n \in Nat /\ \A i \in 1 .. n : cs[i] \in DOMAIN ins
        /\ \A s \in DOMAIN ins : \E i \in 1 .. n : cs[i] = s
      BY <2>1, LenProperties, RangeIndex DEF Table
  <2>3. \A s \in DOMAIN ins : d[s].relBack + d[s].absFwd \in Nat BY <1>3, <1>5
  <2>4. PICK f : f = [i \in 1 .. n |-> d[cs[i]].relBack + d[cs[i]].absFwd] OBVIOUS
  <2>5. f \in [1 .. n -> Nat] BY <2>2, <2>3, <2>4
  <2>6. {d[s].relBack + d[s].absFwd : s \in DOMAIN d} = {f[i] : i \in 1 .. n}
    <3>1. ASSUME NEW s \in DOMAIN d
          PROVE  d[s].relBack + d[s].absFwd \in {f[i] : i \in 1 .. n}
      <4>1. PICK i \in 1 .. n : cs[i] = s BY <1>2, <2>2
      <4> QED BY <2>4, <4>1
    <3>2. ASSUME NEW i \in 1 .. n
          PROVE  f[i] \in {d[s].relBack + d[s].absFwd : s \in DOMAIN d}
        BY <1>2, <2>2, <2>4
    <3>3. ASSUME NEW x \in {d[s].relBack + d[s].absFwd : s \in DOMAIN d}
          PROVE  x \in {f[i] : i \in 1 .. n}
        BY <3>1
    <3>4. ASSUME NEW x \in {f[i] : i \in 1 .. n}
          PROVE  x \in {d[s].relBack + d[s].absFwd : s \in DOMAIN d}
        BY <3>2
    <3> QED BY <3>3, <3>4
  <2>7. PICK big : big = Largest({f[i] : i \in 1 .. n}) OBVIOUS
  <2>8. big \in Nat /\ \A i \in 1 .. n : f[i] <= big BY <2>2, <2>5, <2>7, LargestBounds
  <2>9. M = big + 1 BY <1>1, <2>6, <2>7 DEF Buffering
  <2>10. ASSUME NEW s \in DOMAIN ins PROVE d[s].relBack + d[s].absFwd < M
    <3>1. PICK i \in 1 .. n : cs[i] = s BY <2>2
    <3>2. d[s].relBack + d[s].absFwd = f[i] BY <2>4, <3>1
    <3> QED BY <2>3, <2>8, <2>9, <3>2
  <2> QED BY <2>8, <2>9, <2>10
<1> QED BY <1>1, <1>2, <1>3, <1>5, <1>6 DEF DelaysFit

-----------------------------------------------------------------------------
(* The inductive invariant.                                                 *)

\* The tables hold the first n signals of the application, each once.
Tables(signals, n, rs, cs, ins) ==
    /\ rs \in Seq(SignalIds) /\ cs \in Seq(SignalIds)
    /\ IsInjective(rs) /\ IsInjective(cs) /\ Range(rs) \cap Range(cs) = {}
    /\ ins \in [Range(cs) -> Seq(Input(SignalIds))]
    /\ \A s \in Range(cs) : \E i \in 1 .. n :
          signals[i].id = s /\ ~ signals[i].raw /\ SameIds(ins[s], signals[i].inputs)
    /\ \A s \in Range(rs) : \E i \in 1 .. n : signals[i].id = s /\ signals[i].raw
    /\ \A i \in 1 .. n : signals[i].id \in Range(rs) \cup Range(cs)

Declared ==
    /\ app \in Apps /\ added \in 0 .. Len(app.signals)
    /\ SmState # "Aborted" => Tables(app.signals, added, raws, calcs, inputs)

\* Once set up, the table is sorted and the delays and the ring fit it.
SetUp ==
    /\ Started => /\ Table(inputs, raws, calcs) /\ ReadsEarlier(inputs, calcs)
                  /\ added = Len(app.signals)
                  /\ DOMAIN delay = Range(calcs) /\ maxBuffering \in Nat \ {0}
                  /\ \A s \in Range(calcs) : delay[s].absBack \in Nat /\ delay[s].absFwd \in Nat
    /\ SmState = "Runable" => DelaysFit(inputs, delay, maxBuffering)

\* What is left of the countdown of a signal that looks back b, at index k.
Left(k, b) == IF k <= 0 THEN b ELSE IF k < b THEN b - k ELSE 0

Counting ==
    /\ SmState = "IndexChanged" => now = 0 /\ runLock = "control"
    /\ Started => /\ now \in Nat
                  /\ index = [s \in Range(calcs) |-> now - delay[s].absFwd]
                  /\ dneCount = [s \in Range(calcs) |-> Left(index[s], delay[s].absBack)]

(* A column of the ring: col holds the last M indices up to latest, a value *)
(* at those from first on.                                                  *)
Cell == Nat \cup {DNE, Junk}
Column(col, latest, first, M) ==
    /\ col \in [0 .. M - 1 -> Cell]
    /\ \A k \in latest - M + 1 .. latest :
          col[k % M] = IF k >= first THEN k ELSE DNE

First(s) == IF s \in Range(calcs) THEN delay[s].absBack ELSE 0
RingOK ==
    Started => /\ results = [s \in Ids |-> results[s]]
               /\ \A s \in Ids : Column(results[s], LatestIndex(s), First(s), maxBuffering)

CalcInv == Declared /\ SetUp /\ Counting /\ RingOK

-----------------------------------------------------------------------------
(* The ring.                                                                *)

\* Indices closer than the size of the ring have slots of their own.
LEMMA SlotsDiffer ==
    ASSUME NEW a \in Int, NEW b \in Int, NEW M \in Nat \ {0}, a < b, b < a + M
    PROVE  a % M # b % M
<1>1. PICK p, q, r, s : p = a \div M /\ q = b \div M /\ r = a % M /\ s = b % M OBVIOUS
<1>2. p \in Int /\ q \in Int /\ r \in Int /\ s \in Int BY <1>1
<1>3. a = M * (a \div M) + (a % M) /\ b = M * (b \div M) + (b % M) OBVIOUS
<1>4. a = M * p + r /\ b = M * q + s BY <1>1, <1>3
<1> SUFFICES ASSUME r = s PROVE FALSE BY <1>1
<1>5. PICK x, y : x = M * p /\ y = M * q OBVIOUS
<1>6. x \in Int /\ y \in Int BY <1>2, <1>5
<1>7. y - x = b - a BY <1>2, <1>4, <1>5, <1>6
<1>8. y - x = M * (q - p) BY <1>2, <1>5
<1>9. CASE q - p <= 0
  <2>1. M * (q - p) <= 0 BY <1>2, <1>9
  <2> QED BY <1>7, <1>8, <2>1
<1>10. CASE q - p >= 1
  <2>1. M * (q - p) >= M BY <1>2, <1>10
  <2> QED BY <1>7, <1>8, <2>1
<1> QED BY <1>2, <1>9, <1>10

\* The index a lap earlier has the same slot.
LEMMA SameSlot ==
    ASSUME NEW a \in Int, NEW M \in Nat \ {0}
    PROVE  (a - M) % M = a % M
<1>1. PICK p, q, r, s : p = a \div M /\ q = (a - M) \div M /\ r = a % M /\ s = (a - M) % M
    OBVIOUS
<1>2. p \in Int /\ q \in Int /\ r \in 0 .. M - 1 /\ s \in 0 .. M - 1 BY <1>1
<1>3. /\ a = M * (a \div M) + (a % M)
      /\ a - M = M * ((a - M) \div M) + ((a - M) % M)
    OBVIOUS
<1>4. a = M * p + r /\ a - M = M * q + s BY <1>1, <1>3
<1>5. PICK x, y, d : x = M * p /\ y = M * q /\ d = (p - q) - 1 OBVIOUS
<1>6. x \in Int /\ y \in Int /\ d \in Int BY <1>2, <1>5
<1>7. (x - y) - M = s - r BY <1>2, <1>4, <1>5, <1>6
<1>8. (x - y) - M = M * d BY <1>2, <1>5
<1>9. d = 0
  <2>1. CASE d >= 1
    <3>1. M * d >= M BY <1>6, <2>1
    <3> QED BY <1>2, <1>6, <1>7, <1>8, <3>1
  <2>2. CASE d <= -1
    <3>1. M * d <= -M BY <1>6, <2>2
    <3> QED BY <1>2, <1>6, <1>7, <1>8, <3>1
  <2> QED BY <1>6, <2>1, <2>2
<1>10. M * d = 0 BY <1>9
<1>11. s = r BY <1>2, <1>6, <1>7, <1>8, <1>10
<1> QED BY <1>1, <1>11

LEMMA ColumnReset ==
    ASSUME NEW M \in Nat \ {0}, NEW latest \in Int, latest < 0, NEW first \in Nat
    PROVE  Column([b \in 0 .. M - 1 |-> DNE], latest, first, M)
<1>1. \A k \in Int : k % M \in 0 .. M - 1 OBVIOUS
<1>2. \A k \in latest - M + 1 .. latest : k \in Int /\ ~ (k >= first) OBVIOUS
<1> QED BY <1>1, <1>2 DEF Column, Cell

LEMMA ColumnRead ==
    ASSUME NEW M \in Nat \ {0}, NEW latest \in Int, NEW first \in Nat, NEW col,
           Column(col, latest, first, M),
           NEW k \in Int, latest - M < k, k <= latest, k >= first
    PROVE  col[k % M] = k
<1>1. k \in latest - M + 1 .. latest OBVIOUS
<1> QED BY <1>1 DEF Column

\* A round that calculates nothing for the signal: the slot it reaches holds
\* what is left of the lap before, which is nothing.  And one that calculates.
LEMMA ColumnKept ==
    ASSUME NEW M \in Nat \ {0}, NEW latest \in Int, NEW first \in Nat, NEW col,
           Column(col, latest - 1, first, M), latest < first
    PROVE  Column(col, latest, first, M)
<1>1. ASSUME NEW k \in latest - M + 1 .. latest PROVE col[k % M] = DNE
  <2>1. CASE k = latest
    <3>1. k - M \in (latest - 1) - M + 1 .. latest - 1 /\ ~ (k - M >= first) BY <2>1
    <3>2. col[(k - M) % M] = DNE BY <3>1 DEF Column
    <3>3. k \in Int OBVIOUS
    <3>4. (k - M) % M = k % M BY ONLY <3>3, SameSlot, M \in Nat \ {0}
    <3> QED BY <3>2, <3>4
  <2>2. CASE k # latest
    <3>1. k \in (latest - 1) - M + 1 .. latest - 1 /\ ~ (k >= first) BY <2>2
    <3> QED BY <3>1 DEF Column
  <2> QED BY <2>1, <2>2
<1>2. \A k \in latest - M + 1 .. latest : ~ (k >= first) OBVIOUS
<1> QED BY <1>1, <1>2 DEF Column

LEMMA ColumnFilled ==
    ASSUME NEW M \in Nat \ {0}, NEW latest \in Nat, NEW first \in Nat, NEW col,
           Column(col, latest - 1, first, M), first <= latest
    PROVE  Column([col EXCEPT ![latest % M] = latest], latest, first, M)
<1>1. PICK filled, b : b = latest % M /\ filled = [col EXCEPT ![b] = latest] OBVIOUS
<1>2. b \in 0 .. M - 1 /\ col \in [0 .. M - 1 -> Cell] BY <1>1 DEF Column
<1>3. filled \in [0 .. M - 1 -> Cell] BY <1>1, <1>2 DEF Cell
<1>4. ASSUME NEW k \in latest - M + 1 .. latest
      PROVE  filled[k % M] = IF k >= first THEN k ELSE DNE
  <2>1. k % M \in 0 .. M - 1 OBVIOUS
  <2>2. CASE k = latest BY <1>1, <1>2, <2>2
  <2>3. CASE k # latest
    <3>1. k \in Int /\ latest \in Int /\ k < latest /\ latest < k + M BY <2>3
    <3>2. k % M # b
      <4>1. k % M # latest % M BY ONLY <3>1, SlotsDiffer, M \in Nat \ {0}
      <4> QED BY <1>1, <4>1
    <3>3. k \in (latest - 1) - M + 1 .. latest - 1 BY <2>3
    <3>4. col[k % M] = IF k >= first THEN k ELSE DNE BY <3>3 DEF Column
    <3> QED BY <1>1, <1>2, <2>1, <3>2, <3>4
  <2> QED BY <2>2, <2>3
<1> QED BY <1>1, <1>3, <1>4 DEF Column

-----------------------------------------------------------------------------
(* One round of calculations.                                               *)

\* The last index of a signal when the first i calculated ones had their turn.
Reached(i, s) ==
    IF s \in Range(raws) THEN now
    ELSE IF \E j \in 1 .. i : calcs[j] = s THEN index[s] ELSE index[s] - 1

RoundCols(i, r) ==
    /\ r \in [Ids -> [0 .. maxBuffering - 1 -> Cell]]
    /\ \A s \in Ids : Column(r[s], Reached(i, s), First(s), maxBuffering)

\* What the invariant says of a set-up calculator.
LEMMA RunableFacts ==
    ASSUME CalcInv, SmState = "Runable"
    PROVE  /\ Table(inputs, raws, calcs) /\ ReadsEarlier(inputs, calcs)
           /\ DelaysFit(inputs, delay, maxBuffering)
           /\ maxBuffering \in Nat \ {0} /\ now \in Nat
           /\ DOMAIN inputs = Range(calcs) /\ DOMAIN delay = Range(calcs)
           /\ Range(raws) \cap Range(calcs) = {} /\ Ids = Range(raws) \cup Range(calcs)
           /\ index = [s \in Range(calcs) |-> now - delay[s].absFwd]
           /\ dneCount = [s \in Range(calcs) |-> Left(index[s], delay[s].absBack)]
           /\ \A s \in Range(calcs) : /\ delay[s].absBack \in Nat /\ delay[s].absFwd \in Nat
                                      /\ index[s] \in Int /\ index[s] = now - delay[s].absFwd
           /\ \A s \in Ids : First(s) \in Nat
           /\ results = [s \in Ids |-> results[s]]
           /\ \A s \in Ids : Column(results[s], LatestIndex(s), First(s), maxBuffering)
<1>1. Started BY DEF Started
<1> QED BY <1>1 DEF CalcInv, SetUp, Counting, RingOK, Table, Ids, First

LEMMA CalcsIndex ==
    ASSUME CalcInv, SmState = "Runable"
    PROVE  /\ Len(calcs) \in Nat
           /\ \A i \in 1 .. Len(calcs) : calcs[i] \in Range(calcs)
           /\ \A s \in Range(calcs) : \E i \in 1 .. Len(calcs) : calcs[i] = s
           /\ \A i, j \in 1 .. Len(calcs) : calcs[i] = calcs[j] => i = j
<1>1. Table(inputs, raws, calcs) BY RunableFacts
<1> QED BY <1>1, LenProperties, RangeIndex, InjectiveIndex DEF Table

\* A signal is calculated from the first index that has all its inputs on.
LEMMA CalculatedFrom ==
    ASSUME CalcInv, SmState = "Runable", NEW s \in Range(calcs)
    PROVE  Calculated(s) <=> index[s] >= delay[s].absBack
<1>1. /\ index[s] \in Int /\ delay[s].absBack \in Nat
      /\ dneCount[s] = Left(index[s], delay[s].absBack)
    BY RunableFacts
<1> QED BY <1>1 DEF Calculated, Left

(* The index k = at - b .. at + f that a signal at index at reads of an input, *)
(* whose own delays add up to at most its own, is in the ring of that input.  *)
LEMMA WithinRing ==
    ASSUME NEW t \in Nat, NEW M \in Nat \ {0}, NEW at \in Int, NEW k \in Int,
           NEW b \in Nat, NEW f \in Nat, NEW rel \in Nat, NEW back \in Nat, NEW fwd \in Nat,
           NEW inBack \in Nat, NEW inFwd \in Nat,
           at = t - fwd, at >= back, rel + fwd < M, b <= rel,
           b + inBack <= back, f + inFwd <= fwd, at - b <= k, k <= at + f
    PROVE  (t - inFwd) - M < k /\ k <= t - inFwd /\ k >= inBack
OBVIOUS

\* Each input of calcs[i] has reached, in the ring, all that calcs[i] reads.
LEMMA ReadsItsIndex ==
    ASSUME CalcInv, SmState = "Runable", NEW i \in 1 .. Len(calcs), NEW r,
           RoundCols(i - 1, r), index[calcs[i]] >= delay[calcs[i]].absBack,
           NEW n \in DOMAIN inputs[calcs[i]],
           NEW o \in -inputs[calcs[i]][n].back .. inputs[calcs[i]][n].fwd
    PROVE  LET k == index[calcs[i]] + o IN r[inputs[calcs[i]][n].id][Slot(k)] = k /\ k >= 0
<1>1. PICK s, in, x, M : s = calcs[i] /\ in = inputs[s][n] /\ x = in.id /\ M = maxBuffering OBVIOUS
<1>2. PICK k : k = index[s] + o OBVIOUS
<1>3. s \in Range(calcs) /\ s \in DOMAIN inputs BY <1>1, CalcsIndex, RunableFacts
<1>4. x \in Ids /\ in.back \in Nat /\ in.fwd \in Nat
    BY <1>1, <1>3, InputTypes, RunableFacts
<1>5. /\ delay[s].relBack \in Nat /\ delay[s].absFwd \in Nat /\ delay[s].absBack \in Nat
      /\ delay[s].relBack + delay[s].absFwd < M /\ M \in Nat \ {0}
      /\ in.back <= delay[s].relBack
      /\ in.back + (IF x \in DOMAIN inputs THEN delay[x].absBack ELSE 0) <= delay[s].absBack
      /\ in.fwd + (IF x \in DOMAIN inputs THEN delay[x].absFwd ELSE 0) <= delay[s].absFwd
    BY <1>1, <1>3, RunableFacts DEF DelaysFit
<1>6. /\ now \in Nat /\ index[s] = now - delay[s].absFwd /\ index[s] \in Int
      /\ DOMAIN inputs = Range(calcs) /\ Range(raws) \cap Range(calcs) = {}
      /\ Ids = Range(raws) \cup Range(calcs)
    BY <1>3, RunableFacts
<1>16. PICK b, f, at, back, fwd, rel : /\ b = in.back /\ f = in.fwd /\ at = index[s]
                                      /\ back = delay[s].absBack /\ fwd = delay[s].absFwd
                                      /\ rel = delay[s].relBack
    OBVIOUS
<1>17. /\ b \in Nat /\ f \in Nat /\ at \in Int /\ back \in Nat /\ fwd \in Nat /\ rel \in Nat
       /\ now \in Nat /\ M \in Nat \ {0} /\ at = now - fwd /\ rel + fwd < M /\ b <= rel
    BY <1>4, <1>5, <1>6, <1>16
<1>18. o \in -b .. f BY <1>1, <1>16
<1>7. k \in Int /\ at - b <= k /\ k <= at + f
  <2>1. k = at + o BY <1>2, <1>16
  <2> QED BY <1>17, <1>18, <2>1
<1>8. at >= back BY <1>1, <1>16
<1>9. PICK latest, first : latest = Reached(i - 1, x) /\ first = First(x) OBVIOUS
<1>10. /\ latest \in Int /\ first \in Nat /\ latest - M < k /\ k <= latest /\ k >= first
  <2>1. CASE x \in Range(raws)
    <3>1. latest = now /\ first = 0 BY <1>6, <1>9, <2>1 DEF Reached, First
    <3>2. x \notin DOMAIN inputs BY <1>6, <2>1
    <3>3. b + 0 <= back /\ f + 0 <= fwd BY <1>4, <1>5, <1>16, <3>2
    <3>4. (now - 0) - M < k /\ k <= now - 0 /\ k >= 0
        BY <1>7, <1>8, <1>17, <3>3, WithinRing
    <3> QED BY <1>17, <3>1, <3>4
  <2>2. CASE x \in Range(calcs)
    <3>1. PICK j \in 1 .. Len(calcs) : calcs[j] = x BY <2>2, CalcsIndex
    <3>2. calcs[j] \in InputIds(inputs, calcs[i]) BY <1>1, <3>1 DEF InputIds
    <3>3. j < i BY <3>1, <3>2, RunableFacts DEF ReadsEarlier
    <3>4. j \in 1 .. i - 1 BY <3>3, CalcsIndex
    <3>5. x \notin Range(raws) BY <1>6, <2>2
    <3>6. latest = index[x] BY <1>9, <3>1, <3>4, <3>5 DEF Reached
    <3>7. first = delay[x].absBack BY <1>9, <2>2 DEF First
    <3>8. /\ index[x] = now - delay[x].absFwd /\ index[x] \in Int
          /\ delay[x].absBack \in Nat /\ delay[x].absFwd \in Nat
        BY <2>2, RunableFacts
    <3>9. PICK back2, fwd2 : back2 = delay[x].absBack /\ fwd2 = delay[x].absFwd OBVIOUS
    <3>10. x \in DOMAIN inputs BY <1>6, <2>2
    <3>11. /\ latest = now - fwd2 /\ first = back2 /\ back2 \in Nat /\ fwd2 \in Nat
           /\ b + back2 <= back /\ f + fwd2 <= fwd
        BY <1>5, <1>16, <3>6, <3>7, <3>8, <3>9, <3>10
    <3>12. (now - fwd2) - M < k /\ k <= now - fwd2 /\ k >= back2
        BY <1>7, <1>8, <1>17, <3>11, WithinRing
    <3> QED BY <1>17, <3>11, <3>12
  <2> QED BY <1>4, <1>6, <2>1, <2>2
<1>11. Column(r[x], latest, first, M) BY <1>1, <1>4, <1>9 DEF RoundCols
<1>12. PICK col : col = r[x] OBVIOUS
<1>13. Column(col, latest, first, M) /\ M \in Nat \ {0} BY <1>5, <1>11, <1>12
<1>14. col[k % M] = k BY ONLY <1>7, <1>10, <1>13, ColumnRead
<1>15. k >= 0 BY <1>7, <1>10
<1> QED BY <1>1, <1>2, <1>12, <1>14, <1>15 DEF Slot

LEMMA RoundStep ==
    ASSUME CalcInv, SmState = "Runable", NEW i \in 1 .. Len(calcs), NEW r,
           RoundCols(i - 1, r)
    PROVE  RoundCols(i, RunSignal(r, calcs[i]))
<1>1. PICK c, M, ran : c = calcs[i] /\ M = maxBuffering /\ ran = RunSignal(r, c) OBVIOUS
<1>2. c \in Range(calcs) /\ c \in Ids /\ c \notin Range(raws)
    BY <1>1, CalcsIndex, RunableFacts
<1>3. /\ M \in Nat \ {0} /\ index[c] \in Int /\ First(c) \in Nat /\ First(c) = delay[c].absBack
      /\ delay[c].absBack \in Nat
    BY <1>1, <1>2, RunableFacts DEF First
<1>4. Reached(i - 1, c) = index[c] - 1 /\ Reached(i, c) = index[c]
  <2>1. \A j \in 1 .. i - 1 : j \in 1 .. Len(calcs) /\ j # i BY CalcsIndex
  <2>2. \A j \in 1 .. i - 1 : calcs[j] # c BY <1>1, <2>1, CalcsIndex
  <2>3. i \in 1 .. i BY CalcsIndex
  <2> QED BY <1>1, <1>2, <2>2, <2>3 DEF Reached
<1>5. \A s \in Ids \ {c} : Reached(i, s) = Reached(i - 1, s)
  <2> TAKE s \in Ids \ {c}
  <2>1. \A j \in 1 .. i : j \in 1 .. i - 1 \/ j = i BY CalcsIndex
  <2>2. \A j \in 1 .. i - 1 : j \in 1 .. i BY CalcsIndex
  <2>3. (\E j \in 1 .. i : calcs[j] = s) <=> (\E j \in 1 .. i - 1 : calcs[j] = s)
      BY <1>1, <2>1, <2>2
  <2> QED BY <2>3 DEF Reached
<1>6. /\ r \in [Ids -> [0 .. M - 1 -> Cell]]
      /\ \A s \in Ids : Column(r[s], Reached(i - 1, s), First(s), M)
    BY <1>1 DEF RoundCols
<1>7. CASE ~ Calculated(c)
  <2>1. ran = r BY <1>1, <1>7 DEF RunSignal
  <2>2. index[c] < delay[c].absBack BY <1>2, <1>3, <1>7, CalculatedFrom
  <2>3. Column(r[c], index[c] - 1, First(c), M) BY <1>2, <1>4, <1>6
  <2>4. Column(r[c], index[c], First(c), M)
    <3>1. PICK col, latest, first : col = r[c] /\ latest = index[c] /\ first = First(c) OBVIOUS
    <3>2. latest \in Int /\ first \in Nat /\ latest < first /\ Column(col, latest - 1, first, M)
        BY <1>3, <2>2, <2>3, <3>1
    <3>3. Column(col, latest, first, M) BY ONLY <1>3, <3>2, ColumnKept
    <3> QED BY <3>1, <3>3
  <2>5. \A s \in Ids : Column(r[s], Reached(i, s), First(s), M) BY <1>4, <1>5, <1>6, <2>4
  <2> QED BY <1>1, <1>6, <2>1, <2>5 DEF RoundCols
<1>8. CASE Calculated(c)
  <2>1. index[c] >= delay[c].absBack BY <1>2, <1>8, CalculatedFrom
  <2>2. CalcSignalFunction(r, c, index[c]) = index[c]
    <3>1. ASSUME NEW n \in DOMAIN inputs[c], NEW o \in -inputs[c][n].back .. inputs[c][n].fwd
          PROVE  /\ r[inputs[c][n].id][Slot(index[c] + o)] = index[c] + o
                 /\ index[c] + o >= 0
        BY <1>1, <2>1, ReadsItsIndex
    <3> QED BY <3>1 DEF CalcSignalFunction
  <2>3. ran = [r EXCEPT ![c][index[c] % M] = index[c]]
      BY <1>1, <1>8, <2>2 DEF RunSignal, Slot
  <2>4. PICK col, latest, first : col = r[c] /\ latest = index[c] /\ first = First(c) OBVIOUS
  <2>5. PICK filled : filled = [col EXCEPT ![latest % M] = latest] OBVIOUS
  <2>6. latest \in Nat /\ first \in Nat /\ first <= latest /\ Column(col, latest - 1, first, M)
      BY <1>2, <1>3, <1>4, <1>6, <2>1, <2>4
  <2>7. Column(filled, latest, first, M) BY ONLY <1>3, <2>5, <2>6, ColumnFilled
  <2>8. ran[c] = filled /\ \A s \in Ids \ {c} : ran[s] = r[s]
      BY <1>2, <1>6, <2>3, <2>4, <2>5
  <2>9. filled \in [0 .. M - 1 -> Cell] BY <2>7 DEF Column
  <2>10. ran \in [Ids -> [0 .. M - 1 -> Cell]]
    <3>1. ran = [s \in Ids |-> ran[s]] BY <1>2, <1>6, <2>3
    <3>2. \A s \in Ids : ran[s] \in [0 .. M - 1 -> Cell] BY <1>6, <2>8, <2>9
    <3> QED BY <3>1, <3>2
  <2>11. ASSUME NEW s \in Ids PROVE Column(ran[s], Reached(i, s), First(s), M)
    <3>1. CASE s = c BY <1>4, <2>4, <2>7, <2>8, <3>1
    <3>2. CASE s # c BY <1>5, <1>6, <2>8, <3>2
    <3> QED BY <3>1, <3>2
  <2> QED BY <1>1, <2>10, <2>11 DEF RoundCols
<1> QED BY <1>7, <1>8

LEMMA RawRound ==
    ASSUME CalcInv, SmState = "Runable"
    PROVE  RoundCols(0, RawResults)
<1>1. PICK M, raw : M = maxBuffering /\ raw = RawResults OBVIOUS
<1>2. M \in Nat \ {0} /\ now \in Nat BY <1>1, RunableFacts
<1>3. \A s \in Ids : raw[s] = IF s \in Range(raws) THEN [results[s] EXCEPT ![now % M] = now]
                              ELSE results[s]
    BY <1>1 DEF RawResults, Slot
<1>4. ASSUME NEW s \in Ids PROVE Column(raw[s], Reached(0, s), First(s), M)
  <2>1. Column(results[s], LatestIndex(s), First(s), M) BY <1>1, RunableFacts
  <2>2. CASE s \in Range(raws)
    <3>1. s \notin Range(calcs) BY <2>2, RunableFacts
    <3>2. LatestIndex(s) = now - 1 /\ First(s) = 0 /\ Reached(0, s) = now
        BY <2>2, <3>1 DEF LatestIndex, First, Reached
    <3>3. PICK col : col = results[s] OBVIOUS
    <3>4. Column(col, now - 1, 0, M) BY <2>1, <3>2, <3>3
    <3>5. Column([col EXCEPT ![now % M] = now], now, 0, M) BY <1>2, <3>4, ColumnFilled
    <3> QED BY <1>3, <2>2, <3>2, <3>3, <3>5
  <2>3. CASE s \notin Range(raws)
    <3>1. LatestIndex(s) = Reached(0, s) BY <2>3 DEF LatestIndex, Reached
    <3> QED BY <1>3, <2>1, <2>3, <3>1
  <2> QED BY <2>2, <2>3
<1>5. \A s \in Ids : raw[s] \in [0 .. M - 1 -> Cell] BY <1>4 DEF Column
<1>6. raw = [s \in Ids |-> raw[s]] BY <1>1 DEF RawResults
<1>7. raw \in [Ids -> [0 .. M - 1 -> Cell]] BY <1>5, <1>6
<1> QED BY <1>1, <1>4, <1>7 DEF RoundCols

LEMMA RunSignalTypes ==
    ASSUME CalcInv, SmState = "Runable", NEW c \in Range(calcs),
           NEW r \in [Ids -> [0 .. maxBuffering - 1 -> Cell]]
    PROVE  RunSignal(r, c) \in [Ids -> [0 .. maxBuffering - 1 -> Cell]]
<1>1. CASE ~ Calculated(c) BY <1>1 DEF RunSignal
<1>2. CASE Calculated(c)
  <2>1. index[c] \in Nat BY <1>2, RunableFacts DEF Calculated
  <2>2. PICK v, b : v = CalcSignalFunction(r, c, index[c]) /\ b = Slot(index[c]) OBVIOUS
  <2>3. v \in Cell BY <2>1, <2>2 DEF CalcSignalFunction, Cell
  <2>4. RunSignal(r, c) = [r EXCEPT ![c][b] = v] BY <1>2, <2>2 DEF RunSignal
  <2>5. PICK col : col = [r[c] EXCEPT ![b] = v] OBVIOUS
  <2>6. c \in Ids BY RunableFacts
  <2>7. r[c] \in [0 .. maxBuffering - 1 -> Cell] BY <2>6
  <2>8. col \in [0 .. maxBuffering - 1 -> Cell] BY <2>3, <2>5, <2>7
  <2>9. RunSignal(r, c) = [r EXCEPT ![c] = col] BY <2>4, <2>5
  <2> QED BY <2>8, <2>9
<1> QED BY <1>1, <1>2

LEMMA RoundResult ==
    ASSUME CalcInv, SmState = "Runable"
    PROVE  RoundCols(Len(calcs), RoundResults)
<1> DEFINE n == Len(calcs)
           T == [Ids -> [0 .. maxBuffering - 1 -> Cell]]
           step == [p \in (1 .. n) \X T |-> RunSignal(p[2], calcs[p[1]])]
           body(f) == [i \in 0 .. n |-> IF i = 0 THEN RawResults
                                        ELSE RunSignal(f[i - 1], calcs[i])]
<1>1. n \in Nat /\ \A i \in 1 .. n : calcs[i] \in Range(calcs) BY CalcsIndex
<1>2. RawResults \in T BY RawRound DEF RoundCols
<1>3. \A i \in 1 .. n : \A r \in T : RunSignal(r, calcs[i]) \in T BY <1>1, RunSignalTypes
<1>4. RoundResults = (CHOOSE f : f = body(f))[n] BY DEF RoundResults
<1> HIDE DEF T, n
<1>5. step \in [(1 .. n) \X T -> T] BY <1>3
<1>6. PICK run \in [0 .. n -> T] : Follows(run, n, RawResults, step)
  <2> HIDE DEF step
  <2> QED BY <1>1, <1>2, <1>5, Recursion
<1>7. run = body(run)
  <2>1. ASSUME NEW i \in 0 .. n
        PROVE  run[i] = IF i = 0 THEN RawResults ELSE RunSignal(run[i - 1], calcs[i])
    <3>1. CASE i = 0 BY <1>6, <3>1 DEF Follows
    <3>2. CASE i # 0
      <4>1. i \in 1 .. n /\ i - 1 \in 0 .. n BY <1>1, <3>2
      <4>2. <<i, run[i - 1]>> \in (1 .. n) \X T BY <4>1
      <4>3. run[i] = step[<<i, run[i - 1]>>] BY <1>6, <4>1 DEF Follows
      <4> QED BY <3>2, <4>2, <4>3
    <3> QED BY <3>1, <3>2
  <2> QED BY <2>1
<1> DEFINE turn == CHOOSE f : f = body(f)
<1>8. turn = body(turn) BY <1>7
<1> HIDE DEF turn
<1> DEFINE P == {i \in 0 .. n : RoundCols(i, turn[i])}
<1>9. 0 \in P
  <2>1. turn[0] = RawResults BY <1>1, <1>8
  <2> QED BY <1>1, <2>1, RawRound
<1>10. ASSUME NEW i \in 0 .. n - 1, i \in P PROVE i + 1 \in P
  <2>1. i + 1 \in 0 .. n /\ i + 1 # 0 /\ (i + 1) - 1 = i /\ i + 1 \in 1 .. n BY <1>1
  <2>2. turn[i + 1] = RunSignal(turn[i], calcs[i + 1]) BY <1>8, <2>1
  <2>3. PICK j, r : j = i + 1 /\ r = turn[i] OBVIOUS
  <2>4. j \in 1 .. Len(calcs) /\ j - 1 = i BY <2>1, <2>3 DEF n
  <2>5. RoundCols(j - 1, r) BY <1>10, <2>3, <2>4
  <2>6. RoundCols(j, RunSignal(r, calcs[j])) BY <2>4, <2>5, RoundStep
  <2> QED BY <2>1, <2>2, <2>3, <2>6
<1> HIDE DEF P
<1>11. \A i \in 0 .. n : i \in P BY <1>1, <1>9, <1>10, UpTo
<1>12. n \in P BY <1>1, <1>11
<1>13. RoundCols(n, turn[n]) BY <1>12 DEF P
<1> QED BY <1>4, <1>13 DEF n, turn

\* No step but the set-up's and a change of delays touches the tables.
LEMMA DeclaredKept ==
    ASSUME Declared, UNCHANGED <<app, added, raws, calcs, inputs>>,
           SmState' = "Aborted" \/ SmState # "Aborted"
    PROVE  Declared'
BY DEF Declared

LEMMA RunableRound ==
    ASSUME CalcInv, RunCalculations PROVE CalcInv'
<1>1. CASE SmState # "Runable"
  <2>1. /\ SmState' = "Aborted"
        /\ UNCHANGED <<app, added, raws, calcs, inputs>>
      BY <1>1 DEF RunCalculations, tableVars
  <2>2. ~ Started' /\ SmState' # "Runable" /\ SmState' # "IndexChanged" BY <2>1 DEF Started
  <2> QED BY <2>1, <2>2 DEF CalcInv, Declared, SetUp, Counting, RingOK
<1>2. CASE SmState = "Runable"
  <2>1. /\ results' = RoundResults
        /\ dneCount' = [s \in DOMAIN dneCount |-> CountDown(s)]
        /\ index' = [s \in DOMAIN index |-> index[s] + 1]
        /\ now' = now + 1
        /\ UNCHANGED <<SmState, app, added, raws, calcs, inputs, delay, maxBuffering, runLock>>
      BY <1>2 DEF RunCalculations, tableVars, sizeVars
  <2>2. Started /\ Started' BY <1>2, <2>1 DEF Started
  <2>3. Declared'
    <3>1. Declared BY DEF CalcInv
    <3>2. SmState # "Aborted" BY <1>2
    <3> QED BY <2>1, <3>1, <3>2, DeclaredKept
  <2>4. SetUp' BY <2>1, <2>2 DEF CalcInv, SetUp
  <2>5. ASSUME NEW s \in Range(calcs)
        PROVE  /\ index'[s] = index[s] + 1 /\ index'[s] = now' - delay'[s].absFwd
               /\ dneCount'[s] = Left(index'[s], delay'[s].absBack)
    <3>1. /\ index[s] \in Int /\ index[s] = now - delay[s].absFwd /\ now \in Nat
          /\ delay[s].absBack \in Nat /\ delay[s].absFwd \in Nat
          /\ dneCount[s] = Left(index[s], delay[s].absBack)
          /\ s \in DOMAIN index /\ s \in DOMAIN dneCount
        BY <1>2, RunableFacts
    <3>2. index'[s] = index[s] + 1 BY <2>1, <3>1
    <3>3. dneCount'[s] = CountDown(s) BY <2>1, <3>1
    <3> QED BY <2>1, <3>1, <3>2, <3>3 DEF CountDown, Left
  <2>6. /\ index' = [s \in Range(calcs) |-> index'[s]]
        /\ dneCount' = [s \in Range(calcs) |-> dneCount'[s]]
    <3>1. DOMAIN index = Range(calcs) /\ DOMAIN dneCount = Range(calcs) BY <1>2, RunableFacts
    <3> QED BY <2>1, <3>1
  <2>7. Counting'
    <3>1. now' \in Nat BY <1>2, <2>1, RunableFacts
    <3> QED BY <1>2, <2>1, <2>5, <2>6, <3>1 DEF Counting
  <2>8. RoundCols(Len(calcs), results') BY <1>2, <2>1, RoundResult
  <2>9. Ids' = Ids BY <2>1 DEF Ids
  <2>10. ASSUME NEW s \in Ids
         PROVE  Column(results'[s], LatestIndex(s)', First(s)', maxBuffering')
    <3>1. First(s)' = First(s) BY <2>1 DEF First
    <3>2. LatestIndex(s)' = Reached(Len(calcs), s)
      <4>1. CASE s \in Range(raws)
        <5>1. LatestIndex(s)' = now' - 1 BY <2>1, <4>1 DEF LatestIndex
        <5>2. now \in Nat BY <1>2, RunableFacts
        <5> QED BY <2>1, <4>1, <5>1, <5>2 DEF Reached
      <4>2. CASE s \notin Range(raws)
        <5>1. s \in Range(calcs) BY <1>2, <4>2, RunableFacts
        <5>2. LatestIndex(s)' = index'[s] - 1 BY <2>1, <4>2 DEF LatestIndex
        <5>3. \E j \in 1 .. Len(calcs) : calcs[j] = s BY <1>2, <5>1, CalcsIndex
        <5>4. index[s] \in Int BY <1>2, <5>1, RunableFacts
        <5> QED BY <2>5, <4>2, <5>1, <5>2, <5>3, <5>4 DEF Reached
      <4> QED BY <4>1, <4>2
    <3>3. Column(results'[s], Reached(Len(calcs), s), First(s), maxBuffering)
        BY <2>8 DEF RoundCols
    <3> QED BY <2>1, <3>1, <3>2, <3>3
  <2>11. RingOK'
    <3>1. results' = [s \in Ids |-> results'[s]] BY <2>8 DEF RoundCols
    <3> QED BY <2>9, <2>10, <3>1 DEF RingOK
  <2> QED BY <2>3, <2>4, <2>7, <2>11 DEF CalcInv
<1> QED BY <1>1, <1>2

-----------------------------------------------------------------------------
(* The other steps.                                                         *)

\* A reset, with the delays and the ring the calculator has after it.
LEMMA ResetStep ==
    ASSUME NEW d, NEW M, PrivateResetCalculator(d, M), delay' = d, maxBuffering' = M,
           raws' = raws, Range(calcs') = Range(calcs), Range(raws) \cap Range(calcs) = {},
           DOMAIN d = Range(calcs), M \in Nat \ {0},
           \A s \in Range(calcs) : d[s].absBack \in Nat /\ d[s].absFwd \in Nat,
           SmState' = "IndexChanged" => runLock' = "control"
    PROVE  Counting' /\ RingOK'
<1>1. /\ results' = [s \in Ids |-> [b \in 0 .. M - 1 |-> DNE]] /\ now' = 0
      /\ dneCount' = [s \in Range(calcs) |-> d[s].absBack]
      /\ index' = [s \in Range(calcs) |-> 0 - d[s].absFwd]
    BY DEF PrivateResetCalculator
<1>2. Ids' = Ids BY DEF Ids
<1>3. \A s \in Range(calcs) : index'[s] = 0 - d[s].absFwd /\ dneCount'[s] = Left(index'[s], d[s].absBack)
    BY <1>1 DEF Left
<1>4. Counting'
  <2>1. index' = [s \in Range(calcs) |-> now' - d[s].absFwd] BY <1>1
  <2>2. dneCount' = [s \in Range(calcs) |-> Left(index'[s], d[s].absBack)] BY <1>1, <1>3
  <2>3. /\ index' = [s \in Range(calcs') |-> now' - delay'[s].absFwd]
        /\ dneCount' = [s \in Range(calcs') |-> Left(index'[s], delay'[s].absBack)]
      BY <2>1, <2>2
  <2> QED BY <1>1, <2>3 DEF Counting
<1>5. ASSUME NEW s \in Ids PROVE Column(results'[s], LatestIndex(s)', First(s)', M)
  <2>1. results'[s] = [b \in 0 .. M - 1 |-> DNE] BY <1>1
  <2>2. PICK latest, first : latest = LatestIndex(s)' /\ first = First(s)' OBVIOUS
  <2>3. first \in Nat BY <2>2 DEF First
  <2>4. latest \in Int /\ latest < 0
    <3>1. CASE s \in Range(raws) BY <1>1, <2>2, <3>1 DEF LatestIndex
    <3>2. CASE s \notin Range(raws)
      <4>1. latest = index'[s] - 1 BY <2>2, <3>2 DEF LatestIndex
      <4>2. s \in Range(calcs) BY <3>2 DEF Ids
      <4> QED BY <1>3, <4>1, <4>2
    <3> QED BY <3>1, <3>2
  <2> QED BY <2>1, <2>2, <2>3, <2>4, ColumnReset
<1>6. RingOK'
  <2>1. results' = [s \in Ids |-> results'[s]] BY <1>1
  <2> QED BY <1>2, <1>5, <2>1 DEF RingOK
<1> QED BY <1>4, <1>6

LEMMA Resets ==
    ASSUME CalcInv, SmResetCalculator PROVE CalcInv'
<1>1. /\ SmState = "Runable" /\ PrivateResetCalculator(delay, maxBuffering)
      /\ UNCHANGED <<app, added, SmState, raws, calcs, inputs, delay, maxBuffering, runLock>>
    BY DEF SmResetCalculator, tableVars, sizeVars
<1>2. Started /\ Started' BY <1>1 DEF Started
<1>3. Declared' BY <1>1, DeclaredKept DEF CalcInv
<1>4. SetUp' BY <1>1, <1>2 DEF CalcInv, SetUp
<1>5. Counting' /\ RingOK' BY <1>1, ResetStep, RunableFacts
<1> QED BY <1>3, <1>4, <1>5 DEF CalcInv

LEMMA Recalculates ==
    ASSUME CalcInv, SmCalculateDelaysAndBufferingWithReset PROVE CalcInv'
<1>1. /\ SmState = "IndexChanged" /\ SmState' = "Runable"
      /\ delay' = Delays(inputs) /\ maxBuffering' = Buffering(delay')
      /\ PrivateResetCalculator(delay', maxBuffering')
      /\ UNCHANGED <<app, added, raws, calcs, inputs, runLock>>
    BY DEF SmCalculateDelaysAndBufferingWithReset, tableVars
<1>2. Started /\ Started' BY <1>1 DEF Started
<1>3. Declared' BY <1>1, DeclaredKept DEF CalcInv
<1>4. Table(inputs, raws, calcs) /\ ReadsEarlier(inputs, calcs) /\ added = Len(app.signals)
    BY <1>2 DEF CalcInv, SetUp
<1>5. PICK d, M : d = delay' /\ M = maxBuffering' OBVIOUS
<1>6. DelaysFit(inputs, d, M) BY <1>1, <1>4, <1>5, DelaysResult
<1>7. DOMAIN inputs = Range(calcs) /\ Range(raws) \cap Range(calcs) = {} BY <1>4 DEF Table
<1>8. /\ DOMAIN d = Range(calcs) /\ M \in Nat \ {0}
      /\ \A s \in Range(calcs) : d[s].absBack \in Nat /\ d[s].absFwd \in Nat
    BY <1>6, <1>7 DEF DelaysFit
<1>9. SetUp' BY <1>1, <1>2, <1>4, <1>5, <1>6, <1>8 DEF SetUp
<1>10. Counting' /\ RingOK' BY <1>1, <1>5, <1>7, <1>8, ResetStep
<1> QED BY <1>3, <1>9, <1>10 DEF CalcInv

\* Steps of the callers, the callbacks and the locks.
LEMMA Elsewhere ==
    ASSUME CalcInv, UNCHANGED <<app, added, SmState, tableVars, sizeVars, runVars>>,
           SmState = "IndexChanged" => runLock' = runLock
    PROVE  CalcInv'
<1>1. UNCHANGED <<app, added, SmState, raws, calcs, inputs, delay, maxBuffering,
                  now, index, dneCount, results>>
    BY DEF tableVars, sizeVars, runVars
<1>2. Started' = Started /\ Ids' = Ids BY <1>1 DEF Started, Ids
<1>3. Declared' BY <1>1, DeclaredKept DEF CalcInv
<1>4. SetUp' BY <1>1, <1>2 DEF CalcInv, SetUp
<1>5. Counting' BY <1>1, <1>2 DEF CalcInv, Counting
<1>6. RingOK'
  <2>1. \A s : LatestIndex(s)' = LatestIndex(s) /\ First(s)' = First(s)
      BY <1>1 DEF LatestIndex, First
  <2> QED BY <1>1, <1>2, <2>1 DEF CalcInv, RingOK
<1> QED BY <1>3, <1>4, <1>5, <1>6 DEF CalcInv

\* What an application declares, from the assumption on Apps.
LEMMA AppFacts ==
    ASSUME app \in Apps
    PROVE  /\ app.signals \in Seq(Signal) /\ Len(app.signals) \in Nat
           /\ DOMAIN app.signals = 1 .. Len(app.signals)
           /\ \A i \in 1 .. Len(app.signals) :
                 app.signals[i].id \in SignalIds /\ app.signals[i].raw \in BOOLEAN
                 /\ app.signals[i].inputs \in Seq(Input(SignalIds))
           /\ \A e \in app.edits :
                 /\ e.inputs \in Seq(Input(SignalIds))
                 /\ \E i \in 1 .. Len(app.signals) : app.signals[i].id = e.id
                 /\ \A i \in 1 .. Len(app.signals) :
                       app.signals[i].id = e.id =>
                           ~ app.signals[i].raw /\ SameIds(e.inputs, app.signals[i].inputs)
<1>1. app.signals \in Seq(Signal) BY AppsAssumption
<1>2. Len(app.signals) \in Nat /\ DOMAIN app.signals = 1 .. Len(app.signals)
    BY <1>1, LenProperties
<1>3. \A i \in 1 .. Len(app.signals) : app.signals[i] \in Signal BY <1>1, ElementOfSeq
<1>4. \A i \in 1 .. Len(app.signals) :
         app.signals[i].id \in SignalIds /\ app.signals[i].raw \in BOOLEAN
         /\ app.signals[i].inputs \in Seq(Input(SignalIds))
    BY <1>3 DEF Signal
<1> QED BY <1>1, <1>2, <1>4, AppsAssumption

LEMMA TablesRaw ==
    ASSUME NEW signals, NEW n \in Nat, NEW rs, NEW cs, NEW ins, Tables(signals, n, rs, cs, ins),
           NEW x \in SignalIds, x \notin Range(rs) \cup Range(cs),
           signals[n + 1].id = x, signals[n + 1].raw
    PROVE  Tables(signals, n + 1, Append(rs, x), cs, ins)
<1>1. PICK r : r = Append(rs, x) OBVIOUS
<1>2. rs \in Seq(SignalIds) BY DEF Tables
<1>3. r \in Seq(SignalIds) BY <1>1, <1>2, AppendProperties
<1>4. Range(r) = Range(rs) \cup {x} /\ IsInjective(r)
    BY <1>1, <1>2, InjectiveAppend DEF Tables
<1>5. Range(r) \cap Range(cs) = {} BY <1>4 DEF Tables
<1>6. (1 .. n + 1) = (1 .. n) \cup {n + 1} OBVIOUS
<1>7. ASSUME NEW s \in Range(cs)
      PROVE  \E i \in 1 .. n + 1 :
                signals[i].id = s /\ ~ signals[i].raw /\ SameIds(ins[s], signals[i].inputs)
  <2>1. PICK i \in 1 .. n :
            signals[i].id = s /\ ~ signals[i].raw /\ SameIds(ins[s], signals[i].inputs)
      BY DEF Tables
  <2> QED BY <1>6, <2>1
<1>8. \A s \in Range(r) : \E i \in 1 .. n + 1 : signals[i].id = s /\ signals[i].raw
    BY <1>4, <1>6 DEF Tables
<1>9. \A i \in 1 .. n + 1 : signals[i].id \in Range(r) \cup Range(cs)
    BY <1>4, <1>6 DEF Tables
<1>10. Tables(signals, n + 1, r, cs, ins) BY <1>3, <1>4, <1>5, <1>7, <1>8, <1>9 DEF Tables
<1> QED BY <1>1, <1>10

LEMMA TablesCalc ==
    ASSUME NEW signals, NEW n \in Nat, NEW rs, NEW cs, NEW ins, Tables(signals, n, rs, cs, ins),
           NEW x \in SignalIds, x \notin Range(rs) \cup Range(cs),
           signals[n + 1].id = x, ~ signals[n + 1].raw,
           signals[n + 1].inputs \in Seq(Input(SignalIds)), NEW more,
           more = [s \in DOMAIN ins \cup {x} |->
                      IF s = x THEN signals[n + 1].inputs ELSE ins[s]]
    PROVE  Tables(signals, n + 1, rs, Append(cs, x), more)
<1>1. PICK c : c = Append(cs, x) OBVIOUS
<1>2. cs \in Seq(SignalIds) /\ DOMAIN ins = Range(cs) BY DEF Tables
<1>3. c \in Seq(SignalIds) BY <1>1, <1>2, AppendProperties
<1>4. Range(c) = Range(cs) \cup {x} /\ IsInjective(c)
    BY <1>1, <1>2, InjectiveAppend DEF Tables
<1>5. Range(rs) \cap Range(c) = {} BY <1>4 DEF Tables
<1>6. (1 .. n + 1) = (1 .. n) \cup {n + 1} OBVIOUS
<1>11. more \in [Range(c) -> Seq(Input(SignalIds))] BY <1>2, <1>4 DEF Tables
<1>7. ASSUME NEW s \in Range(c)
      PROVE  \E i \in 1 .. n + 1 :
                signals[i].id = s /\ ~ signals[i].raw /\ SameIds(more[s], signals[i].inputs)
  <2>1. CASE s = x
    <3>1. more[s] = signals[n + 1].inputs BY <2>1
    <3> QED BY <1>6, <2>1, <3>1 DEF SameIds
  <2>2. CASE s # x
    <3>1. s \in Range(cs) /\ more[s] = ins[s] BY <1>2, <1>4, <2>2
    <3>2. PICK i \in 1 .. n :
              signals[i].id = s /\ ~ signals[i].raw /\ SameIds(ins[s], signals[i].inputs)
        BY <3>1 DEF Tables
    <3> QED BY <1>6, <3>1, <3>2
  <2> QED BY <2>1, <2>2
<1>8. \A s \in Range(rs) : \E i \in 1 .. n + 1 : signals[i].id = s /\ signals[i].raw
    BY <1>6 DEF Tables
<1>9. \A i \in 1 .. n + 1 : signals[i].id \in Range(rs) \cup Range(c)
    BY <1>4, <1>6 DEF Tables
<1>12. rs \in Seq(SignalIds) /\ IsInjective(rs) BY DEF Tables
<1>10. Tables(signals, n + 1, rs, c, more)
    BY <1>3, <1>4, <1>5, <1>7, <1>8, <1>9, <1>11, <1>12 DEF Tables
<1> QED BY <1>1, <1>10

LEMMA Declarations ==
    ASSUME CalcInv, SmAddRawSignal \/ SmAddCalcSignal PROVE CalcInv'
<1>1. /\ SmState = "Init" /\ added < Len(app.signals)
      /\ added' = added + 1 /\ app' = app
    BY DEF SmAddRawSignal, SmAddCalcSignal, Adding
<1>2. app \in Apps /\ added \in Nat /\ added' \in 0 .. Len(app'.signals)
    <2>1. app \in Apps /\ added \in 0 .. Len(app.signals) BY DEF CalcInv, Declared
    <2> QED BY <1>1, <2>1, AppFacts
<1>3. added + 1 \in 1 .. Len(app.signals) BY <1>1, <1>2, AppFacts
<1>4. PICK next : next = app.signals[added + 1] OBVIOUS
<1>5. /\ next = NextSignal /\ next.id \in SignalIds /\ next.inputs \in Seq(Input(SignalIds))
    BY <1>2, <1>3, <1>4, AppFacts DEF NextSignal
<1>6. Tables(app.signals, added, raws, calcs, inputs) BY <1>1 DEF CalcInv, Declared
<1>7. CASE next.id \in Ids
  <2>1. SmState' = "Aborted" BY <1>5, <1>7 DEF SmAddRawSignal, SmAddCalcSignal
  <2> QED BY <1>1, <1>2, <2>1 DEF CalcInv, Declared, SetUp, Counting, RingOK, Started
<1>8. CASE next.id \notin Ids
  <2>1. next.id \notin Range(raws) \cup Range(calcs) BY <1>8 DEF Ids
  <2>2. SmState' = "Init" BY <1>1, <1>5, <1>8 DEF SmAddRawSignal, SmAddCalcSignal
  <2>3. Tables(app.signals, added + 1, raws', calcs', inputs')
    <3>1. CASE SmAddRawSignal
      <4>1. next.raw /\ raws' = Append(raws, next.id) /\ calcs' = calcs /\ inputs' = inputs
          BY <1>5, <1>8, <3>1 DEF SmAddRawSignal, Adding
      <4> QED BY <1>2, <1>4, <1>5, <1>6, <2>1, <4>1, TablesRaw
    <3>2. CASE SmAddCalcSignal
      <4>1. /\ ~ next.raw /\ calcs' = Append(calcs, next.id) /\ raws' = raws
            /\ inputs' = [s \in DOMAIN inputs \cup {next.id} |->
                             IF s = next.id THEN next.inputs ELSE inputs[s]]
          BY <1>5, <1>8, <3>2 DEF SmAddCalcSignal, Adding
      <4> QED BY <1>2, <1>4, <1>5, <1>6, <2>1, <4>1, TablesCalc
    <3> QED BY <3>1, <3>2
  <2>4. Declared' BY <1>1, <1>2, <2>3 DEF Declared
  <2> QED BY <2>2, <2>4 DEF CalcInv, SetUp, Counting, RingOK, Started
<1> QED BY <1>7, <1>8

\* The inputs that were declared, in the order a list gives.
LEMMA SameInputIds ==
    ASSUME NEW ins, NEW others, NEW s, SameIds(ins[s], others[s])
    PROVE  InputIds(ins, s) = InputIds(others, s)
BY DEF SameIds, InputIds

LEMMA SetsUp ==
    ASSUME CalcInv, SmInitCalculator PROVE CalcInv'
<1>1. PICK L : L = TopologicalSort(inputs, raws, calcs) OBVIOUS
<1>2. /\ SmState = "Init" /\ added = Len(app.signals)
      /\ UNCHANGED <<app, added, raws, inputs, runLock>>
    BY DEF SmInitCalculator
<1>3. Tables(app.signals, added, raws, calcs, inputs) BY <1>2 DEF CalcInv, Declared
<1>4. CASE ~ InputsKnown \/ SelfInput \/ ~ Sorted(raws, calcs, L)
  <2>1. SmState' = "Aborted" BY <1>1, <1>4 DEF SmInitCalculator
  <2> QED BY <1>2, <2>1 DEF CalcInv, Declared, SetUp, Counting, RingOK, Started
<1>5. CASE ~ (~ InputsKnown \/ SelfInput \/ ~ Sorted(raws, calcs, L))
  <2>1. /\ SmState' = "Runable" /\ calcs' = CalcOrder(inputs, L)
        /\ delay' = Delays(inputs) /\ maxBuffering' = Buffering(delay')
        /\ PrivateResetCalculator(delay', maxBuffering')
      BY <1>1, <1>5 DEF SmInitCalculator
  <2>2. Table(inputs, raws, calcs) BY <1>3, <1>5 DEF Tables, Table, InputsKnown, Ids
  <2>3. \A s \in Range(calcs) : s \notin InputIds(inputs, s) BY <1>5 DEF SelfInput
  <2>4. SortedUpTo(inputs, raws, calcs, L) /\ Sorted(raws, calcs, L)
      BY <1>1, <1>5, <2>2, SortResult
  <2>5. PICK c : c = calcs' OBVIOUS
  <2>6. /\ c \in Seq(SignalIds) /\ IsInjective(c) /\ Range(c) = Range(calcs)
        /\ ReadsEarlier(inputs, c)
      BY <2>1, <2>2, <2>3, <2>4, <2>5, CalcOrderResult
  <2>7. Table(inputs, raws, c) BY <2>2, <2>6 DEF Table
  <2>8. PICK d, M : d = delay' /\ M = maxBuffering' OBVIOUS
  <2>9. DelaysFit(inputs, d, M) BY <2>1, <2>6, <2>7, <2>8, DelaysResult
  <2>10. DOMAIN inputs = Range(calcs) /\ Range(raws) \cap Range(calcs) = {}
      BY <2>2 DEF Table
  <2>11. /\ DOMAIN d = Range(calcs) /\ M \in Nat \ {0}
         /\ \A s \in Range(calcs) : d[s].absBack \in Nat /\ d[s].absFwd \in Nat
      BY <2>9, <2>10 DEF DelaysFit
  <2>12. Tables(app.signals, added, raws, c, inputs) BY <1>3, <2>6 DEF Tables
  <2>13. Declared'
    <3>1. app \in Apps /\ added \in 0 .. Len(app.signals) BY DEF CalcInv, Declared
    <3> QED BY <1>2, <2>5, <2>12, <3>1 DEF Declared
  <2>14. SetUp'
    <3>1. Table(inputs, raws, c)' /\ ReadsEarlier(inputs, c)' BY <1>2, <2>6, <2>7
    <3> QED BY <1>2, <2>1, <2>5, <2>6, <2>7, <2>8, <2>9, <2>11 DEF SetUp
  <2>15. Counting' /\ RingOK' BY <1>2, <2>1, <2>5, <2>6, <2>8, <2>10, <2>11, ResetStep
  <2> QED BY <2>13, <2>14, <2>15 DEF CalcInv
<1> QED BY <1>4, <1>5

\* A change of delays is for a calculated signal, with inputs of the same ids.
LEMMA EditNames ==
    ASSUME CalcInv, Started, NEW e \in app.edits
    PROVE  /\ e.inputs \in Seq(Input(SignalIds)) /\ e.id \in Range(calcs)
           /\ SameIds(inputs[e.id], e.inputs)
<1>1. Tables(app.signals, added, raws, calcs, inputs) /\ app \in Apps
    BY DEF CalcInv, Declared, Started
<1>2. added = Len(app.signals) BY DEF CalcInv, SetUp
<1>3. PICK i \in 1 .. Len(app.signals) : app.signals[i].id = e.id BY <1>1, AppFacts
<1>4. \A j \in 1 .. Len(app.signals) :
         app.signals[j].id = e.id =>
             ~ app.signals[j].raw /\ SameIds(e.inputs, app.signals[j].inputs)
    BY <1>1, AppFacts
<1>5. e.id \in Range(raws) \cup Range(calcs) BY <1>1, <1>2, <1>3 DEF Tables
<1>6. e.id \notin Range(raws) BY <1>1, <1>2, <1>4 DEF Tables
<1>7. PICK k \in 1 .. Len(app.signals) :
         app.signals[k].id = e.id /\ SameIds(inputs[e.id], app.signals[k].inputs)
    BY <1>1, <1>2, <1>5, <1>6 DEF Tables
<1>8. SameIds(e.inputs, app.signals[k].inputs) BY <1>4, <1>7
<1> QED BY <1>1, <1>5, <1>6, <1>7, <1>8, AppFacts DEF SameIds

LEMMA Edits ==
    ASSUME CalcInv, NEW e \in app.edits, SmChangeInputSignalIndicies(e) PROVE CalcInv'
<1>1. /\ Started /\ runLock = "control"
      /\ inputs' = [inputs EXCEPT ![e.id] = ChangedInputs(@, e.inputs)]
      /\ UNCHANGED <<app, added, raws, calcs, delay, maxBuffering, runLock>>
      /\ SmState' \in {"IndexChanged", "Aborted"}
    BY DEF SmChangeInputSignalIndicies, Control, sizeVars
<1>2. SmState # "Aborted" /\ SmState \in {"Runable", "IndexChanged"} BY <1>1 DEF Started
<1>3. Tables(app.signals, added, raws, calcs, inputs) /\ app \in Apps
    BY <1>2 DEF CalcInv, Declared
<1>4. Table(inputs, raws, calcs) /\ ReadsEarlier(inputs, calcs) /\ added = Len(app.signals)
    BY <1>1 DEF CalcInv, SetUp
<1>5. PICK old, changed : old = inputs[e.id] /\ changed = ChangedInputs(old, e.inputs) OBVIOUS
<1>6. e.inputs \in Seq(Input(SignalIds)) /\ e.id \in Range(calcs) /\ SameIds(old, e.inputs)
    BY <1>1, <1>5, EditNames
<1>7. old \in Seq(Input(SignalIds)) BY <1>4, <1>5, <1>6 DEF Table
<1>8. SameIds(changed, old) /\ changed \in Seq(Input(SignalIds))
  <2>1. PICK n : n = Len(old) OBVIOUS
  <2>2. n \in Nat /\ DOMAIN old = 1 .. n BY <1>7, <2>1, LenProperties
  <2>3. DOMAIN e.inputs = 1 .. n /\ \A i \in 1 .. n : e.inputs[i].id = old[i].id
    <3>1. PICK f, g : f = [i \in DOMAIN old |-> old[i].id]
                      /\ g = [i \in DOMAIN e.inputs |-> e.inputs[i].id]
        OBVIOUS
    <3>2. f = g BY <1>6, <3>1 DEF SameIds
    <3>3. DOMAIN f = DOMAIN old /\ DOMAIN g = DOMAIN e.inputs BY <3>1
    <3>4. \A i \in DOMAIN old : f[i] = old[i].id BY <3>1
    <3>5. \A i \in DOMAIN e.inputs : g[i] = e.inputs[i].id BY <3>1
    <3> QED BY <2>2, <3>2, <3>3, <3>4, <3>5
  <2>4. \A i \in 1 .. n : old[i] \in Input(SignalIds) BY <1>7, <2>1, ElementOfSeq
  <2>5. \A i \in 1 .. n : e.inputs[i] \in Input(SignalIds)
      BY <1>6, <2>2, <2>3, LenProperties, ElementOfSeq
  <2>6. changed = [i \in 1 .. n |-> IF i % 2 = 1 THEN e.inputs[i] ELSE old[i]]
      BY <1>5, <2>2 DEF ChangedInputs
  <2>7. \A i \in 1 .. n : changed[i] \in Input(SignalIds) /\ changed[i].id = old[i].id
      BY <2>3, <2>4, <2>5, <2>6
  <2>8. changed \in [1 .. n -> Input(SignalIds)] BY <2>6, <2>7
  <2>9. changed \in Seq(Input(SignalIds)) BY <2>2, <2>8, SeqDef
  <2>10. DOMAIN changed = DOMAIN old BY <2>2, <2>6
  <2> QED BY <2>2, <2>7, <2>9, <2>10 DEF SameIds
<1>9. /\ inputs' \in [Range(calcs) -> Seq(Input(SignalIds))]
      /\ inputs'[e.id] = changed
      /\ \A s \in Range(calcs) \ {e.id} : inputs'[s] = inputs[s]
    BY <1>1, <1>4, <1>5, <1>6, <1>8 DEF Table
<1>10. \A s \in Range(calcs) : SameIds(inputs'[s], inputs[s])
    BY <1>5, <1>8, <1>9 DEF SameIds
<1>11. PICK ins : ins = inputs' OBVIOUS
<1>12. \A s \in Range(calcs) : InputIds(ins, s) = InputIds(inputs, s)
    BY <1>10, <1>11, SameInputIds
<1>13. Table(ins, raws, calcs) BY <1>4, <1>9, <1>11, <1>12 DEF Table
<1>14. ReadsEarlier(ins, calcs)
  <2>1. \A i \in 1 .. Len(calcs) : calcs[i] \in Range(calcs) BY <1>4, RangeIndex DEF Table
  <2> QED BY <1>4, <1>12, <2>1 DEF ReadsEarlier
<1>15. Tables(app.signals, added, raws, calcs, ins)
  <2>1. \A s \in Range(calcs) : \E i \in 1 .. added :
           /\ app.signals[i].id = s /\ ~ app.signals[i].raw
           /\ SameIds(ins[s], app.signals[i].inputs)
    <3> TAKE s \in Range(calcs)
    <3>1. PICK i \in 1 .. added : /\ app.signals[i].id = s /\ ~ app.signals[i].raw
                                  /\ SameIds(inputs[s], app.signals[i].inputs)
        BY <1>3 DEF Tables
    <3>2. SameIds(ins[s], app.signals[i].inputs) BY <1>10, <1>11, <3>1 DEF SameIds
    <3> QED BY <3>1, <3>2
  <2>2. ins \in [Range(calcs) -> Seq(Input(SignalIds))] BY <1>9, <1>11
  <2> QED BY <1>3, <2>1, <2>2 DEF Tables
<1>16. Declared'
  <2>1. app \in Apps /\ added \in 0 .. Len(app.signals) BY DEF CalcInv, Declared
  <2> QED BY <1>1, <1>11, <1>15, <2>1 DEF Declared
<1>17. SetUp' BY <1>1, <1>4, <1>11, <1>13, <1>14 DEF SetUp, Started, CalcInv
<1>18. Counting' /\ RingOK'
  <2>1. CASE SmState = "Runable"
    <3>1. PrivateResetCalculator(delay, maxBuffering) BY <2>1 DEF SmChangeInputSignalIndicies
    <3> QED BY <1>1, <2>1, <3>1, ResetStep, RunableFacts
  <2>2. CASE SmState = "IndexChanged"
    <3>1. UNCHANGED <<now, index, dneCount, results>>
        BY <2>2 DEF SmChangeInputSignalIndicies, runVars
    <3>2. Ids' = Ids BY <1>1 DEF Ids
    <3>3. \A s : LatestIndex(s)' = LatestIndex(s) /\ First(s)' = First(s)
        BY <1>1, <3>1 DEF LatestIndex, First
    <3> QED BY <1>1, <2>2, <3>1, <3>2, <3>3 DEF CalcInv, Counting, RingOK
  <2> QED BY <1>2, <2>1, <2>2
<1> QED BY <1>16, <1>17, <1>18 DEF CalcInv

LEMMA InitCalcInv == Init => CalcInv
<1> SUFFICES ASSUME Init PROVE CalcInv OBVIOUS
<1>1. /\ app \in Apps /\ added = 0 /\ SmState = "Init"
      /\ raws = <<>> /\ calcs = <<>> /\ inputs = <<>>
    BY DEF Init
<1>2. PICK none : none = <<>> OBVIOUS
<1>3. none \in Seq(SignalIds) /\ Len(none) = 0 /\ DOMAIN none = {} BY <1>2, EmptySeq
<1>4. 1 .. Len(none) = {} /\ 1 .. 0 = {} BY <1>3
<1>5. Range(none) = {} /\ IsInjective(none) BY <1>3, <1>4, RangeIndex, InjectiveIndex
<1>6. none \in [Range(none) -> Seq(Input(SignalIds))]
  <2>1. none = [s \in {} |-> none[s]] BY <1>2
  <2> QED BY <1>5, <2>1
<1>7. Tables(app.signals, 0, none, none, none) BY <1>3, <1>4, <1>5, <1>6 DEF Tables
<1>8. Declared
  <2>1. Len(app.signals) \in Nat BY <1>1, AppFacts
  <2>2. Tables(app.signals, added, raws, calcs, inputs) BY <1>1, <1>2, <1>7
  <2> QED BY <1>1, <2>1, <2>2 DEF Declared
<1> QED BY <1>1, <1>8 DEF CalcInv, SetUp, Counting, RingOK, Started

LEMMA NextCalcInv == CalcInv /\ [Next]_vars => CalcInv'
<1> SUFFICES ASSUME CalcInv, [Next]_vars PROVE CalcInv' OBVIOUS
<1>1. CASE SmAddRawSignal BY <1>1, Declarations
<1>2. CASE SmAddCalcSignal BY <1>2, Declarations
<1>3. CASE SmInitCalculator BY <1>3, SetsUp
<1>4. CASE SmRunCalculations BY <1>4, RunableRound DEF SmRunCalculations
<1>5. CASE RunCalculationsCallback BY <1>5, RunableRound DEF RunCalculationsCallback
<1>6. CASE SmResetCalculator BY <1>6, Resets
<1>7. CASE ChangeIndicies BY <1>7, Edits DEF ChangeIndicies
<1>8. CASE SmCalculateDelaysAndBufferingWithReset BY <1>8, Recalculates
<1>9. CASE SmRunCalculationsAsync BY <1>9, Elsewhere DEF SmRunCalculationsAsync
<1>10. CASE SmAcquireInternalRunLock
  <2>1. runLock = Null /\ runLock' = "control" BY <1>10 DEF SmAcquireInternalRunLock
  <2>2. SmState = "IndexChanged" => runLock = "control" BY DEF CalcInv, Counting
  <2> QED BY <1>10, <2>1, <2>2, Elsewhere DEF SmAcquireInternalRunLock
<1>11. CASE SmReleaseInternalRunLock BY <1>11, Elsewhere DEF SmReleaseInternalRunLock
<1>12. CASE ReadSomeTrigger BY <1>12, Elsewhere DEF ReadSomeTrigger, ReadTrigger
<1>13. CASE RegisterSynced
    BY <1>13, Elsewhere DEF RegisterSynced, SmRegisterDataSyncedCallback
<1>14. CASE UnregisterSynced
    BY <1>14, Elsewhere DEF UnregisterSynced, SmUnregisterDataSyncedCallback
<1>15. CASE SmStartSignalTrace BY <1>15, Elsewhere DEF SmStartSignalTrace
<1>16. CASE SmStopSignalTrace BY <1>16, Elsewhere DEF SmStopSignalTrace
<1>17. CASE UNCHANGED vars
  <2>1. UNCHANGED <<app, added, SmState, tableVars, sizeVars, runVars>> /\ runLock' = runLock
      BY <1>17 DEF vars
  <2> QED BY <2>1, Elsewhere
<1> QED BY <1>1, <1>2, <1>3, <1>4, <1>5, <1>6, <1>7, <1>8, <1>9, <1>10, <1>11, <1>12, <1>13,
           <1>14, <1>15, <1>16, <1>17 DEF Next

LEMMA AlwaysCalcInv == Spec => []CalcInv
BY InitCalcInv, NextCalcInv, PTL DEF Spec

(***************************************************************************)
(* What SmGetRealtimeResult returns between two calls is the newest value   *)
(* of the signal, for any signals and delays (Calculator.cpp: the ring of   *)
(* MaxBuffering rows, the per-signal indices and countdowns).               *)
(***************************************************************************)
THEOREM RealtimeValuesAreLatest == Spec => []RealtimeIsLatest
<1>1. CalcInv => RealtimeIsLatest
  <2> SUFFICES ASSUME CalcInv, Started, NEW s \in Ids
               PROVE  SmGetRealtimeResult(s) =
                         IF /\ LatestIndex(s) >= 0
                            /\ s \in Range(calcs) => LatestIndex(s) >= delay[s].absBack
                         THEN LatestIndex(s) ELSE DNE
      BY DEF RealtimeIsLatest
  <2>1. /\ now \in Nat /\ maxBuffering \in Nat \ {0}
        /\ \A x \in Range(calcs) : /\ delay[x].absBack \in Nat /\ delay[x].absFwd \in Nat
                                   /\ index[x] = now - delay[x].absFwd
        /\ Column(results[s], LatestIndex(s), First(s), maxBuffering)
      BY DEF CalcInv, SetUp, Counting, RingOK
  <2>2. PICK latest, first, col, M : /\ latest = LatestIndex(s) /\ first = First(s)
                                     /\ col = results[s] /\ M = maxBuffering
      OBVIOUS
  <2>3. latest \in Int /\ first \in Nat /\ M \in Nat \ {0} /\ Column(col, latest, first, M)
    <3>1. s \in Range(raws) \/ s \in Range(calcs) BY DEF Ids
    <3> QED BY <2>1, <2>2, <3>1 DEF LatestIndex, First
  <2>4. CASE SmState = "IndexChanged"
    <3>1. now = 0 BY <2>4 DEF CalcInv, Counting
    <3>2. LatestIndex(s) < 0 BY <2>1, <3>1 DEF LatestIndex, Ids
    <3>3. ~ (LatestIndex(s) >= 0) BY <2>2, <2>3, <3>2
    <3> QED BY <2>4, <3>3 DEF SmGetRealtimeResult
  <2>5. CASE SmState # "IndexChanged"
    <3>1. CASE latest < 0
      <4>1. ~ (latest >= 0) BY <2>3, <3>1
      <4> QED BY <2>2, <3>1, <4>1 DEF SmGetRealtimeResult
    <3>2. CASE ~ (latest < 0)
      <4>1. latest >= 0 /\ latest \in latest - M + 1 .. latest BY <2>3, <3>2
      <4>2. col[latest % M] = IF latest >= first THEN latest ELSE DNE
          BY <2>3, <4>1 DEF Column
      <4>3. SmGetRealtimeResult(s) = col[latest % M]
          BY <2>2, <2>5, <3>2 DEF SmGetRealtimeResult, Slot
      <4>4. (s \in Range(calcs) => latest >= delay[s].absBack) <=> latest >= first
        <5>1. CASE s \in Range(calcs) BY <2>2, <5>1 DEF First
        <5>2. CASE s \notin Range(calcs)
          <6>1. first = 0 BY <2>2, <5>2 DEF First
          <6> QED BY <4>1, <5>2, <6>1
        <5> QED BY <5>1, <5>2
      <4> QED BY <2>2, <4>1, <4>2, <4>3, <4>4
    <3> QED BY <3>1, <3>2
  <2> QED BY <2>4, <2>5
<1> QED BY <1>1, AlwaysCalcInv, PTL

(***************************************************************************)
(* The table of calculated signals is in an order in which each comes after *)
(* those it reads (SortSignals), whatever order they were added in.         *)
(***************************************************************************)
THEOREM DependenciesComeFirst == Spec => []DependenciesFirst
<1>1. CalcInv => DependenciesFirst
  <2> SUFFICES ASSUME CalcInv, Started, NEW i \in DOMAIN calcs, NEW j \in DOMAIN calcs,
                      calcs[j] \in InputIds(inputs, calcs[i])
               PROVE  j < i
      BY DEF DependenciesFirst
  <2>1. ReadsEarlier(inputs, calcs) /\ calcs \in Seq(SignalIds) BY DEF CalcInv, SetUp, Table
  <2>2. DOMAIN calcs = 1 .. Len(calcs) BY <2>1, LenProperties
  <2> QED BY <2>1, <2>2 DEF ReadsEarlier
<1> QED BY <1>1, AlwaysCalcInv, PTL

-----------------------------------------------------------------------------
(* The ASSERTs.                                                             *)

\* An ASSERT ends everything: no later step changes what NoAssert speaks of.
LEMMA AbortIsLast ==
    ASSUME [Next]_vars, SmState = "Aborted"
    PROVE  UNCHANGED <<app, raws, calcs, inputs>>
<1>1. ~ Started /\ SmState # "Init" BY DEF Started
<1> QED BY <1>1 DEF Next, SmAddRawSignal, SmAddCalcSignal, Adding, SmInitCalculator,
       SmRunCalculations, SmRunCalculationsAsync, RunCalculationsCallback,
       SmResetCalculator, SmAcquireInternalRunLock, SmReleaseInternalRunLock, Control,
       ChangeIndicies, SmChangeInputSignalIndicies, SmCalculateDelaysAndBufferingWithReset,
       ReadSomeTrigger, ReadTrigger, RegisterSynced, SmRegisterDataSyncedCallback,
       UnregisterSynced, SmUnregisterDataSyncedCallback, SmStartSignalTrace,
       SmStopSignalTrace, vars, tableVars

LEMMA AbortOfAdding ==
    ASSUME CalcInv, SmAddRawSignal \/ SmAddCalcSignal, SmState' = "Aborted"
    PROVE  \E i, j \in DOMAIN app.signals : i # j /\ app.signals[i].id = app.signals[j].id
<1>1. SmState = "Init" /\ added < Len(app.signals) BY DEF SmAddRawSignal, SmAddCalcSignal, Adding
<1>2. app \in Apps /\ added \in Nat /\ Len(app.signals) \in Nat
      /\ DOMAIN app.signals = 1 .. Len(app.signals)
  <2>1. app \in Apps /\ added \in 0 .. Len(app.signals) BY DEF CalcInv, Declared
  <2> QED BY <2>1, AppFacts
<1>3. NextSignal.id \in Ids BY <1>1 DEF SmAddRawSignal, SmAddCalcSignal
<1>4. PICK n : n = added + 1 OBVIOUS
<1>5. n \in DOMAIN app.signals /\ app.signals[n].id \in Range(raws) \cup Range(calcs)
    BY <1>1, <1>2, <1>3, <1>4 DEF NextSignal, Ids
<1>6. \A s \in Range(raws) \cup Range(calcs) : \E i \in 1 .. added : app.signals[i].id = s
    BY <1>1 DEF CalcInv, Declared, Tables
<1>7. PICK i \in 1 .. added : app.signals[i].id = app.signals[n].id BY <1>5, <1>6
<1>8. i \in DOMAIN app.signals /\ i # n BY <1>1, <1>2, <1>4
<1> QED BY <1>5, <1>7, <1>8

\* What the sort leaves over is a cycle, or several.
LEMMA AbortOfInit ==
    ASSUME CalcInv, SmInitCalculator, SmState' = "Aborted"
    PROVE  ~ InputsKnown \/ ~ Acyclic
<1>1. PICK L : L = TopologicalSort(inputs, raws, calcs) OBVIOUS
<1>2. SmState = "Init" /\ added = Len(app.signals) BY DEF SmInitCalculator
<1>3. ~ InputsKnown \/ SelfInput \/ ~ Sorted(raws, calcs, L)
    BY <1>1 DEF SmInitCalculator
<1>4. Tables(app.signals, added, raws, calcs, inputs) BY <1>2 DEF CalcInv, Declared
<1>5. DOMAIN inputs = Range(calcs) BY <1>4 DEF Tables
<1>6. ASSUME SelfInput PROVE ~ Acyclic
  <2>1. PICK s \in Range(calcs) : s \in InputIds(inputs, s) BY <1>6 DEF SelfInput
  <2>2. {s} \in (SUBSET DOMAIN inputs) \ {{}} BY <1>5
  <2>3. \A x \in {s} : InputIds(inputs, x) \cap {s} # {} BY <2>1
  <2> QED BY <2>2, <2>3 DEF Acyclic
<1>7. ASSUME InputsKnown, ~ Sorted(raws, calcs, L) PROVE ~ Acyclic
  <2>1. Table(inputs, raws, calcs) BY <1>4, <1>7 DEF Tables, Table, InputsKnown, Ids
  <2>2. SortedUpTo(inputs, raws, calcs, L) BY <1>1, <2>1, SortResult
  <2>3. PICK S : S = Unsorted(calcs, raws, L) OBVIOUS
  <2>4. \A v \in S : v \in DOMAIN inputs /\ (InputIds(inputs, v) \cap S) \ {v} # {}
      BY <2>2, <2>3 DEF SortedUpTo
  <2>5. S # {} BY <1>7, <2>3 DEF Sorted
  <2>6. S \in (SUBSET DOMAIN inputs) \ {{}} BY <2>4, <2>5
  <2>7. \A v \in S : InputIds(inputs, v) \cap S # {} BY <2>4
  <2> QED BY <2>6, <2>7 DEF Acyclic
<1> QED BY <1>3, <1>6, <1>7

\* ChangeInputSignalIndicies advances its index twice a round: the ASSERT after
\* its loop holds for an odd number of inputs alone.
OddEdits == \A a \in Apps : \A e \in a.edits : Len(e.inputs) % 2 = 1

LEMMA NoAbortOfEdits ==
    ASSUME CalcInv, OddEdits, NEW e \in app.edits, SmChangeInputSignalIndicies(e)
    PROVE  SmState' # "Aborted"
<1>1. Started BY DEF SmChangeInputSignalIndicies, Control
<1>2. app \in Apps BY DEF CalcInv, Declared
<1>3. Len(e.inputs) % 2 = 1 BY <1>2 DEF OddEdits
<1>4. /\ e.inputs \in Seq(Input(SignalIds)) /\ e.id \in Range(calcs)
      /\ SameIds(inputs[e.id], e.inputs)
    BY <1>1, EditNames
<1>5. PICK old : old = inputs[e.id] OBVIOUS
<1>6. old \in Seq(Input(SignalIds))
    BY <1>1, <1>4, <1>5 DEF CalcInv, SetUp, Table
<1>7. Len(old) = Len(e.inputs)
  <2>1. PICK f, g : f = [i \in DOMAIN old |-> old[i].id]
                    /\ g = [i \in DOMAIN e.inputs |-> e.inputs[i].id]
      OBVIOUS
  <2>2. f = g BY <1>4, <1>5, <2>1 DEF SameIds
  <2>3. DOMAIN f = DOMAIN old /\ DOMAIN g = DOMAIN e.inputs BY <2>1
  <2>4. DOMAIN old = DOMAIN e.inputs BY <2>2, <2>3
  <2>5. DOMAIN old = 1 .. Len(old) /\ DOMAIN e.inputs = 1 .. Len(e.inputs)
        /\ Len(old) \in Nat /\ Len(e.inputs) \in Nat
      BY <1>4, <1>6, LenProperties
  <2>6. PICK m, n : m = Len(old) /\ n = Len(e.inputs) OBVIOUS
  <2>7. m \in Nat /\ n \in Nat /\ 1 .. m = 1 .. n BY <2>4, <2>5, <2>6
  <2>8. m = n
    <3>1. m >= 1 => m \in 1 .. n BY <2>7
    <3>2. n >= 1 => n \in 1 .. m BY <2>7
    <3> QED BY <2>7, <3>1, <3>2
  <2> QED BY <2>6, <2>8
<1>8. LoopEndsAtSentinel(inputs[e.id]) BY <1>3, <1>5, <1>7 DEF LoopEndsAtSentinel
<1> QED BY <1>8 DEF SmChangeInputSignalIndicies

\* Nobody runs the calculations while the control thread changes delays.
LEMMA RunsRunable ==
    ASSUME CalcInv, Started, RunCalculations PROVE SmState = "Runable"
BY NullAssumption DEF RunCalculations, RunLockFree, Started, CalcInv, Counting

LEMMA NoAbortOfRuns ==
    ASSUME CalcInv, Started, RunCalculations PROVE SmState' # "Aborted"
BY RunsRunable DEF RunCalculations

LEMMA Aborts ==
    ASSUME CalcInv, OddEdits, NoAssert, [Next]_vars
    PROVE  NoAssert'
<1>1. SUFFICES ASSUME SmState' = "Aborted" PROVE NoAssert' BY DEF NoAssert
<1>2. CASE SmState = "Aborted"
  <2>1. UNCHANGED <<app, raws, calcs, inputs>> BY <1>2, AbortIsLast
  <2>2. InputsKnown' = InputsKnown /\ Acyclic' = Acyclic
      BY <2>1 DEF InputsKnown, Acyclic, Ids, InputIds
  <2> QED BY <1>2, <2>1, <2>2 DEF NoAssert
<1>3. CASE SmState # "Aborted"
  <2>1. CASE SmAddRawSignal \/ SmAddCalcSignal
    <3>1. app' = app BY <2>1 DEF SmAddRawSignal, SmAddCalcSignal, Adding
    <3> QED BY <1>1, <2>1, <3>1, AbortOfAdding DEF NoAssert
  <2>2. CASE SmInitCalculator
    <3>1. PICK L : L = TopologicalSort(inputs, raws, calcs) OBVIOUS
    <3>2. UNCHANGED <<raws, calcs, inputs>> BY <1>1, <2>2 DEF SmInitCalculator
    <3>3. InputsKnown' = InputsKnown /\ Acyclic' = Acyclic
        BY <3>2 DEF InputsKnown, Acyclic, Ids, InputIds
    <3> QED BY <1>1, <2>2, <3>3, AbortOfInit DEF NoAssert
  <2>3. CASE SmRunCalculations \/ RunCalculationsCallback
      BY <1>1, <2>3, NoAbortOfRuns DEF SmRunCalculations, RunCalculationsCallback
  <2>4. CASE ChangeIndicies BY <1>1, <2>4, NoAbortOfEdits DEF ChangeIndicies
  <2>5. CASE SmCalculateDelaysAndBufferingWithReset
      BY <1>1, <2>5 DEF SmCalculateDelaysAndBufferingWithReset
  <2>6. ASSUME SmState' = SmState PROVE FALSE BY <1>1, <1>3, <2>6
  <2> QED BY <2>1, <2>2, <2>3, <2>4, <2>5, <2>6 DEF Next, SmRunCalculationsAsync,
         SmResetCalculator, SmAcquireInternalRunLock, SmReleaseInternalRunLock,
         ReadSomeTrigger, ReadTrigger, RegisterSynced, SmRegisterDataSyncedCallback,
         UnregisterSynced, SmUnregisterDataSyncedCallback, SmStartSignalTrace,
         SmStopSignalTrace, vars
<1> QED BY <1>2, <1>3

(***************************************************************************)
(* No ASSERT of the calculator fires, and no search for delays runs on for  *)
(* ever, for any signals with distinct ids, known inputs and no cycle,      *)
(* however runs, resets, changes of delays and callbacks interleave, if     *)
(* delays are changed only of signals with an odd number of inputs.         *)
(***************************************************************************)
THEOREM AssertsHold == ASSUME OddEdits PROVE Spec => []NoAssert
<1>1. Init => NoAssert BY DEF Init, NoAssert
<1>2. CalcInv /\ NoAssert /\ [Next]_vars => NoAssert' BY Aborts
<1> QED BY <1>1, <1>2, AlwaysCalcInv, PTL DEF Spec

-----------------------------------------------------------------------------
(* The row stream: what Exists and Ready come to.                           *)

(* holds says of a signal and an index that the index is within a limit, and *)
(* so is every index it reads, and every index those read in turn: an input  *)
(* at the index shifted by w.                                                *)
Chains(ins, w, limit, holds) ==
    \A s \in SignalIds, k \in Int :
        holds[<<s, k>>] <=>
            /\ k \in limit
            /\ s \in DOMAIN ins =>
                  \A i \in DOMAIN ins[s] : holds[<<ins[s][i].id, k + w[s][i]>>]

Shifts(ins, w) == \A s \in DOMAIN ins : \A i \in DOMAIN ins[s] : w[s][i] \in Int

LEMMA ChainsUnique ==
    ASSUME NEW ins, NEW rs, NEW cs, Table(ins, rs, cs), ReadsEarlier(ins, cs),
           NEW w, Shifts(ins, w), NEW limit,
           NEW f, NEW g, Chains(ins, w, limit, f), Chains(ins, w, limit, g)
    PROVE  \A s \in SignalIds, k \in Int : f[<<s, k>>] <=> g[<<s, k>>]
<1> DEFINE n == Len(cs)
           Same(s) == \A k \in Int : f[<<s, k>>] <=> g[<<s, k>>]
           P == {m \in 0 .. n : \A i \in 1 .. m : Same(cs[i])}
<1>1. /\ n \in Nat /\ \A i \in 1 .. n : cs[i] \in Range(cs) /\ cs[i] \in SignalIds
      /\ DOMAIN ins = Range(cs) /\ \A s \in Range(cs) : \E i \in 1 .. n : cs[i] = s
    BY LenProperties, RangeIndex DEF Table
<1>2. Range(rs) \subseteq SignalIds BY RangeIndex DEF Table
<1>3. \A s \in SignalIds : s \notin DOMAIN ins => Same(s) BY DEF Chains
<1> HIDE DEF n, Same
<1>4. 0 \in P BY <1>1
<1>5. ASSUME NEW m \in 0 .. n - 1, m \in P PROVE m + 1 \in P
  <2>1. m + 1 \in 1 .. n /\ m + 1 \in 0 .. n /\ \A i \in 1 .. m + 1 : i = m + 1 \/ i \in 1 .. m
      BY <1>1
  <2>2. PICK s : s = cs[m + 1] OBVIOUS
  <2>3. s \in SignalIds /\ s \in DOMAIN ins /\ s \in Range(cs) BY <1>1, <2>1, <2>2
  <2>4. ASSUME NEW i \in DOMAIN ins[s] PROVE ins[s][i].id \in SignalIds /\ Same(ins[s][i].id)
    <3>1. PICK x : x = ins[s][i].id OBVIOUS
    <3>2. x \in InputIds(ins, s) BY <3>1 DEF InputIds
    <3>3. x \in Range(rs) \cup Range(cs) BY <2>3, <3>2 DEF Table
    <3>4. CASE x \in Range(cs)
      <4>1. PICK j \in 1 .. n : cs[j] = x BY <1>1, <3>4
      <4>2. j < m + 1 BY <2>1, <2>2, <3>2, <4>1 DEF ReadsEarlier, n
      <4>3. j \in 1 .. m BY <1>1, <4>2
      <4> QED BY <1>1, <1>5, <3>1, <4>1, <4>3
    <3>5. CASE x \notin Range(cs) BY <1>1, <1>2, <1>3, <3>1, <3>3, <3>5
    <3> QED BY <3>4, <3>5
  <2>5. Same(s)
    <3> SUFFICES ASSUME NEW k \in Int PROVE f[<<s, k>>] <=> g[<<s, k>>] BY DEF Same
    <3>1. \A i \in DOMAIN ins[s] : k + w[s][i] \in Int BY <2>3 DEF Shifts
    <3>2. \A i \in DOMAIN ins[s] :
             f[<<ins[s][i].id, k + w[s][i]>>] <=> g[<<ins[s][i].id, k + w[s][i]>>]
        BY <2>4, <3>1 DEF Same
    <3>3. f[<<s, k>>] <=>
            /\ k \in limit
            /\ s \in DOMAIN ins =>
                  \A i \in DOMAIN ins[s] : f[<<ins[s][i].id, k + w[s][i]>>]
        BY <2>3 DEF Chains
    <3>4. g[<<s, k>>] <=>
            /\ k \in limit
            /\ s \in DOMAIN ins =>
                  \A i \in DOMAIN ins[s] : g[<<ins[s][i].id, k + w[s][i]>>]
        BY <2>3 DEF Chains
    <3> QED BY <3>2, <3>3, <3>4
  <2> QED BY <1>5, <2>1, <2>2, <2>5
<1>6. \A m \in 0 .. n : m \in P BY <1>1, <1>4, <1>5, UpTo
<1>7. n \in P BY <1>1, <1>6
<1>8. ASSUME NEW s \in SignalIds PROVE Same(s)
  <2>1. CASE s \in DOMAIN ins BY <1>1, <1>7, <2>1
  <2>2. CASE s \notin DOMAIN ins BY <1>3, <2>2
  <2> QED BY <2>1, <2>2
<1> QED BY <1>8 DEF Same

\* What a signal looks back and ahead in all.
BackOf(ins, d, s) == IF s \in DOMAIN ins THEN d[s].absBack ELSE 0
AheadOf(ins, d, s) == IF s \in DOMAIN ins THEN d[s].absFwd ELSE 0

LEMMA DelaysOfInputs ==
    ASSUME NEW ins, NEW rs, NEW cs, Table(ins, rs, cs), NEW d, NEW M, DelaysFit(ins, d, M)
    PROVE  /\ \A s : BackOf(ins, d, s) \in Nat /\ AheadOf(ins, d, s) \in Nat
           /\ \A s \in DOMAIN ins :
                 /\ \A i \in DOMAIN ins[s] :
                       /\ ins[s][i].id \in SignalIds
                       /\ ins[s][i].back \in Nat /\ ins[s][i].fwd \in Nat
                       /\ ins[s][i].back + BackOf(ins, d, ins[s][i].id) <= BackOf(ins, d, s)
                       /\ ins[s][i].fwd + AheadOf(ins, d, ins[s][i].id) <= AheadOf(ins, d, s)
                 /\ BackOf(ins, d, s) = 0 \/ \E i \in DOMAIN ins[s] :
                       BackOf(ins, d, s) = ins[s][i].back + BackOf(ins, d, ins[s][i].id)
                 /\ AheadOf(ins, d, s) = 0 \/ \E i \in DOMAIN ins[s] :
                       AheadOf(ins, d, s) = ins[s][i].fwd + AheadOf(ins, d, ins[s][i].id)
<1>1. \A s \in DOMAIN ins : \A i \in DOMAIN ins[s] :
         /\ ins[s][i].id \in SignalIds
         /\ ins[s][i].back \in Nat /\ ins[s][i].fwd \in Nat
  <2>1. Range(rs) \subseteq SignalIds /\ Range(cs) \subseteq SignalIds BY RangeIndex DEF Table
  <2> QED BY <2>1, InputTypes
<1>2. \A s : BackOf(ins, d, s) \in Nat /\ AheadOf(ins, d, s) \in Nat
    BY DEF DelaysFit, BackOf, AheadOf
<1>3. ASSUME NEW s \in DOMAIN ins
      PROVE  /\ \A i \in DOMAIN ins[s] :
                   /\ ins[s][i].back + BackOf(ins, d, ins[s][i].id) <= BackOf(ins, d, s)
                   /\ ins[s][i].fwd + AheadOf(ins, d, ins[s][i].id) <= AheadOf(ins, d, s)
             /\ BackOf(ins, d, s) = 0 \/ \E i \in DOMAIN ins[s] :
                   BackOf(ins, d, s) = ins[s][i].back + BackOf(ins, d, ins[s][i].id)
             /\ AheadOf(ins, d, s) = 0 \/ \E i \in DOMAIN ins[s] :
                   AheadOf(ins, d, s) = ins[s][i].fwd + AheadOf(ins, d, ins[s][i].id)
    BY DEF DelaysFit, BackOf, AheadOf
<1> QED BY <1>1, <1>2, <1>3

\* The chains that stay at or after 0, each input read back from its reader.
LEMMA ChainsBack ==
    ASSUME NEW ins, NEW rs, NEW cs, Table(ins, rs, cs), NEW d, NEW M, DelaysFit(ins, d, M)
    PROVE  Chains(ins, [s \in DOMAIN ins |-> [i \in DOMAIN ins[s] |-> 0 - ins[s][i].back]], Nat,
                  [p \in SignalIds \X Int |-> p[2] >= BackOf(ins, d, p[1])])
<1>1. PICK w, f : /\ w = [s \in DOMAIN ins |-> [i \in DOMAIN ins[s] |-> 0 - ins[s][i].back]]
                  /\ f = [p \in SignalIds \X Int |-> p[2] >= BackOf(ins, d, p[1])]
    OBVIOUS
<1>2. \A s \in SignalIds, k \in Int : f[<<s, k>>] <=> k >= BackOf(ins, d, s) BY <1>1
<1>3. \A s \in DOMAIN ins : \A i \in DOMAIN ins[s] : w[s][i] = 0 - ins[s][i].back BY <1>1
<1>4. ASSUME NEW s \in SignalIds, NEW k \in Int
      PROVE  f[<<s, k>>] <=>
               /\ k \in Nat
               /\ s \in DOMAIN ins =>
                     \A i \in DOMAIN ins[s] : f[<<ins[s][i].id, k + w[s][i]>>]
  <2>1. PICK b : b = BackOf(ins, d, s) OBVIOUS
  <2>2. b \in Nat BY <2>1, DelaysOfInputs
  <2>3. CASE s \notin DOMAIN ins
    <3>1. b = 0 BY <2>1, <2>3 DEF BackOf
    <3>2. f[<<s, k>>] <=> k >= b BY <1>2, <2>1
    <3>3. k >= b <=> k \in Nat BY <3>1
    <3> QED BY <2>3, <3>2, <3>3
  <2>4. CASE s \in DOMAIN ins
    <3>1. ASSUME NEW i \in DOMAIN ins[s]
          PROVE  /\ f[<<ins[s][i].id, k + w[s][i]>>]
                       <=> k >= ins[s][i].back + BackOf(ins, d, ins[s][i].id)
                 /\ ins[s][i].back + BackOf(ins, d, ins[s][i].id) <= b
      <4>1. PICK x, c, e : x = ins[s][i].id /\ c = ins[s][i].back /\ e = BackOf(ins, d, x)
          OBVIOUS
      <4>2. x \in SignalIds /\ c \in Nat /\ e \in Nat /\ c + e <= b
          BY <2>1, <2>4, <4>1, DelaysOfInputs
      <4>3. w[s][i] = 0 - c BY <1>3, <2>4, <4>1
      <4>4. k + w[s][i] \in Int BY <4>2, <4>3
      <4>5. f[<<x, k + w[s][i]>>] <=> k + w[s][i] >= e BY <1>2, <4>1, <4>2, <4>4
      <4>6. k + w[s][i] >= e <=> k >= c + e BY <4>2, <4>3
      <4> QED BY <4>1, <4>2, <4>5, <4>6
    <3>2. b = 0 \/ \E i \in DOMAIN ins[s] :
             b = ins[s][i].back + BackOf(ins, d, ins[s][i].id)
        BY <2>1, <2>4, DelaysOfInputs
    <3>3. \A i \in DOMAIN ins[s] : ins[s][i].back + BackOf(ins, d, ins[s][i].id) \in Nat
        BY <2>4, DelaysOfInputs
    <3>4. f[<<s, k>>] <=> k >= b BY <1>2, <2>1
    <3>5. k >= b => k \in Nat BY <2>2
    <3>6. ASSUME k >= b, NEW i \in DOMAIN ins[s] PROVE f[<<ins[s][i].id, k + w[s][i]>>]
      <4>1. PICK e : e = ins[s][i].back + BackOf(ins, d, ins[s][i].id) OBVIOUS
      <4>2. e \in Nat /\ e <= b BY <3>1, <3>3, <4>1
      <4>3. k >= e BY <2>2, <3>6, <4>2
      <4> QED BY <3>1, <4>1, <4>3
    <3>7. ASSUME k \in Nat, \A i \in DOMAIN ins[s] : f[<<ins[s][i].id, k + w[s][i]>>]
          PROVE  k >= b
      <4>1. CASE b = 0 BY <3>7, <4>1
      <4>2. CASE \E i \in DOMAIN ins[s] : b = ins[s][i].back + BackOf(ins, d, ins[s][i].id)
          BY <3>1, <3>7, <4>2
      <4> QED BY <3>2, <4>1, <4>2
    <3>8. (\A i \in DOMAIN ins[s] : f[<<ins[s][i].id, k + w[s][i]>>])
             <=> (s \in DOMAIN ins =>
                     \A i \in DOMAIN ins[s] : f[<<ins[s][i].id, k + w[s][i]>>])
        BY <2>4
    <3> QED BY <3>4, <3>5, <3>6, <3>7, <3>8
  <2> QED BY <2>3, <2>4
<1>5. Chains(ins, w, Nat, f) BY <1>4 DEF Chains
<1> QED BY <1>1, <1>5

\* The chains that stay before n, each input read ahead of its reader.
LEMMA ChainsAhead ==
    ASSUME NEW ins, NEW rs, NEW cs, Table(ins, rs, cs), NEW d, NEW M, DelaysFit(ins, d, M),
           NEW n \in Int
    PROVE  Chains(ins, Fwds(ins), {k \in Int : k < n},
                  [p \in SignalIds \X Int |-> p[2] + AheadOf(ins, d, p[1]) < n])
<1>1. PICK w, f : /\ w = Fwds(ins)
                  /\ f = [p \in SignalIds \X Int |-> p[2] + AheadOf(ins, d, p[1]) < n]
    OBVIOUS
<1>2. \A s \in SignalIds, k \in Int : f[<<s, k>>] <=> k + AheadOf(ins, d, s) < n BY <1>1
<1>3. \A s \in DOMAIN ins : \A i \in DOMAIN ins[s] : w[s][i] = ins[s][i].fwd BY <1>1 DEF Fwds
<1>4. ASSUME NEW s \in SignalIds, NEW k \in Int
      PROVE  f[<<s, k>>] <=>
               /\ k < n
               /\ s \in DOMAIN ins =>
                     \A i \in DOMAIN ins[s] : f[<<ins[s][i].id, k + w[s][i]>>]
  <2>1. PICK b : b = AheadOf(ins, d, s) OBVIOUS
  <2>2. b \in Nat BY <2>1, DelaysOfInputs
  <2>3. CASE s \notin DOMAIN ins
    <3>1. b = 0 BY <2>1, <2>3 DEF AheadOf
    <3>2. f[<<s, k>>] <=> k + b < n BY <1>2, <2>1
    <3>3. k + b < n <=> k < n BY <3>1
    <3> QED BY <2>3, <3>2, <3>3
  <2>4. CASE s \in DOMAIN ins
    <3>1. ASSUME NEW i \in DOMAIN ins[s]
          PROVE  /\ f[<<ins[s][i].id, k + w[s][i]>>]
                       <=> k + (ins[s][i].fwd + AheadOf(ins, d, ins[s][i].id)) < n
                 /\ ins[s][i].fwd + AheadOf(ins, d, ins[s][i].id) <= b
      <4>1. PICK x, c, e : x = ins[s][i].id /\ c = ins[s][i].fwd /\ e = AheadOf(ins, d, x)
          OBVIOUS
      <4>2. x \in SignalIds /\ c \in Nat /\ e \in Nat /\ c + e <= b
          BY <2>1, <2>4, <4>1, DelaysOfInputs
      <4>3. w[s][i] = c BY <1>3, <2>4, <4>1
      <4>4. k + w[s][i] \in Int BY <4>2, <4>3
      <4>5. f[<<x, k + w[s][i]>>] <=> (k + w[s][i]) + e < n BY <1>2, <4>1, <4>2, <4>4
      <4>6. (k + w[s][i]) + e < n <=> k + (c + e) < n BY <4>2, <4>3
      <4> QED BY <4>1, <4>2, <4>5, <4>6
    <3>2. b = 0 \/ \E i \in DOMAIN ins[s] :
             b = ins[s][i].fwd + AheadOf(ins, d, ins[s][i].id)
        BY <2>1, <2>4, DelaysOfInputs
    <3>3. \A i \in DOMAIN ins[s] : ins[s][i].fwd + AheadOf(ins, d, ins[s][i].id) \in Nat
        BY <2>4, DelaysOfInputs
    <3>4. f[<<s, k>>] <=> k + b < n BY <1>2, <2>1
    <3>5. k + b < n => k < n BY <2>2
    <3>6. ASSUME k + b < n, NEW i \in DOMAIN ins[s] PROVE f[<<ins[s][i].id, k + w[s][i]>>]
      <4>1. PICK e : e = ins[s][i].fwd + AheadOf(ins, d, ins[s][i].id) OBVIOUS
      <4>2. e \in Nat /\ e <= b BY <3>1, <3>3, <4>1
      <4>3. k + e < n BY <2>2, <3>6, <4>2
      <4> QED BY <3>1, <4>1, <4>3
    <3>7. ASSUME k < n, \A i \in DOMAIN ins[s] : f[<<ins[s][i].id, k + w[s][i]>>]
          PROVE  k + b < n
      <4>1. CASE b = 0 BY <3>7, <4>1
      <4>2. CASE \E i \in DOMAIN ins[s] : b = ins[s][i].fwd + AheadOf(ins, d, ins[s][i].id)
          BY <3>1, <3>7, <4>2
      <4> QED BY <3>2, <4>1, <4>2
    <3>8. (\A i \in DOMAIN ins[s] : f[<<ins[s][i].id, k + w[s][i]>>])
             <=> (s \in DOMAIN ins =>
                     \A i \in DOMAIN ins[s] : f[<<ins[s][i].id, k + w[s][i]>>])
        BY <2>4
    <3> QED BY <3>4, <3>5, <3>6, <3>7, <3>8
  <2> QED BY <2>3, <2>4
<1>5. Chains(ins, w, {k \in Int : k < n}, f) BY <1>4 DEF Chains
<1> QED BY <1>1, <1>5

\* The function a recursive definition over such chains chooses.
LEMMA ChainsChosen ==
    ASSUME NEW ins, NEW rs, NEW cs, Table(ins, rs, cs), ReadsEarlier(ins, cs),
           NEW w, Shifts(ins, w), NEW limit,
           NEW holds \in [SignalIds \X Int -> BOOLEAN], Chains(ins, w, limit, holds),
           NEW s \in SignalIds, NEW k \in Int
    PROVE  (CHOOSE f : f = [p \in SignalIds \X Int |->
                              /\ p[2] \in limit
                              /\ p[1] \in DOMAIN ins =>
                                    \A i \in DOMAIN ins[p[1]] :
                                       f[<<ins[p[1]][i].id, p[2] + w[p[1]][i]>>]])[<<s, k>>]
           <=> holds[<<s, k>>]
<1> DEFINE within(f, p) == /\ p[2] \in limit
                           /\ p[1] \in DOMAIN ins =>
                                 \A i \in DOMAIN ins[p[1]] :
                                    f[<<ins[p[1]][i].id, p[2] + w[p[1]][i]>>]
           chosen == CHOOSE f : f = [p \in SignalIds \X Int |-> within(f, p)]
<1>1. ASSUME NEW f PROVE Chains(ins, w, limit, f)
                         <=> \A p \in SignalIds \X Int : f[p] <=> within(f, p)
  <2>1. ASSUME NEW x \in SignalIds, NEW j \in Int
        PROVE  within(f, <<x, j>>) <=>
                  /\ j \in limit
                  /\ x \in DOMAIN ins => \A i \in DOMAIN ins[x] : f[<<ins[x][i].id, j + w[x][i]>>]
      OBVIOUS
  <2> HIDE DEF within
  <2>2. \A p \in SignalIds \X Int : \E x \in SignalIds, j \in Int : p = <<x, j>> OBVIOUS
  <2>3. \A x \in SignalIds, j \in Int : <<x, j>> \in SignalIds \X Int OBVIOUS
  <2> QED BY <2>1, <2>2, <2>3 DEF Chains
<1> HIDE DEF within
<1>2. holds = [p \in SignalIds \X Int |-> within(holds, p)]
  <2>1. \A p \in SignalIds \X Int : holds[p] \in BOOLEAN /\ (holds[p] <=> within(holds, p))
      BY <1>1
  <2>2. \A p \in SignalIds \X Int : within(holds, p) \in BOOLEAN BY DEF within
  <2>3. \A p \in SignalIds \X Int : holds[p] = within(holds, p) BY <2>1, <2>2
  <2> QED BY <2>3
<1>3. chosen = [p \in SignalIds \X Int |-> within(chosen, p)] BY <1>2
<1>4. PICK f : f = chosen OBVIOUS
<1> HIDE DEF chosen
<1>5. \A p \in SignalIds \X Int : f[p] = within(f, p) BY <1>3, <1>4
<1>6. Chains(ins, w, limit, f) BY <1>1, <1>5
<1>7. \A x \in SignalIds, j \in Int : f[<<x, j>>] <=> holds[<<x, j>>]
    BY <1>6, ChainsUnique
<1>8. chosen[<<s, k>>] <=> holds[<<s, k>>] BY <1>4, <1>7
<1> QED BY <1>8 DEF chosen, within

\* How far ahead of its own index a signal looks in all; First says how far back.
Ahead(s) == IF s \in Range(calcs) THEN delay[s].absFwd ELSE 0

\* Where a value exists, and by when it is ready, in terms of the delays.
LEMMA IdealCells ==
    ASSUME CalcInv, SmState = "Runable", NEW s \in Ids, NEW k \in Int, NEW n \in Int
    PROVE  /\ Ideal!Exists(s, k) <=> k >= First(s)
           /\ Ideal!Ready(s, k, n) <=> k + Ahead(s) < n
<1> DEFINE back == [x \in DOMAIN inputs |-> [i \in DOMAIN inputs[x] |-> 0 - inputs[x][i].back]]
           limit == {j \in Int : j < n}
           fits == [p \in SignalIds \X Int |-> p[2] >= BackOf(inputs, delay, p[1])]
           fits2 == [p \in SignalIds \X Int |-> p[2] + AheadOf(inputs, delay, p[1]) < n]
<1>1. /\ Table(inputs, raws, calcs) /\ ReadsEarlier(inputs, calcs)
      /\ DelaysFit(inputs, delay, maxBuffering) /\ DOMAIN inputs = Range(calcs)
    BY RunableFacts
<1>2. s \in SignalIds /\ First(s) = BackOf(inputs, delay, s)
      /\ Ahead(s) = AheadOf(inputs, delay, s)
    BY <1>1, RangeIndex DEF Ids, Table, First, Ahead, BackOf, AheadOf
<1>3. \A x \in DOMAIN inputs : \A i \in DOMAIN inputs[x] :
         inputs[x][i].back \in Nat /\ inputs[x][i].fwd \in Nat
    BY <1>1, InputTypes
<1>4. Shifts(inputs, back) /\ Shifts(inputs, Fwds(inputs)) BY <1>3 DEF Shifts, Fwds
<1>5. fits \in [SignalIds \X Int -> BOOLEAN] /\ fits2 \in [SignalIds \X Int -> BOOLEAN]
    OBVIOUS
<1>6. \A p \in SignalIds \X Int : p[1] \in DOMAIN inputs => \A i \in DOMAIN inputs[p[1]] :
         /\ p[2] + back[p[1]][i] = p[2] - inputs[p[1]][i].back
         /\ p[2] + Fwds(inputs)[p[1]][i] = p[2] + inputs[p[1]][i].fwd
    BY <1>3 DEF Fwds
<1>7. Chains(inputs, back, Nat, fits) BY <1>1, ChainsBack
<1>8. Chains(inputs, Fwds(inputs), limit, fits2) BY <1>1, ChainsAhead
<1>9. fits[<<s, k>>] <=> k >= First(s) BY <1>2
<1>10. fits2[<<s, k>>] <=> k + Ahead(s) < n BY <1>2
<1> DEFINE body(f) == [p \in SignalIds \X Int |->
                         /\ p[2] \in Nat
                         /\ p[1] \in DOMAIN inputs =>
                               \A i \in DOMAIN inputs[p[1]] :
                                  f[<<inputs[p[1]][i].id, p[2] + back[p[1]][i]>>]]
           code(f) == [p \in SignalIds \X Int |->
                         /\ p[2] >= 0
                         /\ p[1] \in DOMAIN inputs =>
                               \A i \in DOMAIN inputs[p[1]] :
                                  f[<<inputs[p[1]][i].id, p[2] - inputs[p[1]][i].back>>]]
           body2(f) == [p \in SignalIds \X Int |->
                         /\ p[2] \in limit
                         /\ p[1] \in DOMAIN inputs =>
                               \A i \in DOMAIN inputs[p[1]] :
                                  f[<<inputs[p[1]][i].id, p[2] + Fwds(inputs)[p[1]][i]>>]]
           code2(f) == [p \in SignalIds \X Int |->
                         /\ p[2] < n
                         /\ p[1] \in DOMAIN inputs =>
                               \A i \in DOMAIN inputs[p[1]] :
                                  f[<<inputs[p[1]][i].id, p[2] + inputs[p[1]][i].fwd>>]]
<1>11. (CHOOSE f : f = body(f))[<<s, k>>] <=> fits[<<s, k>>]
  <2> HIDE DEF back, fits
  <2> QED BY <1>1, <1>2, <1>4, <1>5, <1>7, ChainsChosen
<1>12. (CHOOSE f : f = body2(f))[<<s, k>>] <=> fits2[<<s, k>>]
  <2> HIDE DEF limit, fits2
  <2> QED BY <1>1, <1>2, <1>4, <1>5, <1>8, ChainsChosen
<1>13. \A f : code(f) = body(f)
  <2> HIDE DEF back
  <2> SUFFICES ASSUME NEW f PROVE code(f) = body(f) OBVIOUS
  <2>1. \A p \in SignalIds \X Int : p[2] >= 0 <=> p[2] \in Nat OBVIOUS
  <2>2. \A p \in SignalIds \X Int : p[1] \in DOMAIN inputs => \A i \in DOMAIN inputs[p[1]] :
           f[<<inputs[p[1]][i].id, p[2] + back[p[1]][i]>>]
             = f[<<inputs[p[1]][i].id, p[2] - inputs[p[1]][i].back>>]
      BY <1>6
  <2> QED BY <2>1, <2>2
<1>14. \A f : code2(f) = body2(f)
  <2> SUFFICES ASSUME NEW f PROVE code2(f) = body2(f) OBVIOUS
  <2>1. \A p \in SignalIds \X Int : p[2] < n <=> p[2] \in limit OBVIOUS
  <2>2. \A p \in SignalIds \X Int : p[1] \in DOMAIN inputs => \A i \in DOMAIN inputs[p[1]] :
           f[<<inputs[p[1]][i].id, p[2] + Fwds(inputs)[p[1]][i]>>]
             = f[<<inputs[p[1]][i].id, p[2] + inputs[p[1]][i].fwd>>]
      BY <1>6
  <2> HIDE DEF limit
  <2> QED BY <2>1, <2>2
<1>15. Ideal!Exists(s, k) <=> (CHOOSE f : f = code(f))[<<s, k>>] BY DEF Ideal!Exists
<1>16. Ideal!Ready(s, k, n) <=> (CHOOSE f : f = code2(f))[<<s, k>>] BY DEF Ideal!Ready
<1> HIDE DEF body, body2, code, code2, fits, fits2
<1>17. (CHOOSE f : f = code(f)) = (CHOOSE f : f = body(f)) BY <1>13
<1>18. (CHOOSE f : f = code2(f)) = (CHOOSE f : f = body2(f)) BY <1>14
<1> QED BY <1>9, <1>10, <1>11, <1>12, <1>15, <1>16, <1>17, <1>18

\* F is how far the signal that looks ahead furthest does.
Furthest(cs, d, F) ==
    /\ F \in Nat /\ \A s \in Range(cs) : d[s].absFwd <= F
    /\ F = 0 \/ \E s \in Range(cs) : d[s].absFwd = F

\* The rows decided by n samples.
Lead(n, F) == IF n <= F THEN 0 ELSE n - F

LEMMA FurthestAhead ==
    ASSUME CalcInv, SmState = "Runable"
    PROVE  \E F : Furthest(calcs, delay, F) /\ F < maxBuffering
<1>1. PICK n, f : n = Len(calcs) /\ f = [i \in 1 .. n |-> delay[calcs[i]].absFwd] OBVIOUS
<1>2. /\ n \in Nat /\ \A i \in 1 .. n : calcs[i] \in Range(calcs)
      /\ \A s \in Range(calcs) : \E i \in 1 .. n : calcs[i] = s
    BY <1>1, CalcsIndex
<1>3. /\ \A s \in Range(calcs) : /\ delay[s].absFwd \in Nat /\ delay[s].relBack \in Nat
                                 /\ delay[s].relBack + delay[s].absFwd < maxBuffering
      /\ maxBuffering \in Nat \ {0}
    BY RunableFacts DEF DelaysFit
<1>4. f \in [1 .. n -> Nat] BY <1>1, <1>2, <1>3
<1>5. PICK F : F = Largest({f[i] : i \in 1 .. n}) OBVIOUS
<1>6. /\ F \in Nat /\ F \in {f[i] : i \in 1 .. n} \cup {0}
      /\ \A i \in 1 .. n : f[i] <= F
    BY <1>2, <1>4, <1>5, LargestBounds
<1>7. \A s \in Range(calcs) : delay[s].absFwd <= F BY <1>1, <1>2, <1>6
<1>8. F = 0 \/ \E s \in Range(calcs) : delay[s].absFwd = F BY <1>1, <1>2, <1>6
<1>9. F < maxBuffering BY <1>3, <1>6, <1>8
<1> QED BY <1>6, <1>7, <1>8, <1>9 DEF Furthest

LEMMA LeastOf ==
    ASSUME NEW S, NEW m \in S, S \subseteq Int, \A x \in S : m <= x
    PROVE  Min(S) = m
<1>1. Min(S) \in S /\ \A x \in S : Min(S) <= x BY DEF Min
<1>2. Min(S) <= m /\ m <= Min(S) BY <1>1
<1>3. Min(S) \in Int /\ m \in Int BY <1>1
<1> QED BY <1>2, <1>3

\* After t samples: which signals lag, and the row all have reached.
Count(cs, idx, t, F) ==
    /\ (\E s \in Range(cs) : idx[s] < 0) <=> t < F
    /\ F <= t => Min({t} \cup {idx[s] : s \in Range(cs)}) = t - F

LEMMA Counted ==
    ASSUME NEW cs, NEW d, NEW F, Furthest(cs, d, F), NEW t \in Nat, NEW idx,
           \A s \in Range(cs) : d[s].absFwd \in Nat /\ idx[s] = t - d[s].absFwd
    PROVE  Count(cs, idx, t, F)
<1>1. /\ F \in Nat
      /\ \A s \in Range(cs) : idx[s] \in Int /\ d[s].absFwd <= F
      /\ F = 0 \/ \E s \in Range(cs) : d[s].absFwd = F
    BY DEF Furthest
<1>2. ASSUME NEW s \in Range(cs), idx[s] < 0 PROVE t < F BY <1>1, <1>2
<1>3. ASSUME t < F PROVE \E s \in Range(cs) : idx[s] < 0
  <2>1. PICK s \in Range(cs) : d[s].absFwd = F BY <1>1, <1>3
  <2> QED BY <1>1, <1>3, <2>1
<1>4. ASSUME F <= t PROVE Min({t} \cup {idx[s] : s \in Range(cs)}) = t - F
  <2> DEFINE S == {t} \cup {idx[s] : s \in Range(cs)}
  <2>1. t - F \in S
    <3>1. CASE F = 0 BY <1>1, <3>1
    <3>2. CASE F # 0
      <4>1. PICK s \in Range(cs) : d[s].absFwd = F BY <1>1, <3>2
      <4>2. idx[s] = t - F BY <1>1, <4>1
      <4> QED BY <4>2
    <3> QED BY <3>1, <3>2
  <2>2. S \subseteq Int /\ \A x \in S : t - F <= x BY <1>1
  <2> HIDE DEF S
  <2>3. Min(S) = t - F BY <2>1, <2>2, LeastOf
  <2> QED BY <2>3 DEF S
<1> QED BY <1>2, <1>3, <1>4 DEF Count

\* The rows out, the row a run completes and the rows a flush starts from.
LEMMA RowsCounted ==
    ASSUME CalcInv, SmState = "Runable", NEW F, Furthest(calcs, delay, F)
    PROVE  /\ UncompletedSignals <=> now < F
           /\ ~ UncompletedSignals => MinIndexCompleted = now - F
           /\ RowsSent = Lead(now, F) /\ FlushFrom = Lead(now, F)
<1>1. /\ now \in Nat /\ F \in Nat
      /\ \A s \in Range(calcs) : /\ index[s] = now - delay[s].absFwd /\ index[s] \in Int
                                 /\ delay[s].absFwd \in Nat
    BY RunableFacts DEF Furthest
<1>2. /\ UncompletedSignals <=> now < F
      /\ F <= now => Min({now} \cup {index[s] : s \in Range(calcs)}) = now - F
  <2>1. Count(calcs, index, now, F) BY <1>1, Counted
  <2> QED BY <2>1 DEF Count, UncompletedSignals
<1>3. ASSUME ~ UncompletedSignals PROVE MinIndexCompleted = now - F
  <2>1. \A s \in Range(calcs) : index[s] >= 0 BY <1>1, <1>3 DEF UncompletedSignals
  <2>2. {c \in Range(calcs) : index[c] >= 0} = Range(calcs) BY <2>1
  <2>3. F <= now BY <1>1, <1>2, <1>3
  <2> QED BY <1>2, <2>2, <2>3 DEF MinIndexCompleted
<1>4. Started BY DEF Started
<1>5. RowsSent = Lead(now, F)
  <2>1. CASE now = 0 \/ UncompletedSignals
    <3>1. RowsSent = 0 BY <1>4, <2>1 DEF RowsSent
    <3>2. now <= F BY <1>1, <1>2, <2>1
    <3> QED BY <3>1, <3>2 DEF Lead
  <2>2. CASE ~ (now = 0 \/ UncompletedSignals)
    <3>1. F <= now BY <1>1, <1>2, <2>2
    <3>2. RowsSent = now - F BY <1>2, <1>4, <2>2, <3>1 DEF RowsSent
    <3> QED BY <1>1, <3>1, <3>2 DEF Lead
  <2> QED BY <2>1, <2>2
<1>6. FlushFrom = Lead(now, F)
  <2>1. CASE UncompletedSignals BY <1>1, <1>2, <2>1 DEF FlushFrom, Lead
  <2>2. CASE ~ UncompletedSignals BY <1>1, <1>2, <1>3, <2>2 DEF FlushFrom, Lead
  <2> QED BY <2>1, <2>2
<1> QED BY <1>2, <1>3, <1>5, <1>6

\* What the specification calls decided.
LEMMA RowsDecided ==
    ASSUME CalcInv, SmState = "Runable", NEW F, Furthest(calcs, delay, F), NEW n \in Nat
    PROVE  Ideal!Decided(n) = Lead(n, F)
<1>1. /\ F \in Nat /\ Ids = Range(raws) \cup Range(calcs)
      /\ DOMAIN inputs = Range(calcs)
      /\ \A s \in Range(calcs) : delay[s].absFwd \in Nat /\ delay[s].absFwd <= F
      /\ F = 0 \/ \E s \in Range(calcs) : delay[s].absFwd = F
    BY RunableFacts DEF Furthest
<1>2. Ideal!Signals = Ids BY <1>1 DEF Ideal!Signals
<1>3. ASSUME NEW k \in 0 .. n - 1
      PROVE  (\A s \in Ideal!Signals : Ideal!Ready(s, k, n)) <=> k + F < n
  <2>1. \A s \in Ids : Ideal!Ready(s, k, n) <=> k + Ahead(s) < n BY IdealCells
  <2>2. \A s \in Ids : Ahead(s) \in Nat /\ Ahead(s) <= F BY <1>1 DEF Ahead
  <2>3. ASSUME k + F < n, NEW s \in Ids PROVE k + Ahead(s) < n BY <1>1, <2>2, <2>3
  <2>4. ASSUME \A s \in Ids : k + Ahead(s) < n PROVE k + F < n
    <3>1. CASE F = 0 BY <3>1
    <3>2. CASE F # 0
      <4>1. PICK s \in Range(calcs) : delay[s].absFwd = F BY <1>1, <3>2
      <4> QED BY <1>1, <2>4, <4>1 DEF Ahead
    <3> QED BY <3>1, <3>2
  <2> QED BY <1>2, <2>1, <2>3, <2>4
<1>4. {k \in 0 .. n - 1 : \A s \in Ideal!Signals : Ideal!Ready(s, k, n)} = 0 .. Lead(n, F) - 1
  <2>1. \A k \in 0 .. n - 1 : k + F < n <=> k \in 0 .. Lead(n, F) - 1 BY <1>1 DEF Lead
  <2>2. 0 .. Lead(n, F) - 1 \subseteq 0 .. n - 1 BY <1>1 DEF Lead
  <2> QED BY <1>3, <2>1, <2>2
<1>5. Lead(n, F) \in Nat BY <1>1 DEF Lead
<1>6. PICK m : m = Lead(n, F) OBVIOUS
<1>7. Cardinality(0 .. m - 1) = m BY <1>5, <1>6, FS_Interval
<1>8. Ideal!Decided(n)
         = Cardinality({k \in 0 .. n - 1 : \A s \in Ideal!Signals : Ideal!Ready(s, k, n)})
    BY Zenon DEF Ideal!Decided, Ideal!Cardinality, Cardinality
<1> QED BY <1>4, <1>6, <1>7, <1>8

\* What the stream shows of signal s in row k, by n samples.
LEMMA IdealCell ==
    ASSUME CalcInv, SmState = "Runable", NEW k \in Int, NEW n \in Int
    PROVE  Ideal!IdealRow(k, n) =
              [s \in Ids |-> IF k >= First(s) /\ k + Ahead(s) < n THEN k ELSE DNE]
<1>1. Ideal!Signals = Ids BY RunableFacts DEF Ideal!Signals
<1>2. \A s \in Ids : /\ Ideal!Exists(s, k) <=> k >= First(s)
                     /\ Ideal!Ready(s, k, n) <=> k + Ahead(s) < n
    BY IdealCells
<1> QED BY <1>1, <1>2 DEF Ideal!IdealRow

\* What the invariant says of the ring, signal by signal.
LEMMA RingCells ==
    ASSUME CalcInv, SmState = "Runable", NEW F, Furthest(calcs, delay, F), NEW s \in Ids
    PROVE  /\ Ahead(s) \in Nat /\ Ahead(s) <= F /\ First(s) \in Nat /\ now \in Nat /\ F \in Nat
           /\ LatestIndex(s) = (now - Ahead(s)) - 1
           /\ maxBuffering \in Nat \ {0}
           /\ Column(results[s], LatestIndex(s), First(s), maxBuffering)
<1>1. /\ now \in Nat /\ F \in Nat /\ Ids = Range(raws) \cup Range(calcs)
      /\ Range(raws) \cap Range(calcs) = {} /\ maxBuffering \in Nat \ {0}
      /\ First(s) \in Nat /\ Column(results[s], LatestIndex(s), First(s), maxBuffering)
      /\ \A x \in Range(calcs) : /\ index[x] = now - delay[x].absFwd
                                 /\ delay[x].absFwd \in Nat /\ delay[x].absFwd <= F
    BY RunableFacts DEF Furthest
<1>2. CASE s \in Range(raws)
  <2>1. Ahead(s) = 0 /\ LatestIndex(s) = now - 1 BY <1>1, <1>2 DEF Ahead, LatestIndex
  <2> QED BY <1>1, <2>1
<1>3. CASE s \notin Range(raws)
  <2>1. s \in Range(calcs) BY <1>1, <1>3
  <2>2. Ahead(s) = delay[s].absFwd /\ LatestIndex(s) = index[s] - 1
      BY <1>3, <2>1 DEF Ahead, LatestIndex
  <2> QED BY <1>1, <2>1, <2>2
<1> QED BY <1>2, <1>3

\* The row a run completes.
LEMMA RunRow ==
    ASSUME CalcInv, SmState = "Runable", NEW F, Furthest(calcs, delay, F), F < maxBuffering,
           F <= now
    PROVE  Row(RoundResults, now - F) = Ideal!IdealRow(now - F, now + 1)
<1>1. now \in Nat /\ F \in Nat /\ Ids = Range(raws) \cup Range(calcs) BY RunableFacts DEF Furthest
<1>2. PICK k, n, r, M : k = now - F /\ n = now + 1 /\ r = RoundResults /\ M = maxBuffering
    OBVIOUS
<1>3. k \in Int /\ n \in Int /\ k \in Nat BY <1>1, <1>2
<1>4. RoundCols(Len(calcs), r) BY <1>2, RoundResult
<1>5. ASSUME NEW s \in Ids
      PROVE  r[s][k % M] = IF k >= First(s) /\ k + Ahead(s) < n THEN k ELSE DNE
  <2>1. /\ Ahead(s) \in Nat /\ Ahead(s) <= F /\ First(s) \in Nat /\ M \in Nat \ {0}
        /\ LatestIndex(s) = (now - Ahead(s)) - 1
      BY <1>2, RingCells
  <2>2. Reached(Len(calcs), s) = LatestIndex(s) + 1
    <3>1. CASE s \in Range(raws) BY <1>1, <3>1 DEF Reached, LatestIndex
    <3>2. CASE s \notin Range(raws)
      <4>1. s \in Range(calcs) BY <1>1, <3>2
      <4>2. \E j \in 1 .. Len(calcs) : calcs[j] = s BY <4>1, CalcsIndex
      <4>3. index[s] \in Int BY <4>1, RunableFacts
      <4> QED BY <3>2, <4>2, <4>3 DEF Reached, LatestIndex
    <3> QED BY <3>1, <3>2
  <2>3. Column(r[s], LatestIndex(s) + 1, First(s), M) BY <1>2, <1>4, <2>2 DEF RoundCols
  <2>4. PICK ahead, latest, first, col : /\ ahead = Ahead(s) /\ latest = LatestIndex(s) + 1
                                         /\ first = First(s) /\ col = r[s]
      OBVIOUS
  <2>5. latest = now - ahead /\ ahead \in Nat /\ ahead <= F BY <1>1, <2>1, <2>4
  <2>6. k \in latest - M + 1 .. latest BY <1>1, <1>2, <2>1, <2>5
  <2>7. col[k % M] = IF k >= first THEN k ELSE DNE BY <2>3, <2>4, <2>6 DEF Column
  <2>8. k + ahead < n BY <1>1, <1>2, <2>5
  <2> QED BY <2>4, <2>7, <2>8
<1>6. Row(r, k) = [s \in Ids |-> IF k >= First(s) /\ k + Ahead(s) < n THEN k ELSE DNE]
    BY <1>2, <1>5 DEF Row, Slot
<1>7. Row(r, k) = Ideal!IdealRow(k, n) BY <1>3, <1>6, IdealCell
<1> QED BY <1>2, <1>7

\* A row the flush delivers, its values marked as missing after the last sample.
LEMMA FlushedRow ==
    ASSUME CalcInv, SmState = "Runable", NEW F, Furthest(calcs, delay, F), F < maxBuffering,
           NEW k \in Int, Lead(now, F) <= k, k < now
    PROVE  Row(FlushedResults, k) = Ideal!IdealRow(k, now)
<1>1. /\ now \in Nat /\ F \in Nat /\ Ids = Range(raws) \cup Range(calcs)
      /\ Range(raws) \cap Range(calcs) = {} /\ maxBuffering \in Nat \ {0}
      /\ \A s \in Range(calcs) : index[s] \in Int
    BY RunableFacts DEF Furthest
<1>2. PICK M : M = maxBuffering OBVIOUS
<1>3. k >= 0 /\ k >= now - F BY <1>1 DEF Lead
<1> DEFINE lagging == {calcs[i] : i \in BeforeFirstUncompleted}
           missed(s) == {Slot(j) : j \in index[s] .. now - 1}
<1>4. ASSUME NEW s \in Ids
      PROVE  FlushedResults[s][k % M] =
                IF k >= First(s) /\ k + Ahead(s) < now THEN k ELSE DNE
  <2>1. /\ Ahead(s) \in Nat /\ Ahead(s) <= F /\ First(s) \in Nat /\ M \in Nat \ {0}
        /\ LatestIndex(s) = (now - Ahead(s)) - 1
        /\ Column(results[s], LatestIndex(s), First(s), M)
      BY <1>2, RingCells
  <2>2. PICK ahead, latest, first, col : /\ ahead = Ahead(s) /\ latest = LatestIndex(s)
                                         /\ first = First(s) /\ col = results[s]
      OBVIOUS
  <2>3. /\ ahead \in Nat /\ ahead <= F /\ first \in Nat /\ latest \in Int
        /\ latest = (now - ahead) - 1 /\ Column(col, latest, first, M)
      BY <1>1, <2>1, <2>2
  <2>4. k % M \in 0 .. M - 1 BY <2>1
  <2>5. col \in [0 .. M - 1 -> Cell] BY <2>3 DEF Column
  <2>6. s \in Range(calcs) => index[s] = latest + 1
    <3> SUFFICES ASSUME s \in Range(calcs) PROVE index[s] = latest + 1 OBVIOUS
    <3>1. s \notin Range(raws) BY <1>1
    <3>2. latest = index[s] - 1 BY <2>2, <3>1 DEF LatestIndex
    <3> QED BY <1>1, <3>2
  <2>7. FlushedResults[s][k % M] =
           IF s \in lagging /\ k % M \in missed(s) THEN DNE ELSE col[k % M]
    <3>1. FlushedResults[s] = IF s \notin lagging THEN results[s]
                              ELSE [b \in DOMAIN results[s] |->
                                      IF b \in missed(s) THEN DNE ELSE results[s][b]]
        BY DEF FlushedResults
    <3> HIDE DEF lagging, missed
    <3> QED BY <2>2, <2>4, <2>5, <3>1
  <2>8. lagging \subseteq Range(calcs)
    <3>1. calcs \in Seq(SignalIds) BY RunableFacts DEF Table
    <3>2. DOMAIN calcs = 1 .. Len(calcs) BY <3>1, LenProperties
    <3> QED BY <3>2, CalcsIndex DEF BeforeFirstUncompleted
  <2>9. CASE k <= latest
    <3>1. k \in latest - M + 1 .. latest BY <1>1, <1>2, <1>3, <2>1, <2>3, <2>9
    <3>2. col[k % M] = IF k >= first THEN k ELSE DNE BY <2>3, <3>1 DEF Column
    <3>3. ASSUME s \in lagging PROVE k % M \notin missed(s)
      <4>1. index[s] = latest + 1 BY <2>6, <2>8, <3>3
      <4>2. ASSUME NEW j \in index[s] .. now - 1 PROVE k % M # j % M
        <5>1. j \in Int /\ M \in Nat \ {0} /\ k \in Int /\ k < j /\ j < k + M
            BY <1>1, <1>2, <1>3, <2>1, <2>3, <2>9, <4>1, <4>2
        <5> QED BY ONLY <5>1, SlotsDiffer
      <4> QED BY <1>2, <4>2 DEF Slot
    <3>4. k + ahead < now BY <1>1, <2>3, <2>9
    <3> HIDE DEF lagging, missed
    <3> QED BY <2>2, <2>7, <3>2, <3>3, <3>4
  <2>10. CASE ~ (k <= latest)
    <3>1. ~ (k + ahead < now) BY <1>1, <2>3, <2>10
    <3>2. s \in Range(calcs)
      <4>1. ahead # 0 BY <1>1, <2>3, <3>1
      <4> QED BY <2>2, <4>1 DEF Ahead
    <3>3. CASE s \in lagging
      <4>1. k \in index[s] .. now - 1 BY <1>1, <2>3, <2>6, <2>10, <3>2
      <4>2. k % M \in missed(s) BY <1>2, <4>1 DEF Slot
      <4> HIDE DEF lagging, missed
      <4> QED BY <2>2, <2>7, <3>1, <3>3, <4>2
    <3>4. CASE s \notin lagging
      <4>1. now < F
        <5> SUFFICES ASSUME ~ (now < F) PROVE FALSE OBVIOUS
        <5>1. ~ UncompletedSignals BY RowsCounted
        <5>2. \A i \in 1 .. Len(calcs) : index[calcs[i]] >= 0
            BY <1>1, <5>1, CalcsIndex DEF UncompletedSignals
        <5>3. calcs \in Seq(SignalIds) BY RunableFacts DEF Table
        <5>4. DOMAIN calcs = 1 .. Len(calcs) BY <5>3, LenProperties
        <5>5. PICK i \in 1 .. Len(calcs) : calcs[i] = s BY <3>2, CalcsIndex
        <5>6. \A j \in 1 .. i : j \in 1 .. Len(calcs) BY CalcsIndex
        <5>7. i \in BeforeFirstUncompleted BY <5>2, <5>4, <5>6 DEF BeforeFirstUncompleted
        <5> QED BY <3>4, <5>5, <5>7
      <4>2. /\ k - M \in latest - M + 1 .. latest /\ ~ (k - M >= first)
          BY <1>1, <1>2, <1>3, <2>1, <2>3, <2>10, <4>1
      <4>3. col[(k - M) % M] = DNE BY <2>3, <4>2 DEF Column
      <4>4. (k - M) % M = k % M BY <2>1, SameSlot
      <4> HIDE DEF lagging, missed
      <4> QED BY <2>2, <2>7, <3>1, <3>4, <4>3, <4>4
    <3> QED BY <3>3, <3>4
  <2> QED BY <2>9, <2>10
<1>5. Row(FlushedResults, k) =
         [s \in Ids |-> IF k >= First(s) /\ k + Ahead(s) < now THEN k ELSE DNE]
    BY <1>2, <1>4 DEF Row, Slot
<1> QED BY <1>1, <1>5, IdealCell

-----------------------------------------------------------------------------
(* Each step of the calculator is one of the stream, or none.               *)

\* Samples are counted, and none is taken before the set-up.
Fresh == now \in Nat /\ (SmState = "Init" => now = 0)

LEMMA StreamSteps ==
    /\ Ideal!Init <=> inputs = <<>> /\ Range(raws) = {} /\ now = 0 /\ RowsSent = 0 /\ out = <<>>
    /\ Ideal!Declare <=>
          /\ now = 0 /\ now' = 0 /\ RowsSent' = 0 /\ out' = <<>>
          /\ Range(raws) \subseteq Range(raws)' /\ DOMAIN inputs \subseteq DOMAIN inputs'
    /\ Ideal!Sample <=>
          /\ now' = now + 1 /\ RowsSent' = Ideal!Decided(now + 1)
          /\ out' = Ideal!IdealRows(RowsSent, RowsSent', now + 1)
          /\ inputs' = inputs /\ Range(raws)' = Range(raws)
    /\ Ideal!Reset <=>
          /\ now' = 0 /\ RowsSent' = 0
          /\ out' = Ideal!IdealRows(RowsSent, now, now)
          /\ Range(raws)' = Range(raws) /\ DOMAIN inputs' = DOMAIN inputs
    /\ Ideal!Quiet <=>
          /\ out' = <<>>
          /\ inputs' = inputs /\ Range(raws)' = Range(raws) /\ now' = now
          /\ RowsSent' = RowsSent
    /\ UNCHANGED Ideal!vars <=>
          /\ out' = out
          /\ inputs' = inputs /\ Range(raws)' = Range(raws) /\ now' = now
          /\ RowsSent' = RowsSent
    /\ Ideal!Next <=> Ideal!Declare \/ Ideal!Sample \/ Ideal!Reset \/ Ideal!Quiet
BY DEF Ideal!Init, Ideal!Declare, Ideal!Sample, Ideal!Reset, Ideal!Quiet, Ideal!vars, Ideal!Next

LEMMA NothingSent ==
    /\ now = 0 => RowsSent = 0
    /\ now' = 0 => RowsSent' = 0
BY DEF RowsSent

LEMMA StreamQuiet ==
    ASSUME UNCHANGED <<SmState, raws, calcs, inputs, now, index>>, out' = <<>>
    PROVE  Ideal!Next
<1>1. RowsSent' = RowsSent BY DEF RowsSent, Started, UncompletedSignals
<1>2. Range(raws)' = Range(raws) OBVIOUS
<1> QED BY <1>1, <1>2, StreamSteps

LEMMA StreamSample ==
    ASSUME CalcInv, SmState = "Runable", RunCalculations
    PROVE  Ideal!Next
<1>1. PICK F : Furthest(calcs, delay, F) /\ F < maxBuffering BY FurthestAhead
<1>2. /\ now \in Nat /\ F \in Nat /\ DOMAIN index = Range(calcs)
      /\ \A s \in Range(calcs) : /\ index[s] = now - delay[s].absFwd
                                 /\ delay[s].absFwd \in Nat
    BY <1>1, RunableFacts DEF Furthest
<1>3. /\ results' = RoundResults /\ now' = now + 1
      /\ index' = [s \in DOMAIN index |-> index[s] + 1]
      /\ IF UncompletedSignals THEN out' = <<>> ELSE out' = <<Row(results', MinIndexCompleted)>>
      /\ UNCHANGED <<SmState, raws, calcs, inputs>>
    BY DEF RunCalculations, tableVars
<1>4. Started' BY <1>3 DEF Started
<1>5. RowsSent = Lead(now, F) /\ (UncompletedSignals <=> now < F)
      /\ (~ UncompletedSignals => MinIndexCompleted = now - F)
    BY <1>1, RowsCounted
<1>6. RowsSent' = Lead(now + 1, F)
  <2>1. PICK t, idx : t = now + 1 /\ idx = index' OBVIOUS
  <2>2. \A s \in Range(calcs) : delay[s].absFwd \in Nat /\ idx[s] = t - delay[s].absFwd
      BY <1>2, <1>3, <2>1
  <2>3. t \in Nat BY <1>2, <2>1
  <2>4. Count(calcs, idx, t, F) BY <1>1, <2>2, <2>3, Counted
  <2>5. RowsSent' = IF \E s \in Range(calcs) : idx[s] < 0 THEN 0
                    ELSE Min({t} \cup {idx[s] : s \in Range(calcs)})
    <3>1. now' # 0 BY <1>2, <1>3
    <3> QED BY <1>3, <1>4, <2>1, <3>1 DEF RowsSent, UncompletedSignals
  <2>6. CASE t < F BY <1>2, <2>1, <2>3, <2>4, <2>5, <2>6 DEF Lead, Count
  <2>7. CASE F <= t BY <1>2, <2>1, <2>3, <2>4, <2>5, <2>7 DEF Lead, Count
  <2> QED BY <1>2, <2>3, <2>6, <2>7
<1>7. Ideal!Decided(now + 1) = Lead(now + 1, F) BY <1>1, <1>2, RowsDecided
<1>8. out' = Ideal!IdealRows(RowsSent, RowsSent', now + 1)
  <2>1. PICK from, to, n : from = Lead(now, F) /\ to = Lead(now + 1, F) /\ n = now + 1 OBVIOUS
  <2>2. Ideal!IdealRows(RowsSent, RowsSent', now + 1)
           = [i \in 1 .. to - from |-> Ideal!IdealRow(from + i - 1, n)]
      BY <1>5, <1>6, <2>1 DEF Ideal!IdealRows
  <2>3. CASE now < F
    <3>1. to = 0 /\ from = 0 BY <1>2, <2>1, <2>3 DEF Lead
    <3>2. 1 .. to - from = {} BY <3>1
    <3>3. [i \in 1 .. to - from |-> Ideal!IdealRow(from + i - 1, n)] = <<>> BY <3>2
    <3> QED BY <1>3, <1>5, <2>2, <2>3, <3>3
  <2>4. CASE F <= now
    <3>1. from = now - F /\ to = from + 1 /\ from \in Nat BY <1>2, <2>1, <2>4 DEF Lead
    <3>2. ~ UncompletedSignals BY <1>2, <1>5, <2>4
    <3>3. out' = <<Row(RoundResults, from)>> BY <1>3, <1>5, <3>1, <3>2
    <3>4. PICK row : row = Ideal!IdealRow(from, n) OBVIOUS
    <3>5. Row(RoundResults, from) = row BY <1>1, <2>1, <2>4, <3>1, <3>4, RunRow
    <3>6. to - from = 1 BY <3>1
    <3>7. [i \in 1 .. to - from |-> Ideal!IdealRow(from + i - 1, n)] = <<row>>
      <4>1. \A i \in 1 .. 1 : i = 1 /\ from + i - 1 = from BY <3>1
      <4>2. \A i \in 1 .. 1 : Ideal!IdealRow(from + i - 1, n) = row BY <3>4, <4>1
      <4>3. [i \in 1 .. 1 |-> Ideal!IdealRow(from + i - 1, n)] = [i \in 1 .. 1 |-> row] BY <4>2
      <4>4. [i \in 1 .. 1 |-> row] = <<row>> OBVIOUS
      <4> QED BY <3>6, <4>3, <4>4
    <3> QED BY <2>2, <3>3, <3>5, <3>7
  <2> QED BY <1>2, <2>3, <2>4
<1>9. Ideal!Sample
  <2>1. Range(raws)' = Range(raws) BY <1>3
  <2> QED BY <1>3, <1>6, <1>7, <1>8, <2>1, StreamSteps
<1> QED BY <1>9, StreamSteps

\* A flush, and the reset or the change of delays that comes with it.
LEMMA StreamReset ==
    ASSUME CalcInv, SmState = "Runable", FlushIncompleteRows, now' = 0, raws' = raws,
           DOMAIN inputs' = DOMAIN inputs
    PROVE  Ideal!Next
<1>1. PICK F : Furthest(calcs, delay, F) /\ F < maxBuffering BY FurthestAhead
<1>2. now \in Nat /\ F \in Nat BY <1>1, RunableFacts DEF Furthest
<1>3. PICK from, t : from = Lead(now, F) /\ t = now OBVIOUS
<1>4. RowsSent = from /\ FlushFrom = from BY <1>1, <1>3, RowsCounted
<1>5. Ideal!IdealRows(RowsSent, now, now)
         = [i \in 1 .. t - from |-> Ideal!IdealRow(from + i - 1, t)]
    BY <1>3, <1>4 DEF Ideal!IdealRows
<1>6. out' = IF t = 0 THEN <<>>
             ELSE [i \in 1 .. t - from |-> Row(FlushedResults, from + i - 1)]
    BY <1>3, <1>4 DEF FlushIncompleteRows
<1>7. out' = [i \in 1 .. t - from |-> Ideal!IdealRow(from + i - 1, t)]
  <2>1. CASE t = 0
    <3>1. from = 0 BY <1>2, <1>3, <2>1 DEF Lead
    <3>2. 1 .. t - from = {} BY <2>1, <3>1
    <3> QED BY <1>6, <2>1, <3>2
  <2>2. CASE t # 0
    <3>1. ASSUME NEW i \in 1 .. t - from
          PROVE  Row(FlushedResults, from + i - 1) = Ideal!IdealRow(from + i - 1, t)
      <4>1. PICK k : k = from + i - 1 OBVIOUS
      <4>2. from \in Nat BY <1>2, <1>3 DEF Lead
      <4>3. k \in Int /\ Lead(now, F) <= k /\ k < now BY <1>2, <1>3, <4>1, <4>2
      <4>4. Row(FlushedResults, k) = Ideal!IdealRow(k, now) BY <1>1, <4>3, FlushedRow
      <4> QED BY <1>3, <4>1, <4>4
    <3> QED BY <1>6, <2>2, <3>1
  <2> QED BY <2>1, <2>2
<1>8. Ideal!Reset BY <1>5, <1>7, NothingSent, StreamSteps
<1> QED BY <1>8, StreamSteps

LEMMA StreamDeclare ==
    ASSUME now = 0, now' = 0, out' = <<>>, Range(raws) \subseteq Range(raws)',
           DOMAIN inputs \subseteq DOMAIN inputs'
    PROVE  Ideal!Next
BY NothingSent, StreamSteps

LEMMA StreamAdds ==
    ASSUME CalcInv, Fresh, SmAddRawSignal \/ SmAddCalcSignal
    PROVE  Ideal!Next
<1>1. SmState = "Init" /\ now' = now /\ out' = <<>>
    BY DEF SmAddRawSignal, SmAddCalcSignal, Adding, runVars, Silent
<1>2. now = 0 BY <1>1 DEF Fresh
<1>3. Tables(app.signals, added, raws, calcs, inputs) BY <1>1 DEF CalcInv, Declared
<1>4. Range(raws) \subseteq Range(raws)'
  <2>1. CASE raws' = raws BY <2>1
  <2>2. CASE raws' # raws
    <3>1. raws' = Append(raws, NextSignal.id)
        BY <2>2 DEF SmAddRawSignal, SmAddCalcSignal, tableVars
    <3>2. PICK x : x = NextSignal.id OBVIOUS
    <3>3. PICK T : T = SignalIds \cup {x} OBVIOUS
    <3>4. raws \in Seq(T)
      <4>1. raws \in Seq(SignalIds) BY <1>3 DEF Tables
      <4> QED BY <3>3, <4>1
    <3>5. Range(Append(raws, x)) = Range(raws) \cup {x} BY <3>3, <3>4, InjectiveAppend
    <3>6. PICK rs : rs = raws' OBVIOUS
    <3> QED BY <3>1, <3>2, <3>5
  <2> QED BY <2>1, <2>2
<1>5. DOMAIN inputs \subseteq DOMAIN inputs'
    BY DEF SmAddRawSignal, SmAddCalcSignal, tableVars
<1> QED BY <1>1, <1>2, <1>4, <1>5, StreamDeclare

LEMMA StreamNext ==
    ASSUME CalcInv, Fresh, [Next]_vars
    PROVE  Ideal!Next \/ UNCHANGED Ideal!vars
<1>1. CASE SmAddRawSignal \/ SmAddCalcSignal BY <1>1, StreamAdds
<1>2. CASE SmInitCalculator
  <2>1. SmState = "Init" /\ UNCHANGED <<raws, inputs>> BY <1>2 DEF SmInitCalculator
  <2>2. now = 0 BY <2>1 DEF Fresh
  <2>3. now' = 0 /\ out' = <<>>
    <3>1. PICK L : L = TopologicalSort(inputs, raws, calcs) OBVIOUS
    <3>2. CASE ~ InputsKnown \/ SelfInput \/ ~ Sorted(raws, calcs, L)
        BY <1>2, <2>2, <3>1, <3>2 DEF SmInitCalculator, runVars, Silent
    <3>3. CASE ~ (~ InputsKnown \/ SelfInput \/ ~ Sorted(raws, calcs, L))
        BY <1>2, <3>1, <3>3 DEF SmInitCalculator, PrivateResetCalculator
    <3> QED BY <3>2, <3>3
  <2>4. Range(raws) \subseteq Range(raws)' BY <2>1
  <2> QED BY <2>1, <2>2, <2>3, <2>4, StreamDeclare
<1>3. CASE SmRunCalculations \/ RunCalculationsCallback
  <2>1. Started /\ RunCalculations BY <1>3 DEF SmRunCalculations, RunCalculationsCallback
  <2> QED BY <2>1, RunsRunable, StreamSample
<1>4. CASE SmResetCalculator
  <2>1. /\ SmState = "Runable" /\ FlushIncompleteRows /\ now' = 0
        /\ UNCHANGED <<raws, inputs>>
      BY <1>4 DEF SmResetCalculator, PrivateResetCalculator, tableVars
  <2> QED BY <2>1, StreamReset
<1>5. CASE ChangeIndicies
  <2>1. PICK e \in app.edits : SmChangeInputSignalIndicies(e) BY <1>5 DEF ChangeIndicies
  <2>2. /\ Started /\ raws' = raws /\ DOMAIN inputs' = DOMAIN inputs
      BY <2>1 DEF SmChangeInputSignalIndicies, Control
  <2>3. CASE SmState = "Runable"
    <3>1. FlushIncompleteRows /\ now' = 0
        BY <2>1, <2>3 DEF SmChangeInputSignalIndicies, PrivateResetCalculator
    <3> QED BY <2>2, <2>3, <3>1, StreamReset
  <2>4. CASE SmState = "IndexChanged"
    <3>1. now' = now /\ out' = <<>>
        BY <2>1, <2>4 DEF SmChangeInputSignalIndicies, runVars, Silent
    <3>2. now = 0 BY <2>4 DEF CalcInv, Counting
    <3>3. Range(raws) \subseteq Range(raws)' BY <2>2
    <3> QED BY <2>2, <3>1, <3>2, <3>3, StreamDeclare
  <2> QED BY <2>2, <2>3, <2>4 DEF Started
<1>6. CASE SmCalculateDelaysAndBufferingWithReset
  <2>1. /\ SmState = "IndexChanged" /\ now' = 0 /\ out' = <<>> /\ UNCHANGED <<raws, inputs>>
      BY <1>6 DEF SmCalculateDelaysAndBufferingWithReset, PrivateResetCalculator, tableVars
  <2>2. now = 0 BY <2>1 DEF CalcInv, Counting
  <2>3. Range(raws) \subseteq Range(raws)' BY <2>1
  <2> QED BY <2>1, <2>2, <2>3, StreamDeclare
<1>7. CASE \/ SmRunCalculationsAsync \/ SmAcquireInternalRunLock \/ SmReleaseInternalRunLock
           \/ ReadSomeTrigger \/ RegisterSynced \/ UnregisterSynced
           \/ SmStartSignalTrace \/ SmStopSignalTrace
  <2>1. UNCHANGED <<SmState, raws, calcs, inputs, now, index>> /\ out' = <<>>
      BY <1>7 DEF SmRunCalculationsAsync, SmAcquireInternalRunLock, SmReleaseInternalRunLock,
         ReadSomeTrigger, ReadTrigger, RegisterSynced, SmRegisterDataSyncedCallback,
         UnregisterSynced, SmUnregisterDataSyncedCallback, SmStartSignalTrace,
         SmStopSignalTrace, tableVars, runVars, Silent
  <2> QED BY <2>1, StreamQuiet
<1>8. CASE UNCHANGED vars
  <2>1. UNCHANGED <<SmState, raws, calcs, inputs, now, index, out>>
      BY <1>8 DEF vars, tableVars, runVars, history
  <2>2. RowsSent' = RowsSent BY <2>1 DEF RowsSent, Started, UncompletedSignals
  <2>3. Range(raws)' = Range(raws) BY <2>1
  <2> QED BY <2>1, <2>2, <2>3, StreamSteps
<1> QED BY <1>1, <1>2, <1>3, <1>4, <1>5, <1>6, <1>7, <1>8 DEF Next

\* Only a run counts on; a reset starts over.
LEMMA CountOn ==
    ASSUME [Next]_vars
    PROVE  \/ now' = now
           \/ now' = 0 /\ SmState' # "Init"
           \/ now' = now + 1 /\ Started /\ RunCalculations
<1>1. CASE SmInitCalculator
  <2>1. PICK L : L = TopologicalSort(inputs, raws, calcs) OBVIOUS
  <2> QED BY <1>1, <2>1 DEF SmInitCalculator, PrivateResetCalculator, runVars
<1>2. CASE ChangeIndicies
  <2>1. PICK e \in app.edits : SmChangeInputSignalIndicies(e) BY <1>2 DEF ChangeIndicies
  <2> QED BY <2>1 DEF SmChangeInputSignalIndicies, PrivateResetCalculator, runVars
<1>3. CASE SmRunCalculations \/ RunCalculationsCallback
    BY <1>3 DEF SmRunCalculations, RunCalculationsCallback, RunCalculations, runVars
<1>4. CASE SmResetCalculator \/ SmCalculateDelaysAndBufferingWithReset
    BY <1>4 DEF SmResetCalculator, SmCalculateDelaysAndBufferingWithReset,
       PrivateResetCalculator
<1>5. CASE \/ SmAddRawSignal \/ SmAddCalcSignal \/ SmRunCalculationsAsync
           \/ SmAcquireInternalRunLock \/ SmReleaseInternalRunLock \/ ReadSomeTrigger
           \/ RegisterSynced \/ UnregisterSynced \/ SmStartSignalTrace \/ SmStopSignalTrace
           \/ UNCHANGED vars
    BY <1>5 DEF SmAddRawSignal, SmAddCalcSignal, Adding, SmRunCalculationsAsync,
       SmAcquireInternalRunLock, SmReleaseInternalRunLock, ReadSomeTrigger, ReadTrigger,
       RegisterSynced, SmRegisterDataSyncedCallback, UnregisterSynced,
       SmUnregisterDataSyncedCallback, SmStartSignalTrace, SmStopSignalTrace, runVars, vars
<1> QED BY <1>1, <1>2, <1>3, <1>4, <1>5 DEF Next

LEMMA NothingBeforeInit ==
    ASSUME [Next]_vars, SmState' = "Init" PROVE SmState = "Init"
BY DEF Next, SmAddRawSignal, SmAddCalcSignal, Adding, SmInitCalculator,
   SmRunCalculations, SmRunCalculationsAsync, RunCalculationsCallback, RunCalculations,
   SmResetCalculator, SmAcquireInternalRunLock, SmReleaseInternalRunLock, Control,
   ChangeIndicies, SmChangeInputSignalIndicies, SmCalculateDelaysAndBufferingWithReset,
   ReadSomeTrigger, ReadTrigger, RegisterSynced, SmRegisterDataSyncedCallback,
   UnregisterSynced, SmUnregisterDataSyncedCallback, SmStartSignalTrace,
   SmStopSignalTrace, Started, vars

LEMMA AlwaysFresh == Spec => []Fresh
<1>1. Init => Fresh BY DEF Init, Fresh
<1>2. Fresh /\ [Next]_vars => Fresh'
  <2> SUFFICES ASSUME Fresh, [Next]_vars PROVE Fresh' OBVIOUS
  <2>1. now' \in Nat BY CountOn DEF Fresh
  <2>2. ASSUME SmState' = "Init" PROVE now' = 0
    <3>1. SmState = "Init" /\ now = 0 /\ ~ Started
        BY <2>2, NothingBeforeInit DEF Fresh, Started
    <3> QED BY <2>2, <3>1, CountOn
  <2> QED BY <2>1, <2>2 DEF Fresh
<1> QED BY <1>1, <1>2, PTL DEF Spec

(***************************************************************************)
(* The calculator implements the row stream, for any signals and delays:    *)
(* the runs and the flush deliver each row once, in order, no later than it *)
(* is decided, with a value exactly where the samples it depends on exist   *)
(* (Calculator.cpp: SmRunCalculations, FlushIncompleteRows).                *)
(***************************************************************************)
THEOREM RowsAreDelivered == Spec => RowsAreIdeal
<1>1. Init => Ideal!Init
  <2> SUFFICES ASSUME Init PROVE Ideal!Init OBVIOUS
  <2>1. raws = <<>> /\ inputs = <<>> /\ now = 0 /\ out = <<>> BY DEF Init
  <2>2. Range(raws) = {} BY <2>1 DEF Range
  <2> QED BY <2>1, <2>2, NothingSent, StreamSteps
<1>2. CalcInv /\ Fresh /\ [Next]_vars => [Ideal!Next]_(Ideal!vars) BY StreamNext
<1> QED BY <1>1, <1>2, AlwaysCalcInv, AlwaysFresh, PTL DEF Spec, RowsAreIdeal, Ideal!Spec

-----------------------------------------------------------------------------
(* The data-synced callbacks.                                               *)

Entry == [cb : Registrants, trigger : Nat, epoch : Nat]
Callbacks ==
    /\ synced \in Seq(Entry) /\ epoch \in Nat
    /\ reg \in [Registrants -> [trigger : Nat \cup {Null}, count : Nat]]

\* Some first part of the list is due, and what follows it is not.
LEMMA TriggeredPart ==
    ASSUME synced \in Seq(Entry), NEW last \in Int
    PROVE  /\ Triggered(last) \in 0 .. Len(synced)
           /\ \A i \in 1 .. Triggered(last) : synced[i].trigger <= last
<1>1. PICK n : n = Len(synced) OBVIOUS
<1>2. /\ n \in Nat
      /\ \A i \in 1 .. n : synced[i] \in Entry
      /\ \A i \in 1 .. n : synced[i].trigger \in Nat
  <2>1. n \in Nat /\ \A i \in 1 .. n : synced[i] \in Entry BY <1>1, LenProperties, ElementOfSeq
  <2> QED BY <2>1 DEF Entry
<1> DEFINE Due(m) == \A i \in 1 .. m : synced[i].trigger <= last
           P == {m \in 0 .. n : Due(m)}
<1>3. \E m \in 0 .. n : Due(m) /\ (m < n => synced[m + 1].trigger > last)
  <2>1. CASE Due(n) BY <1>2, <2>1
  <2>2. CASE ~ Due(n)
    <3>1. 0 \in P BY <1>2
    <3>2. n \notin P BY <2>2
    <3>3. PICK m \in 0 .. n - 1 : m \in P /\ m + 1 \notin P
      <4> HIDE DEF P
      <4>1. n \in 0 .. n BY <1>2
      <4>2. ASSUME \A m \in 0 .. n - 1 : m \in P => m + 1 \in P PROVE FALSE
        <5>1. \A m \in 0 .. n : m \in P BY <1>2, <3>1, <4>2, UpTo
        <5> QED BY <3>2, <4>1, <5>1
      <4> QED BY <4>2
    <3>4. m + 1 \in 0 .. n /\ Due(m) /\ ~ Due(m + 1) BY <1>2, <3>3
    <3>5. \A i \in 1 .. m + 1 : i \in 1 .. m \/ i = m + 1 BY <3>3
    <3>6. ~ (synced[m + 1].trigger <= last) BY <3>4, <3>5
    <3>7. synced[m + 1].trigger \in Nat BY <1>2, <3>3
    <3>8. synced[m + 1].trigger > last BY <3>6, <3>7
    <3> QED BY <1>2, <3>3, <3>4, <3>8
  <2> QED BY <2>1, <2>2
<1>4. /\ Triggered(last) \in 0 .. n /\ Due(Triggered(last))
    BY <1>1, <1>3 DEF Triggered
<1> QED BY <1>1, <1>4

LEMMA FiredInTime ==
    ASSUME synced \in Seq(Entry), NEW last \in Int, SendDataSyncedCallbacks(last)
    PROVE  /\ synced' \in Seq(Entry)
           /\ \A i \in DOMAIN fired' : fired'[i].trigger \in Nat /\ fired'[i].trigger <= last
<1>1. PICK n, m : n = Len(synced) /\ m = Triggered(last) OBVIOUS
<1>2. n \in Nat /\ \A i \in 1 .. n : synced[i] \in Entry
    BY <1>1, LenProperties, ElementOfSeq
<1>3. m \in 0 .. n /\ \A i \in 1 .. m : synced[i].trigger <= last BY <1>1, TriggeredPart
<1>4. fired' = SubSeq(synced, 1, m) /\ synced' = SubSeq(synced, m + 1, n)
    BY <1>1 DEF SendDataSyncedCallbacks
<1>5. synced' \in Seq(Entry)
  <2>1. \A i \in m + 1 .. n : synced[i] \in Entry BY <1>2, <1>3
  <2>2. m + 1 \in Int /\ n \in Int BY <1>2, <1>3
  <2>3. SubSeq(synced, m + 1, n) \in Seq(Entry) BY ONLY <2>1, <2>2, SubSeqProperties
  <2> QED BY <1>4, <2>3
<1>6. PICK part : part = SubSeq(synced, 1, m) OBVIOUS
<1>7. /\ part \in Seq(Entry) /\ Len(part) = (IF 1 <= m THEN m - 1 + 1 ELSE 0)
      /\ \A i \in 1 .. m - 1 + 1 : part[i] = synced[1 + i - 1]
  <2>1. \A i \in 1 .. m : synced[i] \in Entry BY <1>2, <1>3
  <2>2. 1 \in Int /\ m \in Int BY <1>3
  <2> QED BY <1>6, <2>1, <2>2, SubSeqProperties
<1>8. DOMAIN part = 1 .. m /\ \A i \in 1 .. m : part[i] = synced[i]
  <2>1. Len(part) = m BY <1>3, <1>7
  <2>2. DOMAIN part = 1 .. m BY <1>7, <2>1, LenProperties
  <2>3. \A i \in 1 .. m : i \in 1 .. m - 1 + 1 /\ 1 + i - 1 = i BY <1>3
  <2> QED BY <1>7, <2>2, <2>3
<1>9. \A i \in 1 .. m : synced[i].trigger \in Nat BY <1>2, <1>3 DEF Entry
<1> QED BY <1>3, <1>4, <1>5, <1>6, <1>8, <1>9

LEMMA SyncedRemoved ==
    ASSUME synced \in Seq(Entry), NEW i \in DOMAIN synced
    PROVE  RemoveAt(synced, i) \in Seq(Entry)
<1>1. PICK n : n = Len(synced) OBVIOUS
<1>2. n \in Nat /\ DOMAIN synced = 1 .. n /\ \A j \in 1 .. n : synced[j] \in Entry
    BY <1>1, LenProperties, ElementOfSeq
<1>3. i \in 1 .. n /\ i - 1 \in Int /\ i + 1 \in Int BY <1>2
<1>4. SubSeq(synced, 1, i - 1) \in Seq(Entry) /\ SubSeq(synced, i + 1, n) \in Seq(Entry)
  <2>1. \A j \in 1 .. i - 1 : synced[j] \in Entry BY <1>2, <1>3
  <2>2. \A j \in i + 1 .. n : synced[j] \in Entry BY <1>2, <1>3
  <2>3. 1 \in Int /\ n \in Int BY <1>2
  <2>4. SubSeq(synced, 1, i - 1) \in Seq(Entry) BY ONLY <1>3, <2>1, <2>3, SubSeqProperties
  <2>5. SubSeq(synced, i + 1, n) \in Seq(Entry) BY ONLY <1>3, <2>2, <2>3, SubSeqProperties
  <2> QED BY <2>4, <2>5
<1>5. RemoveAt(synced, i) = SubSeq(synced, 1, i - 1) \o SubSeq(synced, i + 1, n)
    BY <1>1 DEF RemoveAt
<1> QED BY <1>4, <1>5, ConcatProperties

LEMMA CallbacksKept == CalcInv /\ Callbacks /\ [Next]_vars => Callbacks'
<1> SUFFICES ASSUME CalcInv, Callbacks, [Next]_vars PROVE Callbacks' OBVIOUS
<1>1. ASSUME NEW d, NEW M, PrivateResetCalculator(d, M), epoch' \in {epoch, epoch + 1},
             reg' = reg
      PROVE  Callbacks'
  <2>1. synced' = <<>> BY <1>1 DEF PrivateResetCalculator
  <2> QED BY <1>1, <2>1, EmptySeq DEF Callbacks
<1>2. CASE UNCHANGED <<synced, reg, epoch>> BY <1>2 DEF Callbacks
<1>3. CASE SmAddRawSignal \/ SmAddCalcSignal \/ SmRunCalculationsAsync
           \/ SmAcquireInternalRunLock \/ SmReleaseInternalRunLock
           \/ SmStartSignalTrace \/ SmStopSignalTrace \/ UNCHANGED vars
    BY <1>2, <1>3 DEF SmAddRawSignal, SmAddCalcSignal, Adding, SmRunCalculationsAsync,
       SmAcquireInternalRunLock, SmReleaseInternalRunLock, SmStartSignalTrace,
       SmStopSignalTrace, callbackVars, history, vars, Silent
<1>4. CASE SmInitCalculator
  <2>1. PICK L : L = TopologicalSort(inputs, raws, calcs) OBVIOUS
  <2>2. CASE ~ InputsKnown \/ SelfInput \/ ~ Sorted(raws, calcs, L)
      BY <1>2, <1>4, <2>1, <2>2 DEF SmInitCalculator, Silent
  <2>3. CASE ~ (~ InputsKnown \/ SelfInput \/ ~ Sorted(raws, calcs, L))
      BY <1>1, <1>4, <2>1, <2>3 DEF SmInitCalculator
  <2> QED BY <2>2, <2>3
<1>5. CASE SmRunCalculations \/ RunCalculationsCallback
  <2>1. Started /\ RunCalculations BY <1>5 DEF SmRunCalculations, RunCalculationsCallback
  <2>2. SmState = "Runable" BY <2>1, RunsRunable
  <2>3. reg' = reg /\ epoch' = epoch BY <2>1, <2>2 DEF RunCalculations
  <2>4. CASE UncompletedSignals BY <1>2, <2>1, <2>2, <2>3, <2>4 DEF RunCalculations
  <2>5. CASE ~ UncompletedSignals
    <3>1. SendDataSyncedCallbacks(MinIndexCompleted) BY <2>1, <2>2, <2>5 DEF RunCalculations
    <3>2. MinIndexCompleted \in Int
      <4>1. PICK F : Furthest(calcs, delay, F) BY <2>2, FurthestAhead
      <4>2. F \in Nat /\ now \in Nat BY <2>2, <4>1, RunableFacts DEF Furthest
      <4> QED BY <2>2, <2>5, <4>1, <4>2, RowsCounted
    <3>3. synced' \in Seq(Entry) BY <3>1, <3>2, FiredInTime DEF Callbacks
    <3> QED BY <2>3, <3>3 DEF Callbacks
  <2> QED BY <2>4, <2>5
<1>6. CASE SmResetCalculator BY <1>1, <1>6 DEF SmResetCalculator
<1>7. CASE ChangeIndicies
  <2>1. PICK e \in app.edits : SmChangeInputSignalIndicies(e) BY <1>7 DEF ChangeIndicies
  <2>2. CASE SmState = "Runable" BY <1>1, <2>1, <2>2 DEF SmChangeInputSignalIndicies
  <2>3. CASE SmState # "Runable"
      BY <1>2, <2>1, <2>3 DEF SmChangeInputSignalIndicies, Silent
  <2> QED BY <2>2, <2>3
<1>8. CASE SmCalculateDelaysAndBufferingWithReset
    BY <1>1, <1>8 DEF SmCalculateDelaysAndBufferingWithReset
<1>9. CASE ReadSomeTrigger
  <2>1. PICK r \in Registrants : ReadTrigger(r) BY <1>9 DEF ReadSomeTrigger
  <2>2. now \in Nat BY <2>1 DEF ReadTrigger, CalcInv, Counting
  <2>3. /\ reg' = [reg EXCEPT ![r] = [trigger |-> now, count |-> reg[r].count + 1]]
        /\ synced' = synced /\ epoch' = epoch
      BY <2>1 DEF ReadTrigger, Silent
  <2>4. reg[r] \in [trigger : Nat \cup {Null}, count : Nat] BY DEF Callbacks
  <2>5. [trigger |-> now, count |-> reg[r].count + 1] \in [trigger : Nat \cup {Null}, count : Nat]
      BY <2>2, <2>4
  <2> QED BY <2>3, <2>5 DEF Callbacks
<1>10. CASE RegisterSynced
  <2>1. PICK r \in Registrants : SmRegisterDataSyncedCallback(r) BY <1>10 DEF RegisterSynced
  <2>2. reg[r] \in [trigger : Nat \cup {Null}, count : Nat] BY DEF Callbacks
  <2>3. reg[r].trigger \in Nat BY <2>1, <2>2 DEF SmRegisterDataSyncedCallback
  <2>4. PICK e : e = [cb |-> r, trigger |-> reg[r].trigger, epoch |-> epoch] OBVIOUS
  <2>5. e \in Entry BY <2>3, <2>4 DEF Entry, Callbacks
  <2>6. /\ synced' = Append(synced, e) /\ epoch' = epoch
        /\ reg' = [reg EXCEPT ![r].trigger = Null]
      BY <2>1, <2>4 DEF SmRegisterDataSyncedCallback, Silent
  <2>7. synced' \in Seq(Entry) BY <2>5, <2>6, AppendProperties DEF Callbacks
  <2>8. reg' \in [Registrants -> [trigger : Nat \cup {Null}, count : Nat]]
      BY <2>2, <2>6 DEF Callbacks
  <2> QED BY <2>6, <2>7, <2>8 DEF Callbacks
<1>11. CASE UnregisterSynced
  <2>1. PICK r \in Registrants : SmUnregisterDataSyncedCallback(r) BY <1>11 DEF UnregisterSynced
  <2>2. PICK i \in DOMAIN synced : synced' = RemoveAt(synced, i)
      BY <2>1 DEF SmUnregisterDataSyncedCallback
  <2>3. reg' = reg /\ epoch' = epoch BY <2>1 DEF SmUnregisterDataSyncedCallback, Silent
  <2>4. synced' \in Seq(Entry) BY <2>2, SyncedRemoved DEF Callbacks
  <2> QED BY <2>3, <2>4 DEF Callbacks
<1> QED BY <1>3, <1>4, <1>5, <1>6, <1>7, <1>8, <1>9, <1>10, <1>11 DEF Next

\* What a run does not change of the stream.
ReadyBy(ins, n) ==
    CHOOSE f : f = [p \in SignalIds \X Int |->
        /\ p[2] < n
        /\ p[1] \in DOMAIN ins =>
              \A i \in DOMAIN ins[p[1]] :
                 f[<<ins[p[1]][i].id, p[2] + ins[p[1]][i].fwd>>]]
DecidedBy(ins, signals, n) ==
    {k \in 0 .. n - 1 : \A s \in signals : ReadyBy(ins, n)[<<s, k>>]}

LEMMA DecidedKept ==
    ASSUME inputs' = inputs, raws' = raws
    PROVE  Ideal!Decided(now)' = Ideal!Decided(now')
<1>1. Ideal!Decided(now)' = Ideal!Cardinality(DecidedBy(inputs', Ideal!Signals', now'))
    BY Zenon DEF Ideal!Decided, Ideal!Ready, ReadyBy, DecidedBy
<1>2. Ideal!Decided(now') = Ideal!Cardinality(DecidedBy(inputs, Ideal!Signals, now'))
    BY Zenon DEF Ideal!Decided, Ideal!Ready, ReadyBy, DecidedBy
<1>3. Ideal!Signals' = Ideal!Signals BY DEF Ideal!Signals
<1> QED BY <1>1, <1>2, <1>3

\* Only a run fires callbacks of the epoch it is in, and those that are due.
LEMMA SyncedStep ==
    ASSUME CalcInv, Fresh, Callbacks, [Next]_vars, epoch' = epoch, now' > now,
           NEW i \in DOMAIN fired'
    PROVE  fired'[i].trigger < RowsOut'
<1>1. Started /\ RunCalculations BY CountOn DEF Fresh
<1>2. SmState = "Runable" BY <1>1, RunsRunable
<1>3. PICK F : Furthest(calcs, delay, F) BY <1>2, FurthestAhead
<1>4. F \in Nat /\ now \in Nat BY <1>2, <1>3, RunableFacts DEF Furthest
<1>5. now' = now + 1 /\ inputs' = inputs /\ raws' = raws
    BY <1>1, <1>2 DEF RunCalculations, tableVars
<1>6. ~ UncompletedSignals
  <2> SUFFICES ASSUME UncompletedSignals PROVE FALSE OBVIOUS
  <2>1. fired' = <<>> BY <1>1, <1>2 DEF RunCalculations
  <2> QED BY <2>1, EmptySeq
<1>7. SendDataSyncedCallbacks(MinIndexCompleted)
    BY <1>1, <1>2, <1>6 DEF RunCalculations
<1>8. MinIndexCompleted = now - F /\ F <= now BY <1>2, <1>3, <1>4, <1>6, RowsCounted
<1>9. PICK last : last = MinIndexCompleted OBVIOUS
<1>10. last \in Int /\ last = now - F BY <1>4, <1>8, <1>9
<1>11. SendDataSyncedCallbacks(last) BY <1>7, <1>9
<1>12. fired'[i].trigger \in Nat /\ fired'[i].trigger <= last BY <1>10, <1>11, FiredInTime DEF Callbacks
<1>13. RowsOut' = Lead(now + 1, F)
  <2>1. now' # 0 BY <1>4, <1>5
  <2>2. RowsOut' = Ideal!Decided(now)' BY <2>1 DEF RowsOut
  <2>3. PICK n : n = now + 1 OBVIOUS
  <2>4. Ideal!Decided(n) = Lead(n, F) BY <1>2, <1>3, <1>4, <2>3, RowsDecided
  <2> QED BY <1>5, <2>2, <2>3, <2>4, DecidedKept
<1>14. Lead(now + 1, F) = last + 1 BY <1>4, <1>8, <1>10 DEF Lead
<1> QED BY <1>10, <1>12, <1>13, <1>14

(***************************************************************************)
(* A data-synced callback fires in a run only when every row up to the      *)
(* index it was registered at is out (Calculator.cpp:                       *)
(* SendDataSyncedCallbacks, SmRegisterDataSyncedCallback), although that    *)
(* index is read before RunLock is taken.                                   *)
(***************************************************************************)
THEOREM CallbacksWaitForRows == Spec => SyncedNotEarly
<1>1. Init => Callbacks BY EmptySeq DEF Init, Callbacks
<1>2. CalcInv /\ Fresh /\ Callbacks /\ [Next]_vars
         => [epoch' = epoch /\ now' > now =>
                \A i \in DOMAIN fired' : fired'[i].trigger < RowsOut']_vars
    BY SyncedStep
<1> QED BY <1>1, <1>2, AlwaysCalcInv, AlwaysFresh, CallbacksKept, PTL DEF Spec, SyncedNotEarly

=============================================================================
