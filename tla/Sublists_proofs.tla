--------------------------- MODULE Sublists_proofs --------------------------
(***************************************************************************)
(* Recursion over a list, and what Sublist keeps.                           *)
(***************************************************************************)
EXTENDS Sublists, Integers, SequenceTheorems, WellFoundedInduction, TLAPS

\* What holds at 0, and at each next number, holds up to n.
LEMMA UpTo ==
    ASSUME NEW n \in Nat, NEW P, 0 \in P, \A k \in 0 .. n - 1 : k \in P => k + 1 \in P
    PROVE  \A k \in 0 .. n : k \in P
<1> DEFINE Bad == {k \in Nat : k <= n /\ k \notin P}
<1> SUFFICES ASSUME Bad # {} PROVE FALSE OBVIOUS
<1>1. PICK x \in Bad : \A y \in Bad : ~ (<<y, x>> \in OpToRel(<, Nat))
    BY NatLessThanWellFounded, WFMin
<1>2. \A y \in Bad : ~ (y < x) BY <1>1 DEF OpToRel
<1>3. x \in Nat /\ x # 0 /\ x <= n /\ x \notin P OBVIOUS
<1>7. x - 1 \in 0 .. n - 1 BY <1>3
<1>4. x - 1 \notin Bad BY <1>2, <1>3, <1>7
<1>5. x - 1 \in P BY <1>3, <1>4, <1>7
<1>6. (x - 1) + 1 \in P BY <1>5, <1>7
<1> QED BY <1>3, <1>6

\* A recursion over a list has the values of a function that follows it.
LEMMA SameRun ==
    ASSUME NEW n \in Nat, NEW f, NEW run, f[0] = run[0],
           \A k \in 1 .. n : f[k - 1] = run[k - 1] => f[k] = run[k]
    PROVE  f[n] = run[n]
<1> DEFINE P == {k \in 0 .. n : f[k] = run[k]}
<1>1. 0 \in P OBVIOUS
<1>2. ASSUME NEW k \in 0 .. n - 1, k \in P PROVE k + 1 \in P
  <2>1. k + 1 \in 1 .. n /\ k + 1 \in 0 .. n /\ (k + 1) - 1 = k OBVIOUS
  <2> QED BY <1>2, <2>1
<1>3. n \in P
  <2> HIDE DEF P
  <2> QED BY <1>1, <1>2, UpTo
<1> QED BY <1>3

\* run has the first value base and goes from each value to the next by step.
Follows(run, n, base, step) ==
    run[0] = base /\ \A i \in 1 .. n : run[i] = step[<<i, run[i - 1]>>]

\* A function given by its first value and a step from each to the next.
LEMMA Recursion ==
    ASSUME NEW T, NEW n \in Nat, NEW base \in T, NEW step \in [(1 .. n) \X T -> T]
    PROVE  \E run \in [0 .. n -> T] : Follows(run, n, base, step)
<1> DEFINE Runs(m, run) == /\ run \in [0 .. m -> T] /\ run[0] = base
                           /\ \A i \in 1 .. m : run[i] = step[<<i, run[i - 1]>>]
           P == {m \in 0 .. n : \E run : Runs(m, run)}
<1>1. 0 \in P
  <2>1. PICK run : run = [i \in 0 .. 0 |-> base] OBVIOUS
  <2>2. Runs(0, run) BY <2>1
  <2> QED BY <2>2
<1>2. ASSUME NEW m \in 0 .. n - 1, m \in P PROVE m + 1 \in P
  <2>1. PICK run : Runs(m, run) BY <1>2
  <2> DEFINE next == [i \in 0 .. m + 1 |-> IF i <= m THEN run[i] ELSE step[<<m + 1, run[m]>>]]
  <2>2. run[m] \in T /\ m + 1 \in 1 .. n BY <2>1
  <2>3. step[<<m + 1, run[m]>>] \in T BY <2>2
  <2>4. next \in [0 .. m + 1 -> T] BY <2>1, <2>3
  <2>5. next[0] = base BY <2>1
  <2>6. ASSUME NEW i \in 1 .. m + 1 PROVE next[i] = step[<<i, next[i - 1]>>]
    <3>1. i - 1 \in 0 .. m /\ next[i - 1] = run[i - 1] OBVIOUS
    <3>2. CASE i <= m BY <2>1, <3>1, <3>2
    <3>3. CASE i = m + 1
      <4>1. next[i] = step[<<m + 1, run[m]>>] /\ i - 1 = m BY <3>3
      <4> HIDE DEF next
      <4> QED BY <3>1, <3>3, <4>1
    <3> QED BY <3>2, <3>3
  <2>7. Runs(m + 1, next) BY <2>4, <2>5, <2>6
  <2>8. m + 1 \in 0 .. n OBVIOUS
  <2> QED BY <2>7, <2>8
<1> HIDE DEF P
<1>3. n \in P BY <1>1, <1>2, UpTo
<1> QED BY <1>3 DEF P, Follows

\* kept[n] is what is left of the first n elements.
Keeps(kept, list, S) ==
    /\ kept[0] = <<>>
    /\ \A n \in 1 .. Len(list) :
          kept[n] = IF list[n] \in S THEN Append(kept[n - 1], list[n]) ELSE kept[n - 1]

\* Sublist, element by element.
LEMMA SublistSteps ==
    ASSUME NEW T, NEW list \in Seq(T), NEW S
    PROVE  \E kept \in [0 .. Len(list) -> Seq(T)] :
              Keeps(kept, list, S) /\ Sublist(list, S) = kept[Len(list)]
<1> DEFINE body(f) == [n \in 0 .. Len(list) |->
                          IF n = 0 THEN <<>>
                          ELSE IF list[n] \in S THEN Append(f[n - 1], list[n]) ELSE f[n - 1]]
           step == [p \in (1 .. Len(list)) \X Seq(T) |->
                        IF list[p[1]] \in S THEN Append(p[2], list[p[1]]) ELSE p[2]]
<1>1. Len(list) \in Nat /\ \A n \in 1 .. Len(list) : list[n] \in T BY ElementOfSeq
<1>2. <<>> \in Seq(T) BY EmptySeq
<1>3. step \in [(1 .. Len(list)) \X Seq(T) -> Seq(T)] BY <1>1
<1>4. PICK run \in [0 .. Len(list) -> Seq(T)] :
          run[0] = <<>> /\ \A i \in 1 .. Len(list) : run[i] = step[<<i, run[i - 1]>>]
  <2> HIDE DEF step
  <2>1. \E run \in [0 .. Len(list) -> Seq(T)] : Follows(run, Len(list), <<>>, step)
      BY <1>1, <1>2, <1>3, Recursion
  <2> QED BY <2>1 DEF Follows
<1>5. \A n \in 1 .. Len(list) : run[n] = IF list[n] \in S THEN Append(run[n - 1], list[n])
                                         ELSE run[n - 1]
  <2> SUFFICES ASSUME NEW n \in 1 .. Len(list)
               PROVE  run[n] = IF list[n] \in S THEN Append(run[n - 1], list[n])
                               ELSE run[n - 1]
      OBVIOUS
  <2>1. n - 1 \in 0 .. Len(list) BY <1>1
  <2>2. run[n - 1] \in Seq(T) BY <2>1
  <2>3. <<n, run[n - 1]>> \in (1 .. Len(list)) \X Seq(T) BY <2>2
  <2> QED BY <1>4, <2>3
<1>6. run = body(run)
  <2>1. \A n \in 0 .. Len(list) : n # 0 => n \in 1 .. Len(list) BY <1>1
  <2>2. \A n \in 0 .. Len(list) :
           run[n] = IF n = 0 THEN <<>>
                    ELSE IF list[n] \in S THEN Append(run[n - 1], list[n]) ELSE run[n - 1]
      BY <1>4, <1>5, <2>1
  <2> QED BY <2>2
<1> DEFINE kept == CHOOSE f : f = body(f)
<1>7. kept = body(kept) BY <1>6
<1>8. Sublist(list, S) = kept[Len(list)] BY DEF Sublist
<1> HIDE DEF kept
<1>9. \A n \in 0 .. Len(list) : kept[n] = run[n]
  <2> DEFINE P == {k \in 0 .. Len(list) : kept[k] = run[k]}
  <2>1. 0 \in P BY <1>1, <1>4, <1>7
  <2>2. ASSUME NEW k \in 0 .. Len(list) - 1, k \in P PROVE k + 1 \in P
    <3>1. k + 1 \in 1 .. Len(list) /\ (k + 1) - 1 = k /\ k + 1 # 0 BY <1>1
    <3>2. \A n \in 1 .. Len(list) :
             kept[n] = IF list[n] \in S THEN Append(kept[n - 1], list[n]) ELSE kept[n - 1]
      <4>1. \A n \in 1 .. Len(list) : n # 0 /\ n \in 0 .. Len(list) BY <1>1
      <4>2. \A n \in 0 .. Len(list) : kept[n] = body(kept)[n] BY <1>7
      <4> QED BY <4>1, <4>2
    <3>3. kept[k + 1] = IF list[k + 1] \in S THEN Append(kept[k], list[k + 1]) ELSE kept[k]
        BY <3>1, <3>2
    <3> QED BY <1>5, <2>2, <3>1, <3>3
  <2> QED BY <1>1, <2>1, <2>2, UpTo
<1>10. Sublist(list, S) = run[Len(list)] BY <1>1, <1>8, <1>9
<1>11. Keeps(run, list, S) BY <1>4, <1>5 DEF Keeps
<1> QED BY <1>4, <1>10, <1>11

\* sub holds, at increasing positions pos of list up to n, what is in S there.
Places(sub, list, n, S, pos) ==
    /\ pos \in [1 .. Len(sub) -> 1 .. n]
    /\ \A i, j \in 1 .. Len(sub) : i < j => pos[i] < pos[j]
    /\ \A i \in 1 .. Len(sub) : sub[i] = list[pos[i]] /\ list[pos[i]] \in S
    /\ \A a \in 1 .. n : list[a] \in S => \E i \in 1 .. Len(sub) : pos[i] = a

LEMMA SublistPlaces ==
    ASSUME NEW T, NEW list \in Seq(T), NEW S
    PROVE  /\ Sublist(list, S) \in Seq(T)
           /\ \E pos : Places(Sublist(list, S), list, Len(list), S, pos)
<1>0. PICK kept \in [0 .. Len(list) -> Seq(T)] :
          Keeps(kept, list, S) /\ Sublist(list, S) = kept[Len(list)]
    BY SublistSteps
<1>1. /\ kept[0] = <<>>
      /\ \A n \in 1 .. Len(list) :
            kept[n] = IF list[n] \in S THEN Append(kept[n - 1], list[n]) ELSE kept[n - 1]
      /\ Sublist(list, S) = kept[Len(list)]
    BY <1>0 DEF Keeps
<1>2. Len(list) \in Nat /\ \A n \in 1 .. Len(list) : list[n] \in T BY ElementOfSeq
<1> DEFINE P == {n \in 0 .. Len(list) : \E pos : Places(kept[n], list, n, S, pos)}
<1>3. 0 \in P
  <2>1. PICK pos : pos = [i \in 1 .. 0 |-> 0] OBVIOUS
  <2>2. Len(kept[0]) = 0 BY <1>1
  <2>3. Places(kept[0], list, 0, S, pos) BY <2>1, <2>2 DEF Places
  <2> QED BY <1>2, <2>3
<1>4. ASSUME NEW n \in 0 .. Len(list) - 1, n \in P PROVE n + 1 \in P
  <2>1. n + 1 \in 1 .. Len(list) /\ (n + 1) - 1 = n /\ n \in Nat /\ n + 1 \in 0 .. Len(list)
      BY <1>2
  <2>2. PICK pos : Places(kept[n], list, n, S, pos) BY <1>4
  <2>3. kept[n] \in Seq(T) /\ Len(kept[n]) \in Nat BY <1>1, <2>1
  <2>4. CASE list[n + 1] \notin S
    <3>1. kept[n + 1] = kept[n] BY <1>1, <2>1, <2>4
    <3>2. Places(kept[n], list, n + 1, S, pos) BY <2>1, <2>2, <2>3, <2>4 DEF Places
    <3> QED BY <2>1, <3>1, <3>2
  <2>5. CASE list[n + 1] \in S
    <3>1. kept[n + 1] = Append(kept[n], list[n + 1]) BY <1>1, <2>1, <2>5
    <3> DEFINE m == Len(kept[n])
    <3>2. /\ Len(kept[n + 1]) = m + 1 /\ kept[n + 1][m + 1] = list[n + 1]
          /\ \A i \in 1 .. m : kept[n + 1][i] = kept[n][i]
        BY <1>2, <2>1, <2>3, <3>1, AppendProperties
    <3>3. PICK next : next = [i \in 1 .. m + 1 |-> IF i <= m THEN pos[i] ELSE n + 1] OBVIOUS
    <3>11. m \in Nat /\ \A i \in 1 .. m : pos[i] \in 1 .. n BY <2>2, <2>3 DEF Places
    <3> HIDE DEF m
    <3>12. \A i \in 1 .. m : i \in 1 .. m + 1 /\ i <= m BY <3>11
    <3>4. m \in Nat /\ \A i \in 1 .. m : pos[i] \in 1 .. n /\ next[i] = pos[i] /\ i \in 1 .. m + 1
        BY <3>3, <3>11, <3>12
    <3>5. next[m + 1] = n + 1 BY <3>3, <3>11
    <3>13. \A i \in 1 .. m + 1 : (IF i <= m THEN pos[i] ELSE n + 1) \in 1 .. n + 1
        BY <2>1, <3>11
    <3>6. next \in [1 .. m + 1 -> 1 .. n + 1] BY <3>3, <3>13
    <3>7. \A i, j \in 1 .. m + 1 : i < j => next[i] < next[j]
      <4> TAKE i, j \in 1 .. m + 1
      <4> HAVE i < j
      <4>1. i \in 1 .. m BY <3>4
      <4>2. CASE j = m + 1 BY <2>1, <3>4, <3>5, <4>1, <4>2
      <4>3. CASE j \in 1 .. m
        <5>1. pos[i] < pos[j] BY <2>2, <4>1, <4>3 DEF Places, m
        <5> QED BY <3>4, <4>1, <4>3, <5>1
      <4> QED BY <3>4, <4>2, <4>3
    <3>8. \A i \in 1 .. m + 1 : kept[n + 1][i] = list[next[i]] /\ list[next[i]] \in S
      <4> TAKE i \in 1 .. m + 1
      <4>1. CASE i = m + 1 BY <2>5, <3>2, <3>5, <4>1
      <4>2. CASE i \in 1 .. m
        <5>1. kept[n][i] = list[pos[i]] /\ list[pos[i]] \in S BY <2>2, <4>2 DEF Places, m
        <5> QED BY <3>2, <3>4, <4>2, <5>1
      <4> QED BY <3>4, <4>1, <4>2
    <3>9. \A a \in 1 .. n + 1 : list[a] \in S => \E i \in 1 .. m + 1 : next[i] = a
      <4> TAKE a \in 1 .. n + 1
      <4> HAVE list[a] \in S
      <4>1. CASE a = n + 1 BY <3>4, <3>5, <4>1
      <4>2. CASE a \in 1 .. n
        <5>1. PICK i \in 1 .. m : pos[i] = a BY <2>2, <4>2 DEF Places, m
        <5> QED BY <3>4, <5>1
      <4> QED BY <2>1, <4>1, <4>2
    <3>10. Places(kept[n + 1], list, n + 1, S, next)
        BY <3>2, <3>6, <3>7, <3>8, <3>9 DEF Places, m
    <3> QED BY <2>1, <3>10
  <2> QED BY <2>4, <2>5
<1> HIDE DEF P
<1>5. \A k \in 0 .. Len(list) : k \in P BY <1>2, <1>3, <1>4, UpTo
<1>6. Len(list) \in P BY <1>2, <1>5
<1>7. Len(list) \in 0 .. Len(list) BY <1>2
<1> QED BY <1>1, <1>6, <1>7 DEF P

-----------------------------------------------------------------------------
(* Lists in which nothing occurs twice.                                     *)

LEMMA RangeIndex ==
    ASSUME NEW T, NEW list \in Seq(T)
    PROVE  /\ \A x \in Range(list) : x \in T /\ \E i \in 1 .. Len(list) : list[i] = x
           /\ \A i \in 1 .. Len(list) : list[i] \in Range(list)
           /\ Range(list) \subseteq T
BY RangeEquality, ElementOfSeq

LEMMA InjectiveIndex ==
    ASSUME NEW T, NEW list \in Seq(T)
    PROVE  IsInjective(list) <=>
              \A i, j \in 1 .. Len(list) : list[i] = list[j] => i = j
BY LenProperties DEF IsInjective

\* What is kept is what the list has of S, each as often.
LEMMA SublistKeeps ==
    ASSUME NEW T, NEW list \in Seq(T), NEW S
    PROVE  /\ Sublist(list, S) \in Seq(T)
           /\ Range(Sublist(list, S)) = Range(list) \cap S
           /\ IsInjective(list) => IsInjective(Sublist(list, S))
<1>1. Sublist(list, S) \in Seq(T) /\ \E pos : Places(Sublist(list, S), list, Len(list), S, pos)
    BY SublistPlaces
<1>2. PICK sub : sub = Sublist(list, S) OBVIOUS
<1>3. PICK pos : Places(sub, list, Len(list), S, pos) BY <1>1, <1>2
<1>4. sub \in Seq(T) /\ Len(sub) \in Nat /\ Len(list) \in Nat BY <1>1, <1>2
<1>5. Range(sub) \subseteq Range(list) \cap S
  <2>1. ASSUME NEW x \in Range(sub) PROVE x \in Range(list) \cap S
    <3>1. PICK i \in 1 .. Len(sub) : sub[i] = x BY <1>4, RangeIndex
    <3>2. pos[i] \in 1 .. Len(list) /\ x = list[pos[i]] /\ x \in S BY <1>3, <3>1 DEF Places
    <3> QED BY <3>2, RangeIndex
  <2> QED BY <2>1
<1>6. Range(list) \cap S \subseteq Range(sub)
  <2>1. ASSUME NEW x \in Range(list), x \in S PROVE x \in Range(sub)
    <3>1. PICK a \in 1 .. Len(list) : list[a] = x BY RangeIndex
    <3>2. PICK i \in 1 .. Len(sub) : pos[i] = a BY <1>3, <2>1, <3>1 DEF Places
    <3>3. sub[i] = x BY <1>3, <3>1, <3>2 DEF Places
    <3> QED BY <1>4, <3>3, RangeIndex
  <2> QED BY <2>1
<1>7. ASSUME IsInjective(list) PROVE IsInjective(sub)
  <2>1. \A a, b \in 1 .. Len(list) : list[a] = list[b] => a = b BY <1>7, InjectiveIndex
  <2>2. ASSUME NEW i \in 1 .. Len(sub), NEW j \in 1 .. Len(sub), sub[i] = sub[j] PROVE i = j
    <3>1. /\ pos[i] \in 1 .. Len(list) /\ pos[j] \in 1 .. Len(list)
          /\ sub[i] = list[pos[i]] /\ sub[j] = list[pos[j]]
          /\ (i < j => pos[i] < pos[j]) /\ (j < i => pos[j] < pos[i])
        BY <1>3 DEF Places
    <3>2. pos[i] = pos[j] BY <2>1, <2>2, <3>1
    <3> QED BY <3>1, <3>2
  <2> QED BY <1>4, <2>2, InjectiveIndex
<1> QED BY <1>1, <1>2, <1>5, <1>6, <1>7

\* What follows something in the sublist follows it in the list.
LEMMA SublistOrder ==
    ASSUME NEW T, NEW list \in Seq(T), NEW S, IsInjective(list),
           NEW i \in 1 .. Len(Sublist(list, S)), NEW j \in 1 .. Len(Sublist(list, S)),
           NEW a \in 1 .. Len(list), NEW b \in 1 .. Len(list), a < b,
           Sublist(list, S)[i] = list[a], Sublist(list, S)[j] = list[b]
    PROVE  i < j
<1>1. PICK sub : sub = Sublist(list, S) OBVIOUS
<1>2. PICK pos : Places(sub, list, Len(list), S, pos) BY <1>1, SublistPlaces
<1>3. /\ pos[i] \in 1 .. Len(list) /\ pos[j] \in 1 .. Len(list)
      /\ sub[i] = list[pos[i]] /\ sub[j] = list[pos[j]]
      /\ (j < i => pos[j] < pos[i])
    BY <1>1, <1>2 DEF Places
<1>4. \A c, d \in 1 .. Len(list) : list[c] = list[d] => c = d BY InjectiveIndex
<1>5. pos[i] = a /\ pos[j] = b BY <1>1, <1>3, <1>4
<1>6. i \in Int /\ j \in Int /\ a \in Int /\ b \in Int OBVIOUS
<1> QED BY <1>3, <1>5, <1>6

LEMMA InjectiveAppend ==
    ASSUME NEW T, NEW list \in Seq(T), NEW x \in T
    PROVE  /\ Range(Append(list, x)) = Range(list) \cup {x}
           /\ IsInjective(Append(list, x)) <=> IsInjective(list) /\ x \notin Range(list)
<1>1. PICK longer : longer = Append(list, x) OBVIOUS
<1>2. /\ longer \in Seq(T) /\ Len(longer) = Len(list) + 1 /\ Len(list) \in Nat
      /\ longer[Len(list) + 1] = x /\ \A i \in 1 .. Len(list) : longer[i] = list[i]
    BY <1>1, AppendProperties
<1>3. \A i \in 1 .. Len(longer) : i \in 1 .. Len(list) \/ i = Len(list) + 1 BY <1>2
<1>6. \A i \in 1 .. Len(list) : i \in 1 .. Len(longer) /\ i # Len(list) + 1 BY <1>2
<1>7. Len(list) + 1 \in 1 .. Len(longer) BY <1>2
<1>4. Range(longer) = Range(list) \cup {x}
  <2>1. Range(longer) = {longer[i] : i \in 1 .. Len(longer)} BY <1>2, RangeEquality
  <2>2. Range(list) = {list[i] : i \in 1 .. Len(list)} BY RangeEquality
  <2> QED BY <1>2, <1>3, <1>6, <1>7, <2>1, <2>2
<1>5. IsInjective(longer) <=> IsInjective(list) /\ x \notin Range(list)
  <2>1. IsInjective(longer) <=> \A i, j \in 1 .. Len(longer) : longer[i] = longer[j] => i = j
      BY <1>2, InjectiveIndex
  <2>2. IsInjective(list) <=> \A i, j \in 1 .. Len(list) : list[i] = list[j] => i = j
      BY InjectiveIndex
  <2>3. x \in Range(list) <=> \E i \in 1 .. Len(list) : list[i] = x BY RangeIndex
  <2> QED BY <1>2, <1>3, <1>6, <1>7, <2>1, <2>2, <2>3
<1> QED BY <1>1, <1>4, <1>5

LEMMA InjectiveConcat ==
    ASSUME NEW T, NEW s \in Seq(T), NEW t \in Seq(T)
    PROVE  IsInjective(s \o t) <=>
              IsInjective(s) /\ IsInjective(t) /\ Range(s) \cap Range(t) = {}
<1>1. PICK both : both = s \o t OBVIOUS
<1>2. /\ both \in Seq(T) /\ Len(both) = Len(s) + Len(t) /\ Len(s) \in Nat /\ Len(t) \in Nat
      /\ \A i \in 1 .. Len(s) + Len(t) : both[i] = IF i <= Len(s) THEN s[i] ELSE t[i - Len(s)]
    BY <1>1, ConcatProperties
<1>3. \A i \in 1 .. Len(both) : \/ i \in 1 .. Len(s) /\ both[i] = s[i]
                                \/ i - Len(s) \in 1 .. Len(t) /\ both[i] = t[i - Len(s)]
    BY <1>2
<1>4. \A i \in 1 .. Len(s) : i \in 1 .. Len(both) /\ both[i] = s[i] BY <1>2
<1>5. \A i \in 1 .. Len(t) : i + Len(s) \in 1 .. Len(both) /\ both[i + Len(s)] = t[i]
  <2> TAKE i \in 1 .. Len(t)
  <2>1. i + Len(s) \in 1 .. Len(both) /\ ~ (i + Len(s) <= Len(s)) /\ (i + Len(s)) - Len(s) = i
      BY <1>2
  <2> QED BY <1>2, <2>1
<1>6. IsInjective(both) <=> \A i, j \in 1 .. Len(both) : both[i] = both[j] => i = j
    BY <1>2, InjectiveIndex
<1>7. IsInjective(s) <=> \A i, j \in 1 .. Len(s) : s[i] = s[j] => i = j BY InjectiveIndex
<1>8. IsInjective(t) <=> \A i, j \in 1 .. Len(t) : t[i] = t[j] => i = j BY InjectiveIndex
<1>9. /\ \A x \in Range(s) : \E i \in 1 .. Len(s) : s[i] = x
      /\ \A i \in 1 .. Len(s) : s[i] \in Range(s)
      /\ \A x \in Range(t) : \E i \in 1 .. Len(t) : t[i] = x
      /\ \A i \in 1 .. Len(t) : t[i] \in Range(t)
    BY RangeIndex
<1>10. ASSUME IsInjective(both)
       PROVE  IsInjective(s) /\ IsInjective(t) /\ Range(s) \cap Range(t) = {}
  <2>1. IsInjective(s) BY <1>4, <1>6, <1>7, <1>10
  <2>2. ASSUME NEW i \in 1 .. Len(t), NEW j \in 1 .. Len(t), t[i] = t[j] PROVE i = j
    <3>1. i + Len(s) = j + Len(s) BY <1>5, <1>6, <1>10, <2>2
    <3> QED BY <1>2, <3>1
  <2>3. ASSUME NEW x \in Range(s), x \in Range(t) PROVE FALSE
    <3>1. PICK i \in 1 .. Len(s) : s[i] = x BY <1>9
    <3>2. PICK j \in 1 .. Len(t) : t[j] = x BY <1>9, <2>3
    <3>3. i = j + Len(s) BY <1>4, <1>5, <1>6, <1>10, <3>1, <3>2
    <3> QED BY <1>2, <3>3
  <2> QED BY <1>8, <2>1, <2>2, <2>3
<1>11. ASSUME IsInjective(s), IsInjective(t), Range(s) \cap Range(t) = {}
       PROVE  IsInjective(both)
  <2>1. ASSUME NEW i \in 1 .. Len(both), NEW j \in 1 .. Len(both), both[i] = both[j]
        PROVE  i = j
    <3>1. CASE i \in 1 .. Len(s) /\ j \in 1 .. Len(s) BY <1>4, <1>7, <1>11, <2>1, <3>1
    <3>2. CASE i \in 1 .. Len(s) /\ j \notin 1 .. Len(s)
        BY <1>3, <1>4, <1>9, <1>11, <2>1, <3>2
    <3>3. CASE i \notin 1 .. Len(s) /\ j \in 1 .. Len(s)
        BY <1>3, <1>4, <1>9, <1>11, <2>1, <3>3
    <3>4. CASE i \notin 1 .. Len(s) /\ j \notin 1 .. Len(s)
      <4>1. i - Len(s) = j - Len(s) BY <1>3, <1>8, <1>11, <2>1, <3>4
      <4> QED BY <1>2, <4>1
    <3> QED BY <3>1, <3>2, <3>3, <3>4
  <2> QED BY <1>6, <2>1
<1> QED BY <1>1, <1>10, <1>11

LEMMA InjectiveTail ==
    ASSUME NEW T, NEW list \in Seq(T), list # <<>>
    PROVE  /\ Range(list) = {Head(list)} \cup Range(Tail(list))
           /\ IsInjective(list) => IsInjective(Tail(list)) /\ Head(list) \notin Range(Tail(list))
<1>1. PICK rest : rest = Tail(list) OBVIOUS
<1>2. /\ rest \in Seq(T) /\ Len(rest) = Len(list) - 1 /\ Len(list) \in Nat \ {0}
      /\ \A i \in 1 .. Len(rest) : rest[i] = list[i + 1]
      /\ Head(list) = list[1]
    BY <1>1, HeadTailProperties, EmptySeq
<1>3. \A i \in 1 .. Len(list) : i = 1 \/ (i - 1 \in 1 .. Len(rest) /\ rest[i - 1] = list[i])
  <2> TAKE i \in 1 .. Len(list)
  <2> SUFFICES ASSUME i # 1 PROVE i - 1 \in 1 .. Len(rest) /\ rest[i - 1] = list[i] OBVIOUS
  <2>1. i - 1 \in 1 .. Len(rest) /\ (i - 1) + 1 = i BY <1>2
  <2> QED BY <1>2, <2>1
<1>4. \A i \in 1 .. Len(rest) : i + 1 \in 1 .. Len(list) /\ i + 1 # 1 BY <1>2
<1>5. 1 \in 1 .. Len(list) BY <1>2
<1>6. /\ \A x \in Range(rest) : \E i \in 1 .. Len(rest) : rest[i] = x
      /\ \A i \in 1 .. Len(rest) : rest[i] \in Range(rest)
      /\ \A x \in Range(list) : \E i \in 1 .. Len(list) : list[i] = x
      /\ \A i \in 1 .. Len(list) : list[i] \in Range(list)
    BY <1>2, RangeIndex
<1>7. Range(list) = {Head(list)} \cup Range(rest)
  <2>1. ASSUME NEW x \in Range(list) PROVE x \in {Head(list)} \cup Range(rest)
    <3>1. PICK i \in 1 .. Len(list) : list[i] = x BY <1>6
    <3>2. CASE i = 1 BY <1>2, <3>1, <3>2
    <3>3. CASE i # 1
      <4>1. i - 1 \in 1 .. Len(rest) /\ rest[i - 1] = x BY <1>3, <3>1, <3>3
      <4> QED BY <1>6, <4>1
    <3> QED BY <3>2, <3>3
  <2>2. {Head(list)} \cup Range(rest) \subseteq Range(list) BY <1>2, <1>4, <1>5, <1>6
  <2> QED BY <2>1, <2>2
<1>8. ASSUME IsInjective(list) PROVE IsInjective(rest) /\ Head(list) \notin Range(rest)
  <2>1. \A i, j \in 1 .. Len(list) : list[i] = list[j] => i = j BY <1>8, InjectiveIndex
  <2>2. ASSUME NEW i \in 1 .. Len(rest), NEW j \in 1 .. Len(rest), rest[i] = rest[j]
        PROVE  i = j
    <3>1. i + 1 = j + 1 BY <1>2, <1>4, <2>1, <2>2
    <3> QED BY <3>1
  <2>3. Head(list) \notin Range(rest) BY <1>2, <1>4, <1>5, <1>6, <2>1
  <2> QED BY <1>2, <2>2, <2>3, InjectiveIndex
<1> QED BY <1>1, <1>7, <1>8

-----------------------------------------------------------------------------
LEMMA SublistOfNone == \A S : Sublist(<<>>, S) = <<>>
<1> SUFFICES ASSUME NEW S PROVE Sublist(<<>>, S) = <<>> OBVIOUS
<1>1. <<>> \in Seq({}) /\ Len(<<>>) = 0 BY EmptySeq
<1>2. PICK kept \in [0 .. Len(<<>>) -> Seq({})] :
          Keeps(kept, <<>>, S) /\ Sublist(<<>>, S) = kept[Len(<<>>)]
    BY <1>1, SublistSteps
<1> QED BY <1>1, <1>2 DEF Keeps

LEMMA SublistConcat ==
    ASSUME NEW T, NEW a \in Seq(T), NEW b \in Seq(T), NEW S
    PROVE  Sublist(a \o b, S) = Sublist(a, S) \o Sublist(b, S)
<1>1. PICK m, n, ab : m = Len(a) /\ n = Len(b) /\ ab = a \o b OBVIOUS
<1>2. /\ m \in Nat /\ n \in Nat /\ ab \in Seq(T) /\ Len(ab) = m + n
      /\ \A i \in 1 .. m : ab[i] = a[i] /\ a[i] \in T
      /\ \A i \in 1 .. n : ab[m + i] = b[i] /\ b[i] \in T
  <2>1. /\ m \in Nat /\ n \in Nat /\ ab \in Seq(T) /\ Len(ab) = m + n
        /\ \A i \in 1 .. m + n : ab[i] = IF i <= m THEN a[i] ELSE b[i - m]
      BY <1>1, ConcatProperties, LenProperties
  <2>2. \A i \in 1 .. m : i \in 1 .. m + n /\ i <= m BY <2>1
  <2>3. \A i \in 1 .. n : m + i \in 1 .. m + n /\ ~ (m + i <= m) /\ (m + i) - m = i BY <2>1
  <2> QED BY <1>1, <2>1, <2>2, <2>3, ElementOfSeq
<1>3. PICK ka \in [0 .. m -> Seq(T)] : Keeps(ka, a, S) /\ Sublist(a, S) = ka[m]
    BY <1>1, SublistSteps
<1>4. PICK kb \in [0 .. n -> Seq(T)] : Keeps(kb, b, S) /\ Sublist(b, S) = kb[n]
    BY <1>1, SublistSteps
<1>5. PICK k \in [0 .. m + n -> Seq(T)] : Keeps(k, ab, S) /\ Sublist(ab, S) = k[m + n]
  <2>1. ab \in Seq(T) /\ Len(ab) = m + n BY <1>2
  <2>2. \E k \in [0 .. Len(ab) -> Seq(T)] : Keeps(k, ab, S) /\ Sublist(ab, S) = k[Len(ab)]
      BY ONLY <2>1, SublistSteps
  <2> QED BY <2>1, <2>2
<1>6. \A i \in 1 .. m :
         /\ ka[i] = IF a[i] \in S THEN Append(ka[i - 1], a[i]) ELSE ka[i - 1]
         /\ k[i] = IF a[i] \in S THEN Append(k[i - 1], a[i]) ELSE k[i - 1]
  <2>1. \A i \in 1 .. m : i \in 1 .. m + n BY <1>2
  <2> QED BY <1>1, <1>2, <1>3, <1>5, <2>1 DEF Keeps
<1>7. \A i \in 1 .. n :
         /\ kb[i] = IF b[i] \in S THEN Append(kb[i - 1], b[i]) ELSE kb[i - 1]
         /\ k[m + i] = IF b[i] \in S THEN Append(k[m + (i - 1)], b[i]) ELSE k[m + (i - 1)]
  <2>1. \A i \in 1 .. n : m + i \in 1 .. m + n /\ (m + i) - 1 = m + (i - 1) BY <1>2
  <2> QED BY <1>1, <1>2, <1>4, <1>5, <2>1 DEF Keeps
<1>8. ka[0] = <<>> /\ kb[0] = <<>> /\ k[0] = <<>> BY <1>3, <1>4, <1>5 DEF Keeps
<1>9. \A i \in 0 .. m : k[i] = ka[i]
  <2> DEFINE P == {i \in 0 .. m : k[i] = ka[i]}
  <2>1. 0 \in P BY <1>2, <1>8
  <2>2. ASSUME NEW i \in 0 .. m - 1, i \in P PROVE i + 1 \in P
    <3>1. i + 1 \in 1 .. m /\ (i + 1) - 1 = i BY <1>2
    <3> QED BY <1>6, <2>2, <3>1
  <2> HIDE DEF P
  <2>3. \A i \in 0 .. m : i \in P BY <1>2, <2>1, <2>2, UpTo
  <2> QED BY <2>3 DEF P
<1>10. \A i \in 0 .. n : k[m + i] = ka[m] \o kb[i]
  <2>1. ka[m] \in Seq(T) /\ \A i \in 0 .. n : kb[i] \in Seq(T)
    <3>1. m \in 0 .. m BY <1>2
    <3> QED BY <3>1
  <2> DEFINE P == {i \in 0 .. n : k[m + i] = ka[m] \o kb[i]}
  <2>2. 0 \in P
    <3>1. m \in 0 .. m /\ m + 0 = m /\ 0 \in 0 .. n BY <1>2
    <3>2. ka[m] \o <<>> = ka[m] BY <2>1, ConcatEmptySeq
    <3> QED BY <1>8, <1>9, <3>1, <3>2
  <2>3. ASSUME NEW i \in 0 .. n - 1, i \in P PROVE i + 1 \in P
    <3>1. i + 1 \in 1 .. n /\ (i + 1) - 1 = i /\ i \in 0 .. n /\ i + 1 \in 0 .. n BY <1>2
    <3>2. PICK x, u, v : x = b[i + 1] /\ u = ka[m] /\ v = kb[i] OBVIOUS
    <3>3. x \in T /\ u \in Seq(T) /\ v \in Seq(T) BY <1>2, <2>1, <3>1, <3>2
    <3>4. Append(u \o v, x) = u \o Append(v, x)
      <4>1. PICK one, uv : one = <<x>> /\ uv = u \o v OBVIOUS
      <4>2. one \in Seq(T) /\ uv \in Seq(T) /\ u \in Seq(T) /\ v \in Seq(T)
          BY <3>3, <4>1, ConcatProperties
      <4>5. \A p, q, r \in Seq(T) : (p \o q) \o r = p \o (q \o r) BY ONLY ConcatAssociative
      <4>3. (u \o v) \o one = u \o (v \o one) BY <4>2, <4>5
      <4>4. Append(uv, x) = uv \o one /\ Append(v, x) = v \o one
          BY <3>3, <4>1, <4>2, AppendIsConcat
      <4> QED BY <4>1, <4>3, <4>4
    <3>5. k[m + i] = u \o v BY <2>3, <3>2
    <3>6. kb[i + 1] = IF x \in S THEN Append(v, x) ELSE v BY <1>7, <3>1, <3>2
    <3>7. k[m + (i + 1)] = IF x \in S THEN Append(u \o v, x) ELSE u \o v
        BY <1>7, <3>1, <3>2, <3>5
    <3>8. k[m + (i + 1)] = u \o kb[i + 1] BY <3>4, <3>6, <3>7
    <3> QED BY <3>1, <3>2, <3>8
  <2> HIDE DEF P
  <2>4. \A i \in 0 .. n : i \in P BY <1>2, <2>2, <2>3, UpTo
  <2> QED BY <2>4 DEF P
<1>11. n \in 0 .. n BY <1>2
<1> QED BY <1>1, <1>3, <1>4, <1>5, <1>10, <1>11

LEMMA SublistOfOne ==
    ASSUME NEW x, NEW S
    PROVE  Sublist(<<x>>, S) = IF x \in S THEN <<x>> ELSE <<>>
<1>1. <<x>> \in Seq({x}) /\ Len(<<x>>) = 1 /\ <<x>>[1] = x OBVIOUS
<1>2. PICK one, len : one = <<x>> /\ len = Len(one) OBVIOUS
<1>3. PICK kept \in [0 .. len -> Seq({x})] : Keeps(kept, one, S) /\ Sublist(one, S) = kept[len]
  <2>1. PICK T : T = {x} OBVIOUS
  <2>2. one \in Seq(T) BY <1>1, <1>2, <2>1
  <2>3. \E k \in [0 .. Len(one) -> Seq(T)] : Keeps(k, one, S) /\ Sublist(one, S) = k[Len(one)]
      BY ONLY <2>2, SublistSteps
  <2> QED BY <1>2, <2>1, <2>3
<1>4. /\ kept[0] = <<>> /\ Sublist(<<x>>, S) = kept[1]
      /\ kept[1] = IF x \in S THEN Append(kept[0], x) ELSE kept[0]
    BY <1>1, <1>2, <1>3 DEF Keeps
<1>5. Append(<<>>, x) = <<x>> OBVIOUS
<1> QED BY <1>4, <1>5

\* A sublist of a sublist.
LEMMA SublistTwice ==
    ASSUME NEW T, NEW list \in Seq(T), NEW K, NEW S
    PROVE  Sublist(Sublist(list, K), S) = Sublist(list, K \cap S)
<1>1. PICK n : n = Len(list) OBVIOUS
<1>2. n \in Nat /\ \A i \in 1 .. n : list[i] \in T BY <1>1, ElementOfSeq, LenProperties
<1>3. PICK k \in [0 .. n -> Seq(T)] : Keeps(k, list, K) /\ Sublist(list, K) = k[n]
    BY <1>1, SublistSteps
<1>4. PICK b \in [0 .. n -> Seq(T)] : Keeps(b, list, K \cap S) /\ Sublist(list, K \cap S) = b[n]
    BY <1>1, SublistSteps
<1> DEFINE P == {i \in 0 .. n : Sublist(k[i], S) = b[i]}
<1>5. 0 \in P BY <1>2, <1>3, <1>4, SublistOfNone DEF Keeps
<1>6. ASSUME NEW i \in 0 .. n - 1, i \in P PROVE i + 1 \in P
  <2>1. i + 1 \in 1 .. n /\ (i + 1) - 1 = i /\ i \in 0 .. n /\ i + 1 \in 0 .. n BY <1>2
  <2>2. PICK x, u, v : x = list[i + 1] /\ u = k[i] /\ v = b[i] OBVIOUS
  <2>3. x \in T /\ u \in Seq(T) /\ v \in Seq(T) /\ Sublist(u, S) = v
      BY <1>2, <1>6, <2>1, <2>2
  <2>4. k[i + 1] = IF x \in K THEN Append(u, x) ELSE u
      BY <1>1, <1>3, <2>1, <2>2 DEF Keeps
  <2>5. b[i + 1] = IF x \in K \cap S THEN Append(v, x) ELSE v
      BY <1>1, <1>4, <2>1, <2>2 DEF Keeps
  <2>6. Sublist(Append(u, x), S) = IF x \in S THEN Append(v, x) ELSE v
    <3>1. <<x>> \in Seq(T) /\ Append(u, x) = u \o <<x>> BY <2>3, AppendIsConcat
    <3>2. PICK one : one = <<x>> OBVIOUS
    <3>5. Sublist(u \o one, S) = Sublist(u, S) \o Sublist(one, S)
      <4>1. one \in Seq(T) /\ u \in Seq(T) BY <2>3, <3>1, <3>2
      <4> QED BY ONLY <4>1, SublistConcat
    <3>3. v \o <<>> = v /\ v \o <<x>> = Append(v, x)
        BY <2>3, AppendIsConcat, ConcatEmptySeq
    <3> QED BY <2>3, <3>1, <3>2, <3>3, <3>5, SublistOfOne
  <2>7. Sublist(k[i + 1], S) = b[i + 1] BY <2>3, <2>4, <2>5, <2>6
  <2> QED BY <2>1, <2>7
<1> HIDE DEF P
<1>7. \A i \in 0 .. n : i \in P BY <1>2, <1>5, <1>6, UpTo
<1>8. n \in P BY <1>2, <1>7
<1> QED BY <1>3, <1>4, <1>8 DEF P

\* What is not in the list makes no difference.
LEMMA SublistSame ==
    ASSUME NEW T, NEW list \in Seq(T), NEW S, NEW U, Range(list) \cap S = Range(list) \cap U
    PROVE  Sublist(list, S) = Sublist(list, U)
<1>1. PICK n : n = Len(list) OBVIOUS
<1>2. n \in Nat /\ \A i \in 1 .. n : list[i] \in Range(list)
    BY <1>1, RangeIndex, LenProperties
<1>3. PICK k \in [0 .. n -> Seq(T)] : Keeps(k, list, S) /\ Sublist(list, S) = k[n]
    BY <1>1, SublistSteps
<1>4. PICK b \in [0 .. n -> Seq(T)] : Keeps(b, list, U) /\ Sublist(list, U) = b[n]
    BY <1>1, SublistSteps
<1> DEFINE P == {i \in 0 .. n : k[i] = b[i]}
<1>5. 0 \in P BY <1>2, <1>3, <1>4 DEF Keeps
<1>6. ASSUME NEW i \in 0 .. n - 1, i \in P PROVE i + 1 \in P
  <2>1. i + 1 \in 1 .. n /\ (i + 1) - 1 = i /\ i + 1 \in 0 .. n BY <1>2
  <2>2. list[i + 1] \in S <=> list[i + 1] \in U BY <1>2, <2>1
  <2>3. k[i + 1] = b[i + 1] BY <1>1, <1>3, <1>4, <1>6, <2>1, <2>2 DEF Keeps
  <2> QED BY <2>1, <2>3
<1> HIDE DEF P
<1>7. \A i \in 0 .. n : i \in P BY <1>2, <1>5, <1>6, UpTo
<1>8. n \in P BY <1>2, <1>7
<1> QED BY <1>3, <1>4, <1>8 DEF P

LEMMA NoneKept ==
    ASSUME NEW T, NEW list \in Seq(T), NEW S, Range(list) \cap S = {}
    PROVE  Sublist(list, S) = <<>>
<1>1. PICK sub : sub = Sublist(list, S) OBVIOUS
<1>2. sub \in Seq(T) /\ Range(sub) = {} BY <1>1, SublistKeeps
<1>3. \A i \in 1 .. Len(sub) : sub[i] \in Range(sub) BY <1>2, RangeIndex
<1>4. Len(sub) \in Nat /\ ~ (1 <= Len(sub)) BY <1>2, <1>3, LenProperties
<1> QED BY <1>1, <1>2, <1>4, EmptySeq

\* How often what is removed, and what is not, is in what is left.
LEMMA Removal ==
    ASSUME NEW T, NEW list \in Seq(T), NEW K, NEW s
    PROVE  /\ s \in K \/ s \notin Range(list) =>
                Sublist(Sublist(list, K), {s}) = Sublist(list, {s})
           /\ s \notin K => Sublist(Sublist(list, K), {s}) = <<>>
<1>1. Sublist(Sublist(list, K), {s}) = Sublist(list, K \cap {s}) BY SublistTwice
<1>2. CASE s \in K
  <2>1. K \cap {s} = {s} BY <1>2
  <2> QED BY <1>1, <1>2, <2>1
<1>3. CASE s \notin K
  <2>1. PICK U : U = K \cap {s} OBVIOUS
  <2>2. U = {} BY <1>3, <2>1
  <2>3. Sublist(list, U) = <<>> BY <2>2, NoneKept
  <2>4. ASSUME s \notin Range(list) PROVE Sublist(list, {s}) = <<>>
    <3>1. PICK V : V = {s} OBVIOUS
    <3>2. Range(list) \cap V = {} BY <2>4, <3>1
    <3>3. Sublist(list, V) = <<>> BY <3>2, NoneKept
    <3> QED BY <3>1, <3>3
  <2> QED BY <1>1, <1>3, <2>1, <2>3, <2>4
<1> QED BY <1>2, <1>3

=============================================================================
