------------------------ MODULE CanProtocol_results ------------------------
(***************************************************************************)
(* Further theorems about CanProtocol: when a command times out, whose the  *)
(* answer is that it returns, and that a bus without faults is quiet.       *)
(***************************************************************************)
EXTENDS CanProtocol_proofs

-----------------------------------------------------------------------------
(***************************************************************************)
(* Where the frames on their way will bring a reassembly.                   *)
(***************************************************************************)
\* How far a reassembly is: the packets it has, and of how many.
Start == [cur |-> 0, last |-> 0]
At(s) == [cur |-> s.cur, last |-> IF s.cur = 0 THEN 0 ELSE s.last]
After(p, f) == IF Continues(p, f) THEN [cur |-> f.cur, last |-> f.last] ELSE Start
Fits(p, f) == Continues(p, f) \/ Completes(p, f)

\* r says where the reassembly of id, now at p, is after each frame of q.
Course(q, id, p, r) ==
    /\ r[0] = p
    /\ \A k \in 0 .. Len(q) : r[k].cur \in Nat
    /\ \A k \in 1 .. Len(q) : r[k] = IF IdOf(q[k]) = id THEN After(r[k - 1], q[k]) ELSE r[k - 1]

Next1(id, p, f) == IF IdOf(f) = id THEN After(p, f) ELSE p
Longer(q, id, r, f) ==
    [k \in 0 .. Len(q) + 1 |-> IF k <= Len(q) THEN r[k] ELSE Next1(id, r[Len(q)], f)]
Shorter(q, r) == [k \in 0 .. Len(q) - 1 |-> r[k + 1]]

LEMMA CourseGrows ==
    ASSUME NEW S, NEW q \in Seq(S), NEW f \in S, NEW id, NEW p, NEW r, Course(q, id, p, r),
           IdOf(f) = id => f.cur \in Nat
    PROVE  /\ Course(Append(q, f), id, p, Longer(q, id, r, f))
           /\ Longer(q, id, r, f)[Len(q) + 1] = Next1(id, r[Len(q)], f)
           /\ \A k \in 0 .. Len(q) : Longer(q, id, r, f)[k] = r[k]
<1>. DEFINE l == Longer(q, id, r, f)
            x == Next1(id, r[Len(q)], f)
            a == Append(q, f)
<1>1. /\ Len(q) \in Nat /\ Len(a) = Len(q) + 1 /\ a[Len(q) + 1] = f
      /\ \A k \in 1 .. Len(q) : a[k] = q[k]
  BY AppendProperties
<1>2. l[Len(q) + 1] = x /\ \A k \in 0 .. Len(q) : l[k] = r[k]
  BY <1>1 DEF Longer
<1>3. r[Len(q)].cur \in Nat
  BY <1>1 DEF Course
<1>4. x.cur \in Nat
  BY <1>3 DEF Next1, After, Start
<1>. HIDE DEF l, a, x
<1>5. l[0] = p
  BY <1>1, <1>2 DEF Course
<1>6. ASSUME NEW k \in 0 .. Len(a) PROVE l[k].cur \in Nat
  BY <1>1, <1>2, <1>4 DEF Course
<1>7. ASSUME NEW k \in 1 .. Len(a)
      PROVE  l[k] = IF IdOf(a[k]) = id THEN After(l[k - 1], a[k]) ELSE l[k - 1]
  <2>1. CASE k \in 1 .. Len(q)
    <3>1. k \in 0 .. Len(q) /\ k - 1 \in 0 .. Len(q)
      BY <1>1, <2>1
    <3>. QED
      BY <1>1, <1>2, <2>1, <3>1 DEF Course
  <2>2. CASE k = Len(q) + 1
    <3>1. k - 1 = Len(q) /\ Len(q) \in 0 .. Len(q)
      BY <1>1, <2>2
    <3>2. l[k - 1] = r[Len(q)] /\ a[k] = f /\ l[k] = x
      BY <1>1, <1>2, <2>2, <3>1
    <3>. QED
      BY <3>2 DEF x, Next1
  <2>. QED
    BY <1>1, <2>1, <2>2
<1>. QED
  BY <1>2, <1>5, <1>6, <1>7 DEF Course, l, a, x

LEMMA CourseShrinks ==
    ASSUME NEW S, NEW q \in Seq(S), q # <<>>, NEW id, NEW p, NEW r, Course(q, id, p, r)
    PROVE  /\ Course(Tail(q), id, Next1(id, p, Head(q)), Shorter(q, r))
           /\ r[1] = Next1(id, p, Head(q))
           /\ \A k \in 0 .. Len(q) - 1 : Shorter(q, r)[k] = r[k + 1]
           /\ Len(Tail(q)) = Len(q) - 1 /\ Len(q) \in Nat /\ Len(q) >= 1
<1>. DEFINE l == Shorter(q, r)
            t == Tail(q)
<1>1. /\ Len(q) \in Nat /\ Len(q) >= 1 /\ Len(t) = Len(q) - 1 /\ Head(q) = q[1]
      /\ \A k \in 1 .. Len(t) : t[k] = q[k + 1]
  BY HeadTailProperties
<1>2. \A k \in 0 .. Len(q) - 1 : l[k] = r[k + 1]
  BY <1>1 DEF Shorter
<1>. HIDE DEF l, t
<1>3. r[1] = Next1(id, p, Head(q))
  <2>1. 1 \in 1 .. Len(q) /\ 1 - 1 = 0
    BY <1>1
  <2>. QED
    BY <1>1, <2>1 DEF Course, Next1
<1>4. l[0] = r[1]
  BY <1>1, <1>2
<1>5. ASSUME NEW k \in 0 .. Len(t) PROVE l[k].cur \in Nat
  <2>1. k \in 0 .. Len(q) - 1 /\ k + 1 \in 0 .. Len(q)
    BY <1>1
  <2>. QED
    BY <1>2, <2>1 DEF Course
<1>6. ASSUME NEW k \in 1 .. Len(t)
      PROVE  l[k] = IF IdOf(t[k]) = id THEN After(l[k - 1], t[k]) ELSE l[k - 1]
  <2>1. k \in 0 .. Len(q) - 1 /\ k - 1 \in 0 .. Len(q) - 1 /\ k + 1 \in 1 .. Len(q)
        /\ (k + 1) - 1 = k /\ (k - 1) + 1 = k
    BY <1>1
  <2>2. l[k] = r[k + 1] /\ l[k - 1] = r[k] /\ t[k] = q[k + 1]
    BY <1>1, <1>2, <2>1
  <2>3. r[k + 1] = IF IdOf(q[k + 1]) = id THEN After(r[(k + 1) - 1], q[k + 1]) ELSE r[(k + 1) - 1]
    BY <2>1 DEF Course
  <2>. QED
    BY <2>1, <2>2, <2>3
<1>. QED
  BY <1>1, <1>2, <1>3, <1>4, <1>5, <1>6 DEF Course, l, t

LEMMA CourseEmpty ==
    ASSUME NEW id, NEW p, p.cur \in Nat
    PROVE  Course(<<>>, id, p, [k \in {0} |-> p])
<1>1. Len(<<>>) = 0
  OBVIOUS
<1>2. \A k \in 0 .. Len(<<>>) : k = 0
  BY <1>1
<1>. QED
  BY <1>1, <1>2 DEF Course

\* The frames of q bring the reassembly of id, now at p, to x; none of them is
\* refused on the way; one of them completes a message.
Reaches(q, id, p, x) == \E r : Course(q, id, p, r) /\ r[Len(q)] = x
Fitting(q, id, p, x) ==
    \E r : /\ Course(q, id, p, r) /\ r[Len(q)] = x
           /\ \A k \in 1 .. Len(q) : IdOf(q[k]) = id => Fits(r[k - 1], q[k])
Completing(q, id, p) ==
    \E r : /\ Course(q, id, p, r)
           /\ \E k \in 1 .. Len(q) : IdOf(q[k]) = id /\ Completes(r[k - 1], q[k])

LEMMA OneMore ==
    ASSUME NEW S, NEW q \in Seq(S), NEW f \in S, NEW id, NEW p, NEW x,
           IdOf(f) = id => f.cur \in Nat
    PROVE  /\ Reaches(q, id, p, x) => Reaches(Append(q, f), id, p, Next1(id, x, f))
           /\ Reaches(q, id, p, x) /\ IdOf(f) = id /\ Completes(x, f) => Completing(Append(q, f), id, p)
           /\ Fitting(q, id, p, x) /\ (IdOf(f) = id => Fits(x, f))
                 => Fitting(Append(q, f), id, p, Next1(id, x, f))
           /\ Completing(q, id, p) => Completing(Append(q, f), id, p)
<1>1. PICK a : a = Append(q, f)
  OBVIOUS
<1>2. /\ Len(q) \in Nat /\ Len(a) = Len(q) + 1 /\ a[Len(q) + 1] = f
      /\ \A k \in 1 .. Len(q) : a[k] = q[k]
  BY <1>1, AppendProperties
<1>3. ASSUME NEW r, Course(q, id, p, r)
      PROVE  \E l : /\ Course(a, id, p, l) /\ l[Len(a)] = Next1(id, r[Len(q)], f)
                    /\ l[(Len(q) + 1) - 1] = r[Len(q)]
                    /\ \A k \in 1 .. Len(q) : l[k - 1] = r[k - 1]
  <2>1. PICK l : l = Longer(q, id, r, f)
    OBVIOUS
  <2>2. /\ Course(a, id, p, l) /\ l[Len(q) + 1] = Next1(id, r[Len(q)], f)
        /\ \A k \in 0 .. Len(q) : l[k] = r[k]
    BY <1>1, <1>3, <2>1, CourseGrows
  <2>3. Len(q) \in 0 .. Len(q) /\ \A k \in 1 .. Len(q) : k - 1 \in 0 .. Len(q)
    BY <1>2
  <2>. QED
    BY <1>2, <2>2, <2>3
<1>4. Len(q) + 1 \in 1 .. Len(a) /\ \A k \in 1 .. Len(q) : k \in 1 .. Len(a)
  BY <1>2
<1>5. ASSUME Reaches(q, id, p, x)
      PROVE  /\ Reaches(a, id, p, Next1(id, x, f))
             /\ IdOf(f) = id /\ Completes(x, f) => Completing(a, id, p)
  <2>1. PICK r : Course(q, id, p, r) /\ r[Len(q)] = x
    BY <1>5 DEF Reaches
  <2>2. PICK l : /\ Course(a, id, p, l) /\ l[Len(a)] = Next1(id, x, f)
                 /\ l[(Len(q) + 1) - 1] = x
    BY <1>3, <2>1
  <2>. QED
    BY <1>2, <1>4, <2>2 DEF Reaches, Completing
<1>6. ASSUME Fitting(q, id, p, x), IdOf(f) = id => Fits(x, f)
      PROVE  Fitting(a, id, p, Next1(id, x, f))
  <2>1. PICK r : /\ Course(q, id, p, r) /\ r[Len(q)] = x
                 /\ \A k \in 1 .. Len(q) : IdOf(q[k]) = id => Fits(r[k - 1], q[k])
    BY <1>6 DEF Fitting
  <2>2. PICK l : /\ Course(a, id, p, l) /\ l[Len(a)] = Next1(id, x, f)
                 /\ l[(Len(q) + 1) - 1] = x
                 /\ \A k \in 1 .. Len(q) : l[k - 1] = r[k - 1]
    BY <1>3, <2>1
  <2>3. ASSUME NEW k \in 1 .. Len(a), IdOf(a[k]) = id PROVE Fits(l[k - 1], a[k])
    <3>1. CASE k \in 1 .. Len(q)
      BY <1>2, <2>1, <2>2, <2>3, <3>1
    <3>2. CASE k = Len(q) + 1
      BY <1>2, <1>6, <2>2, <2>3, <3>2
    <3>. QED
      BY <1>2, <3>1, <3>2
  <2>. QED
    BY <2>2, <2>3 DEF Fitting
<1>7. ASSUME Completing(q, id, p) PROVE Completing(a, id, p)
  <2>1. PICK r : /\ Course(q, id, p, r)
                 /\ \E k \in 1 .. Len(q) : IdOf(q[k]) = id /\ Completes(r[k - 1], q[k])
    BY <1>7 DEF Completing
  <2>2. PICK k \in 1 .. Len(q) : IdOf(q[k]) = id /\ Completes(r[k - 1], q[k])
    BY <2>1
  <2>3. PICK l : /\ Course(a, id, p, l)
                 /\ \A j \in 1 .. Len(q) : l[j - 1] = r[j - 1]
    BY <1>3, <2>1
  <2>. QED
    BY <1>2, <1>4, <2>2, <2>3 DEF Completing
<1>. QED
  BY <1>1, <1>5, <1>6, <1>7

LEMMA OneLess ==
    ASSUME NEW S, NEW q \in Seq(S), q # <<>>, NEW id, NEW p, NEW x
    PROVE  /\ Reaches(q, id, p, x) => Reaches(Tail(q), id, Next1(id, p, Head(q)), x)
           /\ Fitting(q, id, p, x) => /\ Fitting(Tail(q), id, Next1(id, p, Head(q)), x)
                                      /\ IdOf(Head(q)) = id => Fits(p, Head(q))
           /\ Completing(q, id, p) => \/ IdOf(Head(q)) = id /\ Completes(p, Head(q))
                                      \/ Completing(Tail(q), id, Next1(id, p, Head(q)))
<1>1. PICK t, h, p2 : t = Tail(q) /\ h = Head(q) /\ p2 = Next1(id, p, Head(q))
  OBVIOUS
<1>2. /\ Len(q) \in Nat /\ Len(q) >= 1 /\ Len(t) = Len(q) - 1 /\ h = q[1]
      /\ \A k \in 1 .. Len(t) : t[k] = q[k + 1]
  BY <1>1, HeadTailProperties
<1>3. ASSUME NEW r, Course(q, id, p, r)
      PROVE  \E l : /\ Course(t, id, p2, l) /\ l[Len(t)] = r[Len(q)]
                    /\ \A k \in 1 .. Len(t) : l[k - 1] = r[(k + 1) - 1]
  <2>1. PICK l : l = Shorter(q, r)
    OBVIOUS
  <2>2. Course(t, id, p2, l) /\ \A k \in 0 .. Len(q) - 1 : l[k] = r[k + 1]
    BY <1>1, <1>3, <2>1, CourseShrinks
  <2>3. Len(t) \in 0 .. Len(q) - 1 /\ Len(t) + 1 = Len(q)
    BY <1>2
  <2>4. ASSUME NEW k \in 1 .. Len(t) PROVE l[k - 1] = r[(k + 1) - 1]
    <3>1. k - 1 \in 0 .. Len(q) - 1 /\ (k - 1) + 1 = (k + 1) - 1
      BY <1>2
    <3>. QED
      BY <2>2, <3>1
  <2>. QED
    BY <2>2, <2>3, <2>4
<1>4. \A r : Course(q, id, p, r) => r[1 - 1] = p
  BY DEF Course
<1>5. ASSUME Reaches(q, id, p, x) PROVE Reaches(t, id, p2, x)
  BY <1>3, <1>5 DEF Reaches
<1>6. ASSUME Fitting(q, id, p, x)
      PROVE  Fitting(t, id, p2, x) /\ (IdOf(h) = id => Fits(p, h))
  <2>1. PICK r : /\ Course(q, id, p, r) /\ r[Len(q)] = x
                 /\ \A k \in 1 .. Len(q) : IdOf(q[k]) = id => Fits(r[k - 1], q[k])
    BY <1>6 DEF Fitting
  <2>2. PICK l : /\ Course(t, id, p2, l) /\ l[Len(t)] = x
                 /\ \A k \in 1 .. Len(t) : l[k - 1] = r[(k + 1) - 1]
    BY <1>3, <2>1
  <2>3. ASSUME NEW k \in 1 .. Len(t), IdOf(t[k]) = id PROVE Fits(l[k - 1], t[k])
    <3>1. k + 1 \in 1 .. Len(q) /\ t[k] = q[k + 1]
      BY <1>2
    <3>. QED
      BY <2>1, <2>2, <2>3, <3>1
  <2>4. 1 \in 1 .. Len(q)
    BY <1>2
  <2>5. IdOf(h) = id => Fits(p, h)
    BY <1>2, <1>4, <2>1, <2>4
  <2>. QED
    BY <2>2, <2>3, <2>5 DEF Fitting
<1>7. ASSUME Completing(q, id, p)
      PROVE  (IdOf(h) = id /\ Completes(p, h)) \/ Completing(t, id, p2)
  <2>1. PICK r : /\ Course(q, id, p, r)
                 /\ \E k \in 1 .. Len(q) : IdOf(q[k]) = id /\ Completes(r[k - 1], q[k])
    BY <1>7 DEF Completing
  <2>2. PICK k \in 1 .. Len(q) : IdOf(q[k]) = id /\ Completes(r[k - 1], q[k])
    BY <2>1
  <2>3. PICK l : /\ Course(t, id, p2, l)
                 /\ \A j \in 1 .. Len(t) : l[j - 1] = r[(j + 1) - 1]
    BY <1>3, <2>1
  <2>4. CASE k = 1
    BY <1>2, <1>4, <2>1, <2>2, <2>4
  <2>5. CASE k # 1
    <3>1. PICK j \in 1 .. Len(t) : k = j + 1
      <4>1. k - 1 \in 1 .. Len(t) /\ k = (k - 1) + 1
        BY <1>2, <2>2, <2>5
      <4>. QED
        BY <4>1
    <3>2. t[j] = q[k] /\ l[j - 1] = r[k - 1]
      BY <1>2, <2>3, <3>1
    <3>. QED
      BY <2>2, <2>3, <3>2 DEF Completing
  <2>. QED
    BY <2>4, <2>5
<1>. QED
  BY <1>1, <1>5, <1>6, <1>7

\* An empty bus brings a reassembly nowhere.
LEMMA NoneLeft ==
    ASSUME NEW id, NEW p, p.cur \in Nat
    PROVE  /\ Reaches(<<>>, id, p, p) /\ Fitting(<<>>, id, p, p) /\ ~Completing(<<>>, id, p)
           /\ \A x : Reaches(<<>>, id, p, x) => x = p
<1>1. Len(<<>>) = 0
  OBVIOUS
<1>2. Course(<<>>, id, p, [k \in {0} |-> p])
  BY CourseEmpty
<1>3. 1 .. 0 = {}
  OBVIOUS
<1>4. \A r : Course(<<>>, id, p, r) => r[0] = p
  BY DEF Course
<1>5. [k \in {0} |-> p][0] = p
  OBVIOUS
<1>. QED
  BY <1>1, <1>2, <1>3, <1>4, <1>5 DEF Reaches, Fitting, Completing

(***************************************************************************)
(* The steps, as the bus and the reassemblies see them.                     *)
(***************************************************************************)
StateOf(n, id) == IF id \in DOMAIN ext[n] THEN ext[n][id] ELSE Idle
Place(n, id) == At(StateOf(n, id))
Frames == Fragments \cup Answers

\* The messages of id are reassembled by n.
Handles(n, id) == id.type = "EXT_ANN" \/ (id.type = "EXT_CMD" /\ id.did = n)

\* The frame n takes completes a command for it, which it answers.
Replies(n) == /\ Received(n).type \in Commands /\ ForMe(n)
              /\ Received(n).type = "EXT_CMD" => Completes(State(n, Received(n)), Received(n))

LEMMA PlaceType ==
    ASSUME ReassemblyOK, NEW n \in Nodes, NEW id
    PROVE  Place(n, id).cur \in Nat /\ Assembled(StateOf(n, id), id)
BY DEF Place, At, StateOf, Idle, ReassemblyOK, Assembled

LEMMA SameFit ==
    ASSUME NEW s, NEW f
    PROVE  /\ Continues(At(s), f) = Continues(s, f)
           /\ Completes(At(s), f) = Completes(s, f)
BY DEF Continues, Completes, InOrder, At

LEMMA PlaceSet ==
    ASSUME ReassemblyOK, NEW n \in Nodes, NEW f, NEW s, SetState(n, f, s)
    PROVE  /\ Place(n, IdOf(f))' = At(s)
           /\ \A m \in Nodes : \A id : m # n \/ id # IdOf(f) => Place(m, id)' = Place(m, id)
<1>1. PICK i : i = IdOf(f)
  OBVIOUS
<1>2. /\ DOMAIN ext = Nodes
      /\ ext' = [ext EXCEPT ![n] = [id \in DOMAIN ext[n] \cup {i} |-> IF id = i THEN s ELSE ext[n][id]]]
  BY <1>1 DEF ReassemblyOK, SetState
<1>3. /\ \A m \in Nodes \ {n} : ext'[m] = ext[m]
      /\ ext'[n] = [id \in DOMAIN ext[n] \cup {i} |-> IF id = i THEN s ELSE ext[n][id]]
  BY <1>2
<1>4. StateOf(n, i)' = s
  BY <1>3 DEF StateOf
<1>5. ASSUME NEW m \in Nodes, NEW id, m # n \/ id # i PROVE StateOf(m, id)' = StateOf(m, id)
  BY <1>3, <1>5 DEF StateOf
<1>. QED
  BY <1>1, <1>4, <1>5 DEF Place

LEMMA PlaceMoves ==
    ASSUME SendersOK, ReassemblyOK, NEW n \in Nodes, NEW f \in Fragments, Reassemble(n, f)
    PROVE  /\ Place(n, IdOf(f))' = After(Place(n, IdOf(f)), f)
           /\ \A m \in Nodes : \A id : m # n \/ id # IdOf(f) => Place(m, id)' = Place(m, id)
           /\ Fits(Place(n, IdOf(f)), f) => errors' = errors
<1>1. PICK s : s = State(n, f)
  OBVIOUS
<1>2. s = StateOf(n, IdOf(f)) /\ Place(n, IdOf(f)) = At(s)
  BY <1>1 DEF State, StateOf, Place
<1>3. f.cur \in Nat /\ f.last \in Nat /\ 1 <= f.cur /\ f.cur <= f.last
  BY FragmentFacts
<1>4. s.cur = 0 \/ (s.cur \in Nat /\ s.cur < s.last)
  BY <1>2, PlaceType DEF Assembled
<1>5. Continues(At(s), f) = Continues(s, f) /\ Completes(At(s), f) = Completes(s, f)
  BY SameFit
<1>6. \E x : /\ SetState(n, f, x) /\ At(x) = After(At(s), f)
             /\ Fits(At(s), f) => errors' = errors
  <2>1. ASSUME NEW x, Continues(s, f), x.cur = f.cur, x.last = f.last
        PROVE  At(x) = After(At(s), f)
    BY <1>3, <1>5, <2>1 DEF At, After
  <2>2. ASSUME NEW x, ~Continues(s, f), x.cur = 0 PROVE At(x) = After(At(s), f)
    BY <1>5, <2>2 DEF At, After, Start
  <2>3. Completes(s, f) => ~Continues(s, f)
    BY <1>3, <1>4 DEF Completes, Continues, InOrder
  <2>4. AfterLast(s, f).cur = 0 /\ Idle.cur = 0
    BY DEF AfterLast, Idle
  <2>5. CASE Continues(s, f)
    <3>1. PICK data : SetState(n, f, [cur |-> f.cur, last |-> f.last, data |-> data]) /\ errors' = errors
      BY <1>1, <2>3, <2>5 DEF Reassemble
    <3>. QED
      BY <2>1, <2>5, <3>1
  <2>6. CASE Completes(s, f)
    BY <1>1, <2>2, <2>3, <2>4, <2>6 DEF Reassemble
  <2>7. CASE ~Continues(s, f) /\ ~Completes(s, f)
    <3>1. SetState(n, f, Idle)
      BY <1>1, <2>7 DEF Reassemble
    <3>2. ~Fits(At(s), f)
      BY <1>5, <2>7 DEF Fits
    <3>. QED
      BY <2>2, <2>4, <2>7, <3>1, <3>2
  <2>. QED
    BY <2>5, <2>6, <2>7
<1>. QED
  BY <1>2, <1>6, PlaceSet

LEMMA ReceiveFacts ==
    ASSUME Inv, [Next]_vars, NEW n \in Nodes, ReceiveStep(n), NEW f, f = Received(n)
    PROVE  /\ bus[n] # <<>> /\ f = Head(bus[n]) /\ f \in Frames
           /\ UNCHANGED <<app, pc, retry, packet, status, faults>>
           /\ bus' = IF Replies(n) THEN Transmit(Taken(n), AnswerFrame(n, f)) ELSE Taken(n)
           /\ \A m \in Nodes : \A id : m # n \/ id # IdOf(f) => Place(m, id)' = Place(m, id)
           /\ Handles(n, IdOf(f)) =>
                 /\ f \in Fragments
                 /\ Place(n, IdOf(f))' = After(Place(n, IdOf(f)), f)
                 /\ Fits(Place(n, IdOf(f)), f) => errors' = errors
           /\ Replies(n) => f \in Fragments
           /\ ~ (f.type \in {AckType(c) : c \in Commands} /\ ForMe(n)) => AckNaks' = AckNaks
           /\ errors' = errors \/ Handles(n, IdOf(f)) \/ ReceiveAckNak(n)
<1>. USE DEF Inv, receivers, senders
<1>1. bus[n] # <<>> /\ f = Head(bus[n])
  BY DEF ReceiveStep, NotForMe, ReceiveCommand, ReceiveExtCommand, ReceiveAnnouncement,
         ReceiveExtAnnouncement, ReceiveAckNak, Reads, Received
<1>2. f \in Frames
  BY <1>1, TakenKeeps DEF BusOK, Frames
<1>3. UNCHANGED <<app, pc, retry, packet, status, faults>>
  BY DEF ReceiveStep, NotForMe, ReceiveCommand, ReceiveExtCommand, ReceiveAnnouncement,
         ReceiveExtAnnouncement, ReceiveAckNak
<1>4. IdOf(f).type = f.type /\ IdOf(f).did = f.did
  BY DEF IdOf
<1>5. f.type \in Commands \cup Announcements => f \in Fragments
  BY <1>2, FrameKinds DEF Frames
<1>6. ext' = ext => \A m \in Nodes : \A id : Place(m, id)' = Place(m, id)
  BY DEF Place, StateOf
<1>7. CASE NotForMe(n) \/ ReceiveAckNak(n)
  <2>1. /\ bus' = Taken(n) /\ ext' = ext
        /\ f.type \in Commands \cup {AckType(c) : c \in Commands}
        /\ NotForMe(n) => ~ForMe(n) /\ AckNaks' = AckNaks /\ errors' = errors
        /\ ReceiveAckNak(n) => ForMe(n) /\ f.type \in {AckType(c) : c \in Commands}
    BY <1>7 DEF NotForMe, ReceiveAckNak, Reads
  <2>2. ~Handles(n, IdOf(f)) /\ ~Replies(n)
    BY <1>4, <1>7, <2>1 DEF Handles, Replies, ForMe, Commands, AckType
  <2>. QED
    BY <1>1, <1>2, <1>3, <1>6, <1>7, <2>1, <2>2
<1>8. CASE ReceiveCommand(n) \/ ReceiveAnnouncement(n)
  <2>1. /\ f.type \in {"CMD", "ANN"} /\ ext' = ext /\ AckNaks' = AckNaks /\ errors' = errors
        /\ ReceiveCommand(n) => ForMe(n) /\ f.type = "CMD"
                                /\ bus' = Transmit(Taken(n), AnswerFrame(n, f))
        /\ ReceiveAnnouncement(n) => f.type = "ANN" /\ bus' = Taken(n)
    BY <1>8 DEF ReceiveCommand, ReceiveAnnouncement, Reads
  <2>2. ~Handles(n, IdOf(f))
    BY <1>4, <2>1 DEF Handles
  <2>3. ReceiveCommand(n) => Replies(n)
    BY <2>1 DEF Replies, Commands
  <2>4. ReceiveAnnouncement(n) => ~Replies(n)
    BY <2>1 DEF Replies, Commands
  <2>5. f \in Fragments
    BY <1>5, <2>1 DEF Commands, Announcements
  <2>. QED
    BY <1>1, <1>2, <1>3, <1>6, <1>8, <2>1, <2>2, <2>3, <2>4, <2>5
<1>9. CASE ReceiveExtCommand(n) \/ ReceiveExtAnnouncement(n)
  <2>1. /\ f.type \in {"EXT_CMD", "EXT_ANN"} /\ Reassemble(n, f) /\ AckNaks' = AckNaks
        /\ ReceiveExtCommand(n) =>
              /\ ForMe(n) /\ f.type = "EXT_CMD"
              /\ bus' = IF Completes(State(n, f), f) THEN Transmit(Taken(n), AnswerFrame(n, f))
                                                     ELSE Taken(n)
        /\ ReceiveExtAnnouncement(n) => f.type = "EXT_ANN" /\ bus' = Taken(n)
    BY <1>9 DEF ReceiveExtCommand, ReceiveExtAnnouncement, Reads
  <2>2. f \in Fragments
    BY <1>5, <2>1 DEF Commands, Announcements
  <2>3. Handles(n, IdOf(f))
    BY <1>4, <1>9, <2>1 DEF Handles, ForMe
  <2>4. ReceiveExtCommand(n) => (Replies(n) <=> Completes(State(n, f), f))
    BY <2>1 DEF Replies, Commands
  <2>5. ReceiveExtAnnouncement(n) => ~Replies(n)
    BY <2>1 DEF Replies, Commands
  <2>6. /\ Place(n, IdOf(f))' = After(Place(n, IdOf(f)), f)
        /\ \A m \in Nodes : \A id : m # n \/ id # IdOf(f) => Place(m, id)' = Place(m, id)
        /\ Fits(Place(n, IdOf(f)), f) => errors' = errors
    BY <2>1, <2>2, PlaceMoves
  <2>. QED
    BY <1>1, <1>2, <1>3, <1>9, <2>1, <2>2, <2>3, <2>4, <2>5, <2>6
<1>. QED
  BY <1>7, <1>8, <1>9 DEF ReceiveStep

\* What a step does to the frames on their way to n.
LEMMA BusMoves ==
    ASSUME Inv, [Next]_vars, NEW n \in Nodes
    PROVE  /\ \/ /\ bus'[n] = bus[n] /\ ~ReceiveStep(n)
                 /\ \A t \in Threads : Write(t) => n \notin DOMAIN app.slots \ {Sid(t)}
                 /\ \A m \in Nodes : ReceiveStep(m) /\ Replies(m) => n \notin DOMAIN app.slots \ {m}
              \/ \E t \in Threads : /\ Write(t) /\ n \in DOMAIN app.slots \ {Sid(t)}
                                    /\ bus'[n] = Append(bus[n], Frame(t))
              \/ \E m \in Nodes : /\ ReceiveStep(m) /\ Replies(m) /\ n \in DOMAIN app.slots \ {m}
                                  /\ bus'[n] = Append(bus[n], AnswerFrame(m, Received(m)))
              \/ ReceiveStep(n) /\ bus[n] # <<>> /\ bus'[n] = Tail(bus[n])
              \/ Lose(n) /\ bus[n] # <<>> /\ bus'[n] = Tail(bus[n])
           /\ ReceiveStep(n) => bus[n] # <<>> /\ bus'[n] = Tail(bus[n])
<1>. USE DEF Inv, receivers, senders
<1>1. bus \in [Nodes -> Seq(Frames)]
  BY DEF BusOK, Frames
<1>2. ASSUME NEW t \in Threads, Write(t)
      PROVE  bus'[n] = IF n \in DOMAIN app.slots \ {Sid(t)} THEN Append(bus[n], Frame(t)) ELSE bus[n]
  <2>1. Frame(t).sid = Sid(t)
    BY DEF Frame
  <2>. QED
    BY <1>2, <2>1 DEF Write, Transmit
<1>3. ASSUME NEW m \in Nodes, ReceiveStep(m)
      PROVE  /\ bus[m] # <<>>
             /\ bus'[n] = IF m = n THEN Tail(bus[n])
                          ELSE IF Replies(m) /\ n \in DOMAIN app.slots \ {m}
                          THEN Append(bus[n], AnswerFrame(m, Received(m)))
                          ELSE bus[n]
  <2>1. /\ bus[m] # <<>>
        /\ bus' = IF Replies(m) THEN Transmit(Taken(m), AnswerFrame(m, Received(m))) ELSE Taken(m)
    BY <1>3, ReceiveFacts
  <2>2. Replies(m) => AnswerFrame(m, Received(m)).sid = m
    BY DEF Replies, ForMe, AnswerFrame
  <2>3. Taken(m)[n] = IF m = n THEN Tail(bus[n]) ELSE bus[n]
    BY <1>1 DEF Taken
  <2>. QED
    BY <2>1, <2>2, <2>3 DEF Transmit
<1>4. ASSUME NEW m \in Nodes, Lose(m)
      PROVE  bus[m] # <<>> /\ bus'[n] = IF m = n THEN Tail(bus[n]) ELSE bus[n]
  BY <1>1, <1>4 DEF Lose, Taken
<1>5. /\ \A x : Append(bus[n], x) # bus[n]
      /\ bus[n] # <<>> => Tail(bus[n]) # bus[n]
  <2>1. bus[n] \in Seq(Frames)
    BY <1>1
  <2>2. Len(bus[n]) \in Nat
    BY <2>1
  <2>3. ASSUME NEW x PROVE Append(bus[n], x) # bus[n]
    <3>1. Len(Append(bus[n], x)) = Len(bus[n]) + 1
      BY <2>1
    <3>. QED
      BY <2>2, <3>1
  <2>4. ASSUME bus[n] # <<>> PROVE Tail(bus[n]) # bus[n]
    <3>1. PICK l : l = Tail(bus[n])
      OBVIOUS
    <3>2. Len(l) = Len(bus[n]) - 1
      BY <2>1, <2>4, <3>1
    <3>3. l # bus[n]
      BY <2>2, <3>2
    <3>. QED
      BY <3>1, <3>3
  <2>. QED
    BY <2>3, <2>4
<1>6. ReceiveStep(n) => bus[n] # <<>> /\ bus'[n] = Tail(bus[n])
  BY <1>3
<1>7. CASE bus'[n] = bus[n]
  <2>1. ASSUME NEW t \in Threads, Write(t) PROVE n \notin DOMAIN app.slots \ {Sid(t)}
    BY <1>2, <1>5, <1>7, <2>1
  <2>2. ASSUME NEW m \in Nodes, ReceiveStep(m)
        PROVE  m # n /\ (Replies(m) => n \notin DOMAIN app.slots \ {m})
    BY <1>3, <1>5, <1>7, <2>2
  <2>. QED
    BY <1>6, <1>7, <2>1, <2>2
<1>8. CASE bus'[n] # bus[n]
  <2>1. CASE \E t \in Threads : Write(t)
    BY <1>2, <1>6, <1>8, <2>1
  <2>2. CASE \E m \in Nodes : ReceiveStep(m)
    <3>1. PICK m \in Nodes : ReceiveStep(m)
      BY <2>2
    <3>. QED
      BY <1>3, <1>6, <1>8, <3>1
  <2>3. CASE \E m \in Nodes : Lose(m)
    BY <1>4, <1>6, <1>8, <2>3
  <2>4. bus' = bus \/ (\E t \in Threads : Write(t)) \/ (\E m \in Nodes : ReceiveStep(m))
                   \/ (\E m \in Nodes : Lose(m))
    BY DEF Next, vars, SendStep, Send, WriteFails, Answered, Timeout, Interrupted, Leave,
       AddMessageSlots
  <2>. QED
    BY <1>8, <2>1, <2>2, <2>3, <2>4
<1>. QED
  BY <1>7, <1>8

\* A reassembly moves only when its node takes a frame of its id.
LEMMA PlaceStep ==
    ASSUME Inv, [Next]_vars, NEW n \in Nodes, NEW id, Handles(n, id)
    PROVE  Place(n, id)' = IF ReceiveStep(n) THEN Next1(id, Place(n, id), Head(bus[n])) ELSE Place(n, id)
<1>. USE DEF Inv, receivers, senders
<1>1. ASSUME NEW m \in Nodes, ReceiveStep(m)
      PROVE  Place(n, id)' = IF m = n THEN Next1(id, Place(n, id), Head(bus[n])) ELSE Place(n, id)
  <2>1. PICK f : f = Received(m)
    OBVIOUS
  <2>2. /\ f = Head(bus[m])
        /\ \A k \in Nodes : \A x : k # m \/ x # IdOf(f) => Place(k, x)' = Place(k, x)
        /\ Handles(m, IdOf(f)) => Place(m, IdOf(f))' = After(Place(m, IdOf(f)), f)
    BY <1>1, <2>1, ReceiveFacts
  <2>. QED
    BY <2>2 DEF Next1
<1>2. ext' = ext => Place(n, id)' = Place(n, id)
  BY DEF Place, StateOf
<1>3. ext' = ext \/ \E m \in Nodes : ReceiveStep(m)
  BY DEF Next, vars, SendStep, Send, Write, WriteFails, Answered, Timeout, Interrupted, Leave,
         AddMessageSlots, Lose
<1>4. CASE \E m \in Nodes : ReceiveStep(m)
  <2>1. CASE ReceiveStep(n)
    BY <1>1, <2>1
  <2>2. CASE ~ReceiveStep(n)
    BY <1>1, <1>4, <2>2
  <2>. QED
    BY <2>1, <2>2
<1>5. CASE ~ \E m \in Nodes : ReceiveStep(m)
  BY <1>2, <1>3, <1>5
<1>. QED
  BY <1>4, <1>5

(***************************************************************************)
(* The threads: whose a frame is, and what the others do meanwhile.         *)
(***************************************************************************)
CountsOK == /\ faults \in [{"losses", "failures", "interrupts"} -> Nat]
            /\ retry \in [Threads -> Nat]

\* The id a thread's message is sent under, and the answer that is for it.
SentId(t) == [type |-> Message(t).type, mid |-> Message(t).mid,
              sid |-> Sid(t), did |-> Message(t).did]
Ack(id) == [type |-> AckType(id.type), mid |-> id.mid, sid |-> id.did, did |-> id.sid]

\* The thread takes no step: neither its call nor its history changes.
Still(t) == /\ pc'[t] = pc[t] /\ retry'[t] = retry[t]
            /\ packet'[t] = packet[t] /\ status'[t] = status[t]

LEMMA CountsStep ==
    ASSUME SendersOK, CountsOK, [Next]_vars
    PROVE  CountsOK'
<1>. USE DEF CountsOK
<1>1. faults' = faults \/ \E x \in {"losses", "failures", "interrupts"} : faults' = [faults EXCEPT ![x] = @ + 1]
  BY DEF Next, vars, receivers, senders, SendStep, Send, Write, WriteFails, Answered, Timeout,
         Interrupted, Leave, AddMessageSlots, Lose, ReceiveStep, NotForMe, ReceiveCommand,
         ReceiveExtCommand, ReceiveAnnouncement, ReceiveExtAnnouncement, ReceiveAckNak
<1>2. retry' = retry \/ \E t \in Threads : retry' = [retry EXCEPT ![t] = 0] \/ retry' = [retry EXCEPT ![t] = @ + 1]
  BY DEF Next, vars, receivers, senders, SendStep, Send, Write, WriteFails, Answered, Timeout,
     Resend,
         Interrupted, Leave, AddMessageSlots, Lose, ReceiveStep, NotForMe, ReceiveCommand,
         ReceiveExtCommand, ReceiveAnnouncement, ReceiveExtAnnouncement, ReceiveAckNak
<1>3. faults' \in [{"losses", "failures", "interrupts"} -> Nat]
  BY <1>1
<1>4. retry' \in [Threads -> Nat]
  BY <1>2
<1>. QED
  BY <1>3, <1>4

\* A fault does not go away, and a step makes one at most.
LEMMA FaultsGrow ==
    ASSUME SendersOK, CountsOK, [Next]_vars
    PROVE  \/ faults' = faults
           \/ /\ faults'.losses = faults.losses + 1 /\ faults'.failures = faults.failures
              /\ faults'.interrupts = faults.interrupts
              /\ UNCHANGED senders /\ \E n \in Nodes : Lose(n)
           \/ /\ faults'.losses = faults.losses /\ faults'.failures = faults.failures + 1
              /\ faults'.interrupts = faults.interrupts
              /\ \E t \in Threads : WriteFails(t)
           \/ /\ faults'.losses = faults.losses /\ faults'.failures = faults.failures
              /\ faults'.interrupts = faults.interrupts + 1
              /\ \E t \in Threads : Interrupted(t)
<1>1. ASSUME NEW n \in Nodes, Lose(n)
      PROVE  /\ faults'.losses = faults.losses + 1 /\ faults'.failures = faults.failures
             /\ faults'.interrupts = faults.interrupts /\ UNCHANGED senders
  BY <1>1 DEF Lose, CountsOK
<1>2. ASSUME NEW t \in Threads, WriteFails(t)
      PROVE  /\ faults'.losses = faults.losses /\ faults'.failures = faults.failures + 1
             /\ faults'.interrupts = faults.interrupts
  BY <1>2 DEF WriteFails, CountsOK
<1>3. ASSUME NEW t \in Threads, Interrupted(t)
      PROVE  /\ faults'.losses = faults.losses /\ faults'.failures = faults.failures
             /\ faults'.interrupts = faults.interrupts + 1
  BY <1>3 DEF Interrupted, CountsOK
<1>4. \/ faults' = faults
      \/ \E n \in Nodes : Lose(n)
      \/ \E t \in Threads : WriteFails(t) \/ Interrupted(t)
  BY DEF Next, vars, receivers, senders, SendStep, Send, Write, Answered, Timeout,
         Leave, AddMessageSlots, ReceiveStep, NotForMe, ReceiveCommand,
         ReceiveExtCommand, ReceiveAnnouncement, ReceiveExtAnnouncement, ReceiveAckNak
<1>. QED
  BY <1>1, <1>2, <1>3, <1>4

LEMMA Bystander ==
    ASSUME SendersOK, CountsOK, [Next]_vars, NEW t \in Threads
    PROVE  Still(t) \/ SendStep(t) \/ WriteFails(t) \/ Interrupted(t)
<1>. USE DEF Still, SendersOK, CountsOK
<1>1. ASSUME NEW u \in Threads, u # t, SendStep(u) \/ WriteFails(u) \/ Interrupted(u)
      PROVE  Still(t)
  <2>1. CASE Send(u)
    BY <1>1, <2>1 DEF Send
  <2>2. CASE Write(u)
    BY <1>1, <2>2 DEF Write, Return
  <2>3. CASE WriteFails(u)
    BY <1>1, <2>3 DEF WriteFails, Return
  <2>4. CASE Answered(u)
    BY <1>1, <2>4 DEF Answered
  <2>5. CASE Timeout(u)
    BY <1>1, <2>5 DEF Timeout, Resend
  <2>6. CASE Interrupted(u)
    BY <1>1, <2>6 DEF Interrupted
  <2>7. CASE Leave(u)
    BY <1>1, <2>7 DEF Leave, Return
  <2>. QED
    BY <1>1, <2>1, <2>2, <2>3, <2>4, <2>5, <2>6, <2>7 DEF SendStep
<1>2. ASSUME NEW n \in Nodes, ReceiveStep(n) \/ AddMessageSlots(n) \/ Lose(n)
      PROVE  Still(t)
  BY <1>2 DEF senders, ReceiveStep, NotForMe, ReceiveCommand, ReceiveExtCommand,
     ReceiveAnnouncement,
              ReceiveExtAnnouncement, ReceiveAckNak, AddMessageSlots, Lose
<1>3. CASE UNCHANGED vars
  BY <1>3 DEF vars, senders
<1>. QED
  BY <1>1, <1>2, <1>3 DEF Next

\* A thread that stays where it is sends the same message.
LEMMA SameMessage ==
    ASSUME app' = app, NEW t, status'[t] = status[t]
    PROVE  /\ Message(t)' = Message(t) /\ Nr(t)' = Nr(t) /\ Sid(t)' = Sid(t)
           /\ SentId(t)' = SentId(t) /\ Expected(t)' = Expected(t) /\ Acked(t)' = Acked(t)
BY DEF Message, Nr, Sid, SentId, Expected, Acked

\* With one user per id, who sends under an id is one thread.
LEMMA OneUser ==
    ASSUME SendersOK, Alone, NEW t \in Threads, NEW u \in Threads,
           Nr(t) \in DOMAIN app.program[t], Nr(u) \in DOMAIN app.program[u],
           SentId(t) = SentId(u)
    PROVE  t = u
<1>. DEFINE x == [type |-> Message(t).type, mid |-> Message(t).mid, did |-> Message(t).did]
<1>1. Message(t) \in Range(app.program[t]) /\ Message(u) \in Range(app.program[u])
  BY DEF Message, Range
<1>2. /\ Message(t).type = Message(u).type /\ Message(t).mid = Message(u).mid
      /\ Message(t).did = Message(u).did /\ Sid(t) = Sid(u)
  BY DEF SentId
<1>3. x \in Ids(t) /\ x \in Ids(u)
  BY <1>1, <1>2 DEF Ids
<1>. QED
  BY <1>2, <1>3 DEF Alone

LEMMA OneWaiter ==
    ASSUME SendersOK, Alone, NEW t \in Threads, NEW u \in Threads,
           Busy(t), Busy(u), Expected(t) = Expected(u)
    PROVE  t = u
<1>1. Nr(t) \in DOMAIN app.program[t] /\ Nr(u) \in DOMAIN app.program[u]
  BY DEF SendersOK, Busy
<1>2. Message(t).type \in Commands /\ Message(u).type \in Commands
  BY DEF Busy, Acked
<1>3. SentId(t) = SentId(u)
  BY <1>2 DEF Expected, SentId, AckType, Commands
<1>. QED
  BY <1>1, <1>3, OneUser

\* Nobody else writes a frame of the message a thread is sending.
LEMMA OthersWrite ==
    ASSUME SendersOK, Alone, NEW t \in Threads, NEW u \in Threads, pc[t] # "idle", u # t, Write(u)
    PROVE  SentId(u) # SentId(t) /\ IdOf(Frame(u)) = SentId(u)
<1>1. pc[u] # "idle"
  BY DEF Write
<1>2. Nr(t) \in DOMAIN app.program[t] /\ Nr(u) \in DOMAIN app.program[u]
  BY <1>1 DEF SendersOK
<1>. QED
  BY <1>2, OneUser DEF SentId, Frame, IdOf

(***************************************************************************)
(* What a step does to the way of a reassembly.                             *)
(***************************************************************************)
Tip(n, id, x) == Reaches(bus[n], id, Place(n, id), x)
Clean(n, id, x) == Fitting(bus[n], id, Place(n, id), x)
Hits(n, id) == Completing(bus[n], id, Place(n, id))

LEMMA TipType ==
    ASSUME SendersOK, BusOK, NEW n \in DOMAIN app.slots, NEW id, NEW x, Tip(n, id, x)
    PROVE  x.cur \in Nat
<1>1. PICK q, p : q = bus[n] /\ p = Place(n, id)
  OBVIOUS
<1>2. q \in Seq(Fragments \cup Answers)
  BY <1>1, AppTypes DEF SendersOK, BusOK
<1>3. Len(q) \in 0 .. Len(q)
  BY <1>2
<1>. QED
  BY <1>1, <1>3 DEF Tip, Reaches, Course

LEMMA WrittenFrame ==
    ASSUME SendersOK, NEW t \in Threads, Write(t)
    PROVE  /\ Frame(t) \in Frames /\ IdOf(Frame(t)) = SentId(t) /\ Frame(t).sid = Sid(t)
           /\ Frame(t).cur = packet[t] /\ Frame(t).last = Message(t).packets
           /\ packet[t] \in Nat \ {0} /\ Message(t).packets \in Nat \ {0}
           /\ packet[t] <= Message(t).packets
           /\ Nr(t) \in DOMAIN app.program[t] /\ SentId(t).did \in Nodes \cup {Broadcast}
           /\ SentId(t).type \in Commands \cup Announcements
           /\ SentId(t).type = "CMD" => Message(t).packets = 1
<1>1. /\ Nr(t) \in DOMAIN app.program[t] /\ packet[t] <= Message(t).packets
      /\ packet[t] \in Nat \ {0}
  BY DEF Write, SendersOK
<1>2. /\ Message(t) \in Messages /\ Message(t).type \in Commands \cup Announcements
      /\ Message(t).did \in Nodes \cup {Broadcast} /\ Message(t).packets \in Nat \ {0}
      /\ Message(t).type = "CMD" => Message(t).packets = 1
  BY <1>1, MessageTypes DEF SendersOK, Message
<1>3. Nr(t) \in Nat
  BY DEF Nr, SendersOK
<1>4. PICK p : p = [by |-> t, nr |-> Nr(t), packet |-> packet[t]]
  OBVIOUS
<1>5. p \in Pieces /\ Frame(t) = FragmentOf(p)
  BY <1>1, <1>2, <1>3, <1>4 DEF Pieces, Of, Message, Frame, FragmentOf, Sid
<1>6. Frame(t) \in Frames
  BY <1>5 DEF Frames, Fragments
<1>. QED
  BY <1>1, <1>2, <1>6 DEF Frame, IdOf, SentId

LEMMA TipWrite ==
    ASSUME Inv, [Next]_vars, NEW t \in Threads, Write(t), NEW n \in DOMAIN app.slots \ {Sid(t)},
           NEW id, id = SentId(t), Handles(n, id), NEW x, NEW y, y = After(x, Frame(t))
    PROVE  /\ Tip(n, id, x) => Tip(n, id, y)'
           /\ Tip(n, id, x) /\ Completes(x, Frame(t)) => Hits(n, id)'
           /\ Clean(n, id, x) /\ Fits(x, Frame(t)) => Clean(n, id, y)'
<1>0. SendersOK /\ BusOK /\ app \in Apps /\ bus \in [Nodes -> Seq(Frames)]
  BY DEF Inv, SendersOK, BusOK, Frames
<1>1. n \in Nodes
  BY <1>0, AppTypes
<1>2. PICK q, p, f : q = bus[n] /\ p = Place(n, id) /\ f = Frame(t)
  OBVIOUS
<1>3. f \in Frames /\ IdOf(f) = id /\ f.cur \in Nat /\ f.sid = Sid(t) /\ q \in Seq(Frames)
  BY <1>0, <1>1, <1>2, WrittenFrame
<1>4. bus'[n] = Append(q, f)
  BY <1>0, <1>1, <1>2, <1>3 DEF Write, Transmit
<1>5. Place(n, id)' = p
  BY <1>2 DEF Write, receivers, Place, StateOf
<1>6. y = Next1(id, x, f)
  BY <1>2, <1>3 DEF Next1
<1>. QED
  BY <1>2, <1>3, <1>4, <1>5, <1>6, OneMore DEF Tip, Clean, Hits

LEMMA TipStep ==
    ASSUME Inv, CountsOK, [Next]_vars, faults'.losses = faults.losses,
           NEW n \in Nodes, NEW id, Handles(n, id), NEW x,
           \A t \in Threads : Write(t) => SentId(t) # id
    PROVE  /\ Tip(n, id, x) => Tip(n, id, x)'
           /\ Clean(n, id, x) => Clean(n, id, x)'
           /\ Hits(n, id) => \/ Hits(n, id)'
                             \/ /\ ReceiveStep(n) /\ IdOf(Received(n)) = id
                                /\ Completes(State(n, Received(n)), Received(n))
<1>0. /\ SendersOK /\ BusOK /\ bus \in [Nodes -> Seq(Frames)]
      /\ SendersOK /\ SlotsOK /\ ReassemblyOK
  BY DEF Inv, BusOK, Frames
<1>1. PICK q, p, p2 : q = bus[n] /\ p = Place(n, id) /\ p2 = Place(n, id)'
  OBVIOUS
<1>2. q \in Seq(Frames)
  BY <1>0, <1>1
<1>3. p2 = IF ReceiveStep(n) THEN Next1(id, p, Head(q)) ELSE p
  BY <1>1, PlaceStep
<1>4. CASE bus'[n] = q /\ ~ReceiveStep(n)
  BY <1>1, <1>3, <1>4 DEF Tip, Clean, Hits
<1>5. ASSUME NEW f, IdOf(f) # id, bus'[n] = Append(q, f), ~ReceiveStep(n)
      PROVE  /\ Tip(n, id, x) => Tip(n, id, x)'
             /\ Clean(n, id, x) => Clean(n, id, x)'
             /\ Hits(n, id) => Hits(n, id)'
  <2>1. Next1(id, x, f) = x /\ p2 = p
    BY <1>3, <1>5 DEF Next1
  <2>2. q \in Seq(Frames \cup {f})
    BY <1>2
  <2>. QED
    BY <1>1, <1>5, <2>1, <2>2, OneMore DEF Tip, Clean, Hits
<1>6. CASE ReceiveStep(n)
  <2>1. q # <<>> /\ bus'[n] = Tail(q) /\ Received(n) = Head(q)
    BY <1>1, <1>6, BusMoves DEF Received
  <2>2. p2 = Next1(id, p, Head(q))
    BY <1>3, <1>6
  <2>3. IdOf(Received(n)) = id /\ Completes(p, Received(n)) => Completes(State(n, Received(n)), Received(n))
    BY <1>1, SameFit DEF Place, State, StateOf
  <2>. QED
    BY <1>1, <1>2, <1>6, <2>1, <2>2, <2>3, OneLess DEF Tip, Clean, Hits
<1>7. CASE ~ReceiveStep(n)
  <2>1. CASE bus'[n] = q
    BY <1>4, <1>7, <2>1
  <2>2. ASSUME NEW t \in Threads, Write(t), bus'[n] = Append(q, Frame(t))
        PROVE  \E f : IdOf(f) # id /\ bus'[n] = Append(q, f)
    BY <1>0, <2>2, WrittenFrame
  <2>3. ASSUME NEW m \in Nodes, ReceiveStep(m), Replies(m), bus'[n] = Append(q, AnswerFrame(m,
  Received(m)))
        PROVE  \E f : IdOf(f) # id /\ bus'[n] = Append(q, f)
    <3>1. IdOf(AnswerFrame(m, Received(m))).type \in {"CMD_ACKNAK", "EXT_CMD_ACKNAK"}
      BY DEF IdOf, AnswerFrame, AckType
    <3>2. id.type \in {"EXT_CMD", "EXT_ANN"}
      BY DEF Handles
    <3>. QED
      BY <2>3, <3>1, <3>2
  <2>4. ~Lose(n)
    BY DEF Lose, CountsOK
  <2>5. bus'[n] = q \/ \E f : IdOf(f) # id /\ bus'[n] = Append(q, f)
    BY <1>1, <1>7, <2>2, <2>3, <2>4, BusMoves
  <2>. QED
    BY <1>5, <1>7, <2>1, <2>5
<1>. QED
  BY <1>6, <1>7

(***************************************************************************)
(* The answers: posts of the entries, and frames on their way to them.      *)
(***************************************************************************)
Woken(t) == \E i \in 1 .. Len(AckNaks[Sid(t)]) :
               AckNaks[Sid(t)][i].by = t /\ AckNaks[Sid(t)][i].posts > 0

LEMMA WokenPosted ==
    ASSUME SendersOK, ListsOK, NEW t \in Threads, Busy(t)
    PROVE  Posted(t) <=> Woken(t)
<1>1. /\ Sid(t) \in Nodes /\ MyEntry(t) \in 1 .. Len(AckNaks[Sid(t)])
      /\ AckNaks[Sid(t)][MyEntry(t)].by = t
  BY HasEntry DEF Busy
<1>2. \A i \in 1 .. Len(AckNaks[Sid(t)]) : AckNaks[Sid(t)][i].by = t => i = MyEntry(t)
  BY <1>1 DEF ListsOK
<1>. QED
  BY <1>1, <1>2 DEF Posted, Woken

LEMMA AckNakPosts ==
    ASSUME SendersOK, BusOK, ListsOK, NEW n \in Nodes, ReceiveAckNak(n),
           NEW i \in 1 .. Len(AckNaks[n]), AckNaks[n][i].id = IdOf(Received(n))
    PROVE  \E k \in 1 .. Len(AckNaks[n]) :
              /\ AckNaks[n][k].id = IdOf(Received(n))
              /\ Len(AckNaks'[n]) = Len(AckNaks[n]) /\ errors' = errors
              /\ AckNaks'[n][k].by = AckNaks[n][k].by /\ AckNaks'[n][k].code = Received(n).code
              /\ AckNaks'[n][k].posts = AckNaks[n][k].posts + 1
              /\ \A m \in Nodes \ {n} : AckNaks'[m] = AckNaks[m]
              /\ \A j \in 1 .. Len(AckNaks[n]) : j # k => AckNaks'[n][j] = AckNaks[n][j]
<1>. DEFINE waiting == {j \in DOMAIN AckNaks[n] : AckNaks[n][j].id = IdOf(Received(n))}
<1>1. AckNaks[n] \in Seq(Entries) /\ DOMAIN AckNaks[n] = 1 .. Len(AckNaks[n]) /\ DOMAIN AckNaks = Nodes
  BY ListMembers DEF ListsOK
<1>2. waiting # {} /\ waiting \subseteq Nat
  BY <1>1
<1>3. PICK k \in waiting : k = Min(waiting)
  BY <1>2, LeastElement
<1>4. AckNaks' = [AckNaks EXCEPT ![n][k].posts = @ + 1, ![n][k].code = Received(n).code] /\ errors' = errors
  BY <1>2, <1>3 DEF ReceiveAckNak
<1>5. k \in 1 .. Len(AckNaks[n]) /\ AckNaks[n][k].id = IdOf(Received(n))
  BY <1>1, <1>3
<1>. HIDE DEF waiting
<1>6. PICK list, code : list = AckNaks[n] /\ code = Received(n).code
  OBVIOUS
<1>7. PICK e : e = [list[k] EXCEPT !.posts = list[k].posts + 1]
  OBVIOUS
<1>8. PICK L1 : L1 = [AckNaks EXCEPT ![n] = [list EXCEPT ![k] = e]]
  OBVIOUS
<1>9. L1[n] = [list EXCEPT ![k] = e] /\ DOMAIN L1 = Nodes /\ \A m \in Nodes \ {n} : L1[m] = AckNaks[m]
  BY <1>1, <1>8
<1>10. AckNaks' = [L1 EXCEPT ![n][k].code = code]
  BY <1>4, <1>6, <1>7, <1>8
<1>11. PICK x : x = [e EXCEPT !.code = code]
  OBVIOUS
<1>12. L1[n][k] = e /\ [L1[n] EXCEPT ![k] = x] = [list EXCEPT ![k] = x]
  BY <1>1, <1>5, <1>6, <1>9
<1>13. AckNaks'[n] = [list EXCEPT ![k] = x] /\ \A m \in Nodes \ {n} : AckNaks'[m] = AckNaks[m]
  BY <1>9, <1>10, <1>11, <1>12
<1>14. list[k] \in Entries
  BY <1>5, <1>6, ListMembers
<1>15. x.by = list[k].by /\ x.posts = list[k].posts + 1 /\ x.code = code
  <2>1. PICK o : o = list[k] /\ o \in [by : Threads, id : AckIds, posts : Nat, code : Int]
    BY <1>14 DEF Entries
  <2>2. e.by = o.by /\ e.posts = o.posts + 1 /\ e \in [by : Threads, id : AckIds, posts : Nat, code : Int]
    BY <1>7, <2>1
  <2>. QED
    BY <1>11, <2>1, <2>2
<1>16. /\ Len(AckNaks'[n]) = Len(list) /\ AckNaks'[n][k] = x
       /\ \A j \in 1 .. Len(list) : j # k => AckNaks'[n][j] = list[j]
  BY <1>1, <1>5, <1>6, <1>13
<1>17. /\ Len(AckNaks'[n]) = Len(AckNaks[n])
       /\ AckNaks'[n][k].by = AckNaks[n][k].by /\ AckNaks'[n][k].code = Received(n).code
       /\ AckNaks'[n][k].posts = AckNaks[n][k].posts + 1
       /\ \A j \in 1 .. Len(AckNaks[n]) : j # k => AckNaks'[n][j] = AckNaks[n][j]
  BY <1>6, <1>15, <1>16
<1>. QED
  BY <1>4, <1>5, <1>13, <1>17, Zenon

\* What a step does to the list of a node.
Enters(old, new, u) == Send(u) /\ Acked(u) /\ new = <<Entry(u)>> \o old
Rewrites(old, new, k) ==
    /\ Len(new) = Len(old) /\ new[k].by = old[k].by
    /\ \A j \in 1 .. Len(old) : j # k => new[j] = old[j]
Leaves(old, new, u) == Leave(u) /\ \E k \in 1 .. Len(old) : old[k].by = u /\ new = RemoveAt(old, k)
Accepts(old, new, u) ==
    Answered(u) /\ \E k \in 1 .. Len(old) :
        old[k].by = u /\ Rewrites(old, new, k) /\ new[k].code = old[k].code
Posts(old, new, n) ==
    ReceiveAckNak(n) /\ \E k \in 1 .. Len(old) :
        /\ old[k].id = IdOf(Received(n)) /\ Rewrites(old, new, k)
        /\ new[k].posts = old[k].posts + 1 /\ new[k].code = Received(n).code

LEMMA EntryMoves ==
    ASSUME Inv, [Next]_vars, NEW n \in Nodes, NEW old, NEW new, old = AckNaks[n], new = AckNaks'[n]
    PROVE  \/ new = old
           \/ \E u \in Threads : /\ Sid(u) = n
                                 /\ Enters(old, new, u) \/ Accepts(old, new, u) \/ Leaves(old, new, u)
           \/ Posts(old, new, n)
<1>. USE DEF receivers, senders, vars
<1>0. /\ SendersOK /\ ListsOK /\ BusOK
  BY DEF Inv
<1>1. /\ old \in Seq(Entries) /\ Len(old) \in Nat /\ DOMAIN AckNaks[n] = 1 .. Len(old)
      /\ AckNaks \in [Nodes -> Seq(Entries)]
      /\ \A i \in 1 .. Len(old) : old[i] \in Entries
  BY <1>0, ListMembers DEF ListsOK
<1>2. ASSUME NEW u \in Threads, Send(u), Sid(u) = n, Acked(u) PROVE Enters(old, new, u)
  <2>1. PICK l : l = <<Entry(u)>> \o old
    OBVIOUS
  <2>2. AckNaks' = [AckNaks EXCEPT ![n] = l]
    BY <1>2, <2>1 DEF Send
  <2>3. new = l
    BY <1>1, <2>2
  <2>. QED
    BY <1>2, <2>1, <2>3 DEF Enters
<1>3. ASSUME NEW u \in Threads, Answered(u), Sid(u) = n PROVE Accepts(old, new, u)
  <2>1. pc[u] = "wait" /\ Acked(u)
    BY <1>0, <1>3 DEF Answered, SendersOK, Waiting
  <2>2. PICK k \in 1 .. Len(old) : k = MyEntry(u) /\ old[k].by = u
    BY <1>0, <1>3, <2>1, HasEntry
  <2>3. AckNaks' = [AckNaks EXCEPT ![n] = [AckNaks[n] EXCEPT ![k].posts = @ - 1]]
    BY <1>3, <2>2 DEF Answered
  <2>4. new = [old EXCEPT ![k].posts = @ - 1]
    BY <1>1, <2>3
  <2>5. PICK e : e = [old[k] EXCEPT !.posts = old[k].posts - 1]
    OBVIOUS
  <2>6. new = [old EXCEPT ![k] = e]
    BY <2>4, <2>5
  <2>7. Len(new) = Len(old) /\ new[k] = e /\ \A i \in 1 .. Len(old) : i # k => new[i] = old[i]
    BY <1>1, <2>6
  <2>8. e.by = old[k].by /\ e.code = old[k].code
    <3>1. old[k] \in [by : Threads, id : AckIds, posts : Nat, code : Int]
      BY <1>1 DEF Entries
    <3>. QED
      BY <2>5, <3>1
  <2>. QED
    BY <1>3, <2>2, <2>7, <2>8 DEF Accepts, Rewrites
<1>4. ASSUME NEW u \in Threads, Leave(u), Sid(u) = n PROVE Leaves(old, new, u)
  <2>1. pc[u] # "idle" /\ Acked(u)
    BY <1>0, <1>4 DEF Leave, SendersOK, Waiting
  <2>2. PICK k \in 1 .. Len(old) : k = MyEntry(u) /\ old[k].by = u
    BY <1>0, <1>4, <2>1, HasEntry
  <2>3. new = RemoveAt(old, k)
    BY <1>1, <1>4, <2>2 DEF Leave, Unlist
  <2>. QED
    BY <1>4, <2>2, <2>3 DEF Leaves
<1>5. ASSUME ReceiveAckNak(n), NEW i \in 1 .. Len(old), old[i].id = IdOf(Received(n))
      PROVE  Posts(old, new, n)
  BY <1>0, <1>5, AckNakPosts DEF Posts, Rewrites
<1>6. ASSUME ReceiveAckNak(n), \A i \in 1 .. Len(old) : old[i].id # IdOf(Received(n))
      PROVE  new = old
  BY <1>1, <1>6 DEF ReceiveAckNak
<1>7. ASSUME NEW u \in Threads, Sid(u) # n, Send(u) \/ Answered(u) \/ Leave(u) PROVE new = old
  BY <1>1, <1>7 DEF Send, Answered, Leave
<1>8. ASSUME NEW u \in Threads, Send(u), ~Acked(u) PROVE new = old
  BY <1>8 DEF Send
<1>9. ASSUME NEW m \in Nodes, m # n, ReceiveAckNak(m) PROVE new = old
  <2>1. CASE {j \in DOMAIN AckNaks[m] : AckNaks[m][j].id = IdOf(Received(m))} = {}
    BY <1>9, <2>1 DEF ReceiveAckNak
  <2>2. CASE {j \in DOMAIN AckNaks[m] : AckNaks[m][j].id = IdOf(Received(m))} # {}
    <3>1. PICK k, y : AckNaks' = [AckNaks EXCEPT ![m][k].posts = @ + 1, ![m][k].code = y]
      BY <1>9, <2>2 DEF ReceiveAckNak
    <3>. QED
      BY <1>1, <1>9, <3>1
  <2>. QED
    BY <2>1, <2>2
<1>10. \/ AckNaks' = AckNaks
       \/ \E u \in Threads : Send(u) \/ Answered(u) \/ Leave(u)
       \/ \E m \in Nodes : ReceiveAckNak(m)
  BY DEF Next, SendStep, Write, WriteFails, Timeout, Interrupted, ReceiveStep, NotForMe, ReceiveCommand,
         ReceiveExtCommand, ReceiveAnnouncement, ReceiveExtAnnouncement, AddMessageSlots, Lose
<1>11. CASE AckNaks' = AckNaks
  BY <1>11
<1>12. CASE \E u \in Threads : Send(u) \/ Answered(u) \/ Leave(u)
  BY <1>2, <1>3, <1>4, <1>7, <1>8, <1>12
<1>13. CASE \E m \in Nodes : ReceiveAckNak(m)
  BY <1>5, <1>6, <1>9, <1>13
<1>. QED
  BY <1>10, <1>11, <1>12, <1>13

LEMMA Entered ==
    ASSUME NEW old \in Seq(Entries), NEW new, NEW e, new = <<e>> \o old
    PROVE  /\ \A i \in 1 .. Len(old) : i + 1 \in 1 .. Len(new) /\ new[i + 1] = old[i]
           /\ \A i \in 1 .. Len(new) : new[i] = e \/ \E j \in 1 .. Len(old) : new[i] = old[j]
<1>1. /\ Len(old) \in Nat /\ Len(new) = Len(old) + 1 /\ new[1] = e
      /\ \A i \in 1 .. Len(old) : new[i + 1] = old[i]
  OBVIOUS
<1>2. \A i \in 1 .. Len(old) : i + 1 \in 1 .. Len(new)
  BY <1>1
<1>3. ASSUME NEW i \in 1 .. Len(new), i # 1 PROVE \E j \in 1 .. Len(old) : new[i] = old[j]
  <2>1. i - 1 \in 1 .. Len(old) /\ (i - 1) + 1 = i
    BY <1>1, <1>3
  <2>. QED
    BY <1>1, <2>1
<1>. QED
  BY <1>1, <1>2, <1>3

LEMMA Left ==
    ASSUME NEW old \in Seq(Entries), NEW k \in 1 .. Len(old), NEW new, RemoveAt(old, k) = new
    PROVE  /\ \A i \in 1 .. Len(new) : \E j \in 1 .. Len(old) : new[i] = old[j]
           /\ \A j \in 1 .. Len(old) : j # k => \E i \in 1 .. Len(new) : new[i] = old[j]
<1>1. /\ Len(old) \in Nat /\ Len(new) = Len(old) - 1
      /\ \A i \in 1 .. Len(old) - 1 : new[i] = IF i < k THEN old[i] ELSE old[i + 1]
  <2>1. /\ Len(RemoveAt(old, k)) = Len(old) - 1
        /\ \A i \in 1 .. Len(old) - 1 : RemoveAt(old, k)[i] = IF i < k THEN old[i] ELSE old[i + 1]
    BY Removed
  <2>. QED
    BY <2>1
<1>2. ASSUME NEW i \in 1 .. Len(new) PROVE \E j \in 1 .. Len(old) : new[i] = old[j]
  <2>1. i \in 1 .. Len(old) /\ i + 1 \in 1 .. Len(old) /\ i \in 1 .. Len(old) - 1
    BY <1>1
  <2>. QED
    BY <1>1, <2>1
<1>3. ASSUME NEW j \in 1 .. Len(old), j # k PROVE \E i \in 1 .. Len(new) : new[i] = old[j]
  <2>1. CASE j < k
    <3>1. j \in 1 .. Len(new) /\ new[j] = old[j]
      BY <1>1, <2>1
    <3>. QED
      BY <3>1
  <2>2. CASE j > k
    <3>1. j - 1 \in 1 .. Len(old) - 1 /\ ~(j - 1 < k) /\ (j - 1) + 1 = j
      BY <1>1, <2>2
    <3>2. j - 1 \in 1 .. Len(new) /\ new[j - 1] = old[j]
      BY <1>1, <3>1
    <3>. QED
      BY <3>2
  <2>. QED
    BY <1>1, <1>3, <2>1, <2>2
<1>. QED
  BY <1>2, <1>3

\* While a thread takes no step, its entry loses no post, and gains one only
\* by an answer that is for it.
LEMMA WokenStill ==
    ASSUME Inv, CountsOK, [Next]_vars, NEW t \in Threads, Still(t), Busy(t)
    PROVE  /\ Woken(t) => Woken(t)'
           /\ Woken(t)' => \/ Woken(t)
                           \/ ReceiveAckNak(Sid(t)) /\ IdOf(Received(Sid(t))) = Expected(t)
<1>0. SendersOK /\ ListsOK /\ app' = app
  BY OnlyGrows DEF Inv
<1>1. PICK n \in Nodes : n = Sid(t) /\ Sid(t)' = n
  BY <1>0, AppTypes DEF SendersOK, Sid
<1>2. PICK old, new : old = AckNaks[n] /\ new = AckNaks'[n]
  OBVIOUS
<1>3. /\ old \in Seq(Entries)
      /\ \A i \in 1 .. Len(old) : old[i].posts \in Nat /\ old[i].id = Expected(old[i].by)
  BY <1>0, <1>2, ListMembers DEF Listed
<1>4. /\ Woken(t) <=> \E i \in 1 .. Len(old) : old[i].by = t /\ old[i].posts > 0
      /\ Woken(t)' <=> \E i \in 1 .. Len(new) : new[i].by = t /\ new[i].posts > 0
  BY <1>1, <1>2 DEF Woken
<1>5. \A u \in Threads : Answered(u) \/ Leave(u) => u # t
  BY <1>0 DEF Answered, Leave, Return, Still, SendersOK
<1>6. ASSUME NEW u \in Threads, Enters(old, new, u) PROVE Woken(t)' <=> Woken(t)
  <2>1. PICK e : e = Entry(u)
    OBVIOUS
  <2>2. new = <<e>> \o old
    BY <1>6, <2>1 DEF Enters
  <2>3. e.posts = 0
    BY <2>1 DEF Entry
  <2>4. /\ \A i \in 1 .. Len(old) : i + 1 \in 1 .. Len(new) /\ new[i + 1] = old[i]
        /\ \A i \in 1 .. Len(new) : new[i] = e \/ \E j \in 1 .. Len(old) : new[i] = old[j]
    BY <1>3, <2>2, Entered
  <2>. QED
    BY <1>4, <2>3, <2>4
<1>7. ASSUME NEW u \in Threads, Accepts(old, new, u) PROVE Woken(t)' <=> Woken(t)
  <2>1. PICK k \in 1 .. Len(old) : old[k].by = u /\ Rewrites(old, new, k) /\ u # t
    BY <1>5, <1>7 DEF Accepts
  <2>. QED
    BY <1>4, <2>1 DEF Rewrites
<1>8. ASSUME NEW u \in Threads, Leaves(old, new, u) PROVE Woken(t)' <=> Woken(t)
  <2>1. PICK k \in 1 .. Len(old) : old[k].by = u /\ new = RemoveAt(old, k) /\ u # t
    BY <1>5, <1>8 DEF Leaves
  <2>2. k \in 1 .. Len(old) /\ RemoveAt(old, k) = new
    BY <2>1
  <2>3. /\ \A i \in 1 .. Len(new) : \E j \in 1 .. Len(old) : new[i] = old[j]
        /\ \A j \in 1 .. Len(old) : j # k => \E i \in 1 .. Len(new) : new[i] = old[j]
    BY <1>3, <2>2, Left
  <2>. QED
    BY <1>4, <2>1, <2>3
<1>9. ASSUME Posts(old, new, n)
      PROVE  /\ Woken(t) => Woken(t)'
             /\ Woken(t)' => Woken(t) \/ (ReceiveAckNak(n) /\ IdOf(Received(n)) = Expected(t))
  <2>1. PICK k \in 1 .. Len(old) : /\ old[k].id = IdOf(Received(n)) /\ Rewrites(old, new, k)
                                   /\ new[k].posts = old[k].posts + 1 /\ ReceiveAckNak(n)
    BY <1>9 DEF Posts
  <2>2. old[k].posts \in Nat /\ old[k].id = Expected(old[k].by) /\ Len(new) = Len(old)
    BY <1>3, <2>1 DEF Rewrites
  <2>3. ASSUME Woken(t) PROVE Woken(t)'
    BY <1>4, <2>1, <2>2, <2>3 DEF Rewrites
  <2>4. ASSUME Woken(t)', ~Woken(t) PROVE IdOf(Received(n)) = Expected(t)
    <3>1. PICK i \in 1 .. Len(new) : new[i].by = t /\ new[i].posts > 0
      BY <1>4, <2>4
    <3>2. i = k
      BY <1>4, <2>1, <2>2, <2>4, <3>1 DEF Rewrites
    <3>. QED
      BY <2>1, <2>2, <3>1, <3>2 DEF Rewrites
  <2>. QED
    BY <2>1, <2>3, <2>4
<1>10. new = old => (Woken(t)' <=> Woken(t))
  BY <1>4
<1>. QED
  BY <1>1, <1>2, <1>6, <1>7, <1>8, <1>9, <1>10, EntryMoves

\* Where the code in a thread's entry comes from.
LEMMA EntryCode ==
    ASSUME Inv, [Next]_vars, NEW t \in Threads, NEW n \in Nodes, n = Sid(t),
           NEW i \in 1 .. Len(AckNaks'[n]), AckNaks'[n][i].by = t
    PROVE  \/ \E j \in 1 .. Len(AckNaks[n]) : /\ AckNaks[n][j].by = t
                                              /\ AckNaks[n][j].code = AckNaks'[n][i].code
           \/ Send(t) /\ AckNaks'[n][i].code = Garbage
           \/ /\ ReceiveAckNak(n) /\ IdOf(Received(n)) = Expected(t)
              /\ AckNaks'[n][i].code = Received(n).code
<1>1. PICK old, new : old = AckNaks[n] /\ new = AckNaks'[n]
  OBVIOUS
<1>2. old \in Seq(Entries) /\ \A j \in 1 .. Len(old) : old[j].id = Expected(old[j].by)
  BY <1>1, ListMembers DEF Inv, Listed
<1>3. ASSUME NEW u \in Threads, Enters(old, new, u)
      PROVE  \/ \E j \in 1 .. Len(old) : new[i] = old[j]
             \/ Send(t) /\ new[i].code = Garbage
  <2>1. PICK e : e = Entry(u)
    OBVIOUS
  <2>2. new = <<e>> \o old /\ Send(u)
    BY <1>3, <2>1 DEF Enters
  <2>3. e.by = u /\ e.code = Garbage
    BY <2>1 DEF Entry
  <2>4. \A k \in 1 .. Len(new) : new[k] = e \/ \E j \in 1 .. Len(old) : new[k] = old[j]
    BY <1>2, <2>2, Entered
  <2>. QED
    BY <1>1, <2>2, <2>3, <2>4
<1>4. ASSUME NEW u \in Threads, Accepts(old, new, u)
      PROVE  \E j \in 1 .. Len(old) : new[i].by = old[j].by /\ new[i].code = old[j].code
  BY <1>1, <1>4 DEF Accepts, Rewrites
<1>5. ASSUME NEW u \in Threads, Leaves(old, new, u) PROVE \E j \in 1 .. Len(old) : new[i] = old[j]
  <2>1. PICK k \in 1 .. Len(old) : RemoveAt(old, k) = new
    BY <1>5 DEF Leaves
  <2>2. \A j \in 1 .. Len(new) : \E l \in 1 .. Len(old) : new[j] = old[l]
    BY <1>2, <2>1, Left
  <2>. QED
    BY <1>1, <2>2
<1>6. ASSUME Posts(old, new, n)
      PROVE  \/ \E j \in 1 .. Len(old) : new[i] = old[j]
             \/ /\ ReceiveAckNak(n) /\ IdOf(Received(n)) = Expected(t)
                /\ new[i].code = Received(n).code
  <2>1. PICK k \in 1 .. Len(old) : /\ old[k].id = IdOf(Received(n)) /\ Rewrites(old, new, k)
                                   /\ new[k].code = Received(n).code /\ ReceiveAckNak(n)
    BY <1>6 DEF Posts
  <2>. QED
    BY <1>1, <1>2, <2>1 DEF Rewrites
<1>7. \/ \E j \in 1 .. Len(old) : new[i].by = old[j].by /\ new[i].code = old[j].code
      \/ Send(t) /\ new[i].code = Garbage
      \/ /\ ReceiveAckNak(n) /\ IdOf(Received(n)) = Expected(t)
         /\ new[i].code = Received(n).code
  BY <1>1, <1>3, <1>4, <1>5, <1>6, EntryMoves
<1>. QED
  BY <1>1, <1>7

LEMMA AnswerTaken ==
    ASSUME Inv, Alone, [Next]_vars, NEW t \in Threads, Busy(t), NEW n \in Nodes, n = Sid(t),
           ReceiveStep(n), IdOf(Received(n)) = Expected(t)
    PROVE  ReceiveAckNak(n) /\ Woken(t)' /\ errors' = errors
<1>. USE DEF Inv
<1>0. app' = app /\ Sid(t)' = n
  BY OnlyGrows DEF Sid
<1>1. /\ Received(n).type = AckType(Message(t).type) /\ Received(n).did = n
      /\ Message(t).type \in Commands
  BY DEF Expected, IdOf, Busy, Acked
<1>2. Received(n).type \in {"CMD_ACKNAK", "EXT_CMD_ACKNAK"} /\ ForMe(n)
  BY <1>1 DEF AckType, ForMe
<1>3. ReceiveAckNak(n)
  BY <1>2 DEF ReceiveStep, NotForMe, ReceiveCommand, ReceiveExtCommand, ReceiveAnnouncement,
              ReceiveExtAnnouncement, Reads
<1>4. /\ MyEntry(t) \in 1 .. Len(AckNaks[n]) /\ AckNaks[n][MyEntry(t)].by = t
      /\ AckNaks[n][MyEntry(t)].id = Expected(t)
  <2>1. MyEntry(t) \in 1 .. Len(AckNaks[n]) /\ AckNaks[n][MyEntry(t)].by = t
    BY HasEntry DEF Busy
  <2>. QED
    BY <2>1, ListMembers DEF Listed
<1>5. PICK k \in 1 .. Len(AckNaks[n]) :
         /\ AckNaks[n][k].id = Expected(t)
         /\ Len(AckNaks'[n]) = Len(AckNaks[n]) /\ errors' = errors
         /\ AckNaks'[n][k].by = AckNaks[n][k].by /\ AckNaks'[n][k].posts = AckNaks[n][k].posts + 1
  BY <1>3, <1>4, AckNakPosts
<1>6. /\ AckNaks[n][k].by \in Threads /\ Busy(AckNaks[n][k].by)
      /\ Expected(AckNaks[n][k].by) = Expected(t) /\ AckNaks[n][k].posts \in Nat
  BY <1>5, ListMembers DEF Listed
<1>7. AckNaks[n][k].by = t
  BY <1>6, OneWaiter
<1>8. k \in 1 .. Len(AckNaks'[n]) /\ AckNaks'[n][k].by = t /\ AckNaks'[n][k].posts > 0
  BY <1>5, <1>6, <1>7
<1>. QED
  BY <1>0, <1>3, <1>5, <1>8 DEF Woken

\* A frame of id is on its way to n.
Holds(n, id) == \E i \in 1 .. Len(bus[n]) : IdOf(bus[n][i]) = id

LEMMA HoldsStep ==
    ASSUME Inv, CountsOK, [Next]_vars, faults'.losses = faults.losses,
           NEW n \in Nodes, NEW id, Holds(n, id)
    PROVE  Holds(n, id)' \/ (ReceiveStep(n) /\ IdOf(Received(n)) = id)
<1>1. PICK q, new : q = bus[n] /\ new = bus'[n]
  OBVIOUS
<1>2. q \in Seq(Frames) /\ Len(q) \in Nat
  BY <1>1 DEF Inv, BusOK, Frames
<1>3. PICK i \in 1 .. Len(q) : IdOf(q[i]) = id
  BY <1>1 DEF Holds
<1>4. ~Lose(n)
  BY DEF Lose, CountsOK
<1>5. \/ new = q
      \/ \E f : new = Append(q, f)
      \/ ReceiveStep(n) /\ q # <<>> /\ new = Tail(q)
  BY <1>1, <1>4, BusMoves
<1>6. ASSUME NEW f, new = Append(q, f) PROVE Holds(n, id)'
  <2>1. i \in 1 .. Len(new) /\ new[i] = q[i]
    BY <1>2, <1>3, <1>6
  <2>. QED
    BY <1>1, <1>3, <2>1 DEF Holds
<1>7. CASE ReceiveStep(n) /\ q # <<>> /\ new = Tail(q)
  <2>1. /\ Received(n) = q[1] /\ Len(new) = Len(q) - 1
        /\ \A j \in 1 .. Len(new) : new[j] = q[j + 1]
    BY <1>1, <1>2, <1>7, HeadTailProperties DEF Received
  <2>2. CASE i = 1
    BY <1>3, <1>7, <2>1, <2>2
  <2>3. CASE i # 1
    <3>1. i - 1 \in 1 .. Len(new) /\ (i - 1) + 1 = i
      BY <1>2, <2>1, <2>3
    <3>2. IdOf(new[i - 1]) = id
      BY <1>3, <2>1, <3>1
    <3>. QED
      BY <1>1, <3>1, <3>2 DEF Holds
  <2>. QED
    BY <2>2, <2>3
<1>8. new = q => Holds(n, id)'
  BY <1>1 DEF Holds
<1>. QED
  BY <1>5, <1>6, <1>7, <1>8

\* A thread's command is answered, or will be by a frame on its way.
Answering(t) == Woken(t) \/ Holds(Sid(t), Expected(t))

LEMMA AnsweringStill ==
    ASSUME Inv, CountsOK, Alone, [Next]_vars, faults'.losses = faults.losses,
           NEW t \in Threads, Still(t), Busy(t), Answering(t)
    PROVE  Answering(t)'
<1>1. SendersOK /\ app' = app
  BY OnlyGrows DEF Inv
<1>2. Sid(t) \in Nodes
  BY <1>1, AppTypes DEF SendersOK, Sid
<1>3. PICK n, id : n \in Nodes /\ n = Sid(t) /\ id = Expected(t)
  BY <1>2
<1>4. Sid(t)' = n /\ Expected(t)' = id
  BY <1>1, <1>3, SameMessage DEF Still
<1>5. CASE Woken(t)
  BY <1>5, WokenStill DEF Answering
<1>6. CASE Holds(n, id)
  <2>1. Holds(n, id)' => Answering(t)'
    BY <1>4 DEF Answering
  <2>2. CASE ReceiveStep(n) /\ IdOf(Received(n)) = id
    <3>1. n \in Nodes /\ n = Sid(t) /\ ReceiveStep(n) /\ IdOf(Received(n)) = Expected(t)
      BY <1>3, <2>2
    <3>2. Woken(t)'
      BY <3>1, AnswerTaken
    <3>. QED
      BY <3>2 DEF Answering
  <2>. QED
    BY <1>3, <1>6, <2>1, <2>2, HoldsStep
<1>. QED
  BY <1>3, <1>5, <1>6 DEF Answering

\* The target of a command takes its last frame: the answer is on its way.
LEMMA AnswerSent ==
    ASSUME Inv, [Next]_vars, NEW t \in Threads, Still(t), NEW n \in Nodes, n = Message(t).did,
           Sid(t) \in DOMAIN app.slots \ {n}, Acked(t),
           ReceiveStep(n), IdOf(Received(n)) = SentId(t),
           Message(t).type = "EXT_CMD" => Completes(State(n, Received(n)), Received(n))
    PROVE  Answering(t)'
<1>1. SendersOK /\ app' = app /\ bus \in [Nodes -> Seq(Frames)]
  BY OnlyGrows DEF Inv, BusOK, Frames
<1>2. PICK m, id : m \in Nodes /\ m = Sid(t) /\ id = Expected(t)
  BY <1>1, AppTypes DEF SendersOK, Sid
<1>3. Sid(t)' = m /\ Expected(t)' = id
  BY <1>1, <1>2, SameMessage DEF Still
<1>4. PICK f : f = Received(n)
  OBVIOUS
<1>5. /\ f.type = Message(t).type /\ f.mid = Message(t).mid
      /\ f.sid = Sid(t) /\ f.did = Message(t).did
  BY <1>4 DEF IdOf, SentId
<1>6. Replies(n)
  BY <1>4, <1>5 DEF Replies, ForMe, Acked
<1>7. bus' = Transmit(Taken(n), AnswerFrame(n, f))
  BY <1>4, <1>6, ReceiveFacts
<1>8. PICK a : a = AnswerFrame(n, f)
  OBVIOUS
<1>9. IdOf(a) = id /\ a.sid = n
  BY <1>2, <1>5, <1>8 DEF IdOf, AnswerFrame, Expected
<1>10. Taken(n)[m] = bus[m]
  BY <1>1, <1>2 DEF Taken
<1>11. bus'[m] = Append(bus[m], a)
  BY <1>2, <1>7, <1>8, <1>9, <1>10 DEF Transmit
<1>12. bus[m] \in Seq(Frames) /\ Len(bus[m]) \in Nat
  BY <1>1, <1>2
<1>13. Len(bus'[m]) \in 1 .. Len(bus'[m]) /\ bus'[m][Len(bus'[m])] = a
  BY <1>11, <1>12
<1>14. Holds(m, id)'
  BY <1>9, <1>13 DEF Holds
<1>. QED
  BY <1>3, <1>14 DEF Answering

(***************************************************************************)
(* Without losses and refused writes, a reassembly is where the thread that *)
(* sends to it is: every frame on its way fits.                             *)
(***************************************************************************)
FrameIds == [type : Commands \cup Announcements, mid : Nat, sid : Nodes, did : Nodes \cup {Broadcast}]
Due(t) == IF packet[t] = 1 THEN Start ELSE [cur |-> packet[t] - 1, last |-> Message(t).packets]
Sending(t, id) == pc[t] = "send" /\ SentId(t) = id

Steady(n, id) ==
    \E x : /\ Clean(n, id, x)
           /\ \A t \in Threads : Sending(t, id) => x = Due(t)
           /\ (\A t \in Threads : ~Sending(t, id)) => x = Start

Flawless == faults.losses = 0 /\ faults.failures = 0
SteadyOK ==
    Alone /\ Flawless =>
        \A n \in DOMAIN app.slots : \A id \in FrameIds : Handles(n, id) /\ n # id.sid => Steady(n, id)

\* The next frame of a thread fits where its message is.
LEMMA FrameFits ==
    ASSUME SendersOK, NEW t \in Threads, Write(t), NEW x, x = Due(t), NEW f, f = Frame(t)
    PROVE  /\ Fits(x, f)
           /\ packet[t] < Message(t).packets =>
                 After(x, f) = [cur |-> packet[t], last |-> Message(t).packets]
           /\ packet[t] >= Message(t).packets => Completes(x, f) /\ After(x, f) = Start
<1>1. /\ f.cur = packet[t] /\ f.last = Message(t).packets /\ packet[t] \in Nat \ {0}
      /\ Message(t).packets \in Nat \ {0} /\ packet[t] <= Message(t).packets
  BY WrittenFrame
<1>2. CASE packet[t] = 1
  BY <1>1, <1>2 DEF Due, Start, Fits, After, Continues, Completes
<1>3. CASE packet[t] # 1
  BY <1>1, <1>3 DEF Due, Start, Fits, After, Continues, Completes, InOrder
<1>. QED
  BY <1>2, <1>3

\* After a write a thread goes on, unless that was the last frame.
LEMMA WriteMoves ==
    ASSUME SendersOK, NEW t \in Threads, Write(t)
    PROVE  /\ packet'[t] = packet[t] + 1 /\ retry' = retry /\ AckNaks' = AckNaks /\ faults' = faults
           /\ packet[t] < Message(t).packets => pc'[t] = "send" /\ status'[t] = status[t]
           /\ ~(packet[t] < Message(t).packets) =>
                 IF Acked(t) THEN pc'[t] = "wait" /\ status'[t] = status[t] ELSE pc'[t] = "idle"
<1>1. packet[t] \in Nat /\ Message(t).packets \in Nat
  BY WrittenFrame
<1>2. packet'[t] = packet[t] + 1 /\ retry' = retry /\ AckNaks' = AckNaks /\ faults' = faults
  BY DEF Write, SendersOK
<1>3. CASE packet[t] < Message(t).packets
  BY <1>1, <1>2, <1>3 DEF Write
<1>4. CASE ~(packet[t] < Message(t).packets) /\ Acked(t)
  <2>1. pc' = [pc EXCEPT ![t] = "wait"] /\ UNCHANGED status
    BY <1>1, <1>4 DEF Write
  <2>. QED
    BY <1>2, <1>4, <2>1 DEF SendersOK
<1>5. CASE ~(packet[t] < Message(t).packets) /\ ~Acked(t)
  <2>1. pc' = [pc EXCEPT ![t] = "idle"]
    BY <1>1, <1>5 DEF Write, Return
  <2>. QED
    BY <1>2, <1>5, <2>1 DEF SendersOK
<1>. QED
  BY <1>3, <1>4, <1>5

\* A thread that is sending after a step was sending before, or begins.
LEMMA Begins ==
    ASSUME SendersOK, CountsOK, [Next]_vars, NEW t \in Threads, pc'[t] = "send", ~Still(t),
           ~Write(t)
    PROVE  /\ packet'[t] = 1 /\ status'[t] = status[t] /\ pc[t] # "send"
           /\ Nr(t) \in DOMAIN app.program[t]
<1>1. SendStep(t) \/ Interrupted(t) \/ WriteFails(t)
  BY Bystander
<1>2. Send(t) \/ Timeout(t) \/ Interrupted(t)
  BY <1>1 DEF SendStep, Answered, Leave, Return, WriteFails, SendersOK
<1>3. CASE Send(t)
  BY <1>3 DEF Send, SendersOK, Nr
<1>4. CASE Timeout(t) \/ Interrupted(t)
  BY <1>4 DEF Timeout, Resend, Interrupted, SendersOK
<1>. QED
  BY <1>2, <1>3, <1>4

LEMMA SteadyStep ==
    ASSUME Inv, CountsOK, SteadyOK, [Next]_vars
    PROVE  SteadyOK'
<1>0. SendersOK /\ SendersOK' /\ app' = app
  BY OnlyGrows, InvStep DEF Inv
<1>. SUFFICES ASSUME Alone', Flawless', NEW n \in DOMAIN app.slots, NEW id \in FrameIds,
                     Handles(n, id), n # id.sid
              PROVE  Steady(n, id)'
  BY <1>0 DEF SteadyOK, Handles
<1>1. Alone
  BY <1>0 DEF Alone, Ids, Sid
<1>2. /\ Flawless /\ faults'.losses = faults.losses /\ \A t \in Threads : ~WriteFails(t)
  BY <1>0, FaultsGrow DEF Flawless, CountsOK, WriteFails
<1>3. n \in Nodes
  BY <1>0, AppTypes DEF SendersOK
<1>4. PICK x : /\ Clean(n, id, x)
               /\ \A t \in Threads : Sending(t, id) => x = Due(t)
               /\ (\A t \in Threads : ~Sending(t, id)) => x = Start
  BY <1>1, <1>2 DEF SteadyOK, Steady
<1>5. ASSUME NEW t \in Threads, Still(t)
      PROVE  (Sending(t, id)' <=> Sending(t, id)) /\ Due(t)' = Due(t)
  BY <1>0, <1>5, SameMessage DEF Still, Sending, Due
<1>6. ASSUME NEW t \in Threads, NEW u \in Threads, Sending(t, id), SentId(u) = id,
             Nr(u) \in DOMAIN app.program[u]
      PROVE  t = u
  BY <1>0, <1>1, <1>6, OneUser DEF Sending, SendersOK
<1>7. CASE \E t \in Threads : Write(t) /\ SentId(t) = id
  <2>1. PICK t \in Threads : Write(t) /\ SentId(t) = id
    BY <1>7
  <2>2. Sending(t, id) /\ Sid(t) = id.sid
    BY <2>1 DEF Write, Sending, SentId
  <2>3. PICK f : f = Frame(t)
    OBVIOUS
  <2>4. PICK y : y = After(x, f)
    OBVIOUS
  <2>5. x = Due(t)
    BY <1>4, <2>2
  <2>6. Clean(n, id, y)'
    BY <1>0, <1>4, <2>1, <2>2, <2>3, <2>4, <2>5, FrameFits, TipWrite
  <2>7. /\ packet'[t] = packet[t] + 1 /\ packet[t] \in Nat \ {0} /\ Message(t).packets \in Nat
        /\ pc'[t] = "send" => packet[t] < Message(t).packets /\ status'[t] = status[t]
        /\ packet[t] < Message(t).packets => pc'[t] = "send"
    BY <1>0, <2>1, WrittenFrame, WriteMoves
  <2>8. ASSUME NEW u \in Threads, Sending(u, id)' PROVE u = t
    <3>1. CASE Still(u)
      BY <1>0, <1>5, <1>6, <2>1, <2>8, <3>1 DEF Write, SendersOK
    <3>2. CASE Write(u)
      BY <1>0, <1>6, <2>1, <2>2, <2>8, <3>2, OthersWrite, <1>1 DEF Sending, Write, SendersOK
    <3>3. CASE ~Still(u) /\ ~Write(u)
      <4>1. status'[u] = status[u] /\ Nr(u) \in DOMAIN app.program[u]
        BY <1>0, <2>8, <3>3, Begins DEF Sending
      <4>. QED
        BY <1>0, <1>6, <2>2, <2>8, <4>1, SameMessage DEF Sending
    <3>. QED
      BY <3>1, <3>2, <3>3
  <2>9. CASE packet[t] < Message(t).packets
    <3>1. y = [cur |-> packet[t], last |-> Message(t).packets]
      BY <1>0, <2>1, <2>3, <2>4, <2>5, <2>9, FrameFits
    <3>2. Message(t)' = Message(t) /\ SentId(t)' = id /\ pc'[t] = "send"
      BY <1>0, <2>1, <2>7, <2>9, SameMessage
    <3>3. y = Due(t)' /\ Sending(t, id)'
      BY <2>7, <3>1, <3>2 DEF Due, Sending
    <3>. QED
      BY <2>6, <2>8, <3>3 DEF Steady
  <2>10. CASE ~(packet[t] < Message(t).packets)
    <3>1. y = Start
      BY <1>0, <2>1, <2>3, <2>4, <2>5, <2>7, <2>10, FrameFits
    <3>2. ~Sending(t, id)'
      BY <2>7, <2>10 DEF Sending
    <3>. QED
      BY <2>6, <2>8, <3>1, <3>2 DEF Steady
  <2>. QED
    BY <2>9, <2>10
<1>8. CASE \A t \in Threads : Write(t) => SentId(t) # id
  <2>1. Clean(n, id, x)'
    BY <1>0, <1>2, <1>3, <1>4, <1>8, TipStep
  <2>2. ASSUME NEW t \in Threads, ~Still(t)
        PROVE  /\ ~Sending(t, id)
               /\ Sending(t, id)' => /\ packet'[t] = 1 /\ SentId(t) = id
                                     /\ Nr(t) \in DOMAIN app.program[t]
    <3>1. CASE Write(t)
      <4>1. SentId(t) # id
        BY <1>8, <3>1
      <4>2. pc'[t] = "send" => status'[t] = status[t]
        BY <1>0, <3>1 DEF Write, Return, SendersOK
      <4>. QED
        BY <1>0, <4>1, <4>2, SameMessage DEF Sending
    <3>2. CASE ~Write(t)
      <4>1. pc[t] # "send"
        BY <1>0, <1>2, <2>2, <3>2, Bystander
           DEF SendStep, Send, Answered, Timeout, Interrupted, Leave
      <4>2. Sending(t, id)' => /\ packet'[t] = 1 /\ status'[t] = status[t]
                               /\ Nr(t) \in DOMAIN app.program[t]
        BY <1>0, <2>2, <3>2, Begins DEF Sending
      <4>. QED
        BY <1>0, <4>1, <4>2, SameMessage DEF Sending
    <3>. QED
      BY <3>1, <3>2
  <2>3. ASSUME NEW t \in Threads, Sending(t, id)' PROVE x = Due(t)'
    <3>1. CASE Still(t)
      BY <1>4, <1>5, <2>3, <3>1
    <3>2. CASE ~Still(t)
      <4>1. packet'[t] = 1 /\ SentId(t) = id /\ Nr(t) \in DOMAIN app.program[t] /\ ~Sending(t, id)
        BY <2>2, <2>3, <3>2
      <4>2. \A u \in Threads : ~Sending(u, id)
        BY <1>6, <4>1
      <4>. QED
        BY <1>4, <4>1, <4>2 DEF Due
    <3>. QED
      BY <3>1, <3>2
  <2>4. ASSUME \A t \in Threads : ~Sending(t, id)' PROVE x = Start
    BY <1>4, <1>5, <2>2, <2>4
  <2>. QED
    BY <2>1, <2>3, <2>4 DEF Steady
<1>. QED
  BY <1>7, <1>8

(***************************************************************************)
(* The retries.                                                             *)
(***************************************************************************)
Attempts == app.timely /\ Alone /\ Reachable
Target(t) == Message(t).did

\* A command that waits with no frame of it on its way has lost one in this
\* attempt too.
CommandRetries(t) ==
    Message(t).type = "CMD" =>
        /\ pc[t] \in {"send", "wait"} => faults.losses >= retry[t]
        /\ pc[t] = "wait" /\ ~Answering(t) /\ ~Holds(Target(t), SentId(t)) => faults.losses >= retry[t] + 1
        /\ pc[t] = "timedout" => faults.losses >= MaxRetries

\* The attempt of an extended command will be answered; or, after one fault,
\* it is the one that resets the reassembly.
Sound(t) ==
    IF pc[t] = "send" THEN Tip(Target(t), SentId(t), Due(t))
                      ELSE Answering(t) \/ Hits(Target(t), SentId(t))
Resetting(t) == \/ pc[t] = "send" /\ packet[t] = 1 /\ \E x : Tip(Target(t), SentId(t), x)
                \/ Tip(Target(t), SentId(t), Start)

Faulted == faults.losses + faults.failures
ExtendedRetries(t) ==
    Message(t).type = "EXT_CMD" =>
        /\ pc[t] = "timedout" => Faulted >= 2
        /\ pc[t] \in {"send", "wait"} =>
              /\ Faulted = 0 => retry[t] = 0 /\ Sound(t)
              /\ Faulted = 1 => /\ retry[t] \in 0 .. 2
                                /\ retry[t] = 1 => Sound(t) \/ Resetting(t)
                                /\ retry[t] = 2 => Sound(t)

RetriesOK == Attempts =>
    \A t \in Threads : pc[t] # "idle" => CommandRetries(t) /\ ExtendedRetries(t)

\* Where a command in progress goes, and the answer to it.
LEMMA CommandFacts ==
    ASSUME SendersOK, Attempts, NEW t \in Threads, Nr(t) \in DOMAIN app.program[t], Acked(t)
    PROVE  /\ Target(t) \in Nodes /\ Target(t) \in DOMAIN app.slots \ {Sid(t)}
           /\ Sid(t) \in DOMAIN app.slots \ {Target(t)} /\ Sid(t) \in Nodes
           /\ SentId(t) \in FrameIds /\ SentId(t).sid = Sid(t) /\ SentId(t).did = Target(t)
           /\ Message(t).type = "EXT_CMD" => Handles(Target(t), SentId(t))
<1>1. Message(t) \in Range(app.program[t])
  BY DEF Message, Range
<1>2. Sid(t) \in DOMAIN app.slots /\ Target(t) \in DOMAIN app.slots \ {Sid(t)}
  BY <1>1 DEF Attempts, Reachable, Acked, Target
<1>3. DOMAIN app.slots \subseteq Nodes
  BY AppTypes DEF SendersOK
<1>4. Message(t).type \in Commands \cup Announcements /\ Message(t).mid \in Nat
  BY MessageTypes DEF SendersOK, Message
<1>. QED
  BY <1>2, <1>3, <1>4 DEF SentId, Target, FrameIds, Handles

\* The thread's message, and where it goes, as long as it stays with it.
LEMMA CommandStays ==
    ASSUME app' = app, NEW t, status'[t] = status[t], NEW n, NEW id, n = Target(t), id = SentId(t),
           NEW d, d = Due(t)'
    PROVE  /\ Target(t)' = n /\ SentId(t)' = id /\ Message(t)' = Message(t)
           /\ Sound(t)' <=> IF pc'[t] = "send" THEN Tip(n, id, d)' ELSE Answering(t)' \/ Hits(n, id)'
           /\ Resetting(t)' <=> \/ pc'[t] = "send" /\ packet'[t] = 1 /\ \E x : Tip(n, id, x)'
                                \/ Tip(n, id, Start)'
BY SameMessage DEF Target, Sound, Resetting

\* What a quiet bus says of a thread that waits and has no answer.
LEMMA QuietWait ==
    ASSUME Inv, NEW t \in Threads, Acked(t), pc[t] = "wait", ~Posted(t), BusQuiet,
           Target(t) \in Nodes
    PROVE  /\ ~Answering(t) /\ ~Holds(Target(t), SentId(t)) /\ ~Hits(Target(t), SentId(t))
           /\ Tip(Target(t), SentId(t), Place(Target(t), SentId(t)))
           /\ Tip(Target(t), SentId(t), Start) => Place(Target(t), SentId(t)) = Start
<1>1. SendersOK /\ ListsOK /\ ReassemblyOK /\ Sid(t) \in Nodes
  BY AppTypes DEF Inv, SendersOK, Sid
<1>2. bus[Target(t)] = <<>> /\ bus[Sid(t)] = <<>>
  BY <1>1 DEF BusQuiet
<1>3. ~Woken(t)
  BY <1>1, WokenPosted DEF Busy
<1>4. \A n, id : bus[n] = <<>> => ~Holds(n, id)
  <2>1. Len(<<>>) = 0
    OBVIOUS
  <2>. QED
    BY <2>1 DEF Holds
<1>5. Place(Target(t), SentId(t)).cur \in Nat
  BY <1>1, PlaceType
<1>. QED
  BY <1>2, <1>3, <1>4, <1>5, NoneLeft DEF Answering, Tip, Hits

\* A call that is in progress after a step is of the thread's next message.
LEMMA GoesOn ==
    ASSUME SendersOK, CountsOK, [Next]_vars, NEW t \in Threads, pc'[t] # "idle"
    PROVE  status'[t] = status[t] /\ Nr(t) \in DOMAIN app.program[t]
<1>1. CASE Still(t)
  BY <1>1 DEF Still, SendersOK
<1>2. CASE ~Still(t)
  <2>1. \/ Send(t) \/ Write(t) \/ WriteFails(t) \/ Answered(t) \/ Timeout(t) \/ Interrupted(t) \/ Leave(t)
    BY <1>2, Bystander DEF SendStep
  <2>2. CASE Send(t)
    BY <2>2 DEF Send, SendersOK, Nr
  <2>3. CASE Write(t)
    BY <2>3, WriteMoves, WrittenFrame
  <2>4. CASE WriteFails(t)
    BY <2>4 DEF WriteFails, Return, SendersOK
  <2>5. CASE Answered(t) \/ Timeout(t) \/ Interrupted(t)
    BY <2>5 DEF Answered, Timeout, Resend, Interrupted, SendersOK
  <2>6. CASE Leave(t)
    BY <2>6 DEF Leave, Return, SendersOK
  <2>. QED
    BY <2>1, <2>2, <2>3, <2>4, <2>5, <2>6
<1>. QED
  BY <1>1, <1>2

LEMMA CommandRetriesStep ==
    ASSUME Inv, CountsOK, Attempts, [Next]_vars, NEW t \in Threads, pc'[t] # "idle",
           pc[t] # "idle" => CommandRetries(t)
    PROVE  CommandRetries(t)'
<1>0. /\ SendersOK /\ SendersOK' /\ CountsOK' /\ app' = app /\ Alone
      /\ retry \in [Threads -> Nat] /\ faults.losses \in Nat
      /\ faults'.losses = faults.losses \/ faults'.losses = faults.losses + 1
  BY OnlyGrows, InvStep, CountsStep, FaultsGrow DEF Inv, CountsOK, Attempts
<1>1. status'[t] = status[t] /\ Nr(t) \in DOMAIN app.program[t]
  BY <1>0, GoesOn
<1>2. PICK n, id : n = Target(t) /\ id = SentId(t)
  OBVIOUS
<1>3. PICK d : d = Due(t)'
  OBVIOUS
<1>4. Target(t)' = n /\ SentId(t)' = id /\ Message(t)' = Message(t)
  BY <1>0, <1>1, <1>2, <1>3, CommandStays
<1>. SUFFICES ASSUME Message(t).type = "CMD"
              PROVE  /\ pc'[t] \in {"send", "wait"} => faults'.losses >= retry'[t]
                     /\ pc'[t] = "wait" /\ ~Answering(t)' /\ ~Holds(n, id)' => faults'.losses >= retry'[t] + 1
                     /\ pc'[t] = "timedout" => faults'.losses >= MaxRetries
  BY <1>4 DEF CommandRetries
<1>5. Acked(t) /\ MaxRetries = 3 /\ n \in Nodes /\ Sid(t) \in DOMAIN app.slots \ {n}
      /\ n \in DOMAIN app.slots \ {Sid(t)}
  BY <1>0, <1>1, <1>2, CommandFacts DEF Acked, Commands, MaxRetries
<1>6. CASE Still(t)
  <2>1. pc[t] # "idle" /\ pc'[t] = pc[t] /\ retry'[t] = retry[t]
    BY <1>6 DEF Still
  <2>2. Busy(t)
    BY <1>5, <2>1 DEF Busy
  <2>3. CASE faults'.losses = faults.losses + 1
    <3>1. /\ pc[t] \in {"send", "wait"} => faults.losses >= retry[t]
          /\ pc[t] = "timedout" => faults.losses >= MaxRetries
      BY <2>1 DEF CommandRetries
    <3>2. retry[t] \in Nat /\ MaxRetries \in Nat
      BY <1>0, <1>5
    <3>. QED
      BY <1>0, <2>1, <2>3, <3>1, <3>2
  <2>4. CASE faults'.losses = faults.losses
    <3>1. Answering(t) => Answering(t)'
      BY <1>0, <1>6, <2>2, <2>4, AnsweringStill
    <3>2. Holds(n, id) => Holds(n, id)' \/ Answering(t)'
      <4>1. ASSUME ReceiveStep(n), IdOf(Received(n)) = id PROVE Answering(t)'
        BY <1>2, <1>5, <1>6, <4>1, AnswerSent DEF Target
      <4>. QED
        BY <1>0, <1>5, <2>4, <4>1, HoldsStep
    <3>. QED
      <4>1. /\ pc[t] \in {"send", "wait"} => faults.losses >= retry[t]
            /\ pc[t] = "wait" /\ ~Answering(t) /\ ~Holds(n, id) => faults.losses >= retry[t] + 1
            /\ pc[t] = "timedout" => faults.losses >= MaxRetries
        BY <1>2, <2>1 DEF CommandRetries
      <4>. QED
        BY <2>1, <2>4, <3>1, <3>2, <4>1
  <2>. QED
    BY <1>0, <2>3, <2>4
<1>7. CASE Send(t)
  <2>1. pc'[t] = "send" /\ retry'[t] = 0
    BY <1>0, <1>7 DEF Send, SendersOK
  <2>. QED
    BY <1>0, <2>1
<1>8. CASE Write(t)
  <2>1. pc[t] = "send" /\ retry' = retry /\ faults' = faults /\ pc'[t] \in {"send", "wait"}
    BY <1>0, <1>5, <1>8, WriteMoves DEF Write
  <2>2. Holds(n, id)'
    <3>1. PICK f : f = Frame(t)
      OBVIOUS
    <3>2. IdOf(f) = id /\ f.sid = Sid(t)
      BY <1>0, <1>2, <1>8, <3>1, WrittenFrame
    <3>3. bus[n] \in Seq(Frames) /\ bus \in [Nodes -> Seq(Frames)]
      BY <1>5 DEF Inv, BusOK, Frames
    <3>4. bus'[n] = Append(bus[n], f)
      BY <1>5, <1>8, <3>1, <3>2, <3>3 DEF Write, Transmit
    <3>5. Len(bus'[n]) \in 1 .. Len(bus'[n]) /\ bus'[n][Len(bus'[n])] = f
      BY <3>3, <3>4
    <3>. QED
      BY <3>2, <3>5 DEF Holds
  <2>3. CommandRetries(t)
    BY <2>1
  <2>. QED
    BY <2>1, <2>2, <2>3 DEF CommandRetries
<1>9. CASE WriteFails(t) \/ Answered(t) \/ Leave(t)
  <2>1. pc'[t] \in {"failed", "answered", "idle"}
    BY <1>0, <1>5, <1>9 DEF WriteFails, Answered, Leave, Return, SendersOK
  <2>. QED
    BY <2>1
<1>10. CASE Timeout(t)
  <2>1. /\ pc[t] = "wait" /\ retry'[t] = retry[t] + 1 /\ faults' = faults
        /\ pc'[t] \in {"send", "timedout"} /\ (pc'[t] = "timedout" => retry'[t] >= 3)
        /\ ~Posted(t) /\ BusQuiet
    BY <1>0, <1>5, <1>10 DEF Timeout, Resend, SendersOK, Attempts
  <2>2. ~Answering(t) /\ ~Holds(n, id)
    BY <1>2, <1>5, <2>1, QuietWait
  <2>3. faults.losses >= retry[t] + 1
    BY <1>2, <2>1, <2>2 DEF CommandRetries
  <2>. QED
    BY <1>0, <1>5, <2>1, <2>3
<1>11. CASE Interrupted(t)
  <2>1. /\ pc[t] = "wait" /\ pc'[t] = "send" /\ retry'[t] = retry[t]
        /\ faults'.losses = faults.losses
    BY <1>0, <1>11 DEF Interrupted, SendersOK, CountsOK
  <2>. QED
    BY <2>1 DEF CommandRetries
<1>. QED
  BY <1>0, <1>6, <1>7, <1>8, <1>9, <1>10, <1>11, Bystander DEF SendStep

\* Without faults a thread that sends is where its target's reassembly is.
SendsAreSound ==
    \A t \in Threads : pc[t] = "send" /\ Message(t).type = "EXT_CMD" => Sound(t)

LEMMA SendingIsSound == SendersOK /\ Attempts /\ SteadyOK /\ Flawless => SendsAreSound
<1>. SUFFICES ASSUME SendersOK, Attempts, SteadyOK, Flawless,
                     NEW t \in Threads, pc[t] = "send", Message(t).type = "EXT_CMD"
              PROVE  Sound(t)
  BY DEF SendsAreSound
<1>1. Nr(t) \in DOMAIN app.program[t] /\ Acked(t)
  BY DEF SendersOK, Acked, Commands
<1>2. PICK n, id : n = Target(t) /\ id = SentId(t)
  OBVIOUS
<1>3. /\ n \in DOMAIN app.slots /\ n # Sid(t) /\ id \in FrameIds /\ id.sid = Sid(t)
      /\ Handles(n, id)
  BY <1>1, <1>2, CommandFacts
<1>4. Steady(n, id)
  BY <1>3 DEF SteadyOK, Attempts
<1>5. Sending(t, id)
  BY <1>2 DEF Sending
<1>6. Tip(n, id, Due(t))
  BY <1>4, <1>5 DEF Steady, Clean, Fitting, Tip, Reaches
<1>. QED
  BY <1>2, <1>6 DEF Sound

\* While the thread takes no step and no frame is lost, its attempt stays what
\* it is.
LEMMA SoundStill ==
    ASSUME Inv, CountsOK, Attempts, [Next]_vars, faults'.losses = faults.losses,
           NEW t \in Threads, Still(t), pc[t] \in {"send", "wait"}, Message(t).type = "EXT_CMD"
    PROVE  (Sound(t) => Sound(t)') /\ (Resetting(t) => Resetting(t)')
<1>0. SendersOK /\ app' = app /\ Alone
  BY OnlyGrows DEF Inv, Attempts
<1>1. Nr(t) \in DOMAIN app.program[t] /\ Acked(t) /\ Busy(t)
  BY <1>0 DEF SendersOK, Acked, Commands, Busy
<1>2. PICK n, id : n = Target(t) /\ id = SentId(t)
  OBVIOUS
<1>3. PICK d : d = Due(t)'
  OBVIOUS
<1>4. n \in Nodes /\ Sid(t) \in DOMAIN app.slots \ {n} /\ Handles(n, id)
  BY <1>0, <1>1, <1>2, CommandFacts
<1>5. /\ Sound(t)' <=> IF pc'[t] = "send" THEN Tip(n, id, d)' ELSE Answering(t)' \/ Hits(n, id)'
      /\ Resetting(t)' <=> \/ pc'[t] = "send" /\ packet'[t] = 1 /\ \E x : Tip(n, id, x)'
                           \/ Tip(n, id, Start)'
  BY <1>0, <1>2, <1>3, CommandStays DEF Still
<1>6. /\ Sound(t) <=> IF pc[t] = "send" THEN Tip(n, id, d) ELSE Answering(t) \/ Hits(n, id)
      /\ Resetting(t) <=> \/ pc[t] = "send" /\ packet[t] = 1 /\ \E x : Tip(n, id, x)
                          \/ Tip(n, id, Start)
  <2>1. d = Due(t)
    BY <1>0, <1>3, SameMessage DEF Still, Due
  <2>. QED
    BY <1>2, <2>1 DEF Sound, Resetting
<1>7. \A u \in Threads : Write(u) => SentId(u) # id
  <2>1. Write(t) => ~Still(t)
    BY <1>0, WriteMoves DEF Still, SendersOK
  <2>. QED
    BY <1>0, <1>2, <2>1, OthersWrite
<1>8. \A x : Tip(n, id, x) => Tip(n, id, x)'
  BY <1>4, <1>7, TipStep
<1>9. Hits(n, id) => Hits(n, id)' \/ Answering(t)'
  <2>1. ASSUME ReceiveStep(n), IdOf(Received(n)) = id, Completes(State(n, Received(n)), Received(n))
        PROVE  Answering(t)'
    BY <1>1, <1>2, <1>4, <2>1, AnswerSent DEF Target
  <2>. QED
    BY <1>4, <1>7, <2>1, TipStep
<1>10. Answering(t) => Answering(t)'
  BY <1>0, <1>1, AnsweringStill
<1>11. pc'[t] = pc[t] /\ packet'[t] = packet[t]
  BY DEF Still
<1>. QED
  BY <1>5, <1>6, <1>8, <1>9, <1>10, <1>11

\* A frame that fits makes the attempt sound, one that does not resets.
LEMMA SoundWrite ==
    ASSUME Inv, Attempts, [Next]_vars, NEW t \in Threads, Write(t), Message(t).type = "EXT_CMD"
    PROVE  /\ Sound(t) => Sound(t)'
           /\ Resetting(t) => Sound(t)' \/ Resetting(t)'
<1>0. SendersOK /\ app' = app /\ Alone /\ pc[t] = "send"
  BY OnlyGrows DEF Inv, Attempts, Write
<1>1. Nr(t) \in DOMAIN app.program[t] /\ Acked(t)
  BY <1>0, WrittenFrame DEF Acked, Commands
<1>2. PICK n, id : n = Target(t) /\ id = SentId(t)
  OBVIOUS
<1>3. PICK d, f : d = Due(t)' /\ f = Frame(t)
  OBVIOUS
<1>4. n \in DOMAIN app.slots \ {Sid(t)} /\ Handles(n, id)
  BY <1>0, <1>1, <1>2, CommandFacts
<1>5. /\ packet'[t] = packet[t] + 1 /\ packet[t] \in Nat \ {0} /\ status'[t] = status[t]
      /\ IF packet[t] < Message(t).packets THEN pc'[t] = "send" ELSE pc'[t] = "wait"
      /\ f.cur = packet[t] /\ f.last = Message(t).packets /\ Message(t).packets \in Nat \ {0}
      /\ packet[t] <= Message(t).packets
  BY <1>0, <1>1, <1>3, WriteMoves, WrittenFrame
<1>6. /\ Sound(t)' <=> IF pc'[t] = "send" THEN Tip(n, id, d)' ELSE Answering(t)' \/ Hits(n, id)'
      /\ Resetting(t)' <=> \/ pc'[t] = "send" /\ packet'[t] = 1 /\ \E x : Tip(n, id, x)'
                           \/ Tip(n, id, Start)'
  BY <1>0, <1>2, <1>3, <1>5, CommandStays
<1>7. packet[t] < Message(t).packets => d = [cur |-> packet[t], last |-> Message(t).packets]
  <2>1. Message(t)' = Message(t)
    BY <1>0, <1>5, SameMessage
  <2>. QED
    BY <1>3, <1>5, <2>1 DEF Due
<1>8. ASSUME NEW x, NEW y, y = After(x, f)
      PROVE  /\ Tip(n, id, x) => Tip(n, id, y)'
             /\ Tip(n, id, x) /\ Completes(x, f) => Hits(n, id)'
  BY <1>2, <1>3, <1>4, <1>8, TipWrite
<1>9. ASSUME NEW x, x = Due(t), Tip(n, id, x) PROVE Sound(t)'
  <2>1. /\ packet[t] < Message(t).packets => After(x, f) = [cur |-> packet[t], last |-> Message(t).packets]
        /\ packet[t] >= Message(t).packets => Completes(x, f)
    BY <1>0, <1>3, <1>9, FrameFits
  <2>2. CASE packet[t] < Message(t).packets
    <3>1. d = After(x, f)
      BY <1>7, <2>1, <2>2
    <3>2. Tip(n, id, d)'
      BY <1>8, <1>9, <3>1
    <3>. QED
      BY <1>5, <1>6, <2>2, <3>2
  <2>3. CASE ~(packet[t] < Message(t).packets)
    <3>1. Hits(n, id)'
      BY <1>5, <1>8, <1>9, <2>1, <2>3
    <3>. QED
      BY <1>5, <1>6, <2>3, <3>1
  <2>. QED
    BY <2>2, <2>3
<1>10. Sound(t) => Sound(t)'
  BY <1>0, <1>2, <1>9 DEF Sound
<1>11. ASSUME NEW x, Tip(n, id, x), packet[t] = 1 \/ x = Start
       PROVE  Sound(t)' \/ Resetting(t)'
  <2>1. PICK y : y = After(x, f)
    OBVIOUS
  <2>2. Tip(n, id, y)' /\ (Completes(x, f) => Hits(n, id)')
    BY <1>8, <1>11, <2>1
  <2>3. CASE y = Start
    BY <1>6, <2>2, <2>3
  <2>4. CASE y # Start
    <3>1. Continues(x, f) /\ y = [cur |-> packet[t], last |-> Message(t).packets]
      BY <1>5, <2>1, <2>4 DEF After
    <3>2. x.cur = 0
      <4>1. x.cur \in Nat
        BY <1>4, <1>11, TipType DEF Inv
      <4>. QED
        BY <1>5, <1>11, <3>1, <4>1 DEF Continues, InOrder, Start
    <3>3. packet[t] = 1 /\ packet[t] < Message(t).packets
      BY <1>5, <3>1, <3>2 DEF Continues
    <3>4. d = y
      BY <1>7, <3>1, <3>3
    <3>. QED
      BY <1>5, <1>6, <2>2, <3>3, <3>4
  <2>. QED
    BY <2>3, <2>4
<1>12. Resetting(t) => Sound(t)' \/ Resetting(t)'
  BY <1>2, <1>11 DEF Resetting
<1>. QED
  BY <1>10, <1>12

LEMMA ExtendedRetriesStep ==
    ASSUME Inv, CountsOK, Attempts, SteadyOK', [Next]_vars, NEW t \in Threads, pc'[t] # "idle",
           pc[t] # "idle" => ExtendedRetries(t)
    PROVE  ExtendedRetries(t)'
<1>0. /\ SendersOK /\ SendersOK' /\ app' = app /\ Alone /\ Attempts' /\ app.timely
      /\ retry \in [Threads -> Nat]
      /\ faults.losses \in Nat /\ faults.failures \in Nat
  BY OnlyGrows, InvStep, CountsStep DEF Inv, CountsOK, Attempts, Alone, Ids, Sid, Reachable
<1>1. status'[t] = status[t] /\ Nr(t) \in DOMAIN app.program[t]
  BY <1>0, GoesOn
<1>2. PICK n, id : n = Target(t) /\ id = SentId(t)
  OBVIOUS
<1>3. PICK d : d = Due(t)'
  OBVIOUS
<1>4. /\ Message(t)' = Message(t)
      /\ Sound(t)' <=> IF pc'[t] = "send" THEN Tip(n, id, d)' ELSE Answering(t)' \/ Hits(n, id)'
      /\ Resetting(t)' <=> \/ pc'[t] = "send" /\ packet'[t] = 1 /\ \E x : Tip(n, id, x)'
                           \/ Tip(n, id, Start)'
  BY <1>0, <1>1, <1>2, <1>3, CommandStays
<1>5. PICK F, F2 : F = Faulted /\ F2 = Faulted'
  OBVIOUS
<1>6. /\ F \in Nat /\ F2 \in Nat /\ F2 >= F
      /\ F2 = F => faults'.losses = faults.losses
      /\ F2 = F \/ F2 = F + 1
      /\ faults' = faults => F2 = F
  BY <1>0, <1>5, FaultsGrow DEF Faulted
<1>7. F2 = 0 => Flawless'
  BY <1>0, <1>5, CountsStep DEF Faulted, Flawless, CountsOK
<1>. SUFFICES ASSUME Message(t).type = "EXT_CMD"
              PROVE  /\ pc'[t] = "timedout" => F2 >= 2
                     /\ pc'[t] \in {"send", "wait"} =>
                           /\ F2 = 0 => retry'[t] = 0 /\ Sound(t)'
                           /\ F2 = 1 => /\ retry'[t] \in 0 .. 2
                                        /\ retry'[t] = 1 => Sound(t)' \/ Resetting(t)'
                                        /\ retry'[t] = 2 => Sound(t)'
  BY <1>4, <1>5 DEF ExtendedRetries
<1>8. Acked(t) /\ MaxRetries = 3 /\ n \in Nodes
  BY <1>0, <1>1, <1>2, CommandFacts DEF Acked, Commands, MaxRetries
<1>9. pc[t] # "idle" =>
         /\ pc[t] = "timedout" => F >= 2
         /\ pc[t] \in {"send", "wait"} =>
               /\ F = 0 => retry[t] = 0 /\ Sound(t)
               /\ F = 1 => /\ retry[t] \in 0 .. 2
                           /\ retry[t] = 1 => Sound(t) \/ Resetting(t)
                           /\ retry[t] = 2 => Sound(t)
  BY <1>5 DEF ExtendedRetries
<1>10. ASSUME F2 = 0, pc'[t] = "send" PROVE Sound(t)'
  <2>1. (SendersOK /\ Attempts /\ SteadyOK /\ Flawless)' => SendsAreSound'
    BY SendingIsSound, PTL
  <2>2. SendsAreSound'
    BY <1>0, <1>7, <1>10, <2>1
  <2>. QED
    BY <1>4, <1>10, <2>2 DEF SendsAreSound
<1>11. CASE Still(t)
  <2>1. pc[t] # "idle" /\ pc'[t] = pc[t] /\ retry'[t] = retry[t]
    BY <1>11 DEF Still
  <2>2. ASSUME F2 = F, pc[t] \in {"send", "wait"}
        PROVE  (Sound(t) => Sound(t)') /\ (Resetting(t) => Resetting(t)')
    BY <1>6, <1>11, <2>2, SoundStill
  <2>3. CASE F2 = F
    BY <1>9, <2>1, <2>2, <2>3
  <2>4. CASE F2 = F + 1
    BY <1>6, <1>9, <2>1, <2>4
  <2>. QED
    BY <1>6, <2>3, <2>4
<1>12. CASE Send(t)
  <2>1. pc'[t] = "send" /\ retry'[t] = 0
    BY <1>0, <1>12 DEF Send, SendersOK
  <2>. QED
    BY <1>10, <2>1
<1>13. CASE Write(t)
  <2>1. /\ pc[t] = "send" /\ retry' = retry /\ faults' = faults
        /\ pc'[t] \in {"send", "wait"}
    BY <1>0, <1>8, <1>13, WriteMoves DEF Write
  <2>2. /\ Sound(t) => Sound(t)'
        /\ Resetting(t) => Sound(t)' \/ Resetting(t)'
    BY <1>13, SoundWrite
  <2>. QED
    BY <1>6, <1>9, <2>1, <2>2
<1>14. CASE WriteFails(t) \/ Answered(t) \/ Leave(t) \/ Interrupted(t)
  <2>1. pc'[t] \in {"failed", "answered", "idle"}
    BY <1>0, <1>8, <1>14 DEF WriteFails, Answered, Leave, Interrupted, Return, SendersOK
  <2>. QED
    BY <2>1
<1>15. CASE Timeout(t)
  <2>1. /\ pc[t] = "wait" /\ retry'[t] = retry[t] + 1 /\ faults' = faults /\ packet'[t] = 1
        /\ pc'[t] = (IF retry'[t] >= 3 THEN "timedout" ELSE "send")
        /\ ~Posted(t) /\ BusQuiet /\ bus' = bus /\ ext' = ext
    BY <1>0, <1>8, <1>15 DEF Timeout, Resend, SendersOK, receivers
  <2>2. /\ ~Answering(t) /\ ~Hits(n, id) /\ Tip(n, id, Place(n, id))
        /\ Tip(n, id, Start) => Place(n, id) = Start
    BY <1>2, <1>8, <2>1, QuietWait
  <2>3. \A x : Tip(n, id, x)' <=> Tip(n, id, x)
    BY <2>1 DEF Tip, Place, StateOf
  <2>4. ~Sound(t) /\ (Resetting(t) => Tip(n, id, Start))
    BY <1>2, <2>1, <2>2 DEF Sound, Resetting
  <2>5. d = Start
    BY <1>3, <2>1 DEF Due
  <2>6. F # 0 /\ (F = 1 => retry[t] \in {0, 1}) /\ F2 = F
    BY <1>6, <1>9, <2>1, <2>4
  <2>7. CASE F = 1 /\ retry[t] = 0
    <3>1. pc'[t] = "send" /\ retry'[t] = 1
      BY <2>1, <2>7
    <3>2. Resetting(t)'
      BY <1>4, <2>1, <2>2, <2>3, <3>1
    <3>. QED
      BY <2>6, <2>7, <3>1, <3>2
  <2>8. CASE F = 1 /\ retry[t] = 1
    <3>1. pc'[t] = "send" /\ retry'[t] = 2
      BY <2>1, <2>8
    <3>2. Tip(n, id, d)'
      BY <1>9, <2>1, <2>3, <2>4, <2>5, <2>8
    <3>3. Sound(t)'
      BY <1>4, <3>1, <3>2
    <3>. QED
      BY <2>6, <2>8, <3>1, <3>3
  <2>9. CASE F # 1
    BY <1>6, <2>6, <2>9
  <2>. QED
    BY <2>6, <2>7, <2>8, <2>9
<1>. QED
  BY <1>0, <1>11, <1>12, <1>13, <1>14, <1>15, Bystander DEF SendStep

\* With CsTimeout a command returns only after its retries.
LEMMA StatusStep ==
    ASSUME Inv, CountsOK, RetriesOK, TimeoutNeedsLosses, [Next]_vars
    PROVE  TimeoutNeedsLosses'
<1>0. /\ SendersOK /\ ListsOK /\ app' = app
      /\ faults.losses \in Nat /\ faults.failures \in Nat
      /\ faults'.losses \in Nat /\ faults'.failures \in Nat
      /\ faults'.losses >= faults.losses /\ faults'.failures >= faults.failures
  BY OnlyGrows, FaultsGrow DEF Inv, CountsOK
<1>. SUFFICES ASSUME Attempts, NEW t \in Threads, NEW i \in DOMAIN status'[t], status'[t][i] = CsTimeout
              PROVE  IF app.program[t][i].type = "CMD" THEN faults'.losses >= MaxRetries
                                                       ELSE faults'.losses + faults'.failures >= 2
  BY <1>0 DEF TimeoutNeedsLosses, Attempts, Alone, Ids, Sid, Reachable
<1>1. CASE status'[t] = status[t]
  <2>1. IF app.program[t][i].type = "CMD" THEN faults.losses >= MaxRetries
                                          ELSE faults.losses + faults.failures >= 2
    BY <1>1 DEF TimeoutNeedsLosses, Attempts
  <2>. QED
    BY <1>0, <2>1 DEF MaxRetries
<1>2. ASSUME NEW code \in Int, pc[t] # "idle", status' = [status EXCEPT ![t] = Append(@, code)],
             code = CsTimeout => pc[t] = "timedout"
      PROVE  IF app.program[t][i].type = "CMD" THEN faults'.losses >= MaxRetries
                                               ELSE faults'.losses + faults'.failures >= 2
  <2>1. /\ DOMAIN status'[t] = DOMAIN status[t] \cup {Nr(t)} /\ status'[t][Nr(t)] = code
        /\ \A j \in DOMAIN status[t] : status'[t][j] = status[t][j]
    BY <1>0, <1>2, ReturnedOne
  <2>2. CASE i \in DOMAIN status[t]
    <3>1. IF app.program[t][i].type = "CMD" THEN faults.losses >= MaxRetries
                                            ELSE faults.losses + faults.failures >= 2
      BY <2>1, <2>2 DEF TimeoutNeedsLosses, Attempts
    <3>. QED
      BY <1>0, <3>1 DEF MaxRetries
  <2>3. CASE i = Nr(t)
    <3>1. pc[t] = "timedout" /\ Acked(t)
      BY <1>0, <1>2, <2>1, <2>3 DEF SendersOK, Waiting
    <3>2. CommandRetries(t) /\ ExtendedRetries(t)
      BY <3>1 DEF RetriesOK
    <3>3. CASE Message(t).type = "CMD"
      <4>1. faults.losses >= MaxRetries
        BY <3>1, <3>2, <3>3 DEF CommandRetries
      <4>. QED
        BY <1>0, <2>3, <3>3, <4>1 DEF Message, MaxRetries
    <3>4. CASE Message(t).type = "EXT_CMD"
      <4>1. faults.losses + faults.failures >= 2
        BY <3>1, <3>2, <3>4 DEF ExtendedRetries, Faulted
      <4>. QED
        BY <1>0, <2>3, <3>4, <4>1 DEF Message
    <3>. QED
      BY <3>1, <3>3, <3>4 DEF Acked, Commands
  <2>. QED
    BY <2>1, <2>2, <2>3
<1>3. ASSUME status'[t] # status[t]
      PROVE  \E code \in Int : /\ pc[t] # "idle" /\ status' = [status EXCEPT ![t] = Append(@, code)]
                               /\ code = CsTimeout => pc[t] = "timedout"
  <2>1. SendStep(t) \/ WriteFails(t) \/ Interrupted(t)
    BY <1>0, <1>3, Bystander DEF Still
  <2>2. Write(t) \/ WriteFails(t) \/ Leave(t)
    BY <1>3, <2>1 DEF SendStep, Send, Answered, Timeout, Interrupted
  <2>3. CASE Write(t) \/ WriteFails(t)
    <3>1. PICK code \in {CsSuccess, CsFailed} : Return(t, code)
      BY <1>3, <2>3 DEF Write, WriteFails
    <3>2. code \in Int /\ code # CsTimeout
      BY DEF CsSuccess, CsFailed, CsTimeout
    <3>3. pc[t] # "idle"
      BY <2>3 DEF Write, WriteFails
    <3>. QED
      BY <3>1, <3>2, <3>3 DEF Return
  <2>4. CASE Leave(t)
    <3>1. pc[t] \in {"answered", "failed", "timedout"} /\ Acked(t)
      BY <1>0, <2>4 DEF Leave, SendersOK, Waiting
    <3>2. AckNaks[Sid(t)][MyEntry(t)] \in Entries
      BY <1>0, <3>1, HasEntry
    <3>3. PICK c : c = AckNaks[Sid(t)][MyEntry(t)].code
      OBVIOUS
    <3>4. c \in Int /\ (c = Garbage \/ c <= 0)
      BY <3>2, <3>3 DEF Entries, Given
    <3>5. status' = [status EXCEPT ![t] = Append(@, CASE pc[t] = "failed" -> CsFailed
                                                      [] pc[t] = "timedout" -> CsTimeout
                                                      [] OTHER -> c)]
      BY <2>4, <3>3 DEF Leave, Return
    <3>6. CASE pc[t] = "failed"
      <4>1. status' = [status EXCEPT ![t] = Append(@, CsFailed)]
        BY <3>5, <3>6
      <4>2. CsFailed \in Int /\ CsFailed # CsTimeout /\ pc[t] # "idle"
        BY <3>6 DEF CsFailed, CsTimeout
      <4>. QED
        BY <4>1, <4>2, Zenon
    <3>7. CASE pc[t] = "timedout"
      <4>1. status' = [status EXCEPT ![t] = Append(@, CsTimeout)]
        BY <3>5, <3>7
      <4>2. CsTimeout \in Int /\ pc[t] # "idle"
        BY <3>7 DEF CsTimeout
      <4>. QED
        BY <3>7, <4>1, <4>2, Zenon
    <3>8. CASE pc[t] = "answered"
      <4>1. status' = [status EXCEPT ![t] = Append(@, c)]
        BY <3>5, <3>8
      <4>2. c \in Int /\ c # CsTimeout /\ pc[t] # "idle"
        BY <3>4, <3>8 DEF CsTimeout, Garbage
      <4>. QED
        BY <4>1, <4>2, Zenon
    <3>. QED
      BY <3>1, <3>6, <3>7, <3>8
  <2>. QED
    BY <2>2, <2>3, <2>4
<1>. QED
  BY <1>1, <1>2, <1>3

RetriesInv == Inv /\ CountsOK /\ SteadyOK /\ RetriesOK /\ TimeoutNeedsLosses

LEMMA RetriesInit == Init => RetriesInv
<1>. SUFFICES ASSUME Init PROVE RetriesInv
  OBVIOUS
<1>1. Inv /\ app \in Apps
  BY InitInv DEF Init
<1>2. CountsOK
  BY DEF Init, CountsOK
<1>3. SteadyOK
  <2>. SUFFICES ASSUME NEW n \in DOMAIN app.slots, NEW id PROVE Steady(n, id)
    BY DEF SteadyOK
  <2>1. n \in Nodes
    BY <1>1, AppTypes
  <2>2. bus[n] = <<>> /\ Place(n, id) = Start
    BY <2>1 DEF Init, Place, StateOf, At, Idle, Start
  <2>3. Clean(n, id, Start)
    BY <2>2, NoneLeft DEF Clean, Start
  <2>4. \A t \in Threads : ~Sending(t, id)
    BY DEF Init, Sending
  <2>. QED
    BY <2>3, <2>4 DEF Steady
<1>4. RetriesOK
  BY DEF Init, RetriesOK
<1>5. TimeoutNeedsLosses
  BY DEF Init, TimeoutNeedsLosses
<1>. QED
  BY <1>1, <1>2, <1>3, <1>4, <1>5 DEF RetriesInv

LEMMA RetriesStep == RetriesInv /\ [Next]_vars => RetriesInv'
<1>. SUFFICES ASSUME RetriesInv, [Next]_vars PROVE RetriesInv'
  OBVIOUS
<1>. USE DEF RetriesInv
<1>0. Inv' /\ CountsOK' /\ SteadyOK' /\ app' = app
  BY InvStep, CountsStep, SteadyStep, OnlyGrows DEF Inv
<1>1. Attempts' => Attempts
  BY <1>0 DEF Attempts, Alone, Ids, Sid, Reachable
<1>2. ASSUME Attempts', NEW t \in Threads, pc'[t] # "idle"
      PROVE  CommandRetries(t)' /\ ExtendedRetries(t)'
  BY <1>0, <1>1, <1>2, CommandRetriesStep, ExtendedRetriesStep DEF RetriesOK
<1>3. RetriesOK'
  BY <1>2 DEF RetriesOK
<1>. QED
  BY <1>0, <1>3, StatusStep

(* SendCommandMessage, SendExtCommandMessage: where no answer is late, the  *)
(* nodes are on the bus and an id has one user, a command returns CsTimeout *)
(* only after three losses, an extended one only after two faults, however  *)
(* many threads and nodes share the bus.                                    *)
THEOREM TimeoutsNeedLosses == Spec => []TimeoutNeedsLosses
<1>1. RetriesInv => TimeoutNeedsLosses
  BY DEF RetriesInv
<1>. QED
  BY <1>1, RetriesInit, RetriesStep, PTL DEF Spec

-----------------------------------------------------------------------------
(***************************************************************************)
(* Answers in time: what is on its way of a command, and whose it is.       *)
(***************************************************************************)
\* A node reads what others wrote, and only on the bus.
Heard == \A n \in Nodes : \A i \in 1 .. Len(bus[n]) :
            n \in DOMAIN app.slots /\ bus[n][i].sid # n /\ bus[n][i].sid \in Nodes

\* The frames of q that are to be answered as id, or that answer id.
Final(f) == f.type \in Commands => f.cur = f.last
Tokens(q, id) == {i \in 1 .. Len(q) : IdOf(q[i]) = id /\ Final(q[i])}
OneOf(S) == \A i, j \in S : i = j

\* Of a command, one frame to be answered or one answer is on its way, and
\* only while a thread waits for it.
CommandIds == [type : Commands, mid : Nat, sid : Nodes, did : Nodes]
Few(x) == /\ OneOf(Tokens(bus[x.did], x)) /\ OneOf(Tokens(bus[x.sid], Ack(x)))
          /\ Tokens(bus[x.did], x) = {} \/ Tokens(bus[x.sid], Ack(x)) = {}
Nothing(x) == Tokens(bus[x.did], x) = {} /\ Tokens(bus[x.sid], Ack(x)) = {}
Awaited(x) == \E t \in Threads : pc[t] = "wait" /\ SentId(t) = x /\ ~Woken(t)

TokensOK == \A x \in CommandIds : Few(x) /\ (Nothing(x) \/ Awaited(x))
SendsUnwoken == \A t \in Threads : pc[t] = "send" /\ Acked(t) => ~Woken(t)

LEMMA TokensMore ==
    ASSUME NEW S, NEW q \in Seq(S), NEW f, NEW id
    PROVE  /\ IdOf(f) # id \/ ~Final(f) => Tokens(Append(q, f), id) = Tokens(q, id)
           /\ Tokens(q, id) = {} => OneOf(Tokens(Append(q, f), id))
<1>1. PICK a : a = Append(q, f)
  OBVIOUS
<1>2. /\ Len(q) \in Nat /\ Len(a) = Len(q) + 1 /\ a[Len(q) + 1] = f
      /\ \A k \in 1 .. Len(q) : a[k] = q[k]
  BY <1>1
<1>3. \A k \in 1 .. Len(a) : k \in 1 .. Len(q) \/ k = Len(q) + 1
  BY <1>2
<1>4. \A k \in 1 .. Len(q) : k \in 1 .. Len(a)
  BY <1>2
<1>5. ASSUME IdOf(f) # id \/ ~Final(f) PROVE Tokens(a, id) = Tokens(q, id)
  BY <1>2, <1>3, <1>4, <1>5 DEF Tokens
<1>6. ASSUME Tokens(q, id) = {} PROVE OneOf(Tokens(a, id))
  BY <1>2, <1>3, <1>6 DEF Tokens, OneOf
<1>. QED
  BY <1>1, <1>5, <1>6

LEMMA TokensLess ==
    ASSUME NEW S, NEW q \in Seq(S), q # <<>>, NEW id
    PROVE  /\ Tokens(q, id) = {} => Tokens(Tail(q), id) = {}
           /\ OneOf(Tokens(q, id)) => OneOf(Tokens(Tail(q), id))
           /\ IdOf(Head(q)) = id /\ Final(Head(q)) =>
                 /\ Tokens(q, id) # {}
                 /\ OneOf(Tokens(q, id)) => Tokens(Tail(q), id) = {}
<1>1. PICK t, h : t = Tail(q) /\ h = Head(q)
  OBVIOUS
<1>2. /\ Len(q) \in Nat /\ Len(q) >= 1 /\ Len(t) = Len(q) - 1 /\ h = q[1]
      /\ \A k \in 1 .. Len(t) : t[k] = q[k + 1]
  BY <1>1, HeadTailProperties
<1>3. \A k \in 1 .. Len(t) : k + 1 \in 1 .. Len(q) /\ k + 1 # 1 /\ k \in Int
  BY <1>2
<1>4. \A k \in Tokens(t, id) : k + 1 \in Tokens(q, id) /\ k + 1 # 1 /\ k \in Int
  BY <1>2, <1>3 DEF Tokens
<1>5. IdOf(h) = id /\ Final(h) => 1 \in Tokens(q, id)
  BY <1>2 DEF Tokens
<1>6. OneOf(Tokens(q, id)) => OneOf(Tokens(t, id))
  <2>. SUFFICES ASSUME OneOf(Tokens(q, id)), NEW i \in Tokens(t, id), NEW j \in Tokens(t, id)
                PROVE  i = j
    BY DEF OneOf
  <2>1. i + 1 = j + 1 /\ i \in Int /\ j \in Int
    BY <1>4 DEF OneOf
  <2>. QED
    BY <2>1
<1>7. 1 \in Tokens(q, id) /\ OneOf(Tokens(q, id)) => Tokens(t, id) = {}
  BY <1>4 DEF OneOf
<1>. QED
  BY <1>1, <1>4, <1>5, <1>6, <1>7

LEMMA HeardStep ==
    ASSUME Inv, Heard, [Next]_vars
    PROVE  Heard'
<1>0. SendersOK /\ app' = app /\ bus \in [Nodes -> Seq(Frames)]
  BY OnlyGrows DEF Inv, BusOK, Frames
<1>. SUFFICES ASSUME NEW n \in Nodes, NEW i \in 1 .. Len(bus'[n])
              PROVE  n \in DOMAIN app.slots /\ bus'[n][i].sid # n /\ bus'[n][i].sid \in Nodes
  BY <1>0 DEF Heard
<1>1. PICK q, new : q = bus[n] /\ new = bus'[n]
  OBVIOUS
<1>2. q \in Seq(Frames) /\ Len(q) \in Nat
  BY <1>0, <1>1
<1>3. ASSUME NEW f, new = Append(q, f), n \in DOMAIN app.slots, f.sid # n, f.sid \in Nodes
      PROVE  n \in DOMAIN app.slots /\ new[i].sid # n /\ new[i].sid \in Nodes
  <2>1. /\ Len(new) = Len(q) + 1 /\ new[Len(q) + 1] = f
        /\ \A k \in 1 .. Len(q) : new[k] = q[k]
    BY <1>2, <1>3
  <2>2. i \in 1 .. Len(q) \/ i = Len(q) + 1
    BY <1>1, <1>2, <2>1
  <2>. QED
    BY <1>1, <1>3, <2>1, <2>2 DEF Heard
<1>4. CASE new = q
  BY <1>1, <1>4 DEF Heard
<1>5. CASE q # <<>> /\ new = Tail(q)
  <2>1. i + 1 \in 1 .. Len(q) /\ new[i] = q[i + 1]
    BY <1>1, <1>2, <1>5, HeadTailProperties
  <2>. QED
    BY <1>1, <2>1 DEF Heard
<1>6. ASSUME NEW t \in Threads, Write(t)
      PROVE  Frame(t).sid = Sid(t) /\ Sid(t) \in Nodes
  BY <1>0, <1>6, WrittenFrame, AppTypes DEF SendersOK, Sid
<1>7. ASSUME NEW m \in Nodes, Replies(m)
      PROVE  AnswerFrame(m, Received(m)).sid = m
  BY <1>7 DEF Replies, ForMe, AnswerFrame
<1>8. \/ new = q
      \/ q # <<>> /\ new = Tail(q)
      \/ \E t \in Threads : Write(t) /\ n \in DOMAIN app.slots \ {Sid(t)} /\ new = Append(q, Frame(t))
      \/ \E m \in Nodes : /\ Replies(m) /\ n \in DOMAIN app.slots \ {m}
                          /\ new = Append(q, AnswerFrame(m, Received(m)))
  BY <1>1, BusMoves
<1>9. \/ new = q
      \/ q # <<>> /\ new = Tail(q)
      \/ n \in DOMAIN app.slots /\ \E f : new = Append(q, f) /\ f.sid # n /\ f.sid \in Nodes
  BY <1>6, <1>7, <1>8
<1>. QED
  BY <1>1, <1>3, <1>4, <1>5, <1>9

PromptCase == Inv /\ CountsOK /\ Heard /\ TokensOK /\ SendsUnwoken
              /\ Alone /\ app.timely /\ faults'.interrupts = faults.interrupts

\* A thread that waits for an answer goes on waiting, unless it takes one.
LEMMA AwaitedStep ==
    ASSUME PromptCase, [Next]_vars, NEW x \in CommandIds, Awaited(x), ~Nothing(x)
    PROVE  Awaited(x)' \/ (ReceiveAckNak(x.sid) /\ IdOf(Received(x.sid)) = Ack(x))
<1>0. SendersOK /\ ListsOK /\ app' = app /\ CountsOK
  BY OnlyGrows DEF PromptCase, Inv
<1>1. PICK t \in Threads : pc[t] = "wait" /\ SentId(t) = x /\ ~Woken(t)
  BY DEF Awaited
<1>2. Acked(t) /\ Busy(t)
  BY <1>0, <1>1 DEF SendersOK, Waiting, Busy
<1>3. Sid(t) = x.sid /\ Expected(t) = Ack(x)
  BY <1>1, <1>2 DEF SentId, Expected, Ack
<1>4. Still(t)
  <2>1. ~Answered(t)
    BY <1>0, <1>1, <1>2, WokenPosted DEF Answered
  <2>2. ~Timeout(t)
    <3>1. ASSUME BusQuiet PROVE Nothing(x)
      <4>1. bus[x.did] = <<>> /\ bus[x.sid] = <<>>
        BY <3>1 DEF BusQuiet, CommandIds
      <4>2. \A id : Tokens(<<>>, id) = {}
        BY DEF Tokens
      <4>. QED
        BY <4>1, <4>2 DEF Nothing
    <3>. QED
      BY <3>1 DEF Timeout, PromptCase
  <2>3. ~Interrupted(t)
    <3>1. Interrupted(t) => faults'.interrupts = faults.interrupts + 1
      BY <1>0 DEF Interrupted, CountsOK
    <3>2. faults'.interrupts = faults.interrupts /\ faults.interrupts \in Nat
      BY <1>0 DEF CountsOK, PromptCase
    <3>. QED
      BY <3>1, <3>2
  <2>4. ~Send(t) /\ ~Write(t) /\ ~WriteFails(t) /\ ~Leave(t)
    BY <1>1 DEF Send, Write, WriteFails, Leave
  <2>. QED
    BY <1>0, <2>1, <2>2, <2>3, <2>4, Bystander DEF SendStep
<1>5. CASE Woken(t)'
  <2>1. ReceiveAckNak(Sid(t)) /\ IdOf(Received(Sid(t))) = Expected(t)
    BY <1>0, <1>1, <1>2, <1>4, <1>5, WokenStill DEF PromptCase
  <2>. QED
    BY <1>3, <2>1
<1>6. CASE ~Woken(t)'
  <2>1. pc'[t] = "wait" /\ SentId(t)' = x
    BY <1>0, <1>1, <1>4, SameMessage DEF Still
  <2>. QED
    BY <1>6, <2>1 DEF Awaited
<1>. QED
  BY <1>5, <1>6

\* The frames on their way to n, of a step that is none of the next two.
LEMMA TokensSame ==
    ASSUME Inv, [Next]_vars, NEW n \in Nodes, NEW id,
           \A t \in Threads : Write(t) => SentId(t) # id,
           \A m \in Nodes : ReceiveStep(m) /\ Replies(m) => IdOf(AnswerFrame(m, Received(m))) # id
    PROVE  /\ Tokens(bus[n], id) = {} => Tokens(bus'[n], id) = {}
           /\ OneOf(Tokens(bus[n], id)) => OneOf(Tokens(bus'[n], id))
<1>1. PICK q, new : q = bus[n] /\ new = bus'[n]
  OBVIOUS
<1>2. q \in Seq(Frames) /\ SendersOK
  BY <1>1 DEF Inv, BusOK, Frames
<1>4. ASSUME NEW t \in Threads, Write(t) PROVE IdOf(Frame(t)) # id
  BY <1>2, <1>4, WrittenFrame
<1>5. \/ new = q
      \/ q # <<>> /\ new = Tail(q)
      \/ \E f : new = Append(q, f) /\ IdOf(f) # id
  BY <1>1, <1>4, BusMoves
<1>6. ASSUME NEW f, new = Append(q, f), IdOf(f) # id PROVE Tokens(new, id) = Tokens(q, id)
  BY <1>2, <1>6, TokensMore
<1>7. ASSUME q # <<>>, new = Tail(q)
      PROVE  /\ Tokens(q, id) = {} => Tokens(new, id) = {}
             /\ OneOf(Tokens(q, id)) => OneOf(Tokens(new, id))
  BY <1>2, <1>7, TokensLess
<1>8. \/ Tokens(new, id) = Tokens(q, id)
      \/ /\ Tokens(q, id) = {} => Tokens(new, id) = {}
         /\ OneOf(Tokens(q, id)) => OneOf(Tokens(new, id))
  BY <1>5, <1>6, <1>7
<1>. QED
  BY <1>1, <1>8

LEMMA TokensStep ==
    ASSUME PromptCase, [Next]_vars
    PROVE  TokensOK'
<1>0. /\ SendersOK /\ ListsOK /\ app' = app /\ CountsOK /\ Alone /\ Inv
      /\ bus \in [Nodes -> Seq(Frames)]
  BY OnlyGrows DEF PromptCase, Inv, BusOK, Frames
<1>. SUFFICES ASSUME NEW x \in CommandIds PROVE Few(x)' /\ (Nothing(x)' \/ Awaited(x)')
  BY DEF TokensOK
<1>1. PICK n, m, y : n = x.did /\ m = x.sid /\ y = Ack(x)
  OBVIOUS
<1>2. n \in Nodes /\ m \in Nodes /\ x.type \in Commands
  BY <1>1 DEF CommandIds
<1>3. y.type \in {"CMD_ACKNAK", "EXT_CMD_ACKNAK"} /\ x.type \in {"CMD", "EXT_CMD"}
  BY <1>1, <1>2 DEF Ack, AckType, Commands
<1>4. PICK A, B, A2, B2 : /\ A = Tokens(bus[n], x) /\ B = Tokens(bus[m], y)
                          /\ A2 = Tokens(bus'[n], x) /\ B2 = Tokens(bus'[m], y)
  OBVIOUS
<1>5. /\ OneOf(A) /\ OneOf(B) /\ (A = {} \/ B = {})
      /\ (A = {} /\ B = {}) <=> Nothing(x)
      /\ Nothing(x) \/ Awaited(x)
  BY <1>1, <1>4 DEF PromptCase, TokensOK, Few, Nothing
<1>6. ASSUME OneOf(A2), OneOf(B2), A2 = {} \/ B2 = {}, (A2 = {} /\ B2 = {}) \/ Awaited(x)'
      PROVE  Few(x)' /\ (Nothing(x)' \/ Awaited(x)')
  BY <1>1, <1>4, <1>6 DEF Few, Nothing
<1>7. ASSUME NEW t \in Threads, Write(t) PROVE SentId(t) # y
  BY <1>0, <1>3, <1>7, WrittenFrame DEF Commands, Announcements
<1>8. ASSUME NEW k \in Nodes, ReceiveStep(k), Replies(k)
      PROVE  /\ IdOf(AnswerFrame(k, Received(k))) # x
             /\ IdOf(AnswerFrame(k, Received(k))) = y => k = n /\ IdOf(Received(k)) = x
             /\ Final(Received(k)) /\ Received(k).type \in Commands
  <2>1. PICK f, a : f = Received(k) /\ a = AnswerFrame(k, f)
    OBVIOUS
  <2>2. f.type \in Commands /\ f.did = k /\ f \in Fragments
    BY <1>0, <1>8, <2>1, ReceiveFacts DEF Replies, ForMe
  <2>3. /\ IdOf(a).type = AckType(f.type) /\ IdOf(a).mid = f.mid
        /\ IdOf(a).sid = f.did /\ IdOf(a).did = f.sid
    BY <2>1 DEF IdOf, AnswerFrame
  <2>4. IdOf(a) # x
    BY <1>3, <2>3 DEF AckType
  <2>5. IdOf(a) = y => k = n /\ IdOf(f) = x
    <3>. SUFFICES ASSUME IdOf(a) = y PROVE k = n /\ IdOf(f) = x
      OBVIOUS
    <3>1. AckType(f.type) = AckType(x.type) /\ f.mid = x.mid /\ f.did = x.did /\ f.sid = x.sid
      BY <1>1, <2>3 DEF Ack
    <3>2. f.type = x.type
      BY <1>2, <2>2, <3>1 DEF AckType, Commands
    <3>3. IdOf(f) = [type |-> x.type, mid |-> x.mid, sid |-> x.sid, did |-> x.did]
      BY <3>1, <3>2 DEF IdOf
    <3>. QED
      BY <1>1, <2>2, <3>1, <3>3 DEF CommandIds
  <2>6. Final(f)
    <3>1. f.cur \in Nat /\ f.last \in Nat /\ 1 <= f.cur /\ f.cur <= f.last /\ (f.type = "CMD" => f.last = 1)
      BY <1>0, <2>2, FragmentFacts
    <3>2. f.type = "EXT_CMD" => Completes(State(k, f), f)
      BY <1>8, <2>1 DEF Replies
    <3>. QED
      BY <2>2, <3>1, <3>2 DEF Final, Commands, Completes, InOrder
  <2>. QED
    BY <2>1, <2>2, <2>4, <2>5, <2>6
<1>9. CASE \E t \in Threads : Write(t) /\ SentId(t) = x
  <2>1. PICK t \in Threads : Write(t) /\ SentId(t) = x
    BY <1>9
  <2>2. pc[t] = "send" /\ Nr(t) \in DOMAIN app.program[t] /\ Acked(t) /\ Sid(t) = m
    BY <1>0, <1>1, <1>2, <2>1, WrittenFrame DEF Write, Acked, SentId
  <2>3. Nothing(x)
    <3>1. ASSUME NEW u \in Threads, pc[u] = "wait", SentId(u) = x PROVE FALSE
      <4>1. Nr(u) \in DOMAIN app.program[u]
        BY <1>0, <3>1 DEF SendersOK
      <4>2. u = t
        BY <1>0, <2>1, <2>2, <3>1, <4>1, OneUser
      <4>. QED
        BY <2>2, <3>1, <4>2
    <3>. QED
      BY <1>5, <3>1 DEF Awaited
  <2>4. PICK f : f = Frame(t)
    OBVIOUS
  <2>5. /\ f.sid = m /\ f.cur = packet[t] /\ f.last = Message(t).packets
        /\ packet[t] \in Nat /\ Message(t).packets \in Nat /\ packet[t] <= Message(t).packets
    BY <1>0, <2>1, <2>2, <2>4, WrittenFrame
  <2>6. /\ bus'[m] = bus[m]
        /\ bus'[n] = bus[n] \/ bus'[n] = Append(bus[n], f)
    BY <1>0, <1>2, <2>1, <2>4, <2>5 DEF Write, Transmit
  <2>10. PICK q, q2 : q = bus[n] /\ q2 = bus'[n] /\ q \in Seq(Frames)
    BY <1>0, <1>2
  <2>7. B2 = {} /\ OneOf(A2) /\ OneOf(B2)
    <3>1. A = {} /\ B2 = {}
      BY <1>4, <1>5, <2>3, <2>6
    <3>2. q2 = Append(q, f) => OneOf(Tokens(q2, x))
      BY <1>4, <2>10, <3>1, TokensMore
    <3>. QED
      BY <1>4, <2>6, <2>10, <3>1, <3>2 DEF OneOf
  <2>8. CASE packet[t] < Message(t).packets
    <3>1. ~Final(f)
      BY <2>2, <2>4, <2>5, <2>8 DEF Final, Frame, Acked
    <3>2. A2 = {}
      <4>1. q2 = Append(q, f) => Tokens(q2, x) = Tokens(q, x)
        BY <2>10, <3>1, TokensMore
      <4>. QED
        BY <1>4, <1>5, <2>3, <2>6, <2>10, <4>1
    <3>. QED
      BY <1>6, <2>7, <3>2
  <2>9. CASE ~(packet[t] < Message(t).packets)
    <3>1. pc'[t] = "wait" /\ status'[t] = status[t] /\ AckNaks' = AckNaks
      BY <1>0, <2>1, <2>2, <2>9, WriteMoves
    <3>2. SentId(t)' = x /\ Sid(t)' = Sid(t)
      BY <1>0, <2>1, <3>1, SameMessage
    <3>3. ~Woken(t)'
      BY <2>2, <3>1, <3>2 DEF PromptCase, SendsUnwoken, Woken
    <3>. QED
      BY <1>6, <2>7, <3>1, <3>2, <3>3 DEF Awaited
  <2>. QED
    BY <2>8, <2>9
<1>10. CASE \E k \in Nodes : ReceiveStep(k) /\ IdOf(Received(k)) = x /\ Final(Received(k)) /\ k = n
  <2>1. ReceiveStep(n) /\ IdOf(Received(n)) = x /\ Final(Received(n))
    BY <1>10
  <2>2. bus[n] # <<>> /\ bus'[n] = Tail(bus[n]) /\ Received(n) = Head(bus[n])
    BY <1>0, <1>2, <2>1, BusMoves DEF Received
  <2>3. A # {} /\ A2 = {} /\ B = {}
    <3>1. PICK q : q = bus[n] /\ q \in Seq(Frames)
      BY <1>0, <1>2
    <3>2. /\ Tokens(q, x) # {}
          /\ OneOf(Tokens(q, x)) => Tokens(Tail(q), x) = {}
      BY <2>1, <2>2, <3>1, TokensLess
    <3>. QED
      BY <1>4, <1>5, <2>2, <3>1, <3>2
  <2>4. OneOf(B2)
    <3>1. CASE m = n
      <4>1. PICK q : q = bus[n] /\ q \in Seq(Frames)
        BY <1>0, <1>2
      <4>2. Tokens(q, y) = {} => Tokens(Tail(q), y) = {}
        BY <2>2, <4>1, TokensLess
      <4>. QED
        BY <1>4, <2>2, <2>3, <3>1, <4>1, <4>2 DEF OneOf
    <3>2. CASE m # n
      <4>1. /\ bus[n] # <<>>
            /\ bus' = IF Replies(n) THEN Transmit(Taken(n), AnswerFrame(n, Received(n))) ELSE Taken(n)
        BY <1>0, <1>2, <2>1, ReceiveFacts
      <4>2. Taken(n)[m] = bus[m]
        BY <1>0, <1>2, <3>2 DEF Taken
      <4>3. bus'[m] = bus[m] \/ \E a : bus'[m] = Append(bus[m], a)
        BY <1>2, <4>1, <4>2 DEF Transmit
      <4>4. PICK q : q = bus[m] /\ q \in Seq(Frames)
        BY <1>0, <1>2
      <4>5. ASSUME NEW a, bus'[m] = Append(q, a) PROVE OneOf(Tokens(bus'[m], y))
        <5>1. Tokens(q, y) = {}
          BY <1>4, <2>3, <4>4
        <5>2. OneOf(Tokens(Append(q, a), y))
          BY <4>4, <5>1, TokensMore
        <5>. QED
          BY <4>5, <5>2
      <4>6. bus'[m] = bus[m] => OneOf(Tokens(bus'[m], y))
        BY <1>4, <2>3 DEF OneOf
      <4>. QED
        BY <1>4, <4>3, <4>4, <4>5, <4>6
    <3>. QED
      BY <3>1, <3>2
  <2>5. Awaited(x)'
    <3>1. Awaited(x) /\ ~Nothing(x)
      BY <1>5, <2>3
    <3>2. Received(n).type = x.type
      BY <2>1 DEF IdOf
    <3>3. ~(ReceiveAckNak(m) /\ IdOf(Received(m)) = y)
      <4>1. ASSUME ReceiveAckNak(m), IdOf(Received(m)) = y PROVE FALSE
        <5>1. bus'[m] = Tail(bus[m]) /\ bus[m] # <<>> /\ Received(m) = Head(bus[m]) /\ Received(m).type = y.type
          BY <1>0, <1>2, <4>1 DEF ReceiveAckNak, Reads, Taken, Received, IdOf
        <5>2. Final(Received(m))
          BY <1>3, <5>1 DEF Final, Commands
        <5>3. B # {}
          BY <1>0, <1>2, <1>4, <4>1, <5>1, <5>2, TokensLess
        <5>. QED
          BY <2>3, <5>3
      <4>. QED
        BY <4>1
    <3>. QED
      BY <1>1, <3>1, <3>3, AwaitedStep
  <2>. QED
    BY <1>6, <2>3, <2>4, <2>5 DEF OneOf
<1>11. CASE /\ \A t \in Threads : Write(t) => SentId(t) # x
            /\ \A k \in Nodes : ReceiveStep(k) /\ k = n => ~(IdOf(Received(k)) = x /\ Final(Received(k)))
  <2>1. \A k \in Nodes : ReceiveStep(k) /\ Replies(k) => /\ IdOf(AnswerFrame(k, Received(k))) # x
                                                         /\ IdOf(AnswerFrame(k, Received(k))) # y
    BY <1>8, <1>11
  <2>2. (A = {} => A2 = {}) /\ (OneOf(A) => OneOf(A2))
    BY <1>0, <1>2, <1>4, <1>11, <2>1, TokensSame
  <2>3. (B = {} => B2 = {}) /\ (OneOf(B) => OneOf(B2))
    BY <1>0, <1>2, <1>4, <1>7, <2>1, TokensSame
  <2>4. CASE Nothing(x)
    BY <1>5, <1>6, <2>2, <2>3, <2>4
  <2>5. CASE ~Nothing(x) /\ ReceiveAckNak(m) /\ IdOf(Received(m)) = y
    <3>1. /\ bus'[m] = Tail(bus[m]) /\ bus[m] # <<>> /\ Received(m) = Head(bus[m])
          /\ Received(m).type = y.type
      BY <1>0, <1>2, <2>5 DEF ReceiveAckNak, Reads, Taken, Received, IdOf
    <3>2. Final(Received(m))
      BY <1>3, <3>1 DEF Final, Commands
    <3>3. B # {} /\ B2 = {}
      <4>1. PICK q : q = bus[m] /\ q \in Seq(Frames)
        BY <1>0, <1>2
      <4>2. /\ Tokens(q, y) # {}
            /\ OneOf(Tokens(q, y)) => Tokens(Tail(q), y) = {}
        BY <2>5, <3>1, <3>2, <4>1, TokensLess
      <4>. QED
        BY <1>4, <1>5, <3>1, <4>1, <4>2
    <3>. QED
      BY <1>5, <1>6, <2>2, <2>3, <3>3
  <2>6. CASE ~Nothing(x) /\ ~(ReceiveAckNak(m) /\ IdOf(Received(m)) = y)
    <3>1. Awaited(x)'
      BY <1>1, <1>5, <2>6, AwaitedStep
    <3>. QED
      BY <1>5, <1>6, <2>2, <2>3, <3>1
  <2>. QED
    BY <2>4, <2>5, <2>6
<1>. QED
  BY <1>9, <1>10, <1>11

\* An answer a node takes is for a thread that waits.
LEMMA AnswerAwaited ==
    ASSUME PromptCase, NEW n \in Nodes, ReceiveAckNak(n)
    PROVE  \E t \in Threads : pc[t] = "wait" /\ Busy(t) /\ Sid(t) = n /\ Expected(t) = IdOf(Received(n))
<1>0. SendersOK /\ bus \in [Nodes -> Seq(Frames)]
  BY DEF PromptCase, Inv, BusOK, Frames
<1>1. PICK f, q : f = Received(n) /\ q = bus[n]
  OBVIOUS
<1>2. /\ q \in Seq(Frames) /\ q # <<>> /\ f = Head(q) /\ f \in Frames
      /\ f = q[1] /\ 1 \in 1 .. Len(q)
  BY <1>0, <1>1, HeadTailProperties DEF ReceiveAckNak, Reads, Received
<1>3. PICK c \in Commands : f.type = AckType(c)
  BY <1>1 DEF ReceiveAckNak, Reads
<1>4. f.did = n /\ f.sid \in Nodes
  BY <1>1, <1>2 DEF ReceiveAckNak, ForMe, PromptCase, Heard
<1>5. f.mid \in Nat
  <2>1. f \in Answers
    BY <1>0, <1>2, <1>3, FrameKinds DEF Frames
  <2>2. IdOf(f) \in AckIds
    BY <2>1, AnswerFacts
  <2>. QED
    BY <2>2 DEF AckIds, IdOf
<1>6. PICK x : x = [type |-> c, mid |-> f.mid, sid |-> n, did |-> f.sid]
  OBVIOUS
<1>7. x \in CommandIds /\ x.sid = n /\ Ack(x) = IdOf(f)
  BY <1>3, <1>4, <1>5, <1>6 DEF CommandIds, Ack, IdOf
<1>8. Final(f)
  BY <1>3 DEF Final, AckType, Commands
<1>9. Tokens(q, Ack(x)) # {}
  BY <1>2, <1>7, <1>8, TokensLess
<1>10. Awaited(x)
  BY <1>1, <1>7, <1>9 DEF PromptCase, TokensOK, Nothing
<1>11. PICK t \in Threads : pc[t] = "wait" /\ SentId(t) = x
  BY <1>10 DEF Awaited
<1>12. Busy(t)
  BY <1>0, <1>11 DEF SendersOK, Waiting, Busy
<1>13. Sid(t) = n /\ Expected(t) = Ack(x)
  BY <1>6, <1>11 DEF SentId, Expected, Ack
<1>. QED
  BY <1>1, <1>7, <1>11, <1>12, <1>13

LEMMA UnwokenStep ==
    ASSUME PromptCase, [Next]_vars
    PROVE  SendsUnwoken'
<1>0. SendersOK /\ ListsOK /\ app' = app /\ CountsOK /\ Alone /\ Inv
  BY OnlyGrows DEF PromptCase, Inv
<1>. SUFFICES ASSUME NEW t \in Threads, pc'[t] = "send", Acked(t)' PROVE ~Woken(t)'
  BY DEF SendsUnwoken
<1>1. PICK n \in Nodes : n = Sid(t) /\ Sid(t)' = n
  BY <1>0, AppTypes DEF SendersOK, Sid
<1>2. CASE Still(t)
  <2>1. pc[t] = "send" /\ Acked(t) /\ Busy(t)
    BY <1>0, <1>2, SameMessage DEF Still, Busy
  <2>2. ~Woken(t)
    BY <2>1 DEF PromptCase, SendsUnwoken
  <2>3. ~(ReceiveAckNak(n) /\ IdOf(Received(n)) = Expected(t))
    <3>. SUFFICES ASSUME ReceiveAckNak(n), IdOf(Received(n)) = Expected(t) PROVE FALSE
      OBVIOUS
    <3>1. PICK u \in Threads : pc[u] = "wait" /\ Busy(u) /\ Expected(u) = Expected(t)
      BY AnswerAwaited
    <3>2. u = t
      BY <1>0, <2>1, <3>1, OneWaiter
    <3>. QED
      BY <2>1, <3>1, <3>2
  <2>. QED
    BY <1>0, <1>1, <1>2, <2>1, <2>2, <2>3, WokenStill
<1>3. CASE Write(t)
  <2>1. status'[t] = status[t] /\ AckNaks' = AckNaks /\ pc[t] = "send"
    BY <1>0, <1>3, WriteMoves DEF Write
  <2>2. Acked(t)
    BY <1>0, <2>1, SameMessage
  <2>. QED
    BY <1>1, <2>1, <2>2 DEF PromptCase, SendsUnwoken, Woken
<1>4. CASE Send(t)
  <2>1. pc[t] = "idle" /\ status'[t] = status[t]
    BY <1>4 DEF Send
  <2>2. Acked(t)
    BY <1>0, <2>1, SameMessage
  <2>3. PICK e, old, new : e = Entry(t) /\ old = AckNaks[n] /\ new = AckNaks'[n]
    OBVIOUS
  <2>4. new = <<e>> \o old /\ e.posts = 0
    BY <1>0, <1>1, <1>4, <2>2, <2>3 DEF Send, ListsOK, Entry
  <2>5. /\ old \in Seq(Entries) /\ Len(old) \in Nat
        /\ \A i \in 1 .. Len(old) : old[i].by # t
    BY <1>0, <2>1, <2>3, ListMembers DEF Listed, Busy
  <2>6. /\ Len(new) = Len(old) + 1 /\ new[1] = e
        /\ \A i \in 1 .. Len(old) : new[i + 1] = old[i]
    BY <2>4, <2>5
  <2>7. ASSUME NEW i \in 1 .. Len(new), new[i].by = t PROVE ~(new[i].posts > 0)
    <3>1. CASE i = 1
      BY <2>4, <2>6, <3>1
    <3>2. CASE i # 1
      <4>1. i - 1 \in 1 .. Len(old) /\ (i - 1) + 1 = i
        BY <2>5, <2>6, <3>2
      <4>. QED
        BY <2>5, <2>6, <2>7, <4>1
    <3>. QED
      BY <3>1, <3>2
  <2>. QED
    BY <1>1, <2>3, <2>7 DEF Woken
<1>5. CASE Timeout(t)
  <2>1. AckNaks' = AckNaks /\ pc[t] = "wait" /\ ~Posted(t)
    BY <1>5 DEF Timeout
  <2>2. Busy(t)
    BY <1>0, <2>1 DEF SendersOK, Waiting, Busy
  <2>3. ~Woken(t)
    BY <1>0, <2>1, <2>2, WokenPosted
  <2>. QED
    BY <1>1, <2>1, <2>3 DEF Woken
<1>6. ~Interrupted(t)
  <2>1. Interrupted(t) => faults'.interrupts = faults.interrupts + 1
    BY <1>0 DEF Interrupted, CountsOK
  <2>. QED
    BY <1>0, <2>1 DEF CountsOK, PromptCase
<1>7. ~Answered(t) /\ ~Leave(t) /\ ~WriteFails(t)
  BY <1>0 DEF Answered, Leave, WriteFails, Return, SendersOK
<1>. QED
  BY <1>0, <1>2, <1>3, <1>4, <1>5, <1>6, <1>7, Bystander DEF SendStep

-----------------------------------------------------------------------------
(***************************************************************************)
(* Answers in time: whose frame, and whose answer, each is.                 *)
(***************************************************************************)
\* The one fragment of a command; the answers its target has given to it.
First(t) == [by |-> t, nr |-> Nr(t), packet |-> 1]
Gave(t, code) ==
    code <= 0 /\ [node |-> Target(t), data |-> <<First(t)>>, status |-> -code] \in delivered

Sent(t) == {f \in Fragments : f.data = First(t)}
Own(t) == {f \in AnswerFrames : Gave(t, f.code)}
Each(q, id, V) == \A i \in 1 .. Len(q) : IdOf(q[i]) = id => q[i] \in V

\* All that is on its way to or from a thread's command is of this call.
Codes(t) == {Garbage} \cup {code \in Int : Gave(t, code)}
Coded(list, t, V) == \A i \in 1 .. Len(list) : list[i].by = t => list[i].code \in V
Current(t) ==
    /\ \A n \in Nodes : n = Target(t) => Each(bus[n], SentId(t), Sent(t))
    /\ Each(bus[Sid(t)], Expected(t), Own(t))
    /\ Coded(AckNaks[Sid(t)], t, Codes(t))
CurrentOK == \A t \in Threads : pc[t] # "idle" /\ Message(t).type = "CMD" => Current(t)

\* What has been returned is of the call that returned it.
OwnStatus(t, i, code) ==
    \/ code \in {CsFailed, CsTimeout, Garbage}
    \/ /\ code <= 0
       /\ [node |-> app.program[t][i].did, data |-> Whole(t, i), status |-> -code] \in delivered
ReturnedOwn ==
    \A t \in Threads : \A i \in DOMAIN status[t] :
        app.program[t][i].type = "CMD" => OwnStatus(t, i, status[t][i])

LEMMA EachMoves ==
    ASSUME NEW S, NEW q \in Seq(S), NEW id, NEW V, NEW W, V \subseteq W, Each(q, id, V)
    PROVE  /\ Each(q, id, W)
           /\ q # <<>> => /\ Each(Tail(q), id, W)
                          /\ IdOf(Head(q)) = id => Head(q) \in V
           /\ \A f : (IdOf(f) = id => f \in W) => Each(Append(q, f), id, W)
<1>1. Each(q, id, W)
  BY DEF Each
<1>2. ASSUME q # <<>>
      PROVE  Each(Tail(q), id, W) /\ (IdOf(Head(q)) = id => Head(q) \in V)
  <2>1. /\ Len(q) \in Nat /\ Len(q) >= 1 /\ Head(q) = q[1] /\ Len(Tail(q)) = Len(q) - 1
        /\ \A k \in 1 .. Len(Tail(q)) : Tail(q)[k] = q[k + 1]
    BY <1>2, HeadTailProperties
  <2>2. PICK l, h : l = Tail(q) /\ h = Head(q)
    OBVIOUS
  <2>3. \A k \in 1 .. Len(l) : k + 1 \in 1 .. Len(q) /\ l[k] = q[k + 1]
    BY <2>1, <2>2
  <2>4. 1 \in 1 .. Len(q) /\ h = q[1]
    BY <2>1, <2>2
  <2>. QED
    BY <2>2, <2>3, <2>4 DEF Each
<1>3. ASSUME NEW f, IdOf(f) = id => f \in W PROVE Each(Append(q, f), id, W)
  <2>1. PICK l : l = Append(q, f)
    OBVIOUS
  <2>2. /\ Len(q) \in Nat /\ Len(l) = Len(q) + 1 /\ l[Len(q) + 1] = f
        /\ \A k \in 1 .. Len(q) : l[k] = q[k]
    BY <2>1, AppendProperties
  <2>3. \A k \in 1 .. Len(l) : k \in 1 .. Len(q) \/ k = Len(q) + 1
    BY <2>2
  <2>. QED
    BY <1>3, <2>1, <2>2, <2>3 DEF Each
<1>. QED
  BY <1>1, <1>2, <1>3

\* While a thread stays with its message, what is its own stays so.
LEMMA OwnLasts ==
    ASSUME app' = app, delivered \subseteq delivered', NEW t, status'[t] = status[t],
           NEW m, m = Sid(t), NEW x, x = SentId(t), NEW y, y = Expected(t)
    PROVE  /\ Sent(t)' = Sent(t) /\ Own(t) \subseteq Own(t)' /\ Codes(t) \subseteq Codes(t)'
           /\ Target(t)' = Target(t) /\ First(t)' = First(t)
           /\ /\ \A n \in Nodes : n = Target(t) => Each(bus'[n], x, Sent(t))
              /\ Each(bus'[m], y, Own(t)')
              /\ Coded(AckNaks'[m], t, Codes(t)')
              => Current(t)'
<1>1. Message(t)' = Message(t) /\ Nr(t)' = Nr(t) /\ Sid(t)' = m /\ SentId(t)' = x /\ Expected(t)' = y
  BY SameMessage
<1>2. Fragments' = Fragments
  BY PiecesStay
<1>3. First(t)' = First(t) /\ Target(t)' = Target(t)
  BY <1>1 DEF First, Target
<1>4. Sent(t)' = Sent(t)
  BY <1>2, <1>3 DEF Sent
<1>5. \A code : Gave(t, code) => Gave(t, code)'
  BY <1>3 DEF Gave
<1>6. Own(t) \subseteq Own(t)' /\ Codes(t) \subseteq Codes(t)'
  BY <1>5 DEF Own, Codes
<1>7. ASSUME \A n \in Nodes : n = Target(t) => Each(bus'[n], x, Sent(t)),
             Each(bus'[m], y, Own(t)'), Coded(AckNaks'[m], t, Codes(t)')
      PROVE  Current(t)'
  <2>1. \A n \in Nodes : n = Target(t)' => Each(bus'[n], SentId(t)', Sent(t)')
    BY <1>1, <1>3, <1>4, <1>7
  <2>2. Each(bus'[Sid(t)'], Expected(t)', Own(t)')
    BY <1>1, <1>7
  <2>3. Coded(AckNaks'[Sid(t)'], t, Codes(t)')
    BY <1>1, <1>7
  <2>. QED
    BY <2>1, <2>2, <2>3 DEF Current
<1>. QED
  BY <1>3, <1>4, <1>6, <1>7

\* A command in progress, where an id has one user.
CommandCase(t) == Inv /\ Alone /\ pc[t] # "idle" /\ status'[t] = status[t] /\ Message(t).type = "CMD"

LEMMA CommandFrames ==
    ASSUME [Next]_vars, NEW t \in Threads, CommandCase(t),
           NEW n \in Nodes, n = Target(t), Each(bus[n], SentId(t), Sent(t))
    PROVE  Each(bus'[n], SentId(t), Sent(t))
<1>0. SendersOK /\ bus \in [Nodes -> Seq(Frames)] /\ Inv
  BY DEF CommandCase, Inv, BusOK, Frames
<1>1. PICK q, id, V : q = bus[n] /\ id = SentId(t) /\ V = Sent(t) /\ q \in Seq(Frames)
  BY <1>0
<1>2. ASSUME NEW u \in Threads, Write(u), IdOf(Frame(u)) = id PROVE Frame(u) \in V
  <2>1. u = t
    BY <1>0, <1>1, <1>2, OthersWrite DEF CommandCase
  <2>2. PICK f : f = Frame(t)
    OBVIOUS
  <2>3. /\ f \in Frames /\ f.type = "CMD" /\ packet[t] \in Nat \ {0} /\ packet[t] <= 1
    BY <1>0, <1>1, <1>2, <2>1, <2>2, WrittenFrame DEF IdOf, SentId, CommandCase
  <2>4. f \in Fragments
    BY <1>0, <2>3, FrameKinds DEF Frames, Commands
  <2>5. f.data = First(t)
    BY <2>2, <2>3 DEF Frame, First
  <2>. QED
    BY <1>1, <2>1, <2>2, <2>4, <2>5 DEF Sent
<1>3. ASSUME NEW k \in Nodes, ReceiveStep(k), Replies(k) PROVE IdOf(AnswerFrame(k, Received(k))) # id
  <2>1. id.type = "CMD"
    BY <1>1 DEF SentId, CommandCase
  <2>2. AnswerFrame(k, Received(k)).type \in {"CMD_ACKNAK", "EXT_CMD_ACKNAK"}
    BY DEF AnswerFrame, AckType
  <2>. QED
    BY <2>1, <2>2 DEF IdOf
<1>4. /\ Each(q, id, V)
      /\ q # <<>> => Each(Tail(q), id, V)
      /\ \A f : (IdOf(f) = id => f \in V) => Each(Append(q, f), id, V)
  BY <1>1, EachMoves
<1>5. \/ bus'[n] = q
      \/ q # <<>> /\ bus'[n] = Tail(q)
      \/ \E u \in Threads : Write(u) /\ bus'[n] = Append(q, Frame(u))
      \/ \E k \in Nodes : ReceiveStep(k) /\ Replies(k) /\ bus'[n] = Append(q, AnswerFrame(k, Received(k)))
  BY <1>0, <1>1, BusMoves
<1>. QED
  BY <1>1, <1>2, <1>3, <1>4, <1>5

\* The answer a target sends to a frame of the command.
LEMMA OwnAnswer ==
    ASSUME [Next]_vars, NEW t \in Threads, CommandCase(t),
           \A n \in Nodes : n = Target(t) => Each(bus[n], SentId(t), Sent(t)),
           NEW k \in Nodes, ReceiveStep(k), Replies(k), NEW a, a = AnswerFrame(k, Received(k)),
           IdOf(a) = Expected(t)
    PROVE  a \in Own(t)'
<1>0. SendersOK /\ SlotsOK /\ app' = app /\ delivered \subseteq delivered' /\ Inv
  BY OnlyGrows DEF CommandCase, Inv
<1>1. PICK f, q : f = Received(k) /\ q = bus[k]
  OBVIOUS
<1>2. f \in Fragments /\ q # <<>> /\ q \in Seq(Frames) /\ f = Head(q) /\ f.type \in Commands /\ f.did = k
  BY <1>0, <1>1, ReceiveFacts DEF Replies, ForMe, Inv, BusOK, Frames
<1>3. /\ a.type = AckType(f.type) /\ a.mid = f.mid /\ a.sid = f.did /\ a.did = f.sid
      /\ a = [type |-> a.type, mid |-> a.mid, sid |-> a.sid, did |-> a.did, code |-> a.code]
      /\ a.code = IF Answer(k, f) = CsSuccess THEN 0 ELSE -Answer(k, f)
  BY <1>1 DEF AnswerFrame, Nak
<1>4. /\ a.type = "CMD_ACKNAK" /\ a.mid = Message(t).mid /\ a.sid = Message(t).did /\ a.did = Sid(t)
  BY DEF IdOf, Expected, AckType, CommandCase
<1>5. f.type = "CMD" /\ k = Target(t)
  BY <1>2, <1>3, <1>4 DEF AckType, Commands, Target
<1>6. IdOf(f) = SentId(t)
  BY <1>3, <1>4, <1>5 DEF IdOf, SentId, CommandCase
<1>7. f.data = First(t)
  <2>1. PICK id, V : id = SentId(t) /\ V = Sent(t)
    OBVIOUS
  <2>2. Each(q, id, V)
    BY <1>1, <1>5, <2>1
  <2>3. f \in V
    BY <1>2, <1>6, <2>1, <2>2, EachMoves
  <2>. QED
    BY <2>1, <2>3 DEF Sent
<1>8. ReceiveCommand(k)
  BY <1>1, <1>2, <1>5 DEF ReceiveStep, NotForMe, ReceiveExtCommand, ReceiveAnnouncement,
                          ReceiveExtAnnouncement, ReceiveAckNak, Reads, ForMe, AckType, Commands
<1>9. PICK s \in Nat : s = Answer(k, f)
  BY <1>0, AnswerIsNat
<1>10. [node |-> k, data |-> <<First(t)>>, status |-> s] \in delivered'
  BY <1>1, <1>7, <1>8, <1>9 DEF ReceiveCommand, Deliver
<1>11. a.code \in Int /\ a.code <= 0 /\ -a.code = s
  BY <1>3, <1>9 DEF CsSuccess
<1>12. Gave(t, a.code)'
  <2>1. Target(t)' = Target(t) /\ First(t)' = First(t)
    BY <1>0, SameMessage DEF CommandCase, Target, First
  <2>2. PICK c : c = a.code
    OBVIOUS
  <2>3. Gave(t, c)' <=> c <= 0 /\ [node |-> k, data |-> <<First(t)>>, status |-> -c] \in delivered'
    BY <1>5, <2>1 DEF Gave
  <2>. QED
    BY <1>10, <1>11, <2>2, <2>3
<1>13. a \in AnswerFrames
  <2>1. f.mid \in Nat /\ f.sid \in Nodes
    BY <1>0, <1>2, FragmentFacts
  <2>. QED
    BY <1>2, <1>3, <1>11, <2>1 DEF AnswerFrames
<1>. QED
  BY <1>12, <1>13 DEF Own

LEMMA CommandAnswers ==
    ASSUME [Next]_vars, NEW t \in Threads, CommandCase(t), Current(t),
           NEW m \in Nodes, m = Sid(t), NEW y, y = Expected(t)
    PROVE  Each(bus'[m], y, Own(t)')
<1>0. SendersOK /\ bus \in [Nodes -> Seq(Frames)] /\ Inv /\ app' = app /\ delivered \subseteq delivered'
  BY OnlyGrows DEF CommandCase, Inv, BusOK, Frames
<1>1. PICK q, V, W : q = bus[m] /\ V = Own(t) /\ W = Own(t)' /\ q \in Seq(Frames)
  BY <1>0
<1>2. V \subseteq W /\ Each(q, y, V)
  BY <1>0, <1>1, OwnLasts DEF CommandCase, Current
<1>3. ASSUME NEW u \in Threads, Write(u) PROVE IdOf(Frame(u)) # y
  <2>1. IdOf(Frame(u)).type \in Commands \cup Announcements
    BY <1>0, <1>3, WrittenFrame
  <2>2. y.type \notin Commands \cup Announcements
    BY DEF Expected, AckType, Commands, Announcements
  <2>. QED
    BY <2>1, <2>2
<1>4. ASSUME NEW k \in Nodes, ReceiveStep(k), Replies(k), IdOf(AnswerFrame(k, Received(k))) = y
      PROVE  AnswerFrame(k, Received(k)) \in W
  <2>1. \A n \in Nodes : n = Target(t) => Each(bus[n], SentId(t), Sent(t))
    BY DEF Current
  <2>. QED
    BY <1>1, <1>4, <2>1, OwnAnswer
<1>5. /\ Each(q, y, W)
      /\ q # <<>> => Each(Tail(q), y, W)
      /\ \A f : (IdOf(f) = y => f \in W) => Each(Append(q, f), y, W)
  BY <1>1, <1>2, EachMoves
<1>6. \/ bus'[m] = q
      \/ q # <<>> /\ bus'[m] = Tail(q)
      \/ \E u \in Threads : Write(u) /\ bus'[m] = Append(q, Frame(u))
      \/ \E k \in Nodes : ReceiveStep(k) /\ Replies(k) /\ bus'[m] = Append(q, AnswerFrame(k, Received(k)))
  BY <1>0, <1>1, BusMoves
<1>. QED
  BY <1>1, <1>3, <1>4, <1>5, <1>6

LEMMA CommandCodes ==
    ASSUME [Next]_vars, NEW t \in Threads, CommandCase(t), Current(t),
           NEW m \in Nodes, m = Sid(t)
    PROVE  Coded(AckNaks'[m], t, Codes(t)')
<1>0. SendersOK /\ bus \in [Nodes -> Seq(Frames)] /\ Inv /\ app' = app /\ delivered \subseteq delivered'
  BY OnlyGrows DEF CommandCase, Inv, BusOK, Frames
<1>1. PICK V, W : V = Codes(t) /\ W = Codes(t)'
  OBVIOUS
<1>2. V \subseteq W /\ Coded(AckNaks[m], t, V) /\ Garbage \in W
  BY <1>0, <1>1, OwnLasts DEF CommandCase, Current, Codes
<1>3. ~Send(t)
  BY DEF CommandCase, Send
<1>4. ASSUME ReceiveAckNak(m), IdOf(Received(m)) = Expected(t) PROVE Received(m).code \in V
  <2>1. PICK q, f, y, O : q = bus[m] /\ f = Received(m) /\ y = Expected(t) /\ O = Own(t) /\ q \in Seq(Frames)
    BY <1>0
  <2>2. q # <<>> /\ f = Head(q)
    BY <1>4, <2>1 DEF ReceiveAckNak, Reads, Received
  <2>3. Each(q, y, O)
    BY <2>1 DEF Current
  <2>4. f \in O
    BY <1>4, <2>1, <2>2, <2>3, EachMoves
  <2>5. f.code \in Int /\ Gave(t, f.code)
    BY <2>1, <2>4 DEF Own, AnswerFrames
  <2>. QED
    BY <1>1, <2>1, <2>5 DEF Codes
<1>5. ASSUME NEW i \in 1 .. Len(AckNaks'[m]), AckNaks'[m][i].by = t PROVE AckNaks'[m][i].code \in W
  <2>1. \/ \E j \in 1 .. Len(AckNaks[m]) : /\ AckNaks[m][j].by = t
                                           /\ AckNaks[m][j].code = AckNaks'[m][i].code
        \/ /\ ReceiveAckNak(m) /\ IdOf(Received(m)) = Expected(t)
           /\ AckNaks'[m][i].code = Received(m).code
    BY <1>0, <1>3, <1>5, EntryCode
  <2>. QED
    BY <1>2, <1>4, <2>1 DEF Coded
<1>. QED
  BY <1>1, <1>5 DEF Coded

LEMMA CurrentGoesOn ==
    ASSUME [Next]_vars, NEW t \in Threads, CommandCase(t), Current(t)
    PROVE  Current(t)'
<1>0. SendersOK /\ app' = app /\ delivered \subseteq delivered' /\ status'[t] = status[t]
  BY OnlyGrows DEF CommandCase, Inv
<1>1. PICK m \in Nodes : m = Sid(t)
  BY <1>0, AppTypes DEF SendersOK, Sid
<1>2. PICK x, y : x = SentId(t) /\ y = Expected(t)
  OBVIOUS
<1>3. \A n \in Nodes : n = Target(t) => Each(bus'[n], x, Sent(t))
  BY <1>2, CommandFrames DEF Current
<1>4. Each(bus'[m], y, Own(t)')
  BY <1>1, <1>2, CommandAnswers
<1>5. Coded(AckNaks'[m], t, Codes(t)')
  BY <1>1, CommandCodes
<1>. QED
  BY <1>0, <1>1, <1>2, <1>3, <1>4, <1>5, OwnLasts

\* When a command begins nothing of an earlier one with its id is left.
LEMMA CurrentBegins ==
    ASSUME PromptCase, [Next]_vars, NEW t \in Threads, Send(t), Message(t).type = "CMD"
    PROVE  Current(t)'
<1>0. /\ SendersOK /\ ListsOK /\ Inv /\ Alone /\ bus \in [Nodes -> Seq(Frames)]
      /\ app' = app /\ delivered \subseteq delivered'
  BY OnlyGrows DEF PromptCase, Inv, BusOK, Frames
<1>1. PICK m \in Nodes : m = Sid(t)
  BY <1>0, AppTypes DEF SendersOK, Sid
<1>2. PICK x, y : x = SentId(t) /\ y = Expected(t)
  OBVIOUS
<1>3. bus' = bus /\ status'[t] = status[t] /\ pc[t] = "idle" /\ pc'[t] = "send" /\ Nr(t) \in 1 .. Len(app.program[t])
  <2>1. Nr(t) \in Nat /\ Nr(t) >= 1
    BY <1>0 DEF SendersOK, Nr
  <2>2. app.program[t] \in Seq(Messages)
    BY <1>0, AppTypes DEF SendersOK
  <2>. QED
    BY <1>0, <2>1, <2>2 DEF Send, SendersOK
<1>4. app.program[t] \in Seq(Messages) /\ Nr(t) \in DOMAIN app.program[t]
  BY <1>0, <1>3, AppTypes DEF SendersOK
<1>5. ASSUME Target(t) \in Nodes PROVE x \in CommandIds /\ Nothing(x)
  <2>1. Message(t).mid \in Nat
    BY <1>0, <1>4, MessageTypes DEF SendersOK, Message
  <2>2. x \in CommandIds
    BY <1>1, <1>2, <1>5, <2>1 DEF SentId, CommandIds, Commands, Target
  <2>3. ~Awaited(x)
    <3>. SUFFICES ASSUME NEW u \in Threads, pc[u] = "wait", SentId(u) = x PROVE FALSE
      BY DEF Awaited
    <3>1. Nr(u) \in DOMAIN app.program[u]
      BY <1>0 DEF SendersOK
    <3>2. u = t
      BY <1>0, <1>2, <1>4, <3>1, OneUser
    <3>. QED
      BY <1>3, <3>2
  <2>. QED
    BY <2>2, <2>3 DEF PromptCase, TokensOK
<1>6. ASSUME NEW n \in Nodes, n = Target(t) PROVE Each(bus'[n], x, Sent(t))
  <2>1. x.did = n /\ x.type = "CMD" /\ Tokens(bus[n], x) = {}
    BY <1>2, <1>5, <1>6 DEF SentId, Target, Nothing
  <2>2. ASSUME NEW i \in 1 .. Len(bus[n]), IdOf(bus[n][i]) = x PROVE FALSE
    <3>1. PICK f : f = bus[n][i] /\ f \in Frames
      BY <1>0
    <3>2. f.type = "CMD" /\ f \in Fragments
      BY <1>0, <2>1, <2>2, <3>1, FrameKinds DEF Frames, Commands, IdOf
    <3>3. f.cur = f.last
      <4>1. f.cur \in Nat /\ f.last = 1 /\ 1 <= f.cur /\ f.cur <= f.last
        BY <1>0, <3>2, FragmentFacts
      <4>. QED
        BY <4>1
    <3>. QED
      BY <2>1, <2>2, <3>1, <3>3 DEF Tokens, Final
  <2>. QED
    BY <1>3, <2>2 DEF Each
<1>7. Each(bus'[m], y, Own(t)')
  <2>1. ASSUME NEW i \in 1 .. Len(bus[m]), IdOf(bus[m][i]) = y PROVE FALSE
    <3>1. PICK f : f = bus[m][i]
      OBVIOUS
    <3>2. f.type = "CMD_ACKNAK" /\ f.sid = Target(t) /\ f.sid \in Nodes
      BY <1>2, <2>1, <3>1 DEF IdOf, Expected, AckType, Target, PromptCase, Heard
    <3>3. Tokens(bus[m], Ack(x)) = {} /\ Ack(x) = y
      BY <1>1, <1>2, <1>5, <3>2 DEF Nothing, Ack, SentId, Expected
    <3>. QED
      BY <2>1, <3>1, <3>2, <3>3 DEF Tokens, Final, Commands
  <2>. QED
    BY <1>3, <2>1 DEF Each
<1>8. Coded(AckNaks'[m], t, Codes(t)')
  <2>1. ~ReceiveAckNak(m)
    BY <1>3 DEF ReceiveAckNak, senders
  <2>2. ASSUME NEW i \in 1 .. Len(AckNaks'[m]), AckNaks'[m][i].by = t
        PROVE  AckNaks'[m][i].code = Garbage
    <3>1. ASSUME NEW j \in 1 .. Len(AckNaks[m]), AckNaks[m][j].by = t PROVE FALSE
      BY <1>0, <1>3, <3>1, ListMembers DEF Listed, Busy
    <3>. QED
      BY <1>0, <1>1, <2>1, <2>2, <3>1, EntryCode
  <2>. QED
    BY <2>2 DEF Coded, Codes
<1>. QED
  BY <1>0, <1>1, <1>2, <1>3, <1>6, <1>7, <1>8, OwnLasts

LEMMA CurrentStep ==
    ASSUME PromptCase, CurrentOK, [Next]_vars
    PROVE  CurrentOK'
<1>0. SendersOK /\ Inv /\ CountsOK /\ Alone /\ app' = app
  BY OnlyGrows DEF PromptCase, Inv
<1>. SUFFICES ASSUME NEW t \in Threads, pc'[t] # "idle", Message(t)'.type = "CMD" PROVE Current(t)'
  BY DEF CurrentOK
<1>1. status'[t] = status[t]
  BY <1>0, GoesOn
<1>2. Message(t).type = "CMD"
  BY <1>0, <1>1, SameMessage
<1>3. CASE pc[t] # "idle"
  BY <1>0, <1>1, <1>2, <1>3, CurrentGoesOn DEF CommandCase, CurrentOK
<1>4. CASE pc[t] = "idle"
  <2>1. ~Still(t)
    BY <1>4 DEF Still
  <2>2. Send(t)
    BY <1>0, <1>4, <2>1, Bystander
       DEF SendStep, Write, Answered, Timeout, Leave, WriteFails, Interrupted
  <2>. QED
    BY <1>2, <2>2, CurrentBegins
<1>. QED
  BY <1>3, <1>4

\* The one fragment of a command is the message.
LEMMA FirstIsWhole ==
    ASSUME SendersOK, NEW t \in Threads, Nr(t) \in DOMAIN app.program[t], Message(t).type = "CMD"
    PROVE  Whole(t, Nr(t)) = <<First(t)>>
<1>1. PICK i, p, data : i = Nr(t) /\ p = First(t) /\ data = <<p>>
  OBVIOUS
<1>2. p.by = t /\ p.nr = i /\ p.packet = 1 /\ p = [by |-> t, nr |-> i, packet |-> 1] /\ i \in Nat
  BY <1>1 DEF First, Nr, SendersOK
<1>3. app.program[t][i].packets = 1
  BY <1>1, MessageTypes DEF SendersOK, Message
<1>4. p \in Pieces /\ Of(p).packets = 1
  BY <1>1, <1>2, <1>3 DEF Pieces, Of
<1>5. data \in Seq(Pieces) /\ Len(data) = 1 /\ data[1] = p
  BY <1>1, <1>4
<1>6. data = Whole(t, i)
  <2>1. ASSUME NEW k \in 1 .. Len(data)
        PROVE  data[k].by = t /\ data[k].nr = i /\ data[k].packet = k /\ Of(data[k]).packets = Len(data)
    <3>1. k = 1
      BY <1>5
    <3>. QED
      BY <1>2, <1>4, <1>5, <3>1
  <2>2. data \in Seq(Pieces) /\ Len(data) > 0
    BY <1>5
  <2>. HIDE <1>1, <1>2, <1>3, <1>4, <1>5
  <2>. QED
    BY <2>1, <2>2, WholeIfOwn
<1>. QED
  BY <1>1, <1>6

LEMMA ReturnedOwnStep ==
    ASSUME Inv, CurrentOK, ReturnedOwn, [Next]_vars
    PROVE  ReturnedOwn'
<1>. USE DEF vars, senders, receivers
<1>0. SendersOK /\ ListsOK /\ app' = app /\ delivered \subseteq delivered'
  BY OnlyGrows DEF Inv
<1>1. ASSUME NEW t \in Threads, NEW i, NEW code, OwnStatus(t, i, code) PROVE OwnStatus(t, i, code)'
  BY <1>0, <1>1 DEF OwnStatus, Whole
<1>2. CASE status' = status
  <2>1. ASSUME NEW t \in Threads, NEW i \in DOMAIN status'[t], app'.program[t][i].type = "CMD",
               NEW c, c = status'[t][i]
        PROVE  OwnStatus(t, i, c)'
    BY <1>0, <1>1, <1>2, <2>1 DEF ReturnedOwn
  <2>. QED
    BY <2>1 DEF ReturnedOwn
<1>3. ASSUME NEW t \in Threads, pc[t] # "idle", NEW code \in Int,
             status' = [status EXCEPT ![t] = Append(@, code)],
             Message(t).type = "CMD" => OwnStatus(t, Nr(t), code)
      PROVE  ReturnedOwn'
  <2>1. /\ \A u \in Threads : u # t => status'[u] = status[u]
        /\ DOMAIN status'[t] = DOMAIN status[t] \cup {Nr(t)}
        /\ status'[t][Nr(t)] = code
        /\ \A i \in DOMAIN status[t] : status'[t][i] = status[t][i]
    BY <1>0, <1>3, ReturnedOne
  <2>2. PICK nr : nr = Nr(t)
    OBVIOUS
  <2>3. app.program[t][nr].type = "CMD" => OwnStatus(t, nr, code)
    BY <1>3, <2>2 DEF Message
  <2>4. ASSUME NEW u \in Threads, NEW i \in DOMAIN status'[u], app.program[u][i].type = "CMD",
               NEW c, c = status'[u][i]
        PROVE  OwnStatus(u, i, c)
    BY <2>1, <2>2, <2>3, <2>4 DEF ReturnedOwn
  <2>5. ASSUME NEW u \in Threads, NEW i \in DOMAIN status'[u], app'.program[u][i].type = "CMD",
               NEW c, c = status'[u][i]
        PROVE  OwnStatus(u, i, c)'
    BY <1>0, <1>1, <2>4, <2>5
  <2>. QED
    BY <2>5 DEF ReturnedOwn
<1>4. ASSUME NEW t \in Threads, Leave(t) PROVE ReturnedOwn'
  <2>1. pc[t] # "idle" /\ Acked(t) /\ Nr(t) \in DOMAIN app.program[t]
    BY <1>0, <1>4 DEF Leave, SendersOK, Waiting
  <2>2. PICK e : e = AckNaks[Sid(t)][MyEntry(t)]
    OBVIOUS
  <2>3. e \in Entries /\ e.by = t /\ e.code \in Int
    BY <1>0, <2>1, <2>2, HasEntry DEF Entries
  <2>4. Message(t).type = "CMD" => e.code \in Codes(t)
    BY <1>0, <2>1, <2>2, <2>3, HasEntry DEF CurrentOK, Current, Coded
  <2>5. PICK code \in Int : /\ status' = [status EXCEPT ![t] = Append(@, code)]
                            /\ code \in {CsFailed, CsTimeout} \/ code = e.code
    <3>1. PICK code : code = CASE pc[t] = "failed" -> CsFailed
                               [] pc[t] = "timedout" -> CsTimeout
                               [] OTHER -> e.code
      OBVIOUS
    <3>2. status' = [status EXCEPT ![t] = Append(@, code)]
      BY <1>4, <2>2, <3>1 DEF Leave, Return
    <3>3. code \in {CsFailed, CsTimeout} \/ code = e.code
      BY <3>1
    <3>4. code \in Int
      BY <2>3, <3>3 DEF CsFailed, CsTimeout
    <3>. QED
      BY <3>2, <3>3, <3>4
  <2>6. ASSUME Message(t).type = "CMD" PROVE OwnStatus(t, Nr(t), code)
    <3>1. Gave(t, code) \/ code \in {CsFailed, CsTimeout, Garbage}
      BY <2>4, <2>5, <2>6 DEF Codes
    <3>2. Whole(t, Nr(t)) = <<First(t)>>
      BY <1>0, <2>1, <2>6, FirstIsWhole
    <3>. QED
      BY <3>1, <3>2 DEF OwnStatus, Gave, Target, Message
  <2>. QED
    BY <1>3, <2>1, <2>5, <2>6
<1>5. ASSUME NEW t \in Threads, Write(t) \/ WriteFails(t), status' # status PROVE ReturnedOwn'
  <2>0. pc[t] # "idle"
    BY <1>5 DEF Write, WriteFails
  <2>1. ~Acked(t)
    <3>1. packet[t] \in Nat /\ Message(t).packets \in Nat
      BY <1>0, <2>0, MessageTypes DEF SendersOK, Message
    <3>2. CASE Write(t)
      <4>1. ~(packet[t] < Message(t).packets) => packet[t] >= Message(t).packets
        BY <3>1
      <4>. QED
        BY <1>5, <3>2, <4>1 DEF Write
    <3>3. CASE WriteFails(t)
      BY <1>5, <3>3 DEF WriteFails
    <3>. QED
      BY <1>5, <3>2, <3>3
  <2>2. PICK code \in Int : status' = [status EXCEPT ![t] = Append(@, code)]
    <3>1. Return(t, CsSuccess) \/ Return(t, CsFailed)
      BY <1>5 DEF Write, WriteFails
    <3>. QED
      BY <3>1 DEF Return, CsSuccess, CsFailed
  <2>3. Message(t).type # "CMD"
    BY <2>1 DEF Acked, Commands
  <2>. QED
    BY <1>3, <2>0, <2>2, <2>3
<1>6. ASSUME NEW t \in Threads, Send(t) \/ Answered(t) \/ Timeout(t) \/ Interrupted(t)
      PROVE  status' = status
  BY <1>6 DEF Send, Answered, Timeout, Interrupted
<1>7. ASSUME NEW n \in Nodes, ReceiveStep(n) \/ AddMessageSlots(n) \/ Lose(n)
      PROVE  status' = status
  BY <1>7 DEF ReceiveStep, NotForMe, ReceiveCommand, ReceiveExtCommand, ReceiveAnnouncement,
              ReceiveExtAnnouncement, ReceiveAckNak, AddMessageSlots, Lose
<1>. QED
  BY <1>2, <1>4, <1>5, <1>6, <1>7 DEF Next, SendStep

\* Where answers come in time, an id has one user and no wait is interrupted.
PromptOK == Prompt => TokensOK /\ SendsUnwoken /\ CurrentOK /\ ReturnedOwn
PromptInv == Inv /\ CountsOK /\ Heard /\ PromptOK

LEMMA PromptInit == Init => PromptInv
<1>. SUFFICES ASSUME Init PROVE PromptInv
  OBVIOUS
<1>1. Inv /\ CountsOK
  BY RetriesInit DEF RetriesInv
<1>2. Heard
  BY DEF Init, Heard
<1>3. TokensOK
  <2>. SUFFICES ASSUME NEW x \in CommandIds PROVE Few(x) /\ Nothing(x)
    BY DEF TokensOK
  <2>1. bus[x.did] = <<>> /\ bus[x.sid] = <<>>
    BY DEF Init, CommandIds
  <2>2. \A id : Tokens(<<>>, id) = {}
    BY DEF Tokens
  <2>. QED
    BY <2>1, <2>2 DEF Few, Nothing, OneOf
<1>4. SendsUnwoken /\ CurrentOK /\ ReturnedOwn
  BY DEF Init, SendsUnwoken, CurrentOK, ReturnedOwn
<1>. QED
  BY <1>1, <1>2, <1>3, <1>4 DEF PromptInv, PromptOK

\* A step after which no wait has been interrupted.
LEMMA PromptStays ==
    ASSUME PromptInv, [Next]_vars, Prompt'
    PROVE  Prompt /\ PromptCase /\ CurrentOK /\ ReturnedOwn
<1>1. SendersOK /\ CountsOK /\ app' = app
  BY OnlyGrows DEF PromptInv, Inv
<1>2. app.timely /\ Alone /\ faults'.interrupts = 0
  BY <1>1 DEF Prompt, Alone, Ids, Sid
<1>3. faults.interrupts = 0
  <2>1. faults.interrupts \in Nat
    BY <1>1 DEF CountsOK
  <2>2. faults'.interrupts = faults.interrupts \/ faults'.interrupts = faults.interrupts + 1
    BY <1>1, FaultsGrow
  <2>. QED
    BY <1>2, <2>1, <2>2
<1>. QED
  BY <1>2, <1>3 DEF Prompt, PromptInv, PromptOK, PromptCase

LEMMA PromptStep == PromptInv /\ [Next]_vars => PromptInv'
<1>. SUFFICES ASSUME PromptInv, [Next]_vars PROVE PromptInv'
  OBVIOUS
<1>1. Inv' /\ CountsOK' /\ Heard'
  BY InvStep, CountsStep, HeardStep DEF PromptInv, Inv
<1>2. ASSUME Prompt' PROVE TokensOK' /\ SendsUnwoken' /\ CurrentOK' /\ ReturnedOwn'
  <2>1. PromptCase /\ CurrentOK /\ ReturnedOwn /\ Inv
    BY <1>2, PromptStays DEF PromptInv
  <2>. QED
    BY <2>1, TokensStep, UnwokenStep, CurrentStep, ReturnedOwnStep
<1>. QED
  BY <1>1, <1>2 DEF PromptInv, PromptOK

(* SendCommandMessage, ReceiveAckNak: what a command returns other than a   *)
(* failure is what its own target's callbacks returned for that very        *)
(* message, and a refusal is negative: of any command whose id no other     *)
(* message has; and of a plain command whose id is used again, where        *)
(* answers come in time, one thread has the id, and no wait is interrupted. *)
THEOREM AnswersAreOwn == Spec => []AnswerIsOwn
<1>1. PromptInv => AnswerIsOwn
  <2>. SUFFICES ASSUME PromptInv, NEW t \in Threads, NEW i \in DOMAIN status[t],
                       app.program[t][i].type \in Commands,
                       Sole(t, i) \/ (Prompt /\ app.program[t][i].type = "CMD"),
                       status[t][i] \notin {CsFailed, CsTimeout, Garbage}
                PROVE  /\ status[t][i] <= 0
                       /\ [node |-> app.program[t][i].did, data |-> Whole(t, i),
                           status |-> -status[t][i]] \in delivered
    BY DEF AnswerIsOwn
  <2>1. CASE Sole(t, i)
    BY <2>1, SoleAnswer DEF PromptInv
  <2>2. CASE Prompt /\ app.program[t][i].type = "CMD"
    <3>1. OwnStatus(t, i, status[t][i])
      BY <2>2 DEF PromptInv, PromptOK, ReturnedOwn
    <3>. QED
      BY <3>1 DEF OwnStatus
  <2>. QED
    BY <2>1, <2>2
<1>. QED
  BY <1>1, PromptInit, PromptStep, PTL DEF Spec

-----------------------------------------------------------------------------
(***************************************************************************)
(* A bus without faults.                                                    *)
(***************************************************************************)
Faultless == \A k \in DOMAIN faults : faults[k] = 0

\* Every frame fits where the reassembly is, and every answer is expected.
LEMMA NoErrorsStep ==
    ASSUME PromptCase, SteadyOK, Faultless, errors = {}, [Next]_vars
    PROVE  errors' = {}
<1>0. /\ SendersOK /\ app' = app /\ CountsOK /\ Alone /\ Inv
      /\ bus \in [Nodes -> Seq(Frames)]
  BY OnlyGrows DEF PromptCase, Inv, BusOK, Frames
<1>1. Flawless
  BY <1>0 DEF Faultless, Flawless, CountsOK
<1>2. ASSUME NEW n \in Nodes, ReceiveStep(n), Handles(n, IdOf(Received(n)))
      PROVE  errors' = errors
  <2>1. PICK f, q, id : f = Received(n) /\ q = bus[n] /\ id = IdOf(f)
    OBVIOUS
  <2>2. /\ q # <<>> /\ f = Head(q) /\ f \in Fragments /\ f = q[1] /\ 1 \in 1 .. Len(q)
        /\ Fits(Place(n, id), f) => errors' = errors
        /\ q \in Seq(Frames)
    BY <1>0, <1>2, <2>1, ReceiveFacts, HeadTailProperties
  <2>3. n \in DOMAIN app.slots /\ f.sid # n
    BY <2>1, <2>2 DEF PromptCase, Heard
  <2>4. id \in FrameIds /\ id.sid = f.sid
    BY <1>0, <2>1, <2>2, FragmentFacts DEF FrameIds, IdOf
  <2>5. Steady(n, id)
    BY <1>0, <1>1, <1>2, <2>1, <2>3, <2>4 DEF SteadyOK
  <2>6. PICK x, p : Fitting(q, id, p, x) /\ p = Place(n, id)
    BY <2>1, <2>5 DEF Steady, Clean
  <2>7. Fits(p, f)
    BY <2>1, <2>2, <2>6, OneLess
  <2>. QED
    BY <2>2, <2>6, <2>7
<1>3. ASSUME NEW n \in Nodes, ReceiveAckNak(n) PROVE errors' = errors
  <2>1. PICK t \in Threads : Busy(t) /\ Sid(t) = n /\ Expected(t) = IdOf(Received(n))
    BY <1>3, AnswerAwaited
  <2>2. ReceiveStep(n)
    BY <1>3 DEF ReceiveStep
  <2>. QED
    BY <1>0, <2>1, <2>2, AnswerTaken
<1>4. (\A n \in Nodes : ~ReceiveStep(n)) => errors' = errors
  <2>1. ASSUME NEW t \in Threads, SendStep(t) \/ WriteFails(t) \/ Interrupted(t) PROVE errors' = errors
    <3>1. Send(t) \/ Write(t) \/ Answered(t) \/ Timeout(t) \/ Leave(t) \/ WriteFails(t) \/ Interrupted(t)
      BY <2>1 DEF SendStep
    <3>2. Send(t) \/ Answered(t) \/ Timeout(t) \/ Leave(t) => errors' = errors
      BY DEF Send, Answered, Timeout, Leave
    <3>3. Write(t) \/ WriteFails(t) \/ Interrupted(t) => errors' = errors
      BY DEF Write, WriteFails, Interrupted
    <3>. QED
      BY <3>1, <3>2, <3>3
  <2>2. ASSUME NEW n \in Nodes, AddMessageSlots(n) \/ Lose(n) PROVE errors' = errors
    BY <2>2 DEF AddMessageSlots, Lose
  <2>3. UNCHANGED vars => errors' = errors
    BY DEF vars
  <2>. QED
    BY <2>1, <2>2, <2>3 DEF Next
<1>5. ASSUME NEW n \in Nodes, ReceiveStep(n)
      PROVE  errors' = errors \/ Handles(n, IdOf(Received(n))) \/ ReceiveAckNak(n)
  BY <1>0, <1>5, ReceiveFacts
<1>. QED
  BY <1>0, <1>2, <1>3, <1>4, <1>5


QuietOK == Prompt /\ Faultless => errors = {}
QuietInv == PromptInv /\ SteadyOK /\ QuietOK

LEMMA QuietInit == Init => QuietInv
<1>1. Init => SteadyOK /\ errors = {}
  BY RetriesInit DEF RetriesInv, Init
<1>. QED
  BY <1>1, PromptInit DEF QuietInv, QuietOK

LEMMA QuietStep == QuietInv /\ [Next]_vars => QuietInv'
<1>. SUFFICES ASSUME QuietInv, [Next]_vars PROVE QuietInv'
  OBVIOUS
<1>1. PromptInv' /\ SteadyOK' /\ SendersOK /\ CountsOK
  BY PromptStep, SteadyStep DEF QuietInv, PromptInv, Inv
<1>2. ASSUME Prompt', Faultless' PROVE errors' = {}
  <2>1. Prompt /\ PromptCase /\ SteadyOK
    BY <1>2, PromptStays DEF QuietInv
  <2>2. Faultless
    <3>1. /\ faults.losses \in Nat /\ faults.failures \in Nat /\ faults.interrupts \in Nat
          /\ faults'.losses = 0 /\ faults'.failures = 0 /\ faults'.interrupts = 0
      BY <1>1, <1>2, CountsStep DEF CountsOK, Faultless
    <3>2. faults' = faults
      BY <1>1, <3>1, FaultsGrow
    <3>. QED
      BY <1>2, <3>2 DEF Faultless
  <2>3. errors = {}
    BY <2>1, <2>2 DEF QuietInv, QuietOK
  <2>. QED
    BY <2>1, <2>2, <2>3, NoErrorsStep
<1>. QED
  BY <1>1, <1>2 DEF QuietInv, QuietOK

(* ExtCmdAnn.cpp, ReceiveAckNak: on a bus without faults, where no answer   *)
(* is late and an id has one user, no fragment is out of its place and no   *)
(* answer finds its entry gone: however many messages, fragments, threads   *)
(* and nodes there are, no protocol error is reported.                      *)
THEOREM FaultlessBusIsQuiet == Spec => []QuietWithoutFaults
<1>1. QuietInv => QuietWithoutFaults
  <2>. SUFFICES ASSUME QuietInv, app.timely, Alone, faults = [f \in DOMAIN faults |-> 0]
                PROVE  errors = {}
    BY DEF QuietWithoutFaults
  <2>1. Faultless
    BY DEF Faultless
  <2>2. faults.interrupts = 0
    BY <2>1 DEF Faultless, QuietInv, PromptInv, CountsOK
  <2>. QED
    BY <2>1, <2>2 DEF QuietInv, QuietOK, Prompt
<1>. QED
  BY <1>1, QuietInit, QuietStep, PTL DEF Spec
=============================================================================
