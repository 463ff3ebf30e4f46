---------------------------- MODULE ApiAuth_proofs ----------------------------
(***************************************************************************)
(* Proofs about the API's limiter of failed authentications and its audit   *)
(* log: the invariants of ApiAuth hold for every number of clients and      *)
(* requests, every setting of the limiter and every order of the steps.     *)
(***************************************************************************)
EXTENDS ApiAuth, FiniteSetTheorems, SequenceTheorems, TLAPS

-----------------------------------------------------------------------------
(* Induction over the natural numbers, for a set of them: were m missing,   *)
(* adding 1 would map the members below m one-to-one into themselves and    *)
(* miss 0, which no finite set allows.                                      *)
LEMMA SetInduction ==
  ASSUME NEW S \in SUBSET Nat, 0 \in S, \A n \in S : n + 1 \in S
  PROVE  S = Nat
<1>1. SUFFICES ASSUME NEW m \in Nat, m \notin S PROVE FALSE
  OBVIOUS
<1> DEFINE T == S \cap (0 .. m)
           f == [x \in T |-> x + 1]
<1>2. IsFiniteSet(T)
  <2>1. IsFiniteSet(0 .. m)
    BY FS_Interval
  <2> QED BY <2>1, FS_Intersection
<1>3. f \in Injection(T, T)
  BY <1>1 DEF Injection, IsInjective
<1>4. f \in Surjection(T, T)
  <2> HIDE DEF T, f
  <2> QED BY <1>2, <1>3, FS_Injection
<1>5. 0 \in T
  BY <1>1
<1>6. PICK x \in T : f[x] = 0
  <2> HIDE DEF T, f
  <2> QED BY <1>4, <1>5 DEF Surjection
<1> QED
  BY <1>6

(* One step of retain's loop over ts, from what is kept of the elements     *)
(* before the k-th.                                                         *)
Keeps(ts, now, before, k) ==
  IF DurationSince(now, ts[k]) < WindowSeconds THEN Append(before, ts[k]) ELSE before

(* What retain keeps is given by a run of its loop.                         *)
LEMMA RecentRuns ==
  ASSUME NEW ts \in Seq(Nat), NEW now \in Nat
  PROVE  \E F \in [0 .. Len(ts) -> Seq(Nat)] :
           /\ Recent(ts, now) = F[Len(ts)]
           /\ F[0] = <<>>
           /\ \A k \in 1 .. Len(ts) : F[k] = Keeps(ts, now, F[k - 1], k)
<1> DEFINE n == Len(ts)
           Runs(F, i) == /\ F[0] = <<>>
                         /\ \A k \in 1 .. i : F[k] = Keeps(ts, now, F[k - 1], k)
           S == {i \in Nat : i <= n => \E F \in [0 .. i -> Seq(Nat)] : Runs(F, i)}
<1>1. n \in Nat /\ \A k \in 1 .. n : ts[k] \in Nat
  BY LenProperties, ElementOfSeq
<1>2. 0 \in S
  <2>1. [k \in 0 .. 0 |-> <<>>] \in [0 .. 0 -> Seq(Nat)]
    BY EmptySeq
  <2>2. Runs([k \in 0 .. 0 |-> <<>>], 0)
    OBVIOUS
  <2> QED BY <2>1, <2>2
<1>3. ASSUME NEW i \in S PROVE i + 1 \in S
  <2>1. SUFFICES ASSUME i + 1 <= n
                 PROVE  \E F \in [0 .. i + 1 -> Seq(Nat)] : Runs(F, i + 1)
    <3> HIDE DEF Runs
    <3> QED OBVIOUS
  <2>2. PICK F \in [0 .. i -> Seq(Nat)] : Runs(F, i)
    <3> HIDE DEF Runs
    <3> QED BY <1>1, <2>1
  <2> DEFINE x == Keeps(ts, now, F[i], i + 1)
             G == [k \in 0 .. i + 1 |-> IF k = i + 1 THEN x ELSE F[k]]
  <2>3. x \in Seq(Nat)
    <3>1. F[i] \in Seq(Nat) /\ ts[i + 1] \in Nat
      BY <1>1, <2>1
    <3>2. Append(F[i], ts[i + 1]) \in Seq(Nat)
      BY <3>1, AppendProperties
    <3> QED BY <3>1, <3>2 DEF Keeps
  <2>4. G \in [0 .. i + 1 -> Seq(Nat)]
    <3> HIDE DEF x
    <3> QED BY <2>3
  <2>5. /\ G[0] = F[0] /\ G[i + 1] = x /\ G[i] = F[i]
        /\ \A k \in 1 .. i : G[k] = F[k] /\ G[k - 1] = F[k - 1]
    <3> HIDE DEF x
    <3> QED OBVIOUS
  <2>6. Runs(G, i + 1)
    <3>1. ASSUME NEW k \in 1 .. i + 1 PROVE G[k] = Keeps(ts, now, G[k - 1], k)
      <4> HIDE DEF G
      <4>1. CASE k = i + 1
        BY <4>1, <2>5
      <4>2. CASE k \in 1 .. i
        BY <4>2, <2>2, <2>5
      <4> QED BY <4>1, <4>2
    <3> HIDE DEF G
    <3> QED BY <3>1, <2>2, <2>5
  <2> QED BY <2>4, <2>6
<1>4. S = Nat
  <2> HIDE DEF Runs
  <2>1. S \in SUBSET Nat
    OBVIOUS
  <2> HIDE DEF S
  <2> QED BY <1>2, <1>3, <2>1, SetInduction
<1>5. PICK F \in [0 .. n -> Seq(Nat)] : Runs(F, n)
  <2> HIDE DEF Runs
  <2> QED BY <1>1, <1>4
<1> DEFINE Body(G, k) ==
      IF k = 0 THEN <<>>
      ELSE IF DurationSince(now, ts[k]) < WindowSeconds
      THEN Append(G[k - 1], ts[k]) ELSE G[k - 1]
<1>6. F = [k \in 0 .. n |-> Body(F, k)]
  <2>1. \A k \in 0 .. n : F[k] = Body(F, k)
    <3>1. ASSUME NEW k \in 1 .. n PROVE F[k] = Body(F, k)
      BY <3>1, <1>5 DEF Keeps
    <3>2. F[0] = Body(F, 0)
      BY <1>5
    <3> HIDE DEF Body
    <3> QED BY <1>1, <3>1, <3>2
  <2> HIDE DEF Body
  <2> QED BY <2>1
<1>7. \E G : Recent(ts, now) = G[n] /\ G = [k \in 0 .. n |-> Body(G, k)]
  BY <1>6 DEF Recent
<1>8. PICK G : Recent(ts, now) = G[n] /\ G = [k \in 0 .. n |-> Body(G, k)]
  BY <1>7
<1> DEFINE T == {i \in Nat : i <= n => G[i] = F[i]}
<1>9. 0 \in T
  BY <1>1, <1>5, <1>8
<1>10. ASSUME NEW i \in T PROVE i + 1 \in T
  <2>1. SUFFICES ASSUME i + 1 <= n PROVE G[i + 1] = F[i + 1]
    BY <1>10
  <2>2. G[i] = F[i]
    BY <1>1, <2>1
  <2>3. i + 1 \in 0 .. n /\ i + 1 # 0 /\ (i + 1) - 1 = i
    BY <1>1, <2>1
  <2>4. G[i + 1] = Body(G, i + 1) /\ F[i + 1] = Body(F, i + 1)
    <3> HIDE DEF Body
    <3> QED BY <1>6, <1>8, <2>3
  <2> QED BY <2>2, <2>3, <2>4
<1>11. T = Nat
  <2>1. T \in SUBSET Nat
    OBVIOUS
  <2> HIDE DEF T
  <2> QED BY <1>9, <1>10, <2>1, SetInduction
<1>12. G[n] = F[n]
  BY <1>1, <1>11
<1> QED BY <1>5, <1>8, <1>12

LEMMA LoggedNone == Logged(<<>>, <<>>)
<1> DEFINE e == <<>>
           f == [k \in 1 .. 0 |-> 0]
<1>1. Len(e) = 0
  OBVIOUS
<1>2. f \in [1 .. 0 -> 1 .. 0]
  OBVIOUS
<1> HIDE DEF e, f
<1>3. /\ \A j, k \in 1 .. 0 : f[j] = f[k] => j = k
      /\ \A k \in 1 .. 0 : e[k] = e[f[k]]
  OBVIOUS
<1>4. \E h \in [1 .. Len(e) -> 1 .. Len(e)] :
        /\ \A j, k \in 1 .. Len(e) : h[j] = h[k] => j = k
        /\ \A k \in 1 .. Len(e) : e[k] = e[h[k]]
  BY <1>1, <1>2, <1>3, Zenon
<1> QED BY <1>4 DEF Logged, e

(* Being logged is transitive, and what is logged stays so as a log grows.  *)
LEMMA LoggedTransitive ==
  ASSUME NEW a \in Seq(Nat), NEW b \in Seq(Nat), NEW l \in Seq(Nat),
         Logged(a, b), Logged(b, l)
  PROVE  Logged(a, l)
<1>1. Len(a) \in Nat /\ Len(b) \in Nat /\ Len(l) \in Nat
  BY LenProperties
<1>2. PICK f \in [1 .. Len(a) -> 1 .. Len(b)] :
        /\ \A j, k \in 1 .. Len(a) : f[j] = f[k] => j = k
        /\ \A k \in 1 .. Len(a) : a[k] = b[f[k]]
  BY DEF Logged
<1>3. PICK g \in [1 .. Len(b) -> 1 .. Len(l)] :
        /\ \A j, k \in 1 .. Len(b) : g[j] = g[k] => j = k
        /\ \A k \in 1 .. Len(b) : b[k] = l[g[k]]
  BY DEF Logged
<1> DEFINE h == [k \in 1 .. Len(a) |-> g[f[k]]]
<1>4. h \in [1 .. Len(a) -> 1 .. Len(l)]
  OBVIOUS
<1>5. \A k \in 1 .. Len(a) : h[k] = g[f[k]] /\ f[k] \in 1 .. Len(b)
  OBVIOUS
<1> HIDE DEF h
<1>6. \A j, k \in 1 .. Len(a) : h[j] = h[k] => j = k
  BY <1>2, <1>3, <1>5
<1>7. ASSUME NEW k \in 1 .. Len(a) PROVE a[k] = l[h[k]]
  <2>1. a[k] = b[f[k]]
    BY <1>2
  <2>2. b[f[k]] = l[g[f[k]]]
    BY <1>3, <1>5
  <2> QED BY <1>5, <2>1, <2>2
<1> QED BY <1>4, <1>6, <1>7 DEF Logged

LEMMA LoggedAppends ==
  ASSUME NEW a \in Seq(Nat), NEW l \in Seq(Nat), NEW t \in Nat, Logged(a, l)
  PROVE  /\ Logged(a, Append(l, t))
         /\ Logged(Append(a, t), Append(l, t))
<1> DEFINE m == Len(a)
           n == Len(l)
<1>1. /\ m \in Nat /\ n \in Nat
      /\ Len(Append(a, t)) = m + 1 /\ Len(Append(l, t)) = n + 1
      /\ Append(a, t)[m + 1] = t /\ Append(l, t)[n + 1] = t
      /\ \A k \in 1 .. m : Append(a, t)[k] = a[k]
      /\ \A k \in 1 .. n : Append(l, t)[k] = l[k]
  BY LenProperties, AppendProperties
<1>2. PICK f \in [1 .. m -> 1 .. n] :
        /\ \A j, k \in 1 .. m : f[j] = f[k] => j = k
        /\ \A k \in 1 .. m : a[k] = l[f[k]]
  BY DEF Logged
<1> HIDE DEF m, n
<1>3. Logged(a, Append(l, t))
  <2>1. f \in [1 .. m -> 1 .. n + 1]
    BY <1>1
  <2>2. \A k \in 1 .. m : a[k] = Append(l, t)[f[k]]
    BY <1>1, <1>2
  <2> QED BY <1>1, <1>2, <2>1, <2>2 DEF Logged, m
<1>4. Logged(Append(a, t), Append(l, t))
  <2> DEFINE g == [k \in 1 .. m + 1 |-> IF k = m + 1 THEN n + 1 ELSE f[k]]
  <2>1. g \in [1 .. m + 1 -> 1 .. n + 1]
    BY <1>1
  <2>2. g[m + 1] = n + 1 /\ \A k \in 1 .. m : g[k] = f[k] /\ f[k] \in 1 .. n
    BY <1>1
  <2> HIDE DEF g
  <2>3. \A k \in 1 .. m + 1 : k \in 1 .. m \/ k = m + 1
    BY <1>1
  <2>4. ASSUME NEW j \in 1 .. m + 1, NEW k \in 1 .. m + 1, g[j] = g[k] PROVE j = k
    <3>1. CASE j \in 1 .. m /\ k \in 1 .. m
      BY <1>2, <2>2, <2>4, <3>1
    <3>2. CASE j = m + 1 /\ k \in 1 .. m
      BY <1>1, <2>2, <2>4, <3>2
    <3>3. CASE k = m + 1 /\ j \in 1 .. m
      BY <1>1, <2>2, <2>4, <3>3
    <3> QED BY <2>3, <3>1, <3>2, <3>3
  <2>5. \A k \in 1 .. m + 1 : Append(a, t)[k] = Append(l, t)[g[k]]
    BY <1>1, <1>2, <2>2, <2>3
  <2> DEFINE a1 == Append(a, t)
             l1 == Append(l, t)
  <2>6. Len(a1) = m + 1 /\ Len(l1) = n + 1
    BY <1>1
  <2> HIDE DEF a1, l1
  <2>7. g \in [1 .. Len(a1) -> 1 .. Len(l1)]
    BY <2>1, <2>6
  <2>8. \A j, k \in 1 .. Len(a1) : g[j] = g[k] => j = k
    BY <2>4, <2>6
  <2>9. \A k \in 1 .. Len(a1) : a1[k] = l1[g[k]]
    BY <2>5, <2>6 DEF a1, l1
  <2>10. Logged(a1, l1)
    <3> SUFFICES \E h \in [1 .. Len(a1) -> 1 .. Len(l1)] :
                   /\ \A j, k \in 1 .. Len(a1) : h[j] = h[k] => j = k
                   /\ \A k \in 1 .. Len(a1) : a1[k] = l1[h[k]]
      BY DEF Logged
    <3> WITNESS g \in [1 .. Len(a1) -> 1 .. Len(l1)]
    <3> QED BY <2>8, <2>9
  <2> QED BY <2>10 DEF a1, l1
<1> QED BY <1>3, <1>4

(* retain keeps elements of ts that are inside the window, each one once.   *)
LEMMA RecentLogged ==
  ASSUME NEW ts \in Seq(Nat), NEW now \in Nat
  PROVE  LET r == Recent(ts, now)
         IN  /\ r \in Seq(Nat) /\ Logged(r, ts)
             /\ \A k \in 1 .. Len(r) : DurationSince(now, r[k]) < WindowSeconds
<1> DEFINE n == Len(ts)
           Short(r) == \A k \in 1 .. Len(r) : DurationSince(now, r[k]) < WindowSeconds
           First(i) == SubSeq(ts, 1, i)
<1>1. PICK F \in [0 .. n -> Seq(Nat)] :
        /\ Recent(ts, now) = F[n] /\ F[0] = <<>>
        /\ \A k \in 1 .. n : F[k] = Keeps(ts, now, F[k - 1], k)
  BY RecentRuns
<1>2. n \in Nat /\ \A k \in 1 .. n : ts[k] \in Nat
  BY LenProperties, ElementOfSeq
<1>3. /\ First(0) = <<>> /\ First(n) = ts
      /\ \A i \in 0 .. n : First(i) \in Seq(Nat) /\ Len(First(i)) = i
      /\ \A i \in 0 .. n - 1 : First(i + 1) = Append(First(i), ts[i + 1])
  <2>1. \A i \in 0 .. n : First(i) \in Seq(Nat) /\ Len(First(i)) = i
                         /\ \A k \in 1 .. i : First(i)[k] = ts[k]
    BY <1>2, SubSeqProperties
  <2>2. First(0) = <<>>
    BY <1>2, <2>1, EmptySeq
  <2>3. First(n) = ts
    BY <1>2, <2>1, SeqEqual
  <2>4. ASSUME NEW i \in 0 .. n - 1 PROVE First(i + 1) = Append(First(i), ts[i + 1])
    <3> DEFINE u == First(i + 1)
               v == Append(First(i), ts[i + 1])
    <3>1. u \in Seq(Nat) /\ v \in Seq(Nat) /\ Len(u) = i + 1 /\ Len(v) = i + 1
      BY <1>2, <2>1, AppendProperties
    <3>2. \A k \in 1 .. i + 1 : u[k] = v[k]
      BY <1>2, <2>1, AppendProperties
    <3> HIDE DEF u, v
    <3> QED BY <3>1, <3>2, SeqEqual DEF u, v
  <2> QED BY <2>1, <2>2, <2>3, <2>4
<1> DEFINE S == {i \in Nat : i <= n => Logged(F[i], First(i)) /\ Short(F[i])}
<1> HIDE DEF First
<1>4. 0 \in S
  <2>1. Logged(<<>>, <<>>)
    BY LoggedNone
  <2>2. Short(<<>>)
    OBVIOUS
  <2> HIDE DEF Short
  <2> QED BY <1>1, <1>2, <1>3, <2>1, <2>2
<1>5. ASSUME NEW i \in S PROVE i + 1 \in S
  <2>1. SUFFICES ASSUME i + 1 <= n
                 PROVE  Logged(F[i + 1], First(i + 1)) /\ Short(F[i + 1])
    <3> HIDE DEF Short
    <3> QED BY <1>5
  <2>2. /\ Logged(F[i], First(i)) /\ Short(F[i])
        /\ F[i] \in Seq(Nat) /\ First(i) \in Seq(Nat) /\ ts[i + 1] \in Nat
        /\ First(i + 1) = Append(First(i), ts[i + 1])
    <3>1. i <= n /\ i \in 0 .. n - 1 /\ i \in 0 .. n /\ i + 1 \in 1 .. n
      BY <1>2, <2>1
    <3> HIDE DEF Short, n
    <3>2. Logged(F[i], First(i)) /\ Short(F[i])
      BY <3>1
    <3> HIDE DEF S
    <3> QED BY <1>2, <1>3, <3>1, <3>2
  <2>3. F[i + 1] = Keeps(ts, now, F[i], i + 1)
    BY <1>1, <1>2, <2>1
  <2>4. CASE DurationSince(now, ts[i + 1]) < WindowSeconds
    <3>1. F[i + 1] = Append(F[i], ts[i + 1])
      BY <2>3, <2>4 DEF Keeps
    <3>2. Short(F[i + 1])
      BY <2>2, <2>4, <3>1, AppendProperties, LenProperties
    <3> QED BY <2>2, <3>1, <3>2, LoggedAppends
  <2>5. CASE ~ (DurationSince(now, ts[i + 1]) < WindowSeconds)
    <3>1. F[i + 1] = F[i]
      BY <2>3, <2>5 DEF Keeps
    <3> QED BY <2>2, <3>1, LoggedAppends
  <2> QED BY <2>4, <2>5
<1>6. S = Nat
  <2>1. S \in SUBSET Nat
    OBVIOUS
  <2> HIDE DEF S
  <2> QED BY <1>4, <1>5, <2>1, SetInduction
<1>7. Logged(F[n], First(n)) /\ Short(F[n])
  <2> HIDE DEF Short
  <2> QED BY <1>2, <1>6
<1> QED BY <1>1, <1>2, <1>3, <1>7

-----------------------------------------------------------------------------
(* The limiter.                                                             *)

(* MaxFailures - 1 logged failures inside the window, and one more now,     *)
(* earn a block.                                                            *)
LEMMA WindowFilled ==
  ASSUME NEW r \in Seq(Nat), NEW l \in Seq(Nat), NEW now \in Nat, Logged(r, l),
         \A k \in 1 .. Len(r) : DurationSince(now, r[k]) < WindowSeconds,
         Len(r) + 1 >= MaxFailures
  PROVE  Earned(Append(l, now), now)
<1> DEFINE n == Len(l)
           l1 == Append(l, now)
           W == {k \in 1 .. n : now - l1[k] < WindowSeconds}
<1>1. /\ n \in Nat /\ Len(r) \in Nat /\ \A k \in 1 .. n : l[k] \in Nat
      /\ Len(l1) = n + 1 /\ l1[n + 1] = now /\ \A k \in 1 .. n : l1[k] = l[k]
  BY LenProperties, AppendProperties, ElementOfSeq
<1>2. PICK f \in [1 .. Len(r) -> 1 .. n] :
        /\ \A j, k \in 1 .. Len(r) : f[j] = f[k] => j = k
        /\ \A k \in 1 .. Len(r) : r[k] = l[f[k]]
  BY DEF Logged
<1>3. ASSUME NEW k \in 1 .. Len(r) PROVE f[k] \in W
  <2>1. f[k] \in 1 .. n /\ l1[f[k]] = r[k] /\ r[k] \in Nat
    BY <1>1, <1>2
  <2>2. DurationSince(now, r[k]) < WindowSeconds
    OBVIOUS
  <2>3. now - r[k] < WindowSeconds
    BY <2>1, <2>2, AuthAssumption DEF DurationSince
  <2> QED BY <2>1, <2>3
<1>4. IsFiniteSet(W)
  <2>1. IsFiniteSet(1 .. n)
    BY <1>1, FS_Interval
  <2> QED BY <2>1, FS_Subset
<1>5. f \in Injection(1 .. Len(r), W)
  <2> HIDE DEF W, n
  <2>1. f \in [1 .. Len(r) -> W]
    BY <1>3
  <2> QED BY <1>2, <2>1 DEF Injection, IsInjective
<1>6. Cardinality(1 .. Len(r)) = Len(r)
  <2> DEFINE m == Len(r)
  <2>1. m \in Nat /\ 1 \in Int /\ m \in Int
    BY <1>1
  <2> HIDE DEF m
  <2>2. Cardinality(1 .. m) = IF 1 > m THEN 0 ELSE m - 1 + 1
    BY <2>1, FS_Interval
  <2> QED BY <2>1, <2>2 DEF m
<1>7. Cardinality(W) \in Nat /\ Len(r) <= Cardinality(W)
  <2> HIDE DEF W
  <2>1. Cardinality(1 .. Len(r)) <= Cardinality(W)
    BY <1>4, <1>5, FS_Injection
  <2> QED BY <1>4, <1>6, <2>1, FS_CardinalityType
<1>8. W = {k \in 1 .. Len(l1) - 1 : now - l1[k] < WindowSeconds}
  BY <1>1
<1> HIDE DEF W, l1, n
<1>9. Cardinality(W) >= MaxFailures - 1
  BY <1>1, <1>7, AuthAssumption
<1>10. Len(l1) > 0 /\ l1[Len(l1)] = now
  BY <1>1
<1>11. Earned(l1, now)
  BY <1>8, <1>9, <1>10 DEF Earned
<1> QED BY <1>11 DEF l1

(* record_failure keeps an entry in order, with the log of what it counts.  *)
LEMMA RecordedOK ==
  ASSUME NEW e \in Entries, NEW l \in Seq(Nat), NEW now \in Nat \ {0}, EntryOK(e, l)
  PROVE  /\ Recorded(e, now) \in Entries
         /\ now < e.blocked_until => EntryOK(Recorded(e, now), l)
         /\ ~ (now < e.blocked_until) =>
              LET base == IF e.blocked_until = NotBlocked THEN l ELSE <<>>
              IN  EntryOK(Recorded(e, now), Append(base, now))
<1> DEFINE r == Recent(e.timestamps, now)
           kept == Append(r, now)
           base == IF e.blocked_until = NotBlocked THEN l ELSE <<>>
<1>1. e.timestamps \in Seq(Nat) /\ e.blocked_until \in Nat /\ base \in Seq(Nat)
  BY EmptySeq DEF Entries
<1>2. /\ r \in Seq(Nat) /\ Logged(r, e.timestamps)
      /\ \A k \in 1 .. Len(r) : DurationSince(now, r[k]) < WindowSeconds
  BY <1>1, RecentLogged
<1>3. Logged(e.timestamps, base)
  <2>1. Logged(<<>>, <<>>)
    BY LoggedNone
  <2> QED BY <2>1 DEF EntryOK
<1>4. Logged(r, base)
  <2> HIDE DEF r, base
  <2> QED BY <1>1, <1>2, <1>3, LoggedTransitive
<1>5. kept \in Seq(Nat) /\ Len(kept) = Len(r) + 1 /\ Len(r) \in Nat
  <2> HIDE DEF r
  <2> QED BY <1>2, AppendProperties, LenProperties
<1>6. CASE now < e.blocked_until
  <2>1. Recorded(e, now) = e
    BY <1>1, <1>6 DEF Recorded
  <2> QED BY <1>6, <2>1
<1>7. CASE ~ (now < e.blocked_until) /\ Len(kept) >= MaxFailures
  <2>1. Recorded(e, now) = [timestamps |-> <<>>, blocked_until |-> now + BlockSeconds]
    <3>1. now >= e.blocked_until
      BY <1>1, <1>7
    <3> HIDE DEF r
    <3> QED BY <1>7, <3>1 DEF Recorded, r
  <2>2. Earned(Append(base, now), now)
    <3> HIDE DEF r, base, kept
    <3> QED BY <1>1, <1>2, <1>4, <1>5, <1>7, WindowFilled
  <2>3. now + BlockSeconds \in Nat \ {0} /\ (now + BlockSeconds) - BlockSeconds = now
    BY AuthAssumption
  <2>4. EntryOK(Recorded(e, now), Append(base, now))
    <3> HIDE DEF base
    <3> QED BY <2>1, <2>2, <2>3 DEF EntryOK, NotBlocked
  <2>5. Recorded(e, now) \in Entries
    BY <2>1, <2>3, EmptySeq DEF Entries
  <2> QED BY <1>7, <2>4, <2>5
<1>8. CASE ~ (now < e.blocked_until) /\ ~ (Len(kept) >= MaxFailures)
  <2>1. Recorded(e, now) = [timestamps |-> kept, blocked_until |-> NotBlocked]
    <3> HIDE DEF r
    <3> QED BY <1>8 DEF Recorded, r
  <2>2. Logged(kept, Append(base, now))
    <3> HIDE DEF r, base
    <3> QED BY <1>1, <1>2, <1>4, LoggedAppends
  <2>3. EntryOK(Recorded(e, now), Append(base, now))
    <3> HIDE DEF base, kept
    <3> QED BY <2>1, <2>2 DEF EntryOK
  <2>4. Recorded(e, now) \in Entries
    <3> HIDE DEF kept
    <3> QED BY <1>5, <2>1 DEF Entries, NotBlocked
  <2> QED BY <1>8, <2>3, <2>4
<1> QED BY <1>6, <1>7, <1>8

-----------------------------------------------------------------------------
(* Bags, by how many copies of each element they hold.                      *)

Copies(x, A) == IF x \in DOMAIN A THEN A[x] ELSE 0

LEMMA BagCopies ==
  ASSUME NEW A, IsABag(A), NEW x
  PROVE  Copies(x, A) \in Nat /\ (x \in DOMAIN A <=> Copies(x, A) > 0)
BY DEF IsABag, Copies

LEMMA BagEqual ==
  ASSUME NEW A, NEW B, IsABag(A), IsABag(B), \A x : Copies(x, A) = Copies(x, B)
  PROVE  A = B
<1>1. DOMAIN A = DOMAIN B
  BY BagCopies
<1>2. \A x \in DOMAIN A : A[x] = B[x]
  BY <1>1 DEF Copies
<1> QED BY <1>1, <1>2 DEF IsABag

LEMMA BagSum ==
  ASSUME NEW A, NEW B, IsABag(A), IsABag(B)
  PROVE  /\ IsABag(A (+) B)
         /\ \A x : Copies(x, A (+) B) = Copies(x, A) + Copies(x, B)
<1> DEFINE C == A (+) B
<1>1. /\ DOMAIN C = DOMAIN A \cup DOMAIN B
      /\ C = [x \in DOMAIN C |-> Copies(x, A) + Copies(x, B)]
  BY DEF (+), Copies
<1> HIDE DEF C
<1>2. \A x \in DOMAIN C : C[x] \in {n \in Nat : n > 0}
  BY <1>1, BagCopies
<1>3. IsABag(C)
  BY <1>1, <1>2 DEF IsABag
<1>4. ASSUME NEW x PROVE Copies(x, C) = Copies(x, A) + Copies(x, B)
  <2>1. Copies(x, C) = IF x \in DOMAIN C THEN C[x] ELSE 0
    BY DEF Copies
  <2>2. x \notin DOMAIN C => Copies(x, A) = 0 /\ Copies(x, B) = 0
    BY <1>1 DEF Copies
  <2> QED BY <1>1, <2>1, <2>2
<1> QED BY <1>3, <1>4 DEF C

LEMMA BagOne ==
  ASSUME NEW e
  PROVE  /\ IsABag(One(e))
         /\ \A x : Copies(x, One(e)) = IF x = e THEN 1 ELSE 0
BY DEF One, SetToBag, IsABag, Copies

LEMMA BagLess ==
  ASSUME NEW A, IsABag(A), NEW e \in DOMAIN A
  PROVE  /\ IsABag(A (-) One(e))
         /\ \A x : Copies(x, A (-) One(e)) = Copies(x, A) - Copies(x, One(e))
<1> DEFINE C == A (-) One(e)
           Left(x) == IF x = e THEN A[x] - 1 ELSE A[x]
<1>1. /\ DOMAIN C = {x \in DOMAIN A : Left(x) > 0}
      /\ C = [x \in DOMAIN C |-> Left(x)]
  BY DEF (-), One, SetToBag
<1>2. \A x \in DOMAIN A : A[x] \in Nat /\ A[x] > 0 /\ Left(x) \in Nat
  BY DEF IsABag
<1> HIDE DEF C
<1>3. IsABag(C)
  <2> HIDE DEF Left
  <2>1. \A x \in DOMAIN C : C[x] = Left(x) /\ x \in DOMAIN A /\ Left(x) > 0
    BY <1>1
  <2> QED BY <1>1, <1>2, <2>1 DEF IsABag
<1>4. ASSUME NEW x PROVE Copies(x, C) = Copies(x, A) - Copies(x, One(e))
  <2>1. Copies(x, C) = IF x \in DOMAIN C THEN C[x] ELSE 0
    BY DEF Copies
  <2>2. Copies(x, A) = IF x \in DOMAIN A THEN A[x] ELSE 0
    BY DEF Copies
  <2>3. Copies(x, One(e)) = IF x = e THEN 1 ELSE 0
    BY BagOne
  <2>4. x \in DOMAIN C => C[x] = Left(x)
    <3> HIDE DEF Left
    <3> QED BY <1>1
  <2>5. x \in DOMAIN C <=> x \in DOMAIN A /\ Left(x) > 0
    BY <1>1
  <2> HIDE DEF C
  <2> QED BY <1>2, <2>1, <2>2, <2>3, <2>4, <2>5
<1> QED BY <1>3, <1>4 DEF C

-----------------------------------------------------------------------------
(* The steps.                                                               *)

(* What a request holds at each of its steps.                               *)
LEMMA RequestFacts ==
  ASSUME TypeOK, NEW s \in Requests
  PROVE  /\ request[s] \in {Free, Allowed} \cup InFlight
         /\ request[s].at = "verify" => request[s].client \in Clients \cup {NoIp}
         /\ request[s].at = "record" =>
              /\ request[s].client \in Clients /\ request[s].now \in Nat \ {0}
              /\ request[s].now <= clock /\ MaxFailures > 0
<1>1. request[s] \in {Free, Allowed} \cup InFlight
  BY DEF TypeOK
<1>2. request[s].at = "record" => request[s].now \in 1 .. clock /\ MaxFailures > 0
  BY DEF TypeOK
<1>3. clock \in Nat
  BY DEF TypeOK
<1> HIDE DEF TypeOK
<1>4. request[s].at = "verify" => request[s].client \in Clients \cup {NoIp}
  BY <1>1 DEF Free, Allowed, InFlight
<1>5. request[s].at = "record" => request[s].client \in Clients
  BY <1>1 DEF Free, Allowed, InFlight
<1> QED BY <1>1, <1>2, <1>3, <1>4, <1>5

LEMMA EntryTyped == ASSUME TypeOK, NEW c PROVE EntryOf(c) \in Entries
<1>1. [timestamps |-> <<>>, blocked_until |-> NotBlocked] \in Entries
  BY EmptySeq DEF Entries, NotBlocked
<1> QED BY <1>1 DEF TypeOK, EntryOf

(* A request that is answered, waits for its handler or moves on is typed.  *)
LEMMA RequestMoves ==
  ASSUME TypeOK, NEW s \in Requests, NEW x \in {Free, Allowed} \cup InFlight,
         x.at = "record" => x.now \in 1 .. clock /\ MaxFailures > 0,
         request' = [request EXCEPT ![s] = x]
  PROVE  /\ request' \in [Requests -> {Free, Allowed} \cup InFlight]
         /\ \A q \in Requests : request'[q].at = "record" =>
              request'[q].now \in 1 .. clock /\ MaxFailures > 0
BY DEF TypeOK

(* The step of record_failure on the limiter's map and the log.             *)
LEMMA RecordStep ==
  ASSUME TypeOK, LimiterInv, NEW s \in Requests, Record(s)
  PROVE  /\ DOMAIN failures' \subseteq Clients
         /\ failures' \in [DOMAIN failures' -> Entries]
         /\ log' \in [Clients -> Seq(Nat)]
         /\ LimiterInv'
         /\ \A x \in Clients : x # request[s].client => EntryOf(x)' = EntryOf(x)
<1>0. PICK c \in Clients, now \in Nat \ {0} : c = request[s].client /\ now = request[s].now
  BY RequestFacts DEF Record
<1> DEFINE e == EntryOf(c)
           base == IF e.blocked_until = NotBlocked THEN log[c] ELSE <<>>
<1>1. log[c] \in Seq(Nat) /\ e \in Entries
  BY EntryTyped DEF TypeOK
<1>2. /\ failures' = [x \in DOMAIN failures \cup {c} |->
                        IF x = c THEN Recorded(e, now) ELSE failures[x]]
      /\ log' = IF now < e.blocked_until THEN log
                ELSE [log EXCEPT ![c] = Append(base, now)]
  BY <1>0 DEF Record
<1>3. EntryOK(e, log[c])
  BY <1>1 DEF LimiterInv
<1> HIDE DEF e
<1>4. /\ Recorded(e, now) \in Entries
      /\ now < e.blocked_until => EntryOK(Recorded(e, now), log[c])
      /\ ~ (now < e.blocked_until) => EntryOK(Recorded(e, now), Append(base, now))
  BY <1>1, <1>3, RecordedOK
<1>5. base \in Seq(Nat) /\ Append(base, now) \in Seq(Nat)
  BY <1>1, EmptySeq, AppendProperties
<1> HIDE DEF base
<1>6. /\ DOMAIN failures' \subseteq Clients
      /\ failures' \in [DOMAIN failures' -> Entries]
  BY <1>1, <1>2, <1>4 DEF TypeOK
<1>7. /\ log' \in [Clients -> Seq(Nat)]
      /\ log'[c] = IF now < e.blocked_until THEN log[c] ELSE Append(base, now)
      /\ \A x \in Clients : x # c => log'[x] = log[x]
  BY <1>1, <1>2, <1>5 DEF TypeOK
<1>8. /\ EntryOf(c)' = Recorded(e, now)
      /\ \A x \in Clients : x # c => EntryOf(x)' = EntryOf(x)
  <2>1. EntryOf(c)' = Recorded(e, now)
    BY <1>2 DEF EntryOf
  <2>2. ASSUME NEW x \in Clients, x # c PROVE EntryOf(x)' = EntryOf(x)
    BY <1>2, <2>2 DEF EntryOf
  <2> QED BY <2>1, <2>2
<1>9. LimiterInv'
  <2> SUFFICES ASSUME NEW x \in Clients PROVE EntryOK(EntryOf(x), log[x])'
    BY DEF LimiterInv
  <2>1. CASE x = c
    <3>1. EntryOK(EntryOf(c)', log'[c])
      BY <1>4, <1>7, <1>8
    <3> QED BY <2>1, <3>1 DEF EntryOK, Earned
  <2>2. CASE x # c
    <3>1. EntryOK(EntryOf(x)', log'[x])
      BY <1>7, <1>8, <2>2 DEF LimiterInv
    <3> QED BY <3>1 DEF EntryOK, Earned
  <2> QED BY <2>1, <2>2
<1> QED BY <1>0, <1>6, <1>7, <1>8, <1>9

(* Each step keeps the types, and the limiter in order.                     *)
LEMMA LimiterStep == TypeOK /\ LimiterInv /\ [Next]_vars => TypeOK' /\ LimiterInv'
<1> SUFFICES ASSUME TypeOK, LimiterInv, [Next]_vars PROVE TypeOK' /\ LimiterInv'
  OBVIOUS
<1>a. ASSUME UNCHANGED limiter PROVE LimiterInv'
  BY <1>a DEF limiter, LimiterInv, EntryOf, EntryOK, Earned
<1>b. ASSUME NEW s \in Requests, NEW x \in {Free, Allowed} \cup InFlight,
             x.at = "record" => x.now \in 1 .. clock /\ MaxFailures > 0,
             request' = [request EXCEPT ![s] = x], UNCHANGED <<clock, limiter>>
      PROVE  TypeOK'
  <2>1. /\ request' \in [Requests -> {Free, Allowed} \cup InFlight]
        /\ \A q \in Requests : request'[q].at = "record" =>
             request'[q].now \in 1 .. clock /\ MaxFailures > 0
    BY <1>b, RequestMoves
  <2> QED BY <1>b, <2>1 DEF TypeOK, limiter
<1>c. Free.at # "record" /\ Allowed.at # "record"
  BY DEF Free, Allowed
<1>1. CASE Tick
  <2>1. \A q \in Requests : request'[q].at = "record" =>
          request'[q].now \in 1 .. clock' /\ MaxFailures > 0
    BY <1>1 DEF Tick, TypeOK
  <2>2. TypeOK'
    BY <1>1, <2>1 DEF Tick, TypeOK, limiter
  <2> QED BY <1>1, <1>a, <2>2 DEF Tick
<1>2. CASE Health
  <2>1. TypeOK'
    BY <1>2 DEF Health, TypeOK, limiter
  <2> QED BY <1>2, <1>a, <2>1 DEF Health
<1>3. ASSUME NEW s \in Requests, Arrive(s) PROVE TypeOK' /\ LimiterInv'
  <2>1. PICK c \in Clients \cup {NoIp}, h \in Headers, m \in Methods :
          \/ request' = [request EXCEPT ![s] = Free]
          \/ request' = [request EXCEPT ![s] =
               IF is_enabled
               THEN [at |-> "verify", client |-> c, header |-> h, method |-> m]
               ELSE Allowed]
    BY <1>3 DEF Arrive, Answer
  <2> DEFINE v == [at |-> "verify", client |-> c, header |-> h, method |-> m]
  <2>2. v \in InFlight /\ v.at # "record"
    BY DEF InFlight
  <2>3. UNCHANGED <<clock, limiter>>
    BY <1>3 DEF Arrive
  <2>4. PICK x \in {Free, Allowed, v} : request' = [request EXCEPT ![s] = x]
    BY <2>1
  <2> HIDE DEF v
  <2>5. TypeOK'
    BY <1>b, <1>c, <2>2, <2>3, <2>4
  <2> QED BY <1>a, <2>3, <2>5
<1>4. ASSUME NEW s \in Requests, Verify(s) PROVE TypeOK' /\ LimiterInv'
  <2> DEFINE r == request[s]
             v == [at |-> "record", client |-> r.client, now |-> clock]
  <2>1. /\ UNCHANGED <<clock, limiter>>
        /\ \/ request' = [request EXCEPT ![s] = Free]
           \/ request' = [request EXCEPT ![s] = Allowed]
           \/ request' = [request EXCEPT ![s] = v] /\ r.client # NoIp /\ MaxFailures > 0
    BY <1>4 DEF Verify, Answer
  <2>2. r.client \in Clients \cup {NoIp}
    BY <1>4, RequestFacts DEF Verify
  <2>3. CASE request' = [request EXCEPT ![s] = v] /\ r.client # NoIp /\ MaxFailures > 0
    <3>1. clock \in Nat /\ clock \in 1 .. clock
      BY DEF TypeOK
    <3>2. v \in InFlight /\ v.now = clock
      BY <2>2, <2>3, <3>1 DEF InFlight
    <3> HIDE DEF v
    <3>3. TypeOK'
      BY <1>b, <2>1, <2>3, <3>1, <3>2
    <3> QED BY <1>a, <2>1, <3>3
  <2>4. CASE request' = [request EXCEPT ![s] = Free] \/ request' = [request EXCEPT ![s] = Allowed]
    <3>1. TypeOK'
      BY <1>b, <1>c, <2>1, <2>4
    <3> QED BY <1>a, <2>1, <3>1
  <2> QED BY <2>1, <2>3, <2>4
<1>5. ASSUME NEW s \in Requests, Record(s) PROVE TypeOK' /\ LimiterInv'
  <2>1. /\ DOMAIN failures' \subseteq Clients
        /\ failures' \in [DOMAIN failures' -> Entries]
        /\ log' \in [Clients -> Seq(Nat)]
        /\ LimiterInv'
    BY <1>5, RecordStep
  <2>2. UNCHANGED clock /\ request' = [request EXCEPT ![s] = Free]
    BY <1>5 DEF Record, Answer
  <2>3. /\ request' \in [Requests -> {Free, Allowed} \cup InFlight]
        /\ \A q \in Requests : request'[q].at = "record" =>
             request'[q].now \in 1 .. clock /\ MaxFailures > 0
    BY <1>c, <2>2, RequestMoves
  <2>4. late' \in [Clients -> Nat]
    <3>1. request[s].client \in Clients
      BY <1>5, RequestFacts DEF Record
    <3> QED BY <1>5, <3>1 DEF Record, TypeOK
  <2> QED BY <2>1, <2>2, <2>3, <2>4 DEF TypeOK
<1>6. ASSUME NEW s \in Requests, Handle(s) PROVE TypeOK' /\ LimiterInv'
  <2>1. UNCHANGED <<clock, limiter>> /\ request' = [request EXCEPT ![s] = Free]
    BY <1>6 DEF Handle, Answer
  <2>2. TypeOK'
    BY <1>b, <1>c, <2>1
  <2> QED BY <1>a, <2>1, <2>2
<1>7. ASSUME NEW e \in DOMAIN pending, WriteLine(e) PROVE TypeOK' /\ LimiterInv'
  <2>1. TypeOK'
    BY <1>7 DEF WriteLine, TypeOK, limiter
  <2> QED BY <1>7, <1>a, <2>1 DEF WriteLine
<1>8. CASE UNCHANGED vars
  <2>1. TypeOK'
    BY <1>8 DEF vars, TypeOK, limiter
  <2> QED BY <1>8, <1>a, <2>1 DEF vars
<1> QED BY <1>1, <1>2, <1>3, <1>4, <1>5, <1>6, <1>7, <1>8 DEF Next

-----------------------------------------------------------------------------
LEMMA AskedFinite ==
  ASSUME NEW c
  PROVE  /\ IsFiniteSet(Asked(c)) /\ Cardinality(Asked(c)) \in Nat
         /\ Cardinality(Requests) \in Nat \ {0}
<1>1. IsFiniteSet(Requests) /\ Requests # {} /\ Asked(c) \in SUBSET Requests
  BY AuthAssumption DEF Asked
<1>2. IsFiniteSet(Asked(c))
  BY <1>1, FS_Subset
<1> QED BY <1>1, <1>2, FS_CardinalityType, FS_EmptySet

(* A step that starts no block, lets nobody else in while one runs and      *)
(* leaves the count of late tries alone keeps the bound.                    *)
LEMMA LateKept ==
  ASSUME LateInv, late' = late, TypeOK,
         \A c \in Clients : IsBlocked(c)' => IsBlocked(c) /\ Asked(c)' \subseteq Asked(c)
  PROVE  LateInv'
<1> SUFFICES ASSUME NEW c \in Clients
             PROVE  /\ late'[c] < Cardinality(Requests)
                    /\ IsBlocked(c)' =>
                         late'[c] + Cardinality(Asked(c)') < Cardinality(Requests)
  BY DEF LateInv, Asked
<1>1. late'[c] = late[c] /\ late[c] \in Nat
  BY DEF TypeOK
<1>2. ASSUME IsBlocked(c)'
      PROVE  late'[c] + Cardinality(Asked(c)') < Cardinality(Requests)
  <2>1. IsBlocked(c) /\ Asked(c)' \subseteq Asked(c)
    BY <1>2
  <2>2. late[c] + Cardinality(Asked(c)) < Cardinality(Requests)
    BY <2>1 DEF LateInv
  <2>3. IsFiniteSet(Asked(c)') /\ Cardinality(Asked(c)') <= Cardinality(Asked(c))
    BY <2>1, AskedFinite, FS_Subset
  <2>4. Cardinality(Asked(c)') \in Nat
    BY <2>3, FS_CardinalityType
  <2> QED BY <1>1, <2>2, <2>3, <2>4, AskedFinite
<1> QED BY <1>1, <1>2 DEF LateInv

(* Each step keeps the bound: the limiter lets no request of a blocked      *)
(* client in, and the one whose failure begins a block has left.            *)
LEMMA LateStep == TypeOK /\ LimiterInv /\ LateInv /\ [Next]_vars => LateInv'
<1> SUFFICES ASSUME TypeOK, LimiterInv, LateInv, [Next]_vars PROVE LateInv'
  OBVIOUS
<1>a. Free.at \notin {"verify", "record"} /\ Allowed.at \notin {"verify", "record"}
  BY DEF Free, Allowed
<1>b. ASSUME NEW s \in Requests, NEW x \in {Free, Allowed},
             request' = [request EXCEPT ![s] = x]
      PROVE  \A c : Asked(c)' = Asked(c) \ {s}
  BY <1>a, <1>b DEF Asked, TypeOK
<1>c. ASSUME UNCHANGED <<clock, limiter>>
      PROVE  late' = late /\ \A c : IsBlocked(c)' = IsBlocked(c)
  BY <1>c DEF limiter, IsBlocked
<1>d. ASSUME UNCHANGED request PROVE \A c : Asked(c)' = Asked(c)
  BY <1>d DEF Asked
<1>1. CASE Tick
  <2>1. \A c \in Clients : IsBlocked(c)' => IsBlocked(c)
    BY <1>1 DEF Tick, TypeOK, Entries, IsBlocked, limiter
  <2> QED BY <1>1, <1>d, <2>1, LateKept DEF Tick, limiter
<1>2. CASE Health
  BY <1>2, <1>c, <1>d, LateKept DEF Health
<1>3. ASSUME NEW s \in Requests, Arrive(s) PROVE LateInv'
  <2>1. UNCHANGED <<clock, limiter>> /\ request[s] = Free
    BY <1>3 DEF Arrive
  <2>2. PICK c \in Clients \cup {NoIp}, h \in Headers, m \in Methods :
          \/ request' = [request EXCEPT ![s] = Free]
          \/ request' = [request EXCEPT ![s] = Allowed]
          \/ /\ ~ IsBlocked(c)
             /\ request' = [request EXCEPT ![s] =
                  [at |-> "verify", client |-> c, header |-> h, method |-> m]]
    BY <1>3 DEF Arrive, Answer
  <2>3. CASE \E x \in {Free, Allowed} : request' = [request EXCEPT ![s] = x]
    <3>1. \A d : Asked(d)' = Asked(d) \ {s}
      BY <1>b, <2>3
    <3> QED BY <1>c, <2>1, <3>1, LateKept
  <2>4. CASE /\ ~ IsBlocked(c)
             /\ request' = [request EXCEPT ![s] =
                  [at |-> "verify", client |-> c, header |-> h, method |-> m]]
    <3>1. \A d \in Clients : d # c => Asked(d)' \subseteq Asked(d)
      BY <2>4 DEF Asked, TypeOK
    <3> QED BY <1>c, <2>1, <2>4, <3>1, LateKept
  <2> QED BY <2>2, <2>3, <2>4
<1>4. ASSUME NEW s \in Requests, Verify(s) PROVE LateInv'
  <2> DEFINE v == [at |-> "record", client |-> request[s].client, now |-> clock]
  <2>1. /\ UNCHANGED <<clock, limiter>> /\ request[s].at = "verify"
        /\ \/ request' = [request EXCEPT ![s] = Free]
           \/ request' = [request EXCEPT ![s] = Allowed]
           \/ request' = [request EXCEPT ![s] = v]
    BY <1>4 DEF Verify, Answer
  <2>2. CASE \E x \in {Free, Allowed} : request' = [request EXCEPT ![s] = x]
    <3>1. \A d : Asked(d)' = Asked(d) \ {s}
      BY <1>b, <2>2
    <3> QED BY <1>c, <2>1, <3>1, LateKept
  <2>3. CASE request' = [request EXCEPT ![s] = v]
    <3>1. \A d \in Clients : Asked(d)' \subseteq Asked(d)
      BY <2>1, <2>3 DEF Asked, TypeOK
    <3> QED BY <1>c, <2>1, <3>1, LateKept
  <2> QED BY <2>1, <2>2, <2>3
<1>5. ASSUME NEW s \in Requests, Record(s) PROVE LateInv'
  <2>1. PICK c \in Clients : c = request[s].client
    BY <1>5, RequestFacts DEF Record
  <2>2. /\ UNCHANGED clock /\ request' = [request EXCEPT ![s] = Free]
        /\ request[s].at = "record"
        /\ late' = [late EXCEPT ![c] = IF IsBlocked(c) THEN late[c] + 1 ELSE 0]
    BY <1>5, <2>1 DEF Record, Answer
  <2>3. \A d : Asked(d)' = Asked(d) \ {s}
    BY <1>b, <2>2
  <2>4. s \in Asked(c)
    BY <2>1, <2>2 DEF Asked
  <2> DEFINE N == Cardinality(Requests)
             A == Cardinality(Asked(c))
  <2>5. A \in Nat \ {0} /\ N \in Nat \ {0} /\ A <= N /\ Cardinality(Asked(c)') = A - 1
    <3>1. IsFiniteSet(Asked(c)) /\ A \in Nat /\ N \in Nat \ {0}
      BY AskedFinite
    <3>2. Cardinality(Asked(c) \ {s}) = A - 1 /\ A # 0
      BY <2>4, <3>1, FS_RemoveElement, FS_EmptySet
    <3>3. A <= N
      <4>1. Asked(c) \in SUBSET Requests
        BY DEF Asked
      <4> QED BY <4>1, FS_Subset, AuthAssumption
    <3> QED BY <2>3, <3>1, <3>2, <3>3
  <2>6. late[c] \in Nat /\ late'[c] = IF IsBlocked(c) THEN late[c] + 1 ELSE 0
    BY <2>2 DEF TypeOK
  <2>7. IsBlocked(c) => late[c] + A < N
    BY DEF LateInv
  <2>8. late'[c] < N /\ late'[c] + Cardinality(Asked(c)') < N
    <3> HIDE DEF N, A
    <3> QED BY <2>5, <2>6, <2>7
  <2>9. ASSUME NEW d \in Clients, d # c
        PROVE  /\ late'[d] < N
               /\ IsBlocked(d)' => late'[d] + Cardinality(Asked(d)') < N
    <3>1. late'[d] = late[d] /\ late[d] \in Nat
      BY <2>2, <2>9 DEF TypeOK
    <3>2. late[d] < N /\ (IsBlocked(d) => late[d] + Cardinality(Asked(d)) < N)
      BY DEF LateInv
    <3>3. IsBlocked(d)' = IsBlocked(d)
      BY <1>5, <2>1, <2>2, <2>9 DEF Record, IsBlocked
    <3>4. Cardinality(Asked(d)') \in Nat /\ Cardinality(Asked(d)') <= Cardinality(Asked(d))
      BY <2>3, AskedFinite, FS_Subset, FS_CardinalityType
    <3> QED BY <2>5, <3>1, <3>2, <3>3, <3>4, AskedFinite
  <2> HIDE DEF N
  <2>10. \A d \in Clients : /\ late'[d] < N
                            /\ IsBlocked(d)' => late'[d] + Cardinality(Asked(d)') < N
    BY <2>8, <2>9
  <2> QED BY <2>10 DEF LateInv, N, Asked
<1>6. ASSUME NEW s \in Requests, Handle(s) PROVE LateInv'
  <2>1. UNCHANGED <<clock, limiter>> /\ request' = [request EXCEPT ![s] = Free]
    BY <1>6 DEF Handle, Answer
  <2> QED BY <1>b, <1>c, <2>1, LateKept
<1>7. ASSUME NEW e \in DOMAIN pending, WriteLine(e) PROVE LateInv'
  BY <1>7, <1>c, <1>d, LateKept DEF WriteLine
<1>8. CASE UNCHANGED vars
  BY <1>8, <1>c, <1>d, LateKept DEF vars
<1> QED BY <1>1, <1>2, <1>3, <1>4, <1>5, <1>6, <1>7, <1>8 DEF Next

-----------------------------------------------------------------------------
(* An answer is one more entry on its way to the audit log.                 *)
LEMMA AuditAnswer ==
  ASSUME AuditInv, NEW s, NEW status, Answer(s, status)
  PROVE  AuditInv'
<1> DEFINE o == One(status)
<1>1. /\ answers' = answers (+) o /\ pending' = pending (+) o
      /\ lines' = lines /\ unwritten' = unwritten
  BY DEF Answer
<1>2. /\ IsABag(answers) /\ IsABag(lines) /\ IsABag(pending) /\ IsABag(unwritten)
      /\ answers = lines (+) pending (+) unwritten
  BY DEF AuditInv, AuditComplete
<1>3. IsABag(o)
  BY BagOne
<1> HIDE DEF o
<1>4. /\ IsABag(pending (+) o) /\ IsABag(lines (+) pending) /\ IsABag(answers (+) o)
      /\ IsABag(lines (+) (pending (+) o))
      /\ IsABag(lines (+) (pending (+) o) (+) unwritten)
  BY <1>2, <1>3, BagSum
<1>5. ASSUME NEW x
      PROVE  Copies(x, answers (+) o) = Copies(x, lines (+) (pending (+) o) (+) unwritten)
  <2>1. Copies(x, answers (+) o)
          = Copies(x, lines) + Copies(x, pending) + Copies(x, unwritten) + Copies(x, o)
    <3>1. Copies(x, answers (+) o) = Copies(x, answers) + Copies(x, o)
      BY <1>2, <1>3, BagSum
    <3>2. Copies(x, answers) = Copies(x, lines (+) pending) + Copies(x, unwritten)
      BY <1>2, <1>4, BagSum
    <3>3. Copies(x, lines (+) pending) = Copies(x, lines) + Copies(x, pending)
      BY <1>2, BagSum
    <3> QED BY <3>1, <3>2, <3>3
  <2>2. Copies(x, lines (+) (pending (+) o) (+) unwritten)
          = Copies(x, lines) + (Copies(x, pending) + Copies(x, o)) + Copies(x, unwritten)
    <3>1. Copies(x, lines (+) (pending (+) o) (+) unwritten)
            = Copies(x, lines (+) (pending (+) o)) + Copies(x, unwritten)
      BY <1>2, <1>4, BagSum
    <3>2. Copies(x, lines (+) (pending (+) o)) = Copies(x, lines) + Copies(x, pending (+) o)
      BY <1>2, <1>4, BagSum
    <3>3. Copies(x, pending (+) o) = Copies(x, pending) + Copies(x, o)
      BY <1>2, <1>3, BagSum
    <3> QED BY <3>1, <3>2, <3>3
  <2>3. /\ Copies(x, lines) \in Nat /\ Copies(x, pending) \in Nat
        /\ Copies(x, unwritten) \in Nat /\ Copies(x, o) \in Nat
    BY <1>2, <1>3, BagCopies
  <2> QED BY <2>1, <2>2, <2>3
<1>6. answers (+) o = lines (+) (pending (+) o) (+) unwritten
  BY <1>4, <1>5, BagEqual
<1> QED BY <1>1, <1>2, <1>4, <1>6 DEF AuditInv, AuditComplete

(* A task moves its entry to the file, or gives it up.                      *)
LEMMA AuditWrite ==
  ASSUME AuditInv, NEW e \in DOMAIN pending, WriteLine(e)
  PROVE  AuditInv'
<1> DEFINE o == One(e)
           p == pending (-) o
<1>1. /\ answers' = answers /\ pending' = p
      /\ \/ lines' = lines (+) o /\ unwritten' = unwritten
         \/ lines' = lines /\ unwritten' = unwritten (+) o
  BY DEF WriteLine
<1>2. /\ IsABag(answers) /\ IsABag(lines) /\ IsABag(pending) /\ IsABag(unwritten)
      /\ answers = lines (+) pending (+) unwritten
  BY DEF AuditInv, AuditComplete
<1>3. /\ IsABag(o) /\ IsABag(p)
      /\ \A x : Copies(x, p) = Copies(x, pending) - Copies(x, o)
  BY <1>2, BagOne, BagLess
<1>4. \A x : Copies(x, answers)
               = Copies(x, lines) + Copies(x, pending) + Copies(x, unwritten)
  <2>1. \A x : Copies(x, lines (+) pending) = Copies(x, lines) + Copies(x, pending)
    BY <1>2, BagSum
  <2>2. IsABag(lines (+) pending)
    BY <1>2, BagSum
  <2>3. \A x : Copies(x, lines (+) pending (+) unwritten)
                 = Copies(x, lines (+) pending) + Copies(x, unwritten)
    BY <1>2, <2>2, BagSum
  <2> QED BY <1>2, <2>1, <2>3
<1>5. \A x : /\ Copies(x, lines) \in Nat /\ Copies(x, pending) \in Nat
             /\ Copies(x, unwritten) \in Nat /\ Copies(x, o) \in Nat
  BY <1>2, <1>3, BagCopies
<1> HIDE DEF o, p
<1>6. /\ IsABag(lines') /\ IsABag(unwritten')
      /\ \A x : Copies(x, lines') + Copies(x, unwritten')
                  = Copies(x, lines) + Copies(x, unwritten) + Copies(x, o)
  <2>1. CASE lines' = lines (+) o /\ unwritten' = unwritten
    <3>1. IsABag(lines') /\ \A x : Copies(x, lines') = Copies(x, lines) + Copies(x, o)
      BY <1>2, <1>3, <2>1, BagSum
    <3> QED BY <1>2, <1>5, <2>1, <3>1
  <2>2. CASE lines' = lines /\ unwritten' = unwritten (+) o
    <3>1. /\ IsABag(unwritten')
          /\ \A x : Copies(x, unwritten') = Copies(x, unwritten) + Copies(x, o)
      BY <1>2, <1>3, <2>2, BagSum
    <3> QED BY <1>2, <1>5, <2>2, <3>1
  <2> QED BY <1>1, <2>1, <2>2
<1>7. IsABag(lines' (+) p) /\ IsABag(lines' (+) p (+) unwritten')
  BY <1>3, <1>6, BagSum
<1>8. ASSUME NEW x PROVE Copies(x, lines' (+) p (+) unwritten') = Copies(x, answers)
  <2>1. Copies(x, lines' (+) p (+) unwritten')
          = Copies(x, lines' (+) p) + Copies(x, unwritten')
    BY <1>6, <1>7, BagSum
  <2>2. Copies(x, lines' (+) p) = Copies(x, lines') + Copies(x, p)
    BY <1>3, <1>6, BagSum
  <2>3. Copies(x, lines') \in Nat /\ Copies(x, unwritten') \in Nat
    BY <1>6, BagCopies
  <2> QED BY <1>3, <1>4, <1>5, <1>6, <2>1, <2>2, <2>3
<1>9. answers = lines' (+) p (+) unwritten'
  BY <1>2, <1>7, <1>8, BagEqual
<1> QED BY <1>1, <1>2, <1>3, <1>6, <1>9 DEF AuditInv, AuditComplete

LEMMA AuditStep == AuditInv /\ [Next]_vars => AuditInv'
<1> SUFFICES ASSUME AuditInv, [Next]_vars PROVE AuditInv'
  OBVIOUS
<1>a. ASSUME UNCHANGED audit PROVE AuditInv'
  BY <1>a DEF audit, AuditInv, AuditComplete
<1>1. CASE Tick \/ Health \/ UNCHANGED vars
  BY <1>1, <1>a DEF Tick, Health, vars
<1>2. ASSUME NEW s \in Requests, Arrive(s) \/ Verify(s) \/ Record(s) \/ Handle(s)
      PROVE  AuditInv'
  <2>1. UNCHANGED audit \/ \E status : Answer(s, status)
    BY <1>2 DEF Arrive, Verify, Record, Handle
  <2> QED BY <1>a, <2>1, AuditAnswer
<1>3. ASSUME NEW e \in DOMAIN pending, WriteLine(e) PROVE AuditInv'
  BY <1>3, AuditWrite
<1> QED BY <1>1, <1>2, <1>3 DEF Next

-----------------------------------------------------------------------------
(* The limiter's and the audit log's inductive invariant, for any clients,  *)
(* slots and settings.                                                      *)
THEOREM AuthInvariant == Spec => []AuthInv
<1>1. Init => AuthInv
  <2> SUFFICES ASSUME Init PROVE AuthInv
    OBVIOUS
  <2>1. TypeOK
    <3>1. request \in [Requests -> {Free, Allowed} \cup InFlight]
          /\ \A s \in Requests : request[s].at = "free"
      BY DEF Init, Free
    <3>2. failures = <<>> /\ DOMAIN failures = {}
      BY DEF Init
    <3>3. failures \in [DOMAIN failures -> Entries]
      BY <3>2
    <3>4. log \in [Clients -> Seq(Nat)]
      BY EmptySeq DEF Init
    <3> QED BY <3>1, <3>2, <3>3, <3>4 DEF Init, TypeOK
  <2>2. LimiterInv
    <3> SUFFICES ASSUME NEW c \in Clients PROVE EntryOK(EntryOf(c), log[c])
      BY DEF LimiterInv
    <3>1. EntryOf(c) = [timestamps |-> <<>>, blocked_until |-> NotBlocked]
      BY DEF Init, EntryOf
    <3>2. log[c] = <<>>
      BY DEF Init
    <3> QED BY <3>1, <3>2, LoggedNone DEF EntryOK
  <2>3. LateInv
    <3>1. \A c \in Clients : late[c] = 0 /\ ~ IsBlocked(c)
      BY DEF Init, IsBlocked
    <3> QED BY <3>1, AskedFinite DEF LateInv
  <2>4. AuditInv
    <3>1. IsABag(EmptyBag) /\ EmptyBag = EmptyBag (+) EmptyBag (+) EmptyBag
      BY DEF EmptyBag, SetToBag, IsABag, (+)
    <3> QED BY <3>1 DEF Init, AuditInv, AuditComplete
  <2> QED BY <2>1, <2>2, <2>3, <2>4 DEF AuthInv
<1>2. AuthInv /\ [Next]_vars => AuthInv'
  BY LimiterStep, LateStep, AuditStep DEF AuthInv
<1> QED BY <1>1, <1>2, PTL DEF Spec

(* auth.rs 253-256: a block is earned by MaxFailures failures of its client *)
(* within the window, none of which counted towards an earlier block.       *)
THEOREM BlocksEarned == Spec => []BlocksAreEarned
<1>1. AuthInv => BlocksAreEarned
  <2> SUFFICES ASSUME AuthInv, NEW c \in Clients, IsBlocked(c)
               PROVE  Earned(log[c], failures[c].blocked_until - BlockSeconds)
    BY DEF BlocksAreEarned, Earned
  <2>1. EntryOf(c) = failures[c] /\ failures[c].blocked_until # NotBlocked
    BY DEF AuthInv, TypeOK, Entries, IsBlocked, EntryOf, NotBlocked
  <2> QED BY <2>1 DEF AuthInv, LimiterInv, EntryOK
<1> QED BY <1>1, AuthInvariant, PTL

(* is_blocked is asked before a key is looked at: during a block at most    *)
(* the other requests already in flight try one.                            *)
THEOREM FewLateTries == Spec => []LateTriesBounded
<1>1. AuthInv => LateTriesBounded
  BY DEF AuthInv, LateInv, LateTriesBounded
<1> QED BY <1>1, AuthInvariant, PTL

(* audit.rs 3: every answer is in the log, on its way there, or its write   *)
(* was refused.                                                             *)
THEOREM EveryAnswerAudited == Spec => []AuditComplete
<1>1. AuthInv => AuditComplete
  BY DEF AuthInv, AuditInv
<1> QED BY <1>1, AuthInvariant, PTL

=============================================================================
