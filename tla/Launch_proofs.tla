---------------------------- MODULE Launch_proofs ----------------------------
(***************************************************************************)
(* Proofs about the processes of the command line, for any number of       *)
(* daemons, setups, paths and requests.                                    *)
(***************************************************************************)
EXTENDS Launch, TLAPS

(***************************************************************************)
(* Sequences.                                                              *)
(***************************************************************************)
LEMMA SeqType ==
  ASSUME NEW W, NEW x \in Seq(W)
  PROVE  /\ Len(x) \in Nat /\ DOMAIN x = 1 .. Len(x) /\ x \in [1 .. Len(x) -> W]
         /\ \A i \in 1 .. Len(x) : x[i] \in W
         /\ x # <<>> => Len(x) >= 1
OBVIOUS

\* The empty sequence is over any set.
LEMMA SeqEmpty == \A W : <<>> \in Seq(W) /\ Len(<<>>) = 0
OBVIOUS

\* Sequences with the same elements are the same.
LEMMA SeqSame ==
  ASSUME NEW W, NEW x \in Seq(W), NEW y \in Seq(W), Len(x) = Len(y),
         \A i \in 1 .. Len(x) : x[i] = y[i]
  PROVE  x = y
OBVIOUS

\* Concatenation.
LEMMA SeqConcat ==
  ASSUME NEW W, NEW x \in Seq(W), NEW y \in Seq(W)
  PROVE  /\ x \o y \in Seq(W) /\ Len(x \o y) = Len(x) + Len(y)
         /\ \A i \in 1 .. Len(x) + Len(y) :
               (x \o y)[i] = IF i <= Len(x) THEN x[i] ELSE y[i - Len(x)]
OBVIOUS

\* Appending one element.
LEMMA SeqAppend ==
  ASSUME NEW W, NEW x \in Seq(W), NEW e \in W
  PROVE  /\ Append(x, e) \in Seq(W) /\ Len(Append(x, e)) = Len(x) + 1
         /\ Append(x, e)[Len(x) + 1] = e
         /\ \A i \in 1 .. Len(x) : Append(x, e)[i] = x[i]
OBVIOUS

\* The first element and the rest.
LEMMA SeqTail ==
  ASSUME NEW W, NEW x \in Seq(W), x # <<>>
  PROVE  Head(x) \in W /\ Tail(x) \in Seq(W) /\ Len(Tail(x)) = Len(x) - 1
OBVIOUS

\* A part of a sequence.
LEMMA SeqPart ==
  ASSUME NEW W, NEW x, NEW m \in Int, NEW n \in Int, \A i \in m .. n : x[i] \in W
  PROVE  /\ SubSeq(x, m, n) \in Seq(W)
         /\ Len(SubSeq(x, m, n)) = IF m <= n THEN n - m + 1 ELSE 0
         /\ \A i \in 1 .. n - m + 1 : SubSeq(x, m, n)[i] = x[m + i - 1]
OBVIOUS

(***************************************************************************)
(* The elements of a sequence other than one. What a recursive function    *)
(* computes is shown by induction over the naturals, which the lemmas take *)
(* as a hypothesis and SetInduction, at the end, proves.                   *)
(***************************************************************************)
Induction ==
    \A S \in SUBSET Nat : 0 \in S /\ (\A n \in S : n + 1 \in S) => S = Nat

\* Without runs through the sequence and adds or skips an element at a time.
LEMMA WithoutRuns ==
  ASSUME Induction, NEW W, NEW t \in Seq(W), NEW x
  PROVE  \E F : /\ Without(t, x) = F[Len(t)] /\ F[0] = <<>>
                /\ \A k \in 1 .. Len(t) :
                     F[k] = IF t[k] = x THEN F[k - 1] ELSE Append(F[k - 1], t[k])
<1> DEFINE n == Len(t)
           Body(F, k) == IF k = 0 THEN <<>>
                         ELSE IF t[k] = x THEN F[k - 1] ELSE Append(F[k - 1], t[k])
           S == {i \in Nat : \E F : F = [k \in 0 .. i |-> Body(F, k)]}
<1>1. n \in Nat
  BY SeqType
<1>2. 0 \in S
  <2> DEFINE F == [k \in 0 .. 0 |-> <<>>]
  <2>1. F = [k \in 0 .. 0 |-> Body(F, k)]
    OBVIOUS
  <2> QED BY <2>1, Zenon
<1>3. ASSUME NEW i \in S PROVE i + 1 \in S
  <2>1. i \in Nat /\ \E F : F = [k \in 0 .. i |-> Body(F, k)]
    BY Zenon
  <2>2. PICK F : F = [k \in 0 .. i |-> Body(F, k)]
    BY <2>1, Zenon
  <2> DEFINE G == [k \in 0 .. i + 1 |-> IF k = i + 1 THEN Body(F, k) ELSE F[k]]
  <2>3. ASSUME NEW k \in 0 .. i PROVE G[k] = F[k] /\ F[k] = Body(F, k)
    <3> HIDE DEF Body
    <3>1. k \in 0 .. i + 1 /\ k # i + 1
      BY <2>1
    <3>2. G[k] = F[k]
      BY <3>1
    <3>3. F[k] = Body(F, k)
      BY <2>2, Zenon
    <3> QED BY <3>2, <3>3
  <2>4. ASSUME NEW k \in 0 .. i + 1 PROVE G[k] = Body(G, k)
    <3>1. G[k] = Body(F, k)
      <4> HIDE DEF Body
      <4>1. CASE k = i + 1
        BY <4>1
      <4>2. CASE k \in 0 .. i
        <5> HIDE DEF G
        <5> QED BY <2>3, <4>2
      <4> QED BY <2>1, <4>1, <4>2
    <3>2. k # 0 => G[k - 1] = F[k - 1]
      <4> HIDE DEF Body
      <4> QED BY <2>1, <2>3
    <3> HIDE DEF G
    <3> QED BY <3>1, <3>2
  <2>5. G = [k \in 0 .. i + 1 |-> Body(G, k)]
    <3>1. G = [k \in 0 .. i + 1 |-> G[k]]
      OBVIOUS
    <3> HIDE DEF G, Body
    <3> QED BY <2>4, <3>1
  <2> HIDE DEF G, Body
  <2> QED BY <2>1, <2>5
<1>4. S = Nat
  <2>1. S \in SUBSET Nat
    OBVIOUS
  <2> HIDE DEF S
  <2> QED BY <1>2, <1>3, <2>1 DEF Induction
<1>5. \E F : F = [k \in 0 .. n |-> Body(F, k)]
  <2> HIDE DEF Body
  <2> QED BY <1>1, <1>4
<1>6. PICK F : Without(t, x) = F[n] /\ F = [k \in 0 .. n |-> Body(F, k)]
  BY <1>5, Zenon DEF Without
<1>7. F[0] = <<>>
  BY <1>1, <1>6
<1>8. ASSUME NEW k \in 1 .. n
      PROVE  F[k] = IF t[k] = x THEN F[k - 1] ELSE Append(F[k - 1], t[k])
  <2>1. F[k] = Body(F, k)
    <3>1. k \in 0 .. n
      BY <1>1
    <3> HIDE DEF Body
    <3> QED BY <1>6, <3>1, Zenon
  <2>2. k # 0
    BY <1>1
  <2> QED BY <2>1, <2>2
<1> QED BY <1>6, <1>7, <1>8, Zenon

\* Without leaves a sequence over the same set.
LEMMA WithoutType ==
  ASSUME Induction, NEW W, NEW t \in Seq(W), NEW x
  PROVE  Without(t, x) \in Seq(W)
<1>1. PICK F : /\ Without(t, x) = F[Len(t)] /\ F[0] = <<>>
               /\ \A k \in 1 .. Len(t) :
                    F[k] = IF t[k] = x THEN F[k - 1] ELSE Append(F[k - 1], t[k])
  BY WithoutRuns
<1> DEFINE S == {i \in Nat : i <= Len(t) => F[i] \in Seq(W)}
<1>2. 0 \in S
  BY <1>1, SeqEmpty, Zenon
<1>3. ASSUME NEW i \in S PROVE i + 1 \in S
  <2> SUFFICES ASSUME i + 1 <= Len(t) PROVE F[i + 1] \in Seq(W)
    OBVIOUS
  <2>1. Len(t) \in Nat
    BY SeqType
  <2>2. F[i] \in Seq(W) /\ i + 1 \in 1 .. Len(t) /\ (i + 1) - 1 = i
    BY <2>1
  <2>3. t[i + 1] \in W
    BY <2>2, SeqType
  <2>4. Append(F[i], t[i + 1]) \in Seq(W)
    BY <2>2, <2>3, SeqAppend
  <2>5. F[i + 1] = IF t[i + 1] = x THEN F[i] ELSE Append(F[i], t[i + 1])
    BY <1>1, <2>2
  <2> QED BY <2>2, <2>4, <2>5
<1>4. S = Nat
  <2>1. S \in SUBSET Nat
    OBVIOUS
  <2> HIDE DEF S
  <2> QED BY <1>2, <1>3, <2>1 DEF Induction
<1>5. Len(t) \in Nat
  BY SeqType
<1> QED BY <1>1, <1>4, <1>5

\* Without on a sequence of one element, as the wizard's list of rules is.
LEMMA WithoutOne ==
  ASSUME Induction, NEW e, NEW x
  PROVE  Without(<<e>>, x) = IF e = x THEN <<>> ELSE <<e>>
<1> DEFINE t == <<e>>
<1>1. t \in Seq({e}) /\ Len(t) = 1 /\ t[1] = e
  OBVIOUS
<1>2. Append(<<>>, e) = t
  OBVIOUS
<1> HIDE DEF t
<1>3. PICK F : /\ Without(t, x) = F[Len(t)] /\ F[0] = <<>>
               /\ \A k \in 1 .. Len(t) :
                    F[k] = IF t[k] = x THEN F[k - 1] ELSE Append(F[k - 1], t[k])
  BY <1>1, WithoutRuns
<1>4. 1 \in 1 .. Len(t) /\ 1 - 1 = 0
  BY <1>1
<1>5. F[1] = IF e = x THEN <<>> ELSE Append(<<>>, e)
  BY <1>1, <1>3, <1>4, Zenon
<1>6. Without(t, x) = IF e = x THEN <<>> ELSE t
  BY <1>1, <1>2, <1>3, <1>5
<1> QED BY <1>6 DEF t

\* load_config reads configuration paths only.
LEMMA CandidatesType ==
  ASSUME Induction PROVE Candidates \in Seq(Paths) /\ Candidates # <<>>
<1>1. /\ <<Given>> \in Seq(Paths) /\ Len(<<Given>>) = 1
      /\ Without(Fallbacks, Given) \in Seq(Paths)
  BY LaunchAssumption, WithoutType
<1> DEFINE u == <<Given>> \o Without(Fallbacks, Given)
<1>2. u \in Seq(Paths) /\ Len(u) >= 1
  BY <1>1, SeqConcat, SeqType
<1>3. u \o <<Given>> \in Seq(Paths) /\ Len(u \o <<Given>>) >= 1
  <2> HIDE DEF u
  <2> QED BY <1>1, <1>2, SeqConcat, SeqType
<1>4. u \o <<Given>> # <<>>
  <2> HIDE DEF u
  <2> QED BY <1>3, SeqEmpty
<1> QED BY <1>3, <1>4 DEF Candidates

(***************************************************************************)
(* Quoting.                                                                *)
(***************************************************************************)
\* toml_string puts the escaped characters one after the other.
LEMMA QuotedRuns ==
  ASSUME Induction, NEW W, NEW t \in Seq(W)
  PROVE  \E F : /\ toml_string(t) = F[Len(t)] /\ F[0] = <<>>
                /\ \A k \in 1 .. Len(t) : F[k] = F[k - 1] \o Escaped(t[k])
<1> DEFINE n == Len(t)
           Body(F, k) == IF k = 0 THEN <<>> ELSE F[k - 1] \o Escaped(t[k])
           S == {i \in Nat : \E F : F = [k \in 0 .. i |-> Body(F, k)]}
<1>1. n \in Nat
  BY SeqType
<1>2. 0 \in S
  <2> DEFINE F == [k \in 0 .. 0 |-> <<>>]
  <2>1. F = [k \in 0 .. 0 |-> Body(F, k)]
    OBVIOUS
  <2> QED BY <2>1, Zenon
<1>3. ASSUME NEW i \in S PROVE i + 1 \in S
  <2>1. i \in Nat /\ \E F : F = [k \in 0 .. i |-> Body(F, k)]
    BY Zenon
  <2>2. PICK F : F = [k \in 0 .. i |-> Body(F, k)]
    BY <2>1
  <2> DEFINE G == [k \in 0 .. i + 1 |-> IF k = i + 1 THEN Body(F, k) ELSE F[k]]
  <2>3. ASSUME NEW k \in 0 .. i PROVE G[k] = F[k] /\ F[k] = Body(F, k)
    <3> HIDE DEF Body
    <3>1. k \in 0 .. i + 1 /\ k # i + 1
      BY <2>1
    <3>2. G[k] = F[k]
      BY <3>1
    <3>3. F[k] = Body(F, k)
      BY <2>2, Zenon
    <3> QED BY <3>2, <3>3
  <2>4. ASSUME NEW k \in 0 .. i + 1 PROVE G[k] = Body(G, k)
    <3>1. G[k] = Body(F, k)
      <4> HIDE DEF Body
      <4>1. CASE k = i + 1
        BY <4>1
      <4>2. CASE k \in 0 .. i
        <5> HIDE DEF G
        <5> QED BY <2>3, <4>2
      <4> QED BY <2>1, <4>1, <4>2
    <3>2. k # 0 => G[k - 1] = F[k - 1]
      <4> HIDE DEF Body
      <4> QED BY <2>1, <2>3
    <3> HIDE DEF G
    <3> QED BY <3>1, <3>2
  <2>5. G = [k \in 0 .. i + 1 |-> Body(G, k)]
    <3>1. G = [k \in 0 .. i + 1 |-> G[k]]
      OBVIOUS
    <3> HIDE DEF G, Body
    <3> QED BY <2>4, <3>1
  <2> HIDE DEF G, Body
  <2> QED BY <2>1, <2>5
<1>4. S = Nat
  <2>1. S \in SUBSET Nat
    BY Zenon
  <2> HIDE DEF S
  <2> QED BY <1>2, <1>3, <2>1 DEF Induction
<1>5. \E F : F = [k \in 0 .. n |-> Body(F, k)]
  <2> HIDE DEF Body
  <2> QED BY <1>1, <1>4
<1>6. PICK F : toml_string(t) = F[n] /\ F = [k \in 0 .. n |-> Body(F, k)]
  BY <1>5 DEF toml_string
<1>7. F[0] = <<>>
  BY <1>1, <1>6
<1>8. ASSUME NEW k \in 1 .. n PROVE F[k] = F[k - 1] \o Escaped(t[k])
  <2>1. F[k] = Body(F, k)
    <3>1. k \in 0 .. n
      BY <1>1
    <3> HIDE DEF Body
    <3> QED BY <1>6, <3>1, Zenon
  <2>2. k # 0
    BY <1>1
  <2> QED BY <2>1, <2>2, Zenon
<1> QED BY <1>6, <1>7, <1>8

\* What the toml crate reads from the last n characters, given what it reads
\* from fewer.
Reads(q, F, n) ==
    LET i == Len(q) - n + 1
    IN  IF n = 0 THEN <<>>
        ELSE IF q[i] \in {Quote, Newline} THEN <<Unreadable>>
        ELSE IF q[i] # Backslash THEN <<q[i]>> \o F[n - 1]
        ELSE IF n > 1 /\ q[i + 1] \in {Backslash, Quote} THEN <<q[i + 1]>> \o F[n - 2]
        ELSE <<Unreadable>>

\* Unquoted reads a text from its end.
LEMMA UnquotedRuns ==
  ASSUME Induction, NEW W, NEW q \in Seq(W)
  PROVE  \E F : /\ Unquoted(q) = F[Len(q)]
                /\ \A k \in 0 .. Len(q) : F[k] = Reads(q, F, k)
<1> DEFINE S == {i \in Nat : \E F : F = [k \in 0 .. i |-> Reads(q, F, k)]}
<1>1. Len(q) \in Nat
  BY SeqType
<1>2. 0 \in S
  <2> DEFINE F == [k \in 0 .. 0 |-> <<>>]
  <2>1. F = [k \in 0 .. 0 |-> Reads(q, F, k)]
    BY DEF Reads
  <2> QED BY <2>1
<1>3. ASSUME NEW i \in S PROVE i + 1 \in S
  <2>1. i \in Nat /\ \E F : F = [k \in 0 .. i |-> Reads(q, F, k)]
    OBVIOUS
  <2>2. PICK F : F = [k \in 0 .. i |-> Reads(q, F, k)]
    BY <2>1
  <2> DEFINE G == [k \in 0 .. i + 1 |-> IF k = i + 1 THEN Reads(q, F, k) ELSE F[k]]
  <2>3. ASSUME NEW k \in 0 .. i PROVE G[k] = F[k] /\ F[k] = Reads(q, F, k)
    <3>1. k \in 0 .. i + 1 /\ k # i + 1
      BY <2>1
    <3>2. G[k] = F[k]
      BY <3>1
    <3>3. F[k] = Reads(q, F, k)
      BY <2>2, Zenon
    <3> QED BY <3>2, <3>3
  <2>4. ASSUME NEW k \in 0 .. i + 1 PROVE G[k] = Reads(q, G, k)
    <3>1. G[k] = Reads(q, F, k)
      <4>1. CASE k = i + 1
        BY <4>1
      <4>2. CASE k # i + 1
        <5>1. k \in 0 .. i
          BY <2>1, <4>2
        <5> QED BY <2>3, <5>1, Zenon
      <4> QED BY <4>1, <4>2
    <3>2. /\ k # 0 => G[k - 1] = F[k - 1]
          /\ k # 0 /\ k # 1 => G[k - 2] = F[k - 2]
      BY <2>1, <2>3
    <3> HIDE DEF G
    <3> QED BY <2>1, <3>1, <3>2 DEF Reads
  <2>5. G = [k \in 0 .. i + 1 |-> Reads(q, G, k)]
    <3>1. G = [k \in 0 .. i + 1 |-> G[k]]
      OBVIOUS
    <3> HIDE DEF G
    <3> QED BY <2>4, <3>1
  <2> HIDE DEF G
  <2> QED BY <2>1, <2>5
<1>4. S = Nat
  <2>1. S \in SUBSET Nat
    OBVIOUS
  <2> HIDE DEF S
  <2> QED BY <1>2, <1>3, <2>1 DEF Induction
<1>5. \E F : F = [k \in 0 .. Len(q) |-> Reads(q, F, k)]
  BY <1>1, <1>4
<1>6. \E F : Unquoted(q) = F[Len(q)] /\ F = [k \in 0 .. Len(q) |-> Reads(q, F, k)]
  BY <1>5, Zenon DEF Unquoted, Reads
<1>7. PICK F : Unquoted(q) = F[Len(q)] /\ F = [k \in 0 .. Len(q) |-> Reads(q, F, k)]
  BY <1>6, Zenon
<1>8. ASSUME NEW k \in 0 .. Len(q) PROVE F[k] = Reads(q, F, k)
  BY <1>7, Zenon
<1> QED BY <1>7, <1>8, Zenon

\* x is y, or tells that something could not be read.
Reading(x, y, W) ==
    x = y \/ (x \in Seq(W) /\ \E j \in 1 .. Len(x) : x[j] = Unreadable)

\* ... which stays so with a character in front.
LEMMA ReadingOn ==
  ASSUME NEW W, NEW x, NEW y \in Seq(W), NEW c \in W, Reading(x, y, W)
  PROVE  Reading(<<c>> \o x, <<c>> \o y, W)
<1> SUFFICES ASSUME x \in Seq(W), NEW j \in 1 .. Len(x), x[j] = Unreadable
             PROVE  /\ <<c>> \o x \in Seq(W)
                    /\ \E i \in 1 .. Len(<<c>> \o x) : (<<c>> \o x)[i] = Unreadable
  BY DEF Reading
<1>1. <<c>> \in Seq(W) /\ Len(<<c>>) = 1 /\ Len(x) \in Nat
  BY SeqType
<1>2. /\ <<c>> \o x \in Seq(W) /\ Len(<<c>> \o x) = 1 + Len(x)
      /\ (<<c>> \o x)[1 + j] = x[j]
  BY <1>1, SeqConcat
<1>3. 1 + j \in 1 .. Len(<<c>> \o x)
  BY <1>1, <1>2
<1> QED BY <1>2, <1>3, Zenon

\* A text that is quoted by toml_string and read by the toml crate comes out as
\* it was, unless the crate refuses it.
LEMMA RoundTrip ==
  ASSUME Induction, NEW W, NEW t \in Seq(W)
  PROVE  \/ Unquoted(toml_string(t)) = t
         \/ Unreadable \in Range(Unquoted(toml_string(t)))
<1> DEFINE n == Len(t)
           V == W \union {Backslash, Unreadable}
<1>1. PICK P : /\ toml_string(t) = P[Len(t)] /\ P[0] = <<>>
               /\ \A k \in 1 .. Len(t) : P[k] = P[k - 1] \o Escaped(t[k])
  BY QuotedRuns, Zenon
<1>2. n \in Nat /\ \A k \in 1 .. n : t[k] \in W
  BY SeqType
<1> DEFINE Prefix(i, k) == /\ P[i] \in Seq(V) /\ Len(P[i]) <= Len(P[k])
                           /\ \A x \in 1 .. Len(P[i]) : P[k][x] = P[i][x]
           T == {k \in Nat : k <= n => \A i \in 0 .. k : Prefix(i, k)}
<1>3. 0 \in T
  <2>1. P[0] \in Seq(V) /\ Len(P[0]) \in Nat
    BY <1>1, SeqEmpty
  <2>2. Prefix(0, 0)
    BY <2>1
  <2>3. \A i \in 0 .. 0 : i = 0
    OBVIOUS
  <2> HIDE DEF Prefix
  <2> QED BY <2>2, <2>3
<1>4. ASSUME NEW k \in T PROVE k + 1 \in T
  <2> SUFFICES ASSUME k + 1 <= n PROVE \A i \in 0 .. k + 1 : Prefix(i, k + 1)
    <3> HIDE DEF Prefix
    <3> QED OBVIOUS
  <2>1. k \in Nat /\ \A i \in 0 .. k : Prefix(i, k)
    <3> HIDE DEF Prefix
    <3> QED BY <1>2
  <2>2. k + 1 \in 1 .. n /\ (k + 1) - 1 = k /\ P[k] \in Seq(V)
    BY <1>2, <2>1
  <2> DEFINE e == Escaped(t[k + 1])
  <2>3. P[k + 1] = P[k] \o e
    BY <1>1, <2>2, Zenon
  <2>4. e \in Seq(V)
    <3>1. t[k + 1] \in V /\ Backslash \in V
      BY <1>2, <2>2
    <3> HIDE DEF V
    <3>2. <<t[k + 1]>> \in Seq(V) /\ <<Backslash, t[k + 1]>> \in Seq(V)
      BY <3>1
    <3> QED BY <3>2 DEF Escaped
  <2> HIDE DEF e
  <2>5. /\ P[k + 1] \in Seq(V) /\ Len(P[k + 1]) = Len(P[k]) + Len(e)
        /\ \A x \in 1 .. Len(P[k]) : P[k + 1][x] = P[k][x]
    BY <2>2, <2>3, <2>4, SeqConcat
  <2>6. Len(P[k]) \in Nat /\ Len(e) \in Nat
    BY <2>2, <2>4, SeqType
  <2>7. ASSUME NEW i \in 0 .. k + 1 PROVE Prefix(i, k + 1)
    <3>1. CASE i = k + 1
      BY <3>1, <2>5, <2>6
    <3>2. CASE i # k + 1
      <4>1. i \in 0 .. k
        BY <2>1, <3>2
      <4>2. Prefix(i, k) /\ Len(P[i]) \in Nat
        BY <2>1, <4>1, SeqType
      <4> QED BY <4>2, <2>5, <2>6
    <3> QED BY <3>1, <3>2
  <2> HIDE DEF Prefix
  <2> QED BY <2>7
<1>5. T = Nat
  <2>1. T \in SUBSET Nat
    OBVIOUS
  <2> HIDE DEF T
  <2> QED BY <1>3, <1>4, <2>1 DEF Induction
<1> DEFINE q == P[n]
           L == Len(q)
<1>6. ASSUME NEW i \in 0 .. n
      PROVE  /\ P[i] \in Seq(V) /\ Len(P[i]) \in Nat /\ Len(P[i]) <= L
             /\ \A x \in 1 .. Len(P[i]) : q[x] = P[i][x]
  <2>1. Prefix(i, n)
    <3> HIDE DEF Prefix
    <3> QED BY <1>2, <1>5
  <2> QED BY <2>1, SeqType
<1>7. q \in Seq(V) /\ L \in Nat
  BY <1>2, <1>6
<1> HIDE DEF q, T, Prefix
<1>8. PICK F : /\ Unquoted(q) = F[Len(q)]
               /\ \A k \in 0 .. Len(q) : F[k] = Reads(q, F, k)
  BY <1>7, UnquotedRuns
<1> DEFINE Rest(i) == SubSeq(t, i + 1, n)
           U == {k \in Nat : k <= n => Reading(F[L - Len(P[n - k])], Rest(n - k), V)}
<1>9. ASSUME NEW i \in 1 .. n
      PROVE  Rest(i) \in Seq(V) /\ Rest(i - 1) = <<t[i]>> \o Rest(i)
  <2>1. /\ Rest(i) \in Seq(W) /\ Len(Rest(i)) = n - i
        /\ \A x \in 1 .. n - i : Rest(i)[x] = t[i + x]
        /\ Rest(i - 1) \in Seq(W) /\ Len(Rest(i - 1)) = n - i + 1
        /\ \A x \in 1 .. n - i + 1 : Rest(i - 1)[x] = t[i - 1 + x]
    BY <1>2, SeqPart
  <2>2. <<t[i]>> \in Seq(W) /\ Len(<<t[i]>>) = 1 /\ <<t[i]>>[1] = t[i]
    BY <1>2
  <2> HIDE DEF Rest
  <2>3. /\ <<t[i]>> \o Rest(i) \in Seq(W) /\ Len(<<t[i]>> \o Rest(i)) = n - i + 1
        /\ (<<t[i]>> \o Rest(i))[1] = t[i]
        /\ \A x \in 1 .. n - i : (<<t[i]>> \o Rest(i))[x + 1] = Rest(i)[x]
    <3> DEFINE u == <<t[i]>>
               v == Rest(i)
    <3>1. u \in Seq(W) /\ v \in Seq(W) /\ Len(u) = 1 /\ u[1] = t[i] /\ Len(v) = n - i
      BY <2>1, <2>2
    <3> HIDE DEF u, v
    <3>2. /\ u \o v \in Seq(W) /\ Len(u \o v) = 1 + Len(v)
          /\ \A x \in 1 .. 1 + Len(v) : (u \o v)[x] = IF x <= 1 THEN u[x] ELSE v[x - 1]
      <4>1. /\ u \o v \in Seq(W) /\ Len(u \o v) = Len(u) + Len(v)
            /\ \A x \in 1 .. Len(u) + Len(v) : (u \o v)[x] =
                  IF x <= Len(u) THEN u[x] ELSE v[x - Len(u)]
        BY <3>1, SeqConcat, Zenon
      <4> QED BY <3>1, <4>1
    <3>3. ASSUME NEW x \in 1 .. n - i PROVE (u \o v)[x + 1] = v[x]
      <4>1. x + 1 \in 1 .. 1 + Len(v) /\ ~(x + 1 <= 1) /\ (x + 1) - 1 = x
        BY <1>2, <3>1
      <4> QED BY <3>2, <4>1
    <3> QED BY <1>2, <3>1, <3>2, <3>3 DEF u, v
  <2>4. ASSUME NEW x \in 1 .. n - i + 1
        PROVE  Rest(i - 1)[x] = (<<t[i]>> \o Rest(i))[x]
    <3>1. CASE x = 1
      BY <3>1, <1>2, <2>1, <2>3
    <3>2. CASE x # 1
      <4>1. x - 1 \in 1 .. n - i /\ (x - 1) + 1 = x /\ i + (x - 1) = i - 1 + x
        BY <1>2, <3>2
      <4>2. Rest(i)[x - 1] = t[i + (x - 1)]
        BY <2>1, <4>1, Zenon
      <4>3. (<<t[i]>> \o Rest(i))[(x - 1) + 1] = Rest(i)[x - 1]
        BY <2>3, <4>1, Zenon
      <4>4. Rest(i - 1)[x] = t[i - 1 + x]
        BY <2>1
      <4> QED BY <4>1, <4>2, <4>3, <4>4, Zenon
    <3> QED BY <3>1, <3>2, Zenon
  <2>5. Rest(i - 1) = <<t[i]>> \o Rest(i)
    BY <2>1, <2>3, <2>4, SeqSame, Zenon
  <2>6. Rest(i) \in Seq(V)
    BY <2>1
  <2> QED BY <2>5, <2>6
<1>10. 0 \in U
  <2>1. L - Len(P[n - 0]) = 0 /\ 0 \in 0 .. L
    BY <1>2, <1>7 DEF q
  <2>2. F[0] = <<>>
    BY <1>8, <2>1, Zenon DEF Reads
  <2>3. Rest(n - 0) = <<>>
    BY <1>2, SeqPart, SeqEmpty
  <2> HIDE DEF Rest
  <2> QED BY <2>1, <2>2, <2>3 DEF Reading
<1>11. ASSUME NEW k \in U PROVE k + 1 \in U
  <2> DEFINE i == n - k
             m == Len(P[i - 1])
             c == t[i]
             j == L - m
  <2> SUFFICES ASSUME k + 1 <= n PROVE Reading(F[L - Len(P[i - 1])], Rest(i - 1), V)
    <3>1. n - (k + 1) = i - 1
      BY <1>2
    <3> HIDE DEF i, Rest
    <3> QED BY <3>1
  <2>1. /\ i \in 1 .. n /\ i \in 0 .. n /\ i - 1 \in 0 .. n
        /\ Reading(F[L - Len(P[i])], Rest(i), V)
    <3> HIDE DEF Rest
    <3> QED BY <1>2
  <2> HIDE DEF i
  <2>2. P[i] = P[i - 1] \o Escaped(c)
    BY <1>1, <2>1, Zenon
  <2>3. /\ m \in Nat /\ P[i - 1] \in Seq(V) /\ Len(P[i]) \in Nat /\ Len(P[i]) <= L
        /\ \A x \in 1 .. Len(P[i]) : q[x] = P[i][x]
    BY <1>6, <2>1, Zenon
  <2>4. c \in V /\ Rest(i) \in Seq(V) /\ Rest(i - 1) = <<c>> \o Rest(i)
    BY <1>2, <1>9, <2>1
  <2> HIDE DEF c, m, Rest
  <2>5. CASE c \in {Backslash, Quote}
    <3>1. Escaped(c) = <<Backslash, c>>
      BY <2>5 DEF Escaped
    <3>2. /\ <<Backslash, c>> \in Seq(V) /\ Len(<<Backslash, c>>) = 2
          /\ <<Backslash, c>>[1] = Backslash /\ <<Backslash, c>>[2] = c
      BY <2>4
    <3>3. /\ Len(P[i]) = m + 2 /\ P[i][m + 1] = Backslash /\ P[i][m + 2] = c
      BY <2>2, <2>3, <3>1, <3>2, SeqConcat DEF m
    <3>4. q[m + 1] = Backslash /\ q[m + 2] = c
      BY <2>3, <3>3
    <3>5. /\ j \in 0 .. L /\ j > 1 /\ L - j + 1 = m + 1 /\ (L - j + 1) + 1 = m + 2
          /\ j - 2 = L - Len(P[i])
      BY <1>7, <2>3, <3>3
    <3>6. F[j] = Reads(q, F, j)
      BY <1>8, <3>5
    <3>7. Backslash \notin {Quote, Newline}
      BY DEF Backslash, Quote, Newline
    <3> HIDE DEF j
    <3>8. F[j] = <<c>> \o F[j - 2]
      <4>1. q[L - j + 1] = Backslash /\ q[(L - j + 1) + 1] \in {Backslash, Quote} /\ j # 0
        BY <2>5, <3>4, <3>5
      <4>2. q[(L - j + 1) + 1] = c
        BY <3>4, <3>5
      <4>3. Reads(q, F, j) = <<q[(L - j + 1) + 1]>> \o F[j - 2]
        BY <3>5, <3>7, <4>1, Zenon DEF Reads
      <4> QED BY <3>6, <4>2, <4>3
    <3>9. Reading(<<c>> \o F[L - Len(P[i])], <<c>> \o Rest(i), V)
      BY <2>1, <2>4, ReadingOn
    <3> QED BY <2>4, <3>5, <3>8, <3>9, Zenon DEF j, m
  <2>6. CASE c \notin {Backslash, Quote}
    <3>1. Escaped(c) = <<c>>
      BY <2>6 DEF Escaped
    <3>2. <<c>> \in Seq(V) /\ Len(<<c>>) = 1 /\ <<c>>[1] = c
      BY <2>4
    <3>3. Len(P[i]) = m + 1 /\ P[i][m + 1] = c
      BY <2>2, <2>3, <3>1, <3>2, SeqConcat DEF m
    <3>4. q[m + 1] = c
      BY <2>3, <3>3
    <3>5. /\ j \in 0 .. L /\ j # 0 /\ L - j + 1 = m + 1 /\ j - 1 = L - Len(P[i])
      BY <1>7, <2>3, <3>3
    <3>6. F[j] = Reads(q, F, j)
      BY <1>8, <3>5
    <3> HIDE DEF j
    <3>7. CASE c = Newline
      <4>1. F[j] = <<Unreadable>>
        BY <3>4, <3>5, <3>6, <3>7 DEF Reads
      <4>2. /\ <<Unreadable>> \in Seq(V) /\ 1 \in 1 .. Len(<<Unreadable>>)
            /\ <<Unreadable>>[1] = Unreadable
        OBVIOUS
      <4> QED BY <4>1, <4>2 DEF Reading, j, m
    <3>8. CASE c # Newline
      <4>1. F[j] = <<c>> \o F[j - 1]
        BY <2>6, <3>4, <3>5, <3>6, <3>8 DEF Reads
      <4>2. Reading(<<c>> \o F[L - Len(P[i])], <<c>> \o Rest(i), V)
        BY <2>1, <2>4, ReadingOn
      <4> QED BY <2>4, <3>5, <4>1, <4>2, Zenon DEF j, m
    <3> QED BY <3>7, <3>8
  <2> QED BY <2>5, <2>6
<1>12. U = Nat
  <2>1. U \in SUBSET Nat
    OBVIOUS
  <2> HIDE DEF U
  <2> QED BY <1>10, <1>11, <2>1 DEF Induction
<1>13. Reading(F[L], t, V)
  <2>1. n - n = 0 /\ L - Len(P[n - n]) = L
    BY <1>1, <1>2, <1>7
  <2>2. Rest(0) = t
    BY <1>2, SeqPart, SeqSame
  <2>3. n \in U
    BY <1>2, <1>12, Zenon
  <2> HIDE DEF Rest
  <2> QED BY <1>2, <2>1, <2>2, <2>3
<1>14. Unquoted(toml_string(t)) = F[L]
  BY <1>1, <1>8 DEF q
<1>15. ASSUME F[L] \in Seq(V), NEW x \in 1 .. Len(F[L]), F[L][x] = Unreadable
       PROVE  Unreadable \in Range(F[L])
  BY <1>15 DEF Range
<1> QED BY <1>13, <1>14, <1>15 DEF Reading

\* A hash needs no escapes.
LEMMA QuotedHash ==
  ASSUME Induction, NEW key, key \notin {Backslash, Quote}
  PROVE  toml_string(sha256_hex(key)) = sha256_hex(key)
<1> DEFINE t == <<"sha256", key>>
<1>1. t \in Seq({"sha256", key}) /\ Len(t) = 2 /\ t[1] = "sha256" /\ t[2] = key
  OBVIOUS
<1>2. <<>> \o <<"sha256">> = <<"sha256">> /\ <<"sha256">> \o <<key>> = t
  <2> DEFINE V == {"sha256", key}
             u == <<"sha256">>
             v == <<key>>
  <2>1. /\ u \in Seq(V) /\ Len(u) = 1 /\ u[1] = "sha256"
        /\ v \in Seq(V) /\ Len(v) = 1 /\ v[1] = key
    OBVIOUS
  <2>2. t \in Seq(V)
    OBVIOUS
  <2> HIDE DEF u, v, V, t
  <2>3. u \o v \in Seq(V) /\ Len(u \o v) = 2 /\ (u \o v)[1] = u[1] /\ (u \o v)[2] = v[1]
    BY <2>1, SeqConcat
  <2>4. u \o v = t
    BY <1>1, <2>1, <2>2, <2>3, SeqSame
  <2>5. <<>> \o u = u
    BY <2>1
  <2> QED BY <2>4, <2>5 DEF u, v
<1>3. Escaped("sha256") = <<"sha256">> /\ Escaped(key) = <<key>>
  BY Zenon DEF Escaped, Backslash, Quote
<1> HIDE DEF t
<1>4. PICK F : /\ toml_string(t) = F[Len(t)] /\ F[0] = <<>>
               /\ \A k \in 1 .. Len(t) : F[k] = F[k - 1] \o Escaped(t[k])
  BY <1>1, QuotedRuns, Zenon
<1>5. F[1] = <<"sha256">>
  <2>1. 1 \in 1 .. Len(t) /\ 1 - 1 = 0
    BY <1>1
  <2> QED BY <1>1, <1>2, <1>3, <1>4, <2>1
<1>6. F[2] = t
  <2>1. 2 \in 1 .. Len(t) /\ 2 - 1 = 1
    BY <1>1
  <2> QED BY <1>1, <1>2, <1>3, <1>4, <1>5, <2>1, Zenon
<1>7. toml_string(t) = t
  BY <1>1, <1>4, <1>6
<1> QED BY <1>7 DEF t, sha256_hex

\* A single word is read as it stands.
LEMMA UnquotedWord ==
  ASSUME Induction, NEW w, w \notin {Quote, Newline, Backslash}
  PROVE  Unquoted(<<w>>) = <<w>>
<1> DEFINE q == <<w>>
<1>1. q \in Seq({w}) /\ Len(q) = 1 /\ q[1] = w /\ q \o <<>> = q
  OBVIOUS
<1>2. q = <<q[1]>>
  OBVIOUS
<1> HIDE DEF q
<1>3. PICK F : /\ Unquoted(q) = F[Len(q)]
               /\ \A k \in 0 .. Len(q) : F[k] = Reads(q, F, k)
  BY <1>1, UnquotedRuns, Zenon
<1>4. F[0] = <<>>
  BY <1>1, <1>3 DEF Reads
<1>5. 1 \in 0 .. Len(q) /\ Len(q) - 1 + 1 = 1 /\ 1 - 1 = 0
  BY <1>1
<1>6. F[1] = <<q[1]>> \o F[0]
  <2>1. F[1] = Reads(q, F, 1)
    BY <1>3, <1>5
  <2>2. q[1] \notin {Quote, Newline} /\ q[1] # Backslash
    BY <1>1
  <2>3. q[Len(q) - 1 + 1] = q[1] /\ F[1 - 1] = F[0]
    BY <1>5
  <2>4. Reads(q, F, 1) = <<q[Len(q) - 1 + 1]>> \o F[1 - 1]
    BY <2>2, <2>3 DEF Reads
  <2> QED BY <2>1, <2>3, <2>4
<1>7. Unquoted(q) = q
  BY <1>1, <1>2, <1>3, <1>4, <1>6
<1> QED BY <1>7 DEF q

\* A table that setup writes is read as it was entered.
LEMMA TableReadsBack ==
  ASSUME Induction, NEW table, NEW other, NEW schema, IsTable(table),
         Parses(Completed(QuotedTable(table), other), schema),
         NEW k \in DOMAIN table
  PROVE  /\ k \in DOMAIN ReadTable(Completed(QuotedTable(table), other), schema)
         /\ ReadTable(Completed(QuotedTable(table), other), schema)[k] = table[k]
<1> DEFINE written == Completed(QuotedTable(table), other)
<1>1. /\ k \in DOMAIN written
      /\ written[k] = IF k \in Verbatim THEN table[k] ELSE toml_string(table[k])
  BY DEF Completed, QuotedTable
<1> HIDE DEF written
<1>2. /\ k \in DOMAIN ReadTable(written, schema)
      /\ ReadTable(written, schema)[k] = ReadValue(k, written[k])
  BY <1>1 DEF ReadTable, Completed
<1>3. CASE k \in Verbatim
  <2>1. ReadValue(k, written[k]) = table[k]
    BY <1>1, <1>3 DEF ReadValue
  <2> QED BY <1>2, <2>1 DEF written
<1>4. CASE k \notin Verbatim
  <2>1. table[k] \in Seq(Range(table[k]))
    BY <1>4 DEF IsTable, IsText
  <2>2. Unreadable \notin Range(Unquoted(toml_string(table[k])))
    BY <1>1, <1>4 DEF Parses, written
  <2>3. Unquoted(toml_string(table[k])) = table[k]
    BY <2>1, <2>2, RoundTrip
  <2>4. ReadValue(k, written[k]) = table[k]
    BY <1>1, <1>4, <2>3 DEF ReadValue
  <2> QED BY <1>2, <2>4 DEF written
<1> QED BY <1>3, <1>4

\* The inputs are tables of texts, and the settings of the daemon are there.
LEMMA InputsType ==
  ASSUME NEW r, IsRequest(r), CollectInputs(r) # None
  PROVE  LET i == CollectInputs(r)
         IN  /\ IsTable(i.top) /\ {"interface", "database_path"} \subseteq DOMAIN i.top
             /\ IsNotifiers(i.notifiers)
<1> DEFINE preset == [interface |-> <<>>, api_port |-> 8080,
                      api_bind_address |-> <<"0.0.0.0">>,
                      log_level |-> <<"info">>, database_path |-> <<>>]
           inputs == InputsOf(r.flags)
<1>1. IsText(<<>>) /\ IsText(<<"0.0.0.0">>) /\ IsText(<<"127.0.0.1">>) /\ IsText(<<"info">>)
      /\ IsText(<<"edgeshield/devices/new">>)
  BY DEF IsText, Range
<1>2. ASSUME NEW a, NEW b, IsTable(a), IsTable(b) PROVE IsTable(Completed(a, b))
  BY <1>2 DEF IsTable, Completed
<1>3. IsTable(preset)
  BY <1>1 DEF IsTable, Verbatim
<1>4. inputs.top = Completed(r.flags.top, preset)
  BY DEF InputsOf
<1>5. IsTable(inputs.top) /\ DOMAIN preset \subseteq DOMAIN inputs.top
  <2>1. IsTable(r.flags.top)
    BY DEF IsRequest
  <2>2. IsTable(Completed(r.flags.top, preset))
    BY <1>2, <1>3, <2>1
  <2>3. DOMAIN preset \subseteq DOMAIN Completed(r.flags.top, preset)
    BY DEF Completed
  <2> HIDE DEF preset, inputs
  <2> QED BY <1>4, <2>2, <2>3
<1>6. IsNotifiers(inputs.notifiers)
  <2>1. ASSUME NEW n \in NotifierKinds PROVE IsTable(FlagDefaults[n])
    BY <1>1 DEF FlagDefaults, NotifierKinds, IsTable, Verbatim
  <2>2. IsNotifiers(r.flags.notifiers)
    BY DEF IsRequest
  <2>3. inputs.notifiers = [n \in DOMAIN r.flags.notifiers |->
                               Completed(r.flags.notifiers[n], FlagDefaults[n])]
    BY DEF InputsOf
  <2> HIDE DEF inputs
  <2>4. ASSUME NEW n \in DOMAIN r.flags.notifiers
        PROVE  n \in NotifierKinds /\ IsTable(inputs.notifiers[n])
    <3>1. n \in NotifierKinds /\ IsTable(r.flags.notifiers[n])
      BY <2>2 DEF IsNotifiers
    <3>2. IsTable(FlagDefaults[n])
      BY <2>1, <3>1
    <3>3. IsTable(Completed(r.flags.notifiers[n], FlagDefaults[n]))
      BY <1>2, <3>1, <3>2
    <3> QED BY <2>3, <3>1, <3>3
  <2> QED BY <2>3, <2>4 DEF IsNotifiers
<1>7. CASE r.non_interactive
  <2>1. CollectInputs(r) = inputs
    BY <1>7 DEF CollectInputs
  <2> HIDE DEF inputs
  <2> QED BY <2>1, <1>5, <1>6
<1>8. CASE ~r.non_interactive
  <2> DEFINE p == prompt_interactively(inputs, r.answers)
             t == inputs.top
  <2>1. CollectInputs(r) = p
    BY <1>8 DEF CollectInputs
  <2>2. t = [k \in DOMAIN t |-> t[k]]
    <3> HIDE DEF inputs, preset
    <3> QED BY <1>4 DEF Completed
  <2> HIDE DEF inputs
  <2>3. p.top = [t EXCEPT
           !.interface = IF @ = <<>> THEN r.answers.interface ELSE @,
           !.api_port  = IF @ = 0 THEN r.answers.api_port ELSE @,
           !.api_bind_address =
               IF @ # <<>> THEN @
               ELSE IF r.answers.bind_all THEN <<"0.0.0.0">> ELSE <<"127.0.0.1">>,
           !.database_path = IF @ = <<>> THEN r.answers.database_path ELSE @]
    BY DEF prompt_interactively
  <2>4. p.notifiers = IF DOMAIN inputs.notifiers # {} THEN inputs.notifiers
                      ELSE [n \in DOMAIN r.answers.notifiers |->
                               IF n = "email" THEN r.answers.notifiers[n]
                               ELSE Entered(r.answers.notifiers[n])]
    BY DEF prompt_interactively
  <2> HIDE DEF p
  <2>5. DOMAIN p.top = DOMAIN t
    BY <2>2, <2>3
  <2>6. ASSUME NEW k \in DOMAIN t, k \notin Verbatim PROVE IsText(p.top[k])
    <3>1. IsText(t[k]) /\ IsText(r.answers.interface) /\ IsText(r.answers.database_path)
      BY <1>5, <2>6 DEF IsTable, IsRequest
    <3>2. k # "api_port"
      BY <2>6 DEF Verbatim
    <3>3. p.top[k] \in {t[k], r.answers.interface, r.answers.database_path,
                        <<"0.0.0.0">>, <<"127.0.0.1">>}
      BY <2>2, <2>3, <3>2, Zenon
    <3> QED BY <1>1, <3>1, <3>3
  <2>7. IsTable(p.top)
    BY <2>5, <2>6 DEF IsTable
  <2>8. IsNotifiers(p.notifiers)
    <3>1. CASE DOMAIN inputs.notifiers # {}
      BY <1>6, <2>4, <3>1
    <3>2. CASE ~(DOMAIN inputs.notifiers # {})
      <4>1. IsNotifiers(r.answers.notifiers)
        BY DEF IsRequest
      <4>2. ASSUME NEW a, IsTable(a) PROVE IsTable(Entered(a))
        BY <4>2 DEF IsTable, Entered, Restrict
      <4> QED BY <2>4, <3>2, <4>1, <4>2 DEF IsNotifiers
    <3> QED BY <3>1, <3>2
  <2> QED BY <1>5, <2>1, <2>5, <2>7, <2>8
<1> QED BY <1>7, <1>8

\* The rule that setup writes is the default rule of the daemon.
LEMMA RuleReadsBack ==
  ASSUME Induction, NEW c, c.rules = <<ReadTable(WrittenRule, RuleConfig)>>,
         SeverityFromStr(ReadTable(WrittenRule, RuleConfig).severity) # None
  PROVE  RulesInForce(c) = <<DefaultRule>>
<1> DEFINE rc == ReadTable(WrittenRule, RuleConfig)
<1>1. Unquoted(<<"new_device">>) = <<"new_device">> /\ Unquoted(<<"info">>) = <<"info">>
  BY UnquotedWord, Zenon DEF Quote, Newline, Backslash
<1>2. /\ rc.name = <<"new_device">> /\ rc.enabled = TRUE /\ rc.severity = <<"info">>
      /\ rc.condition = [kind |-> "Simple", value |-> <<"new_device">>]
      /\ rc.cooldown_seconds = 0
  BY <1>1, Zenon DEF ReadTable, Completed, ReadValue, WrittenRule, RuleConfig, Verbatim
<1> HIDE DEF rc
<1>3. convert_condition(rc.condition) = [kind |-> "NewDevice"]
  BY <1>2 DEF convert_condition
<1>4. SeverityFromStr(rc.severity) = "info"
  <2>1. /\ <<"info">> \in SeverityNames["info"]
        /\ \A s \in DOMAIN SeverityNames : <<"info">> \in SeverityNames[s] => s = "info"
    BY DEF SeverityNames
  <2>2. "info" \in DOMAIN SeverityNames
    BY DEF SeverityNames
  <2> QED BY <1>2, <2>1, <2>2 DEF SeverityFromStr
<1>5. TryFrom(rc) \in {None, DefaultRule}
  BY <1>2, <1>3, <1>4, Zenon DEF TryFrom, DefaultRule
<1>6. [i \in DOMAIN c.rules |-> TryFrom(c.rules[i])] = <<TryFrom(rc)>>
  BY DEF rc
<1>7. Without(<<TryFrom(rc)>>, None) \in {<<>>, <<DefaultRule>>}
  BY <1>5, WithoutOne
<1> QED BY <1>6, <1>7 DEF RulesInForce

\* What Config::from_str makes of a file that setup wrote.
LEMMA LoadedAsEntered ==
  ASSUME Induction, NEW i, NEW key, IsTable(i.top),
         IsNotifiers(i.notifiers),
         NEW c, c = FromStr(render_toml(i, key)), c # None
  PROVE  /\ \A k \in DOMAIN i.top : c.top[k] = i.top[k]
         /\ c.storage.history_snapshot_hours = 24
         /\ RulesInForce(c) = <<DefaultRule>>
         /\ DOMAIN c \cap NotifierKinds = DOMAIN i.notifiers
         /\ "auth" \in DOMAIN c <=> key # None
         /\ key # None => c.auth.read_key_hash = sha256_hex(key)
         /\ \A n \in DOMAIN i.notifiers : SameNotifier(n, i.notifiers[n], c[n])
<1> DEFINE doc == render_toml(i, key)
           raw == Deserialized(doc)
<1>1. DOMAIN i.notifiers \subseteq NotifierKinds
  BY DEF IsNotifiers
<1>2. DOMAIN doc = {"top", "rules"} \union DOMAIN i.notifiers
                     \union (IF key = None THEN {} ELSE {"auth"})
  BY DEF render_toml
<1>a. doc["top"] = Completed(QuotedTable(i.top), [capture_buffer |-> 4096])
  BY DEF render_toml
<1>b. doc["rules"] = <<WrittenRule>>
  BY DEF render_toml
<1>c. key # None => doc["auth"] = QuotedTable([read_key_hash |-> sha256_hex(key)])
  BY DEF render_toml
<1>d. \A n \in DOMAIN i.notifiers : doc[n] = Completed(QuotedTable(i.notifiers[n]), Literals[n])
  BY <1>1 DEF render_toml, NotifierKinds
<1> HIDE DEF doc
<1>e. /\ \A s \in DOMAIN doc : TableOf(doc, s) = doc[s]
      /\ \A s : s \notin DOMAIN doc => TableOf(doc, s) = EmptyTable
  BY DEF TableOf
<1>3. WellFormed(doc) /\ \A s \in DOMAIN raw : ValidSection(raw, s)
  BY DEF FromStr, doc
<1>4. c = IF "ntfy" \in DOMAIN raw THEN [raw EXCEPT !.ntfy.base_url = StripSlash(@)] ELSE raw
  BY DEF FromStr, doc
<1>5. /\ DOMAIN raw = Present(doc) \union {"rules"}
      /\ \A s \in Present(doc) : s # "rules" => raw[s] = ReadTable(TableOf(doc, s), Sections[s])
      /\ raw["rules"] = [x \in DOMAIN RulesOf(doc) |-> ReadTable(RulesOf(doc)[x], RuleConfig)]
      /\ raw = [s \in DOMAIN raw |-> raw[s]]
  BY DEF Deserialized
<1> HIDE DEF raw
<1>6. /\ DOMAIN c = DOMAIN raw
      /\ \A s \in DOMAIN raw : s # "ntfy" => c[s] = raw[s]
      /\ "ntfy" \in DOMAIN raw =>
            c["ntfy"] = [raw["ntfy"] EXCEPT !["base_url"] = StripSlash(@)]
  BY <1>4, <1>5
<1>7. /\ Present(doc) = {"top", "scanner", "storage"} \union DOMAIN i.notifiers
                          \union (IF key = None THEN {} ELSE {"auth"})
      /\ "rules" \notin Present(doc)
  BY <1>1, <1>2 DEF Present, Always, NotifierKinds
<1>8. \A s \in Present(doc) : Parses(TableOf(doc, s), Sections[s])
  BY <1>3, Zenon DEF WellFormed
<1>f. \A s \in Present(doc) : s # "ntfy" => c[s] = ReadTable(TableOf(doc, s), Sections[s])
  BY <1>5, <1>6, <1>7
<1>9. \A k \in DOMAIN i.top : c["top"][k] = i.top[k]
  <2> DEFINE other == [capture_buffer |-> 4096]
  <2>1. "top" \in DOMAIN doc /\ "top" \in Present(doc)
    BY <1>2, <1>7
  <2>2. TableOf(doc, "top") = Completed(QuotedTable(i.top), other)
    BY <1>a, <1>e, <2>1
  <2> HIDE DEF other
  <2>3. Parses(Completed(QuotedTable(i.top), other), Sections["top"])
    BY <1>8, <2>1, <2>2
  <2>4. c["top"] = ReadTable(Completed(QuotedTable(i.top), other), Sections["top"])
    BY <1>f, <2>1, <2>2
  <2>5. ASSUME NEW k \in DOMAIN i.top PROVE c["top"][k] = i.top[k]
    <3>1. /\ k \in DOMAIN ReadTable(Completed(QuotedTable(i.top), other), Sections["top"])
          /\ ReadTable(Completed(QuotedTable(i.top), other), Sections["top"])[k] = i.top[k]
      BY <2>3, TableReadsBack, SMTT(30)
    <3> QED BY <2>4, <3>1
  <2> QED BY <2>5
<1>10. c["storage"]["history_snapshot_hours"] = 24
  <2>1. "storage" \notin DOMAIN doc
    BY <1>1, <1>2 DEF NotifierKinds
  <2>2. TableOf(doc, "storage") = EmptyTable
    BY <1>e, <2>1
  <2>3. c["storage"] = ReadTable(EmptyTable, StorageConfig)
    <3>1. "storage" \in Present(doc) /\ Sections["storage"] = StorageConfig
      BY <1>7 DEF Sections
    <3>2. c["storage"] = ReadTable(TableOf(doc, "storage"), Sections["storage"])
      BY <1>f, <3>1
    <3> QED BY <2>2, <3>1, <3>2, Zenon
  <2> QED BY <2>3, Zenon DEF ReadTable, Completed, EmptyTable, StorageConfig
<1>11. RulesInForce(c) = <<DefaultRule>>
  <2> DEFINE rc == ReadTable(WrittenRule, RuleConfig)
  <2>1. RulesOf(doc) = <<WrittenRule>>
    <3>1. "rules" \in DOMAIN doc
      BY <1>2
    <3> QED BY <1>b, <3>1 DEF RulesOf
  <2>2. c["rules"] = [x \in DOMAIN <<WrittenRule>> |-> ReadTable(<<WrittenRule>>[x], RuleConfig)]
    BY <1>5, <1>6, <2>1
  <2>3. c["rules"] = <<rc>> /\ raw["rules"] = <<rc>>
    <3> HIDE DEF rc
    <3> QED BY <2>2, <1>5, <1>6 DEF rc
  <2>4. ValidSection(raw, "rules")
    BY <1>3, <1>5
  <2> HIDE DEF rc
  <2>5. SeverityFromStr(rc.severity) # None
    <3>1. 1 \in DOMAIN raw["rules"] /\ raw["rules"][1] = rc
      BY <2>3
    <3> QED BY <2>4, <3>1 DEF ValidSection
  <2> QED BY <2>3, <2>5, RuleReadsBack DEF rc
<1>12. DOMAIN c \cap NotifierKinds = DOMAIN i.notifiers /\ ("auth" \in DOMAIN c <=> key # None)
  BY <1>1, <1>5, <1>6, <1>7 DEF NotifierKinds
<1>13. ASSUME key # None PROVE c["auth"]["read_key_hash"] = sha256_hex(key)
  <2> DEFINE a == [read_key_hash |-> sha256_hex(key)]
  <2>0. IsText(sha256_hex(key))
    BY DEF IsText, sha256_hex, Range
  <2>1. IsTable(a) /\ "read_key_hash" \in DOMAIN a /\ a["read_key_hash"] = sha256_hex(key)
    BY <2>0 DEF IsTable
  <2>2. TableOf(doc, "auth") = QuotedTable(a)
    <3>1. "auth" \in DOMAIN doc
      BY <1>2, <1>13
    <3> QED BY <1>c, <1>e, <1>13, <3>1
  <2> HIDE DEF a
  <2>3. QuotedTable(a) = Completed(QuotedTable(a), EmptyTable)
    BY DEF QuotedTable, Completed, EmptyTable
  <2>4. /\ Parses(Completed(QuotedTable(a), EmptyTable), Sections["auth"])
        /\ c["auth"] = ReadTable(Completed(QuotedTable(a), EmptyTable), Sections["auth"])
    <3>1. "auth" \in Present(doc)
      BY <1>7, <1>13
    <3> QED BY <1>f, <1>8, <2>2, <2>3, <3>1
  <2> QED BY <2>1, <2>4, TableReadsBack
<1>14. ASSUME NEW n \in DOMAIN i.notifiers PROVE SameNotifier(n, i.notifiers[n], c[n])
  <2> DEFINE e == i.notifiers[n]
  <2>1. IsTable(e) /\ n \in NotifierKinds
    BY DEF IsNotifiers
  <2>2. TableOf(doc, n) = Completed(QuotedTable(e), Literals[n])
    <3>1. n \in DOMAIN doc
      BY <1>2
    <3> QED BY <1>d, <1>e, <3>1
  <2>3. n \in Present(doc) /\ n # "rules" /\ n \in DOMAIN raw
    BY <1>5, <1>7, <2>1 DEF NotifierKinds
  <2> HIDE DEF e
  <2>4. /\ Parses(Completed(QuotedTable(e), Literals[n]), Sections[n])
        /\ raw[n] = ReadTable(Completed(QuotedTable(e), Literals[n]), Sections[n])
    BY <1>5, <1>8, <2>2, <2>3
  <2>5. ASSUME NEW k \in DOMAIN e PROVE k \in DOMAIN raw[n] /\ raw[n][k] = e[k]
    <3> PICK other : other = Literals[n]
      OBVIOUS
    <3>1. Parses(Completed(QuotedTable(e), other), Sections[n])
      BY <2>4, Zenon
    <3>2. /\ k \in DOMAIN ReadTable(Completed(QuotedTable(e), other), Sections[n])
          /\ ReadTable(Completed(QuotedTable(e), other), Sections[n])[k] = e[k]
      BY <2>1, <3>1, TableReadsBack, SMTT(30)
    <3> QED BY <2>4, <3>2, Zenon
  <2>6. CASE n # "ntfy"
    <3>1. c[n] = raw[n]
      BY <1>6, <2>3, <2>6
    <3> QED BY <2>5, <2>6, <3>1 DEF SameNotifier, e
  <2>7. CASE n = "ntfy"
    <3>1. c[n] = [raw[n] EXCEPT !["base_url"] = StripSlash(@)]
      BY <1>6, <2>3, <2>7
    <3>2. ASSUME NEW k \in DOMAIN e, k # "base_url" PROVE e[k] = c[n][k]
      BY <2>5, <3>1, <3>2
    <3>3. ASSUME "base_url" \in DOMAIN e
          PROVE  e["base_url"] \in {c[n]["base_url"], Append(c[n]["base_url"], "/")}
      <4> DEFINE t == e["base_url"]
      <4>1. c[n]["base_url"] = StripSlash(t)
        BY <2>5, <3>1, <3>3
      <4>2. t \in Seq(Range(t))
        BY <2>1, <3>3 DEF IsTable, IsText, Verbatim
      <4> HIDE DEF t
      <4>3. ASSUME t # <<>>, t[Len(t)] = "/"
            PROVE  t = Append(SubSeq(t, 1, Len(t) - 1), "/")
        <5> DEFINE R == Range(t)
                   u == SubSeq(t, 1, Len(t) - 1)
        <5>1. Len(t) \in Nat /\ Len(t) >= 1
          BY <4>2, <4>3, SeqType, SeqEmpty
        <5>2. t[Len(t)] \in R
          BY <4>2, <5>1, SeqType
        <5> HIDE DEF R
        <5>3. t \in Seq(R)
          BY <4>2 DEF R
        <5>4. u \in Seq(R) /\ Len(u) = Len(t) - 1 /\ \A x \in 1 .. Len(t) - 1 : u[x] = t[x]
          <6> DEFINE m == Len(t) - 1
          <6>1. m \in Int /\ m >= 0 /\ \A x \in 1 .. m : t[x] \in R
            BY <5>1, <5>3, SeqType
          <6> HIDE DEF m
          <6>2. /\ SubSeq(t, 1, m) \in Seq(R)
                /\ Len(SubSeq(t, 1, m)) = IF 1 <= m THEN m - 1 + 1 ELSE 0
                /\ \A x \in 1 .. m - 1 + 1 : SubSeq(t, 1, m)[x] = t[1 + x - 1]
            BY <6>1, SeqPart
          <6>3. \A x \in 1 .. m : x \in 1 .. m - 1 + 1 /\ 1 + x - 1 = x
            BY <6>1
          <6>4. Len(SubSeq(t, 1, m)) = m /\ \A x \in 1 .. m : SubSeq(t, 1, m)[x] = t[x]
            BY <6>1, <6>2, <6>3
          <6> QED BY <6>2, <6>4 DEF m
        <5> HIDE DEF u
        <5>5. /\ Append(u, "/") \in Seq(R) /\ Len(Append(u, "/")) = Len(t)
              /\ \A x \in 1 .. Len(t) - 1 : Append(u, "/")[x] = u[x]
              /\ Append(u, "/")[Len(t)] = "/"
          BY <4>3, <5>1, <5>2, <5>4, SeqAppend
        <5>6. \A x \in 1 .. Len(t) : t[x] = Append(u, "/")[x]
          BY <4>3, <5>1, <5>4, <5>5
        <5> QED BY <5>3, <5>5, <5>6, SeqSame DEF u
      <4> QED BY <4>1, <4>3 DEF StripSlash, t
    <3> QED BY <2>7, <3>2, <3>3, Zenon DEF SameNotifier, e
  <2> QED BY <2>6, <2>7
<1> QED BY <1>9, <1>10, <1>11, <1>12, <1>13, <1>14

(***************************************************************************)
(* Types.                                                                  *)
(***************************************************************************)
DaemonStep(d) ==
    \/ ReadPidFile(d) \/ CheckPid(d) \/ TruncatePid(d) \/ WritePid(d)
    \/ LoadConfig(d) \/ StartTasks(d) \/ StartCapture(d) \/ Shutdown(d)
    \/ ReleasePid(d) \/ Exit(d) \/ Kill(d) \/ PidUsedAgain(d)

SetupStep(s) == CollectAnswers(s) \/ SetupRun(s) \/ SetupTruncate(s) \/ SetupWrite(s)

\* A step of one kind of process leaves the other kind where it is.
LEMMA DaemonsMove ==
    ASSUME TypeOK, NEW d \in Daemons, DaemonStep(d)
    PROVE  /\ pc' \in [Daemons \union Setups ->
                        Live \union {"new", "gone", "killed", "other", "asked", "done"}
                             \union Writing]
           /\ \A x \in Daemons \union Setups : x # d => pc'[x] = pc[x]
           /\ UNCHANGED <<files, setupVars>>
<1> USE DEF TypeOK, Live, AtGuard, Writing, setupVars
<1>1. CASE ReadPidFile(d)  BY <1>1 DEF ReadPidFile
<1>2. CASE CheckPid(d)     BY <1>2 DEF CheckPid
<1>3. CASE TruncatePid(d)  BY <1>3, Zenon DEF TruncatePid
<1>4. CASE WritePid(d)     BY <1>4, Zenon DEF WritePid
<1>5. CASE LoadConfig(d)
  <2>1. \/ pc' = [pc EXCEPT ![d] = "stores"] \/ pc' = [pc EXCEPT ![d] = "gone"]
        \/ pc' = [pc EXCEPT ![d] = @]
    BY <1>5 DEF LoadConfig
  <2> QED BY <1>5, <2>1, Zenon DEF LoadConfig
<1>6. CASE StartTasks(d)
  <2>1. pc' = [pc EXCEPT ![d] = "release"] \/ pc' = [pc EXCEPT ![d] = "capture"]
    BY <1>6, Zenon DEF StartTasks
  <2>2. UNCHANGED <<files, setupVars>>
    BY <1>6 DEF StartTasks
  <2> QED BY <2>1, <2>2, Zenon
<1>7. CASE StartCapture(d) BY <1>7, Zenon DEF StartCapture
<1>8. CASE Shutdown(d)     BY <1>8 DEF Shutdown
<1>9. CASE ReleasePid(d)   BY <1>9 DEF ReleasePid
<1>10. CASE Exit(d)        BY <1>10 DEF Exit
<1>11. CASE Kill(d)        BY <1>11 DEF Kill
<1>12. CASE PidUsedAgain(d) BY <1>12 DEF PidUsedAgain
<1> QED BY <1>1, <1>2, <1>3, <1>4, <1>5, <1>6, <1>7, <1>8, <1>9, <1>10, <1>11, <1>12, Zenon
        DEF DaemonStep

\* What a step of a setup leaves alone.
LEMMA SetupsMove ==
    ASSUME TypeOK, NEW s \in Setups, SetupStep(s)
    PROVE  /\ pc' \in [Daemons \union Setups ->
                        Live \union {"new", "gone", "killed", "other", "asked", "done"}
                             \union Writing]
           /\ \A x \in Daemons \union Setups : x # s => pc'[x] = pc[x]
           /\ UNCHANGED daemonVars
<1> USE DEF TypeOK, Live, AtGuard, Writing
<1>1. CASE CollectAnswers(s)
  <2>1. pc' = [pc EXCEPT ![s] = "gone"] \/ pc' = [pc EXCEPT ![s] = "asked"]
    BY <1>1 DEF CollectAnswers
  <2> QED BY <1>1, <2>1, Zenon DEF CollectAnswers
<1>2. CASE SetupRun(s)
  <2>1. pc' = [pc EXCEPT ![s] = "gone"] \/ pc' = [pc EXCEPT ![s] = "fresh"]
    BY <1>2 DEF SetupRun
  <2> QED BY <1>2, <2>1, Zenon DEF SetupRun
<1>3. CASE SetupTruncate(s) BY <1>3, Zenon DEF SetupTruncate
<1>4. CASE SetupWrite(s)
  <2>1. pc' = [pc EXCEPT ![s] = "gone"] \/ pc' = [pc EXCEPT ![s] = "done"]
    BY <1>4 DEF SetupWrite
  <2> QED BY <1>4, <2>1, Zenon DEF SetupWrite
<1> QED BY <1>1, <1>2, <1>3, <1>4 DEF SetupStep

\* Each action keeps the types.
LEMMA TypeStep == Induction /\ LaunchInv /\ [Next]_vars => TypeOK'
<1> SUFFICES ASSUME Induction, TypeOK, [Next]_vars PROVE TypeOK'
  BY DEF LaunchInv
<1>1. CASE UNCHANGED vars
  BY <1>1 DEF vars, TypeOK
<1>2. ASSUME NEW d \in Daemons, DaemonStep(d) PROVE TypeOK'
  <2>1. /\ pidfile' \in Daemons \union {None, Empty}
        /\ seen' \in [Daemons -> Daemons \union {None, Empty}]
    <3>1. /\ pidfile \in Daemons \union {None, Empty}
          /\ seen \in [Daemons -> Daemons \union {None, Empty}]
      BY DEF TypeOK
    <3>2. CASE ReadPidFile(d) \/ CheckPid(d) \/ Kill(d)
      BY <3>1, <3>2 DEF ReadPidFile, CheckPid, Kill
    <3>3. CASE TruncatePid(d) \/ WritePid(d) \/ ReleasePid(d)
      BY <3>1, <3>3 DEF TruncatePid, WritePid, ReleasePid
    <3>4. CASE LoadConfig(d) \/ StartTasks(d)
      <4>1. UNCHANGED <<pidfile, seen>>
        BY <3>4, Zenon DEF LoadConfig, StartTasks, pidVars
      <4> QED BY <3>1, <4>1
    <3>5. CASE StartCapture(d) \/ Shutdown(d) \/ Exit(d) \/ PidUsedAgain(d)
      BY <3>1, <3>5 DEF StartCapture, Shutdown, Exit, PidUsedAgain, pidVars
    <3> QED BY <1>2, <3>2, <3>3, <3>4, <3>5 DEF DaemonStep
  <2>2. \A s \in Setups : pc'[s] = pc[s]
    BY <1>2, DaemonsMove, LaunchAssumption
  <2>3. running' = [e \in Daemons |-> running'[e]]
    <3>1. running = [e \in Daemons |-> running[e]]
      BY DEF TypeOK
    <3>2. CASE UNCHANGED running
      BY <3>1, <3>2
    <3>3. CASE \E v : running' = [running EXCEPT ![d] = v]
      BY <3>1, <3>3
    <3> QED BY <1>2, <3>2, <3>3, Zenon
        DEF DaemonStep, ReadPidFile, CheckPid, TruncatePid, WritePid, LoadConfig, StartTasks,
            StartCapture, Shutdown, ReleasePid, Exit, Kill, PidUsedAgain
  <2>4. /\ tries' \in [Daemons -> Seq(Paths)]
        /\ \A e \in Daemons : pc'[e] = "load" => tries'[e] # <<>>
    <3>1. \A e \in Daemons : e # d => pc'[e] = pc[e]
      BY <1>2, DaemonsMove
    <3>2. /\ tries \in [Daemons -> Seq(Paths)]
          /\ pc \in [Daemons \union Setups -> {pc[x] : x \in Daemons \union Setups}]
          /\ \A e \in Daemons : pc[e] = "load" => tries[e] # <<>>
      BY DEF TypeOK
    <3>3. CASE WritePid(d)
      BY <3>1, <3>2, <3>3, CandidatesType, Zenon DEF WritePid
    <3>4. CASE LoadConfig(d)
      <4>1. pc[d] = "load" /\ tries[d] \in Seq(Paths) /\ tries[d] # <<>>
        BY <3>2, <3>4 DEF LoadConfig
      <4>2. Tail(tries[d]) \in Seq(Paths) /\ (Len(tries[d]) # 1 => Tail(tries[d]) # <<>>)
        <5>1. Len(tries[d]) \in Nat /\ Tail(tries[d]) \in Seq(Paths)
              /\ Len(Tail(tries[d])) = Len(tries[d]) - 1
          BY <4>1, SeqTail, SeqType
        <5>2. ASSUME Tail(tries[d]) = <<>> PROVE Len(tries[d]) = 1
          <6> PICK u : u = Tail(tries[d])
            BY Zenon
          <6>1. Len(u) = 0
            BY <5>1, <5>2, SeqEmpty, Zenon
          <6> QED BY <5>1, <6>1
        <5> QED BY <5>1, <5>2
      <4>3. <<>> \in Seq(Paths)
        BY SeqEmpty
      <4>4. CASE tries' = [tries EXCEPT ![d] = <<>>] /\ pc' = [pc EXCEPT ![d] = "stores"]
        BY <3>1, <3>2, <4>3, <4>4
      <4>5. CASE /\ tries' = [tries EXCEPT ![d] = Tail(@)]
                 /\ pc' = [pc EXCEPT ![d] = IF Len(tries[d]) = 1 THEN "gone" ELSE @]
        BY <3>1, <3>2, <4>2, <4>5
      <4> QED BY <3>4, <4>4, <4>5 DEF LoadConfig
    <3>5. CASE Kill(d)
      BY <3>1, <3>2, <3>5, SeqEmpty DEF Kill
    <3>6. ASSUME UNCHANGED tries, \E l : l # "load" /\ pc' = [pc EXCEPT ![d] = l]
          PROVE  /\ tries' \in [Daemons -> Seq(Paths)]
                 /\ \A e \in Daemons : pc'[e] = "load" => tries'[e] # <<>>
      BY <3>1, <3>2, <3>6
    <3>7. CASE ReadPidFile(d) \/ CheckPid(d) \/ TruncatePid(d)
      <4>1. /\ UNCHANGED tries
            /\ \E l \in {"check", "gone", "truncate", "write"} : pc' = [pc EXCEPT ![d] = l]
        BY <3>7 DEF ReadPidFile, CheckPid, TruncatePid
      <4> QED BY <3>6, <4>1, Zenon
    <3>8. CASE StartTasks(d) \/ StartCapture(d) \/ Shutdown(d)
      <4>1. UNCHANGED tries /\ \E l \in {"release", "capture", "run"} : pc' = [pc EXCEPT ![d] = l]
        BY <3>8, Zenon DEF StartTasks, StartCapture, Shutdown
      <4> QED BY <3>6, <4>1, Zenon
    <3>9. CASE ReleasePid(d) \/ Exit(d) \/ PidUsedAgain(d)
      <4>1. UNCHANGED tries /\ \E l \in {"exit", "gone", "other"} : pc' = [pc EXCEPT ![d] = l]
        BY <3>9 DEF ReleasePid, Exit, PidUsedAgain
      <4> QED BY <3>6, <4>1, Zenon
    <3> QED BY <1>2, <3>3, <3>4, <3>5, <3>7, <3>8, <3>9 DEF DaemonStep
  <2> QED BY <1>2, DaemonsMove, <2>1, <2>2, <2>3, <2>4, Zenon DEF TypeOK, setupVars
<1>3. ASSUME NEW s \in Setups, SetupStep(s) PROVE TypeOK'
  <2>1. /\ UNCHANGED <<pidfile, seen, running, tries>>
        /\ pc' \in [Daemons \union Setups ->
                        Live \union {"new", "gone", "killed", "other", "asked", "done"}
                             \union Writing]
        /\ \A x \in Daemons \union Setups : x # s => pc'[x] = pc[x]
    BY <1>3, SetupsMove DEF daemonVars, pidVars
  <2>2. /\ req' \in [Setups -> Requests \union {None}]
        /\ pc'[s] \in {"asked", "done"} \union Writing => req'[s] # None
        /\ req'[s] # None => CollectInputs(req'[s]) # None
        /\ \A t \in Setups : t # s => req'[t] = req[t]
    <3>1. CASE CollectAnswers(s)
      <4>1. CASE pc' = [pc EXCEPT ![s] = "gone"] /\ UNCHANGED req
        BY <4>1 DEF TypeOK, Writing
      <4>2. CASE \E r \in Requests : CollectInputs(r) # None /\ req' = [req EXCEPT ![s] = r]
        BY <4>2, LaunchAssumption DEF TypeOK, Writing
      <4> QED BY <3>1, <4>1, <4>2, Zenon DEF CollectAnswers
    <3>2. CASE SetupRun(s)
      <4>1. CASE pc' = [pc EXCEPT ![s] = "gone"] /\ req' = [req EXCEPT ![s] = None]
        BY <4>1 DEF TypeOK, Writing
      <4>2. CASE UNCHANGED req
        BY <4>2, <3>2 DEF TypeOK, SetupRun
      <4> QED BY <3>2, <4>1, <4>2, Zenon DEF SetupRun
    <3>3. CASE SetupTruncate(s) \/ SetupWrite(s)
      <4>1. UNCHANGED req /\ pc[s] \in Writing
        BY <3>3 DEF SetupTruncate, SetupWrite, Writing
      <4> QED BY <4>1 DEF TypeOK
    <3> QED BY <1>3, <3>1, <3>2, <3>3, Zenon DEF SetupStep
  <2>3. /\ writer' \in [Paths -> Setups \union {None}]
        /\ files' = [p \in Paths |-> files'[p]]
    <3>1. CASE UNCHANGED <<files, writer>>
      BY <3>1 DEF TypeOK
    <3>2. CASE \E v : /\ files' = [files EXCEPT ![req[s].path] = v]
                      /\ writer' = [writer EXCEPT ![req[s].path] = s]
      <4> PICK v : /\ files' = [files EXCEPT ![req[s].path] = v]
                   /\ writer' = [writer EXCEPT ![req[s].path] = s]
        BY <3>2, Zenon
      <4>1. files = [p \in Paths |-> files[p]]
        BY DEF TypeOK
      <4>2. files' = [p \in Paths |-> files'[p]]
        BY <4>1
      <4> QED BY <4>2, Zenon DEF TypeOK
    <3> QED BY <1>3, <3>1, <3>2, Zenon
            DEF SetupStep, CollectAnswers, SetupRun, SetupTruncate, SetupWrite
  <2>4. \A d \in Daemons : pc'[d] = pc[d]
    BY <2>1, LaunchAssumption, Zenon
  <2> QED BY <2>1, <2>2, <2>3, <2>4, Zenon DEF TypeOK
<1> QED BY <1>1, <1>2, <1>3 DEF Next, DaemonStep, SetupStep

(***************************************************************************)
(* The PID file.                                                           *)
(***************************************************************************)
LEMMA GuardStep == LaunchInv /\ [Next]_vars => GuardInv'
<1> SUFFICES ASSUME TypeOK, GuardInv, [Next]_vars PROVE GuardInv'
  BY DEF LaunchInv
<1>1. CASE UNCHANGED vars
  BY <1>1 DEF vars, GuardInv
<1>2. ASSUME NEW s \in Setups, SetupStep(s) PROVE GuardInv'
  <2>1. /\ UNCHANGED <<pidfile, seen, raced, misread>>
        /\ \A d \in Daemons : pc'[d] = pc[d]
    BY <1>2, SetupsMove, LaunchAssumption DEF daemonVars, pidVars
  <2> QED BY <2>1 DEF GuardInv
<1>3. ASSUME NEW d \in Daemons, DaemonStep(d) PROVE GuardInv'
  <2>1. \A e \in Daemons : e # d => pc'[e] = pc[e]
    BY <1>3, DaemonsMove
  <2>2. pidfile # None /\ pidfile # Empty => pidfile \in Daemons
    BY DEF TypeOK
  <2>3. None \notin Daemons /\ Empty \notin Daemons
    BY LaunchAssumption
  <2> USE DEF AtGuard, Owning
  <2>4. CASE ReadPidFile(d)
    <3>1. pc'[d] = "check" /\ seen'[d] = pidfile /\ UNCHANGED <<pidfile, misread>>
      BY <2>4 DEF ReadPidFile, TypeOK
    <3>2. /\ \A e \in Daemons : e # d => seen'[e] = seen[e]
          /\ ~raced' => ~raced /\ \A e \in Daemons : pc[e] \notin AtGuard
          /\ pc[d] = "new"
      BY <2>4, Zenon DEF ReadPidFile, TypeOK
    <3> QED BY <2>1, <2>3, <3>1, <3>2 DEF GuardInv
  <2>5. CASE CheckPid(d)
    <3>1. /\ pc[d] = "check" /\ UNCHANGED <<pidfile, raced, misread>>
          /\ \A e \in Daemons : e # d => seen'[e] = seen[e]
          /\ \/ pc'[d] = "gone"
             \/ /\ pc'[d] = "truncate"
                /\ ~(seen[d] \in Daemons /\ pc[seen[d]] \in Live)
      BY <2>5 DEF CheckPid, TypeOK
    <3>2. \A e \in Daemons : pc[e] \in Owning => pc[e] \in Live
      BY DEF Live
    <3> QED BY <2>1, <2>3, <3>1, <3>2, ZenonT(40) DEF GuardInv
  <2>6. CASE TruncatePid(d)
    <3>1. /\ pc[d] = "truncate" /\ UNCHANGED <<seen, raced, misread>>
          /\ \/ pidfile' = Empty /\ pc'[d] = "write"
             \/ UNCHANGED pidfile /\ pc'[d] = "gone"
      BY <2>6 DEF TruncatePid, TypeOK
    <3> QED BY <2>1, <2>3, <3>1 DEF GuardInv
  <2>7. CASE WritePid(d)
    <3>1. /\ pc[d] = "write" /\ UNCHANGED <<seen, raced, misread>>
          /\ \/ pidfile' = d /\ pc'[d] = "load"
             \/ UNCHANGED pidfile /\ pc'[d] = "gone"
      BY <2>7 DEF WritePid, TypeOK
    <3> QED BY <2>1, <2>3, <3>1 DEF GuardInv
  <2>8. CASE LoadConfig(d)
    <3>1. pc[d] = "load" /\ UNCHANGED <<pidfile, seen, raced>>
      BY <2>8 DEF LoadConfig, pidVars
    <3>2. \/ pc'[d] \in {"load", "stores"} /\ misread \subseteq misread'
          \/ pc'[d] = "gone" /\ misread' = misread \union {d}
      <4>1. pc \in [Daemons \union Setups -> {pc[x] : x \in Daemons \union Setups}]
        BY DEF TypeOK
      <4>2. CASE FromFile(Head(tries[d])) # None
        BY <4>1, <4>2, <2>8 DEF LoadConfig
      <4>3. CASE ~(FromFile(Head(tries[d])) # None)
        BY <4>1, <4>3, <2>8 DEF LoadConfig
      <4> QED BY <4>2, <4>3
    <3> QED BY <2>1, <2>3, <3>1, <3>2, Zenon DEF GuardInv
  <2>9. CASE StartTasks(d) \/ StartCapture(d) \/ Shutdown(d)
    <3>1. /\ pc[d] \in {"stores", "capture", "run"} /\ UNCHANGED <<pidfile, seen, raced, misread>>
          /\ \E l \in Owning : pc' = [pc EXCEPT ![d] = l]
      BY <2>9, Zenon DEF StartTasks, StartCapture, Shutdown, pidVars
    <3>2. pc'[d] \in Owning
      BY <3>1 DEF TypeOK
    <3> QED BY <2>1, <2>3, <3>1, <3>2 DEF GuardInv
  <2>10. CASE ReleasePid(d)
    <3>1. /\ pc[d] = "release" /\ UNCHANGED <<seen, raced, misread>>
          /\ pidfile' = None /\ pc'[d] = "exit"
      BY <2>10 DEF ReleasePid, TypeOK
    <3> QED BY <2>1, <2>3, <3>1 DEF GuardInv
  <2>11. CASE Exit(d)
    <3>1. pc[d] = "exit" /\ UNCHANGED <<pidfile, seen, raced, misread>> /\ pc'[d] = "gone"
      BY <2>11 DEF Exit, TypeOK, pidVars
    <3> QED BY <2>1, <2>3, <3>1 DEF GuardInv
  <2>12. CASE Kill(d)
    <3>1. /\ UNCHANGED <<pidfile, raced, misread>> /\ pc'[d] = "killed"
          /\ \A e \in Daemons : e # d => seen'[e] = seen[e]
      BY <2>12 DEF Kill, TypeOK
    <3> QED BY <2>1, <2>3, <3>1 DEF GuardInv
  <2>13. CASE PidUsedAgain(d)
    <3>1. /\ UNCHANGED <<pidfile, seen, raced, misread>>
          /\ pc[d] = "killed" /\ pc'[d] = "other"
      BY <2>13 DEF PidUsedAgain, TypeOK, pidVars
    <3> QED BY <2>1, <2>3, <3>1 DEF GuardInv
  <2> QED BY <1>3, <2>4, <2>5, <2>6, <2>7, <2>8, <2>9, <2>10, <2>11, <2>12, <2>13
          DEF DaemonStep
<1> QED BY <1>1, <1>2, <1>3 DEF Next, DaemonStep, SetupStep

(***************************************************************************)
(* The configuration files.                                                *)
(***************************************************************************)
\* The ways a step of a setup changes what FilesInv is about: nothing was
\* written and nothing will be, the setup decided to write, a write failed, or
\* the setup wrote v.
Aside(s) ==
    /\ pc[s] \in {"new", "asked"} /\ pc'[s] \in {"gone", "asked"}
    /\ \A t \in Setups : t # s => req'[t] = req[t]
    /\ UNCHANGED <<files, mixed, writer>>

Decides(s) ==
    /\ pc[s] = "asked" /\ pc'[s] = "fresh"
    /\ files[req[s].path] = <<>> \/ req[s].force
    /\ mixed' = mixed \union {{s, t} : t \in WritingTo(req[s].path)}
    /\ UNCHANGED <<files, req, writer>>

GivesUp(s) ==
    pc[s] \in Writing /\ pc'[s] = "gone" /\ UNCHANGED <<files, mixed, req, writer>>

Writes(s, v) ==
    /\ pc[s] \in Writing /\ v # <<>>
    /\ \/ pc'[s] = "emptied" /\ v = <<EmptyTable>>
       \/ pc'[s] = "done" /\ (Unmixed(s) => v = <<Rendered(s)>>)
    /\ files'[req[s].path] = v /\ writer'[req[s].path] = s
    /\ \A p \in Paths : p # req[s].path => files'[p] = files[p] /\ writer'[p] = writer[p]
    /\ UNCHANGED <<mixed, req>>

\* Every step of a setup is of one of these kinds.
LEMMA SetupKinds ==
  ASSUME TypeOK, OwnInv, NEW s \in Setups, SetupStep(s)
  PROVE  Aside(s) \/ Decides(s) \/ GivesUp(s) \/ \E v : Writes(s, v)
<1>0. /\ pc \in [Daemons \union Setups -> {pc[x] : x \in Daemons \union Setups}]
      /\ req \in [Setups -> {req[x] : x \in Setups}]
      /\ files = [p \in Paths |-> files[p]] /\ writer \in [Paths -> Setups \union {None}]
      /\ pc[s] \in Writing => req[s].path \in Paths
  BY LaunchAssumption DEF TypeOK
<1>1. CASE CollectAnswers(s)
  <2>1. \/ pc' = [pc EXCEPT ![s] = "gone"] /\ UNCHANGED req
        \/ pc' = [pc EXCEPT ![s] = "asked"] /\ \E r : req' = [req EXCEPT ![s] = r]
    BY <1>1 DEF CollectAnswers
  <2>2. pc[s] = "new" /\ UNCHANGED <<files, mixed, writer>>
    BY <1>1 DEF CollectAnswers
  <2> QED BY <1>0, <2>1, <2>2 DEF Aside
<1>2. CASE SetupRun(s)
  <2>1. pc[s] = "asked" /\ UNCHANGED <<files, writer>>
    BY <1>2 DEF SetupRun
  <2>2. CASE /\ pc' = [pc EXCEPT ![s] = "gone"] /\ req' = [req EXCEPT ![s] = None]
             /\ UNCHANGED mixed
    BY <1>0, <2>1, <2>2 DEF Aside
  <2>3. CASE /\ files[req[s].path] = <<>> \/ req[s].force
             /\ pc' = [pc EXCEPT ![s] = "fresh"] /\ UNCHANGED req
             /\ mixed' = mixed \union {{s, t} : t \in WritingTo(req[s].path)}
    BY <1>0, <2>1, <2>3 DEF Decides
  <2> QED BY <1>2, <2>2, <2>3, Zenon DEF SetupRun
<1>3. CASE /\ pc[s] \in Writing /\ pc' = [pc EXCEPT ![s] = "gone"]
           /\ UNCHANGED <<files, mixed, req, writer>>
  BY <1>0, <1>3 DEF GivesUp
<1>4. ASSUME NEW v, NEW l, pc[s] \in Writing, v # <<>>,
             \/ l = "emptied" /\ v = <<EmptyTable>>
             \/ l = "done" /\ (Unmixed(s) => v = <<Rendered(s)>>),
             files' = [files EXCEPT ![req[s].path] = v],
             writer' = [writer EXCEPT ![req[s].path] = s],
             pc' = [pc EXCEPT ![s] = l], UNCHANGED <<mixed, req>>
      PROVE  Writes(s, v)
  <2>1. files'[req[s].path] = v /\ \A p \in Paths : p # req[s].path => files'[p] = files[p]
    BY <1>0, <1>4
  <2>2. writer'[req[s].path] = s /\ \A p \in Paths : p # req[s].path => writer'[p] = writer[p]
    BY <1>0, <1>4
  <2>3. pc'[s] = l
    BY <1>0, <1>4
  <2> QED BY <1>4, <2>1, <2>2, <2>3 DEF Writes
<1>5. CASE SetupTruncate(s)
  <2>1. pc[s] \in Writing /\ UNCHANGED <<mixed, req>> /\ <<EmptyTable>> # <<>>
    BY <1>5 DEF SetupTruncate, Writing
  <2>2. CASE pc' = [pc EXCEPT ![s] = "gone"] /\ UNCHANGED <<files, writer>>
    BY <1>3, <2>1, <2>2
  <2>3. CASE /\ files' = [files EXCEPT ![req[s].path] = <<EmptyTable>>]
             /\ writer' = [writer EXCEPT ![req[s].path] = s]
             /\ pc' = [pc EXCEPT ![s] = "emptied"]
    <3>1. Writes(s, <<EmptyTable>>)
      BY <1>4, <2>1, <2>3, Zenon
    <3> QED BY <3>1
  <2> QED BY <1>5, <2>2, <2>3 DEF SetupTruncate
<1>6. CASE SetupWrite(s)
  <2>1. pc[s] = "emptied" /\ pc[s] \in Writing /\ UNCHANGED <<mixed, req>>
    BY <1>6 DEF SetupWrite, Writing
  <2>2. CASE pc' = [pc EXCEPT ![s] = "gone"] /\ UNCHANGED <<files, writer>>
    BY <1>3, <2>1, <2>2
  <2>3. ASSUME NEW d \in WrittenOver(s, files[req[s].path][1]),
               files' = [files EXCEPT ![req[s].path] = <<d>>],
               writer' = [writer EXCEPT ![req[s].path] = s],
               pc' = [pc EXCEPT ![s] = "done"]
        PROVE  \E v : Writes(s, v)
    <3>1. ASSUME Unmixed(s) PROVE d = Rendered(s)
      <4>1. files[req[s].path] = <<EmptyTable>>
        BY <2>1, <3>1, Zenon DEF OwnInv
      <4>2. files[req[s].path][1] = EmptyTable
        BY <4>1
      <4>3. WrittenOver(s, EmptyTable) = {Rendered(s)}
        BY Zenon DEF WrittenOver
      <4> QED BY <2>3, <4>2, <4>3
    <3>2. <<d>> # <<>>
      OBVIOUS
    <3>3. Writes(s, <<d>>)
      BY <1>4, <2>1, <2>3, <3>1, <3>2, Zenon
    <3> QED BY <3>3
  <2> QED BY <1>6, <2>2, <2>3 DEF SetupWrite
<1> QED BY <1>1, <1>2, <1>5, <1>6 DEF SetupStep

\* Each action keeps FilesInv.
LEMMA FilesStep == LaunchInv /\ [Next]_vars => FilesInv'
<1> SUFFICES ASSUME TypeOK, MixedInv, WriterInv, MeetInv, OwnInv, [Next]_vars
             PROVE  MixedInv' /\ WriterInv' /\ MeetInv' /\ OwnInv'
  BY DEF LaunchInv, FilesInv
<1>a. \A p \in Paths : writer[p] # None => writer[p] \in Setups
  BY DEF TypeOK
<1>b. \A t \in Setups : req[t] # None => req[t].path \in Paths
  BY LaunchAssumption DEF TypeOK
<1>c. \A t \in Setups : pc[t] \in {"asked", "done"} \union Writing => req[t] # None
  BY DEF TypeOK
<1>d. \A a, b \in Setups : {a, b} = {b, a}
  OBVIOUS
<1>0. ASSUME UNCHANGED <<files, writer, mixed, req>>, \A s \in Setups : pc'[s] = pc[s]
      PROVE  MixedInv' /\ WriterInv' /\ MeetInv' /\ OwnInv'
  <2>1. /\ \A s \in Setups : Unmixed(s)' = Unmixed(s) /\ Rendered(s)' = Rendered(s)
        /\ \A s, t \in Setups : Overwrites(t, s)' = Overwrites(t, s)
    BY <1>0 DEF Unmixed, Rendered, PlaintextOf, Overwrites
  <2>2. MixedInv'
    BY <1>0 DEF MixedInv
  <2>3. WriterInv'
    BY <1>0, <1>a, <2>1 DEF WriterInv
  <2>4. MeetInv'
    BY <1>0 DEF MeetInv
  <2>5. OwnInv'
    BY <1>0, <2>1, Zenon DEF OwnInv
  <2> QED BY <2>2, <2>3, <2>4, <2>5
<1>1. CASE UNCHANGED vars
  BY <1>0, <1>1 DEF vars
<1>2. ASSUME NEW d \in Daemons, DaemonStep(d)
      PROVE  MixedInv' /\ WriterInv' /\ MeetInv' /\ OwnInv'
  <2>1. UNCHANGED <<files, writer, mixed, req>> /\ \A s \in Setups : pc'[s] = pc[s]
    BY <1>2, DaemonsMove, LaunchAssumption DEF setupVars
  <2> QED BY <1>0, <2>1
<1>3. ASSUME NEW s \in Setups, SetupStep(s)
      PROVE  MixedInv' /\ WriterInv' /\ MeetInv' /\ OwnInv'
  <2>1. \A t \in Setups : t # s => pc'[t] = pc[t]
    BY <1>3, SetupsMove
  <2>2. ASSUME pc[s] \in {"new", "asked"}
        PROVE  /\ \A a, b \in Setups : {a, b} \in mixed => a # s /\ b # s
               /\ \A p \in Paths : writer[p] # s
               /\ \A a \in Setups : ~Overwrites(s, a)
    <3>1. \A a, b \in Setups : {a, b} \in mixed => a # s
      BY <2>2 DEF MixedInv
    <3>2. \A a, b \in Setups : {a, b} \in mixed => b # s
      BY <1>d, <3>1
    <3>3. \A p \in Paths : writer[p] # s
      BY <2>2, LaunchAssumption, Zenon DEF WriterInv
    <3>4. \A a \in Setups : ~Overwrites(s, a)
      BY <2>2 DEF Overwrites
    <3> QED BY <3>1, <3>2, <3>3, <3>4
  <2>3. CASE Aside(s)
    <3>0. /\ pc[s] \in {"new", "asked"} /\ pc'[s] \in {"gone", "asked"}
          /\ \A t \in Setups : t # s => req'[t] = req[t]
          /\ UNCHANGED <<files, mixed, writer>>
      BY <2>3 DEF Aside
    <3>1. /\ \A t \in Setups : Unmixed(t)' = Unmixed(t)
          /\ \A t \in Setups : t # s => Rendered(t)' = Rendered(t)
          /\ \A a, b \in Setups \ {s} : Overwrites(a, b) => Overwrites(a, b)'
      <4>1. \A t \in Setups : Unmixed(t)' = Unmixed(t)
        BY <3>0 DEF Unmixed
      <4>2. \A t \in Setups : t # s => Rendered(t)' = Rendered(t)
        BY <3>0 DEF Rendered, PlaintextOf
      <4>3. \A a, b \in Setups \ {s} : Overwrites(a, b) => Overwrites(a, b)'
        BY <2>1, <3>0 DEF Overwrites
      <4> QED BY <4>1, <4>2, <4>3
    <3>2. MixedInv'
      BY <2>1, <2>2, <3>0 DEF MixedInv
    <3>3. WriterInv'
      BY <1>a, <2>1, <2>2, <3>0, <3>1, Zenon DEF WriterInv
    <3>4. MeetInv'
      BY <2>1, <3>0, Zenon DEF MeetInv, Writing
    <3>5. ASSUME NEW a \in Setups
          PROVE  /\ pc'[a] \in {"emptied", "done"} => writer'[req'[a].path] # None
                 /\ pc'[a] = "emptied" /\ Unmixed(a)' => files'[req'[a].path] = <<EmptyTable>>
                 /\ pc'[a] = "done" => \/ files'[req'[a].path] = <<Rendered(a)'>>
                                       \/ \E t \in Setups \ {a} : Overwrites(t, a)'
      <4>1. CASE a = s
        BY <3>0, <4>1, Zenon
      <4>2. CASE a # s
        <5>1. pc'[a] = pc[a] /\ req'[a] = req[a] /\ Rendered(a)' = Rendered(a)
          BY <2>1, <3>0, <3>1, <4>2, Zenon
        <5>2. \A t \in Setups \ {a} : Overwrites(t, a) => Overwrites(t, a)'
          BY <2>2, <3>0, <3>1, <4>2, Zenon
        <5> QED BY <3>0, <3>1, <5>1, <5>2, Zenon DEF OwnInv
      <4> QED BY <4>1, <4>2, Zenon
    <3>6. OwnInv'
      BY <3>5, Zenon DEF OwnInv
    <3> QED BY <3>2, <3>3, <3>4, <3>6
  <2>4. CASE Decides(s)
    <3>0. /\ pc[s] = "asked" /\ pc'[s] = "fresh"
          /\ files[req[s].path] = <<>> \/ req[s].force
          /\ mixed' = mixed \union {{s, t} : t \in WritingTo(req[s].path)}
          /\ UNCHANGED <<files, req, writer>>
      BY <2>4 DEF Decides
    <3>1. /\ \A t \in Setups : (Unmixed(t)' => Unmixed(t)) /\ Rendered(t)' = Rendered(t)
          /\ \A a, b \in Setups \ {s} : Overwrites(a, b) => Overwrites(a, b)'
      BY <2>1, <3>0, Zenon DEF Unmixed, Rendered, PlaintextOf, Overwrites
    <3>2. MixedInv'
      <4> SUFFICES ASSUME NEW a \in Setups, NEW b \in Setups, {a, b} \in mixed'
                   PROVE  /\ a # b /\ pc'[a] \notin {"new", "asked"} /\ req'[a] # None
                          /\ req'[a].path = req'[b].path
        BY DEF MixedInv
      <4>1. CASE {a, b} \in mixed
        <5>1. a # s
          BY <2>2, <3>0, <4>1, Zenon
        <5> QED BY <2>1, <3>0, <4>1, <5>1 DEF MixedInv
      <4>2. CASE \E t \in WritingTo(req[s].path) : {a, b} = {s, t}
        <5> PICK t \in WritingTo(req[s].path) : {a, b} = {s, t}
          BY <4>2
        <5>1. t \in Setups /\ pc[t] \in Writing /\ req[t].path = req[s].path
          BY DEF WritingTo, Writing
        <5>2. t # s /\ pc'[t] = pc[t]
          BY <2>1, <3>0, <5>1 DEF Writing
        <5>3. req[t] # None /\ req[s] # None
          BY <1>c, <3>0, <5>1
        <5>4. (a = s /\ b = t) \/ (a = t /\ b = s)
          BY <5>2, Zenon
        <5> QED BY <3>0, <5>1, <5>2, <5>3, <5>4 DEF Writing
      <4> QED BY <3>0, <4>1, <4>2
    <3>3. WriterInv'
      BY <1>a, <2>1, <2>2, <3>0, <3>1, Zenon DEF WriterInv
    <3>4. MeetInv'
      <4> SUFFICES ASSUME NEW a \in Setups, NEW b \in Setups,
                          a # b, pc'[a] \in Writing \union {"done"}, pc'[b] \in Writing,
                          req[a].path = req[b].path
                   PROVE  {a, b} \in mixed' \/ (pc'[a] = "done" /\ req[b].force)
        BY <3>0, Zenon DEF MeetInv
      <4>1. ASSUME NEW t \in Setups, pc[t] \in Writing, req[t].path = req[s].path
            PROVE  {s, t} \in mixed'
        BY <3>0, <4>1 DEF WritingTo, Writing
      <4>2. ASSUME NEW t \in Setups, pc[t] = "done", req[t].path = req[s].path
            PROVE  req[s].force
        <5>1. req[t].path \in Paths /\ writer[req[t].path] # None
          BY <1>b, <1>c, <4>2 DEF OwnInv
        <5>2. files[req[t].path] # <<>>
          BY <5>1, Zenon DEF WriterInv
        <5> QED BY <3>0, <4>2, <5>2
      <4>3. CASE a = s
        BY <2>1, <4>1, <4>3
      <4>4. CASE b = s
        BY <1>d, <2>1, <4>1, <4>2, <4>4
      <4>5. CASE a # s /\ b # s
        BY <2>1, <3>0, <4>5 DEF MeetInv
      <4> QED BY <4>3, <4>4, <4>5
    <3>5. ASSUME NEW a \in Setups
          PROVE  /\ pc'[a] \in {"emptied", "done"} => writer'[req'[a].path] # None
                 /\ pc'[a] = "emptied" /\ Unmixed(a)' => files'[req'[a].path] = <<EmptyTable>>
                 /\ pc'[a] = "done" => \/ files'[req'[a].path] = <<Rendered(a)'>>
                                       \/ \E t \in Setups \ {a} : Overwrites(t, a)'
      <4>1. CASE a = s
        BY <3>0, <4>1, Zenon
      <4>2. CASE a # s
        <5>1. pc'[a] = pc[a]
          BY <2>1, <4>2
        <5>2. \A t \in Setups \ {a} : Overwrites(t, a) => Overwrites(t, a)'
          BY <2>2, <3>0, <3>1, <4>2, Zenon
        <5> QED BY <3>0, <3>1, <5>1, <5>2, Zenon DEF OwnInv
      <4> QED BY <4>1, <4>2, Zenon
    <3>6. OwnInv'
      BY <3>5, Zenon DEF OwnInv
    <3> QED BY <3>2, <3>3, <3>4, <3>6
  <2>5. CASE GivesUp(s) \/ \E v : Writes(s, v)
    <3>0. pc[s] \in Writing /\ pc'[s] \in {"emptied", "done", "gone"} /\ UNCHANGED <<mixed, req>>
      BY <2>5, Zenon DEF GivesUp, Writes
    <3>1. /\ \A t \in Setups : Unmixed(t)' = Unmixed(t) /\ Rendered(t)' = Rendered(t)
          /\ \A a, b \in Setups : Overwrites(a, b) => Overwrites(a, b)'
      BY <2>1, <3>0, Zenon DEF Unmixed, Rendered, PlaintextOf, Overwrites
    <3>2. MixedInv'
      BY <2>1, <3>0 DEF MixedInv
    <3>3. MeetInv'
      BY <2>1, <3>0 DEF MeetInv, Writing
    <3>4. CASE GivesUp(s)
      <4>1. pc'[s] = "gone" /\ UNCHANGED <<files, writer>>
        BY <3>4 DEF GivesUp
      <4>2. WriterInv'
        BY <1>a, <2>1, <3>0, <3>1, <4>1, Zenon DEF WriterInv
      <4>3. OwnInv'
        BY <2>1, <3>0, <3>1, <4>1, Zenon DEF OwnInv
      <4> QED BY <3>2, <3>3, <4>2, <4>3
    <3>5. ASSUME NEW v, Writes(s, v) PROVE WriterInv' /\ OwnInv'
      <4>1. /\ v # <<>> /\ files'[req[s].path] = v /\ writer'[req[s].path] = s
            /\ \A p \in Paths : p # req[s].path => files'[p] = files[p] /\ writer'[p] = writer[p]
            /\ \/ pc'[s] = "emptied" /\ v = <<EmptyTable>>
               \/ pc'[s] = "done" /\ (Unmixed(s) => v = <<Rendered(s)>>)
        BY <3>5, Zenon DEF Writes
      <4>2. s # None /\ req[s] # None /\ req[s].path \in Paths
        BY <1>b, <1>c, <3>0, LaunchAssumption, Zenon
      <4>3. WriterInv'
        <5> SUFFICES ASSUME NEW p \in Paths, writer'[p] # None
                     PROVE /\ files'[p] # <<>>
                           /\ pc'[writer'[p]] \in {"emptied", "done", "gone"}
                           /\ req'[writer'[p]] # None
                           /\ Unmixed(writer[p])' =>
                                files'[p] \in {<<EmptyTable>>, <<Rendered(writer[p])'>>}
          BY Zenon DEF WriterInv
        <5>1. /\ Unmixed(writer[p])' = Unmixed(writer'[p])
              /\ Rendered(writer[p])' = Rendered(writer'[p])
          BY <3>0, Zenon DEF Unmixed, Rendered, PlaintextOf
        <5>2. CASE p = req[s].path
          BY <3>0, <4>1, <4>2, <5>1, <5>2, Zenon
        <5>3. CASE p # req[s].path
          <6>1. writer'[p] = writer[p] /\ files'[p] = files[p] /\ writer[p] \in Setups
            BY <1>a, <4>1, <5>3, Zenon
          <6>2. pc'[writer[p]] \in {"emptied", "done", "gone"}
            BY <2>1, <3>0, <6>1, Zenon DEF WriterInv
          <6> QED BY <3>0, <5>1, <6>1, <6>2, Zenon DEF WriterInv
        <5> QED BY <5>2, <5>3
      <4>4. ASSUME NEW a \in Setups
            PROVE  /\ pc'[a] \in {"emptied", "done"} => writer'[req'[a].path] # None
                   /\ pc'[a] = "emptied" /\ Unmixed(a)' => files'[req'[a].path] = <<EmptyTable>>
                   /\ pc'[a] = "done" => \/ files'[req'[a].path] = <<Rendered(a)'>>
                                         \/ \E t \in Setups \ {a} : Overwrites(t, a)'
        <5>1. CASE a = s
          <6>1. CASE Unmixed(s)
            BY <3>0, <3>1, <4>1, <4>2, <5>1, <6>1, Zenon
          <6>2. CASE ~Unmixed(s)
            <7> PICK t \in Setups : {t, s} \in mixed
              BY <6>2 DEF Unmixed
            <7>0. {s, t} = {t, s}
              OBVIOUS
            <7>1. /\ t # s /\ pc[t] \notin {"new", "asked"} /\ req[t] # None
                  /\ req[t].path = req[s].path
              BY DEF MixedInv
            <7>2. Overwrites(t, s)
              BY <7>0, <7>1 DEF Overwrites
            <7>3. Overwrites(t, s)' /\ t \in Setups \ {s}
              BY <3>1, <7>1, <7>2, Zenon
            <7> QED BY <3>0, <3>1, <4>1, <4>2, <5>1, <6>2, <7>3, Zenon
          <6> QED BY <6>1, <6>2, Zenon
        <5>2. CASE a # s /\ req[a].path = req[s].path
          <6>1. pc'[a] = pc[a] /\ req'[a] = req[a]
            BY <2>1, <3>0, <5>2, Zenon
          <6>2. ASSUME pc[a] \in {"emptied", "done"}
                PROVE  {a, s} \in mixed \/ (pc[a] = "done" /\ req[s].force)
            BY <3>0, <5>2, <6>2 DEF MeetInv, Writing
          <6>3. ASSUME pc[a] = "emptied" PROVE ~Unmixed(a)
            BY <1>d, <6>2, <6>3 DEF Unmixed
          <6>4. ASSUME pc[a] = "done" PROVE Overwrites(s, a)'
            <7>1. Overwrites(s, a)
              BY <3>0, <4>2, <5>2, <6>2, <6>4 DEF Overwrites, Writing
            <7> QED BY <3>1, <7>1
          <6> QED BY <3>1, <4>1, <4>2, <5>2, <6>1, <6>3, <6>4, Zenon
        <5>3. CASE a # s /\ req[a].path # req[s].path
          <6>1. pc'[a] = pc[a] /\ req'[a] = req[a]
            BY <2>1, <3>0, <5>3
          <6>2. ASSUME pc[a] \in {"emptied", "done"}
                PROVE  /\ files'[req[a].path] = files[req[a].path]
                       /\ writer'[req[a].path] = writer[req[a].path]
            BY <1>b, <1>c, <4>1, <5>3, <6>2, Zenon DEF Writing
          <6> QED BY <3>1, <6>1, <6>2, Zenon DEF OwnInv
        <5> QED BY <5>1, <5>2, <5>3, Zenon
      <4>5. OwnInv'
        BY <4>4, Zenon DEF OwnInv
      <4> QED BY <4>3, <4>5
    <3> QED BY <2>5, <3>2, <3>3, <3>4, <3>5
  <2> QED BY <1>3, <2>3, <2>4, <2>5, SetupKinds
<1> QED BY <1>1, <1>2, <1>3 DEF Next, DaemonStep, SetupStep

(***************************************************************************)
(* The daemons that have read a configuration.                             *)
(***************************************************************************)
\* What a step keeps of a setup that has begun to write.
SetupKept(w) ==
    /\ req'[w] = req[w] /\ pc'[w] \in {"emptied", "done", "gone"}
    /\ Unmixed(w)' => Unmixed(w)

\* Every step keeps it.
LEMMA SetupsKept ==
  ASSUME TypeOK, [Next]_vars, NEW w \in Setups, pc[w] \in {"emptied", "done", "gone"}
  PROVE  SetupKept(w)
<1>1. CASE UNCHANGED vars
  BY <1>1 DEF vars, SetupKept, Unmixed
<1>2. ASSUME NEW d \in Daemons, DaemonStep(d) PROVE SetupKept(w)
  BY <1>2, DaemonsMove, LaunchAssumption, Zenon DEF setupVars, SetupKept, Unmixed
<1>3. ASSUME NEW s \in Setups, SetupStep(s) PROVE SetupKept(w)
  <2>1. mixed \subseteq mixed'
    BY <1>3, Zenon DEF SetupStep, CollectAnswers, SetupRun, SetupTruncate, SetupWrite
  <2>2. Unmixed(w)' => Unmixed(w)
    BY <2>1 DEF Unmixed
  <2>3. CASE s # w
    <3>1. pc'[w] = pc[w]
      BY <1>3, <2>3, SetupsMove
    <3>2. req'[w] = req[w]
      BY <1>3, <2>3, Zenon DEF TypeOK, SetupStep, CollectAnswers, SetupRun, SetupTruncate, SetupWrite
    <3> QED BY <2>2, <3>1, <3>2 DEF SetupKept
  <2>4. CASE s = w
    <3>1. SetupWrite(w)
      BY <1>3, <2>4, Zenon DEF SetupStep, CollectAnswers, SetupRun, SetupTruncate
    <3>2. /\ UNCHANGED req
          /\ pc' = [pc EXCEPT ![w] = "done"] \/ pc' = [pc EXCEPT ![w] = "gone"]
      BY <3>1, Zenon DEF SetupWrite
    <3>3. pc'[w] \in {"done", "gone"}
      BY <3>2 DEF TypeOK
    <3> QED BY <2>2, <3>2, <3>3 DEF SetupKept
  <2> QED BY <2>3, <2>4
<1> QED BY <1>1, <1>2, <1>3 DEF Next, DaemonStep, SetupStep

\* The conclusion of RunInv for one daemon.
Faithful(d) ==
    LET w == running[d].by
    IN  /\ w \in Setups /\ req[w] # None
        /\ pc[w] \in {"emptied", "done", "gone"}
        /\ Unmixed(w) =>
             IF pc[d] = "stores"
             THEN /\ running[d].config = FromStr(Rendered(w))
                  /\ running[d].config # None
             ELSE AsEntered(running[d], w)

\* A daemon that did not move runs what it ran, whatever setups do meanwhile.
LEMMA FaithfulStays ==
  ASSUME TypeOK, [Next]_vars, NEW d \in Daemons, Faithful(d),
         running'[d] = running[d], (pc'[d] = "stores") = (pc[d] = "stores")
  PROVE  Faithful(d)'
<1> DEFINE w == running[d].by
<1>1. w \in Setups /\ req[w] # None /\ pc[w] \in {"emptied", "done", "gone"}
  BY Zenon DEF Faithful
<1>2. SetupKept(w)
  <2> HIDE DEF w
  <2> QED BY <1>1, SetupsKept
<1>4. CASE pc[d] = "stores"
  <2>1. Rendered(w)' = Rendered(w)
    BY <1>2, Zenon DEF Rendered, PlaintextOf, SetupKept
  <2>2. Unmixed(w)' => running[d].config = FromStr(Rendered(w)) /\ running[d].config # None
    BY <1>2, <1>4, Zenon DEF Faithful, SetupKept
  <2> QED BY <1>1, <1>2, <1>4, <2>1, <2>2, Zenon DEF Faithful, SetupKept
<1>5. CASE pc[d] # "stores"
  <2>1. Unmixed(w)' => AsEntered(running[d], w)
    BY <1>2, <1>5, Zenon DEF Faithful, SetupKept
  <2>2. AsEntered(running[d], w)' = AsEntered(running[d], w)
    BY <1>2, Zenon DEF AsEntered, SetupKept
  <2> QED BY <1>1, <1>2, <1>5, <2>1, <2>2, Zenon DEF Faithful, SetupKept, AsEntered
<1> QED BY <1>4, <1>5, Zenon

\* A database path alone, with the snapshot hours the wizard writes, gives all
\* three stores.
LEMMA StoresOfWizard ==
  ASSUME NEW c, c.storage.history_snapshot_hours = 24
  PROVE  Stores(c) = IF c.top.database_path = <<>> THEN {}
                     ELSE {"devices", "alerts", "history"}
<1>1. c.storage.history_snapshot_hours > 0
  OBVIOUS
<1> QED BY <1>1, Zenon DEF Stores, Persists

\* The fan-out task runs when some notifier could be built.
LEMMA FanoutTask ==
  ASSUME NEW c, NEW made
  PROVE  ("fanout" \in Tasks(c, made)) = (made # {})
<1>1. ASSUME made # {} PROVE "fanout" \in Tasks(c, made)
  BY <1>1, Zenon DEF Tasks
<1>2. ASSUME made = {} PROVE "fanout" \notin Tasks(c, made)
  BY <1>2, Zenon DEF Tasks
<1> QED BY <1>1, <1>2

\* daemon::run starts what was entered.
LEMMA StartedAsEntered ==
  ASSUME Induction, TypeOK, NEW s \in Setups, req[s] # None,
         NEW c, c = FromStr(Rendered(s)), c # None,
         NEW broken, NEW made, made = (DOMAIN c \cap NotifierKinds) \ broken,
         NEW r, r = [top |-> c.top, stores |-> Stores(c),
                     rules |-> RulesInForce(c), broken |-> broken,
                     notifiers |-> Restrict(c, made), tasks |-> Tasks(c, made),
                     read_key_hash |-> IF "auth" \in DOMAIN c
                                       THEN c.auth.read_key_hash ELSE None,
                     by |-> s]
  PROVE  AsEntered(r, s)
<1> DEFINE i == CollectInputs(req[s])
           key == PlaintextOf(s)
<1>1. req[s] \in Requests /\ i # None
  BY DEF TypeOK
<1>2. IsRequest(req[s]) /\ KeyOf[s] # None
  BY <1>1, LaunchAssumption, Zenon
<1>3. /\ IsTable(i.top) /\ {"interface", "database_path"} \subseteq DOMAIN i.top
      /\ IsNotifiers(i.notifiers)
  BY <1>1, <1>2, InputsType, Zenon
<1>4. key = IF i.generate_api_key THEN KeyOf[s] ELSE None
  BY Zenon DEF PlaintextOf
<1>5. c = FromStr(render_toml(i, key))
  BY Zenon DEF Rendered
<1> HIDE DEF i, key
<1>6. /\ \A k \in DOMAIN i.top : c.top[k] = i.top[k]
      /\ c.storage.history_snapshot_hours = 24
      /\ RulesInForce(c) = <<DefaultRule>>
      /\ DOMAIN c \cap NotifierKinds = DOMAIN i.notifiers
      /\ "auth" \in DOMAIN c <=> key # None
      /\ key # None => c.auth.read_key_hash = sha256_hex(key)
      /\ \A n \in DOMAIN i.notifiers : SameNotifier(n, i.notifiers[n], c[n])
  BY <1>3, <1>5, LoadedAsEntered, Zenon
<1>7. Stores(c) = IF i.top.database_path = <<>> THEN {} ELSE {"devices", "alerts", "history"}
  <2>1. c.top["database_path"] = i.top["database_path"]
    BY <1>3, <1>6, Zenon
  <2> QED BY <1>6, <2>1, StoresOfWizard, Zenon
<1>8. /\ made = DOMAIN i.notifiers \ broken
      /\ DOMAIN Restrict(c, made) = made
      /\ \A n \in made : Restrict(c, made)[n] = c[n]
  <2>1. made = DOMAIN i.notifiers \ broken
    BY <1>6, Zenon
  <2>2. DOMAIN Restrict(c, made) = made /\ \A n \in made : Restrict(c, made)[n] = c[n]
    BY Zenon DEF Restrict
  <2> QED BY <2>1, <2>2, Zenon
<1>9. ("fanout" \in Tasks(c, made)) = (made # {})
  BY FanoutTask, Zenon
<1>10. (IF "auth" \in DOMAIN c THEN c.auth.read_key_hash ELSE None)
         = IF i.generate_api_key THEN sha256_hex(KeyOf[s]) ELSE None
  BY <1>2, <1>4, <1>6, Zenon
<1>11. \A n \in made : SameNotifier(n, i.notifiers[n], Restrict(c, made)[n])
  BY <1>6, <1>8, Zenon
<1> QED BY <1>6, <1>7, <1>8, <1>9, <1>10, <1>11, Zenon DEF AsEntered, i

\* A file that was truncated and not filled is refused: the interface is missing.
LEMMA TruncatedRefused == FromStr(EmptyTable) = None
<1>1. "top" \in Present(EmptyTable) /\ TableOf(EmptyTable, "top") = EmptyTable
  <2>1. "top" \in Present(EmptyTable)
    BY DEF Present, Always
  <2>2. "top" \notin DOMAIN EmptyTable
    BY DEF EmptyTable
  <2> QED BY <2>1, <2>2 DEF TableOf
<1>2. "interface" \in Sections["top"].required /\ "interface" \notin DOMAIN EmptyTable
  <2>1. Sections["top"] = Config
    BY DEF Sections
  <2>2. "interface" \in Config.required
    BY DEF Config
  <2>3. DOMAIN EmptyTable = {}
    BY DEF EmptyTable
  <2> QED BY <2>1, <2>2, <2>3
<1>3. ~Parses(EmptyTable, Sections["top"])
  BY <1>2 DEF Parses
<1>4. ~WellFormed(EmptyTable)
  BY <1>1, <1>3 DEF WellFormed
<1> QED BY <1>4 DEF FromStr

\* Each action keeps RunInv: a file that one setup wrote alone is either
\* empty, and refused, or read back as it was entered.
LEMMA RunStep == Induction /\ LaunchInv /\ [Next]_vars => RunInv'
<1> SUFFICES ASSUME Induction, TypeOK, FilesInv, RunInv, [Next]_vars, NEW d \in Daemons,
                    pc'[d] \in {"stores", "capture", "run"}, running'[d].by # None
             PROVE  Faithful(d)'
  BY Zenon DEF LaunchInv, RunInv, Faithful
<1>1. pc[d] \in {"stores", "capture", "run"} /\ running[d].by # None => Faithful(d)
  BY Zenon DEF RunInv, Faithful
<1>2. ASSUME pc'[d] = pc[d], running'[d] = running[d] PROVE Faithful(d)'
  BY <1>1, <1>2, FaithfulStays, Zenon
<1>3. CASE UNCHANGED vars
  BY <1>2, <1>3, Zenon DEF vars
<1>4. ASSUME NEW s \in Setups, SetupStep(s) PROVE Faithful(d)'
  BY <1>2, <1>4, SetupsMove, LaunchAssumption, Zenon DEF daemonVars
<1>5. ASSUME NEW e \in Daemons, DaemonStep(e) PROVE Faithful(d)'
  <2>0. UNCHANGED <<files, req, mixed, writer>> /\ \A s \in Setups : pc'[s] = pc[s]
    BY <1>5, DaemonsMove, LaunchAssumption DEF setupVars
  <2>1. CASE d # e
    <3>1. pc'[d] = pc[d]
      BY <1>5, <2>1, DaemonsMove
    <3>2. running'[d] = running[d]
      <4>1. running = [x \in Daemons |-> running[x]]
        BY DEF TypeOK
      <4>2. UNCHANGED running \/ \E v : running' = [running EXCEPT ![e] = v]
        BY <1>5, Zenon DEF DaemonStep, ReadPidFile, CheckPid, TruncatePid, WritePid, LoadConfig,
             StartTasks, StartCapture, Shutdown, ReleasePid, Exit, Kill, PidUsedAgain
      <4> QED BY <2>1, <4>1, <4>2
    <3> QED BY <1>2, <3>1, <3>2
  <2>2. CASE d = e
    <3> DEFINE Labels == {"check", "gone", "truncate", "write", "load", "release", "exit",
                          "killed", "other"}
    <3>0. /\ pc \in [Daemons \union Setups -> {pc[x] : x \in Daemons \union Setups}]
          /\ running = [x \in Daemons |-> running[x]]
      BY DEF TypeOK
    <3>1. ASSUME NEW l \in Labels, pc' = [pc EXCEPT ![d] = l] PROVE FALSE
      BY <3>0, <3>1
    <3>2. CASE ReadPidFile(d) \/ CheckPid(d) \/ TruncatePid(d) \/ WritePid(d)
      <4>1. \E l \in Labels : pc' = [pc EXCEPT ![d] = l]
        BY <3>2, Zenon DEF ReadPidFile, CheckPid, TruncatePid, WritePid
      <4> QED BY <3>1, <4>1, Zenon
    <3>3. CASE Shutdown(d) \/ ReleasePid(d) \/ Exit(d) \/ Kill(d) \/ PidUsedAgain(d)
      <4>1. \E l \in Labels : pc' = [pc EXCEPT ![d] = l]
        BY <3>3, Zenon DEF Shutdown, ReleasePid, Exit, Kill, PidUsedAgain
      <4> QED BY <3>1, <4>1, Zenon
    <3>4. CASE StartCapture(d)
      <4>1. pc[d] = "capture"
        BY <3>4 DEF StartCapture
      <4>2. UNCHANGED running /\ pc'[d] = "run"
        <5>1. CASE pc' = [pc EXCEPT ![d] = "run"] /\ UNCHANGED running
          BY <3>0, <5>1
        <5>2. CASE pc' = [pc EXCEPT ![d] = "release"]
          BY <3>1, <5>2
        <5> QED BY <3>4, <5>1, <5>2 DEF StartCapture
      <4> QED BY <1>1, <4>1, <4>2, FaithfulStays, Zenon
    <3>5. CASE LoadConfig(d)
      <4> DEFINE p == Head(tries[d])
                 c == FromFile(p)
      <4>1. pc[d] = "load" /\ p \in Paths
        <5>1. tries[d] \in Seq(Paths) /\ tries[d] # <<>> /\ pc[d] = "load"
          BY <3>5 DEF LoadConfig, TypeOK
        <5> QED BY <5>1, SeqTail
      <4>2. CASE c = None
        <5>1. pc' = [pc EXCEPT ![d] = IF Len(tries[d]) = 1 THEN "gone" ELSE @]
          BY <3>5, <4>2, Zenon DEF LoadConfig
        <5>2. pc'[d] \in {"gone", "load"}
          BY <3>0, <4>1, <5>1
        <5> QED BY <5>2
      <4>3. CASE c # None
        <5>1. /\ running' = [running EXCEPT ![d] = [config |-> c, by |-> writer[p]]]
              /\ pc' = [pc EXCEPT ![d] = "stores"]
          BY <3>5, <4>3, Zenon DEF LoadConfig
        <5>2. pc'[d] = "stores" /\ running'[d] = [config |-> c, by |-> writer[p]]
          BY <3>0, <5>1
        <5> PICK w : w = writer[p]
          OBVIOUS
        <5>3. w # None /\ running'[d].by = w /\ running'[d].config = c
          <6> HIDE DEF p, c
          <6> QED BY <5>2
        <5>4. /\ w \in Setups /\ req[w] # None /\ pc[w] \in {"emptied", "done", "gone"}
              /\ files[p] # <<>>
              /\ Unmixed(w) => files[p] \in {<<EmptyTable>>, <<Rendered(w)>>}
          BY <4>1, <5>3 DEF FilesInv, WriterInv, TypeOK
        <5> HIDE DEF p
        <5>5. c = FromStr(files[p][1])
          BY <5>4, Zenon DEF FromFile
        <5>6. FromStr(EmptyTable) = None
          BY TruncatedRefused, Zenon
        <5>7. Unmixed(w) => c = FromStr(Rendered(w))
          <6>1. \A x : <<x>>[1] = x
            OBVIOUS
          <6> HIDE DEF c
          <6> QED BY <4>3, <5>4, <5>5, <5>6, <6>1, Zenon
        <5>8. /\ Unmixed(w)' = Unmixed(w) /\ Rendered(w)' = Rendered(w)
              /\ req'[w] = req[w] /\ pc'[w] = pc[w]
          BY <2>0, <5>4, Zenon DEF Unmixed, Rendered, PlaintextOf
        <5> PICK f : f = c
          OBVIOUS
        <5> HIDE DEF c
        <5>9. running'[d].config = f /\ f # None /\ (Unmixed(w) => f = FromStr(Rendered(w)))
          BY <4>3, <5>3, <5>7, Zenon
        <5> QED BY <5>2, <5>3, <5>4, <5>8, <5>9, Zenon DEF Faithful
      <4> QED BY <4>2, <4>3
    <3>6. CASE StartTasks(d)
      <4> PICK c, w : c = running[d].config /\ w = running[d].by
        OBVIOUS
      <4>1. pc[d] = "stores"
        BY <3>6, Zenon DEF StartTasks
      <4>2. CASE pc' = [pc EXCEPT ![d] = "release"]
        BY <3>1, <4>2
      <4>3. ASSUME NEW broken,
                   pc' = [pc EXCEPT ![d] = "capture"],
                   running' = [running EXCEPT ![d] =
                          [top |-> c.top, stores |-> Stores(c),
                           rules |-> RulesInForce(c), broken |-> broken,
                           notifiers |-> Restrict(c, (DOMAIN c \cap NotifierKinds) \ broken),
                           tasks |-> Tasks(c, (DOMAIN c \cap NotifierKinds) \ broken),
                           read_key_hash |-> IF "auth" \in DOMAIN c
                                             THEN c.auth.read_key_hash ELSE None,
                           by |-> @.by]]
            PROVE  Faithful(d)'
        <5> PICK r : r = running'[d]
          OBVIOUS
        <5>1. pc'[d] = "capture"
          BY <3>0, <4>3, Zenon
        <5>0. running[d].by = w /\ \A v : [running EXCEPT ![d] = v][d] = v
          BY <3>0
        <5> PICK v : v = [top |-> c.top, stores |-> Stores(c),
                   rules |-> RulesInForce(c), broken |-> broken,
                   notifiers |-> Restrict(c, (DOMAIN c \cap NotifierKinds) \ broken),
                   tasks |-> Tasks(c, (DOMAIN c \cap NotifierKinds) \ broken),
                   read_key_hash |-> IF "auth" \in DOMAIN c
                                     THEN c.auth.read_key_hash ELSE None,
                   by |-> w]
          BY Zenon
        <5>9. running' = [running EXCEPT ![d] = v]
          BY <4>3, <5>0, Zenon
        <5>2. r = v
          BY <5>0, <5>9, Zenon
        <5>3. r.by = w
          <6> PICK made : made = (DOMAIN c \cap NotifierKinds) \ broken
            BY Zenon
          <6>1. r = [top |-> c.top, stores |-> Stores(c),
                     rules |-> RulesInForce(c), broken |-> broken,
                     notifiers |-> Restrict(c, made), tasks |-> Tasks(c, made),
                     read_key_hash |-> IF "auth" \in DOMAIN c
                                       THEN c.auth.read_key_hash ELSE None,
                     by |-> w]
            BY <5>2, Zenon
          <6> QED BY ONLY <6>1
        <5>4. Faithful(d)
          BY <1>1, <4>1, <5>3, Zenon
        <5>5. /\ w \in Setups /\ req[w] # None /\ pc[w] \in {"emptied", "done", "gone"}
              /\ Unmixed(w) => c = FromStr(Rendered(w)) /\ c # None
          BY <4>1, <5>4, Zenon DEF Faithful
        <5>6. ASSUME Unmixed(w) PROVE AsEntered(r, w)
          <6> PICK made : made = (DOMAIN c \cap NotifierKinds) \ broken
            BY Zenon
          <6>1. w \in Setups /\ req[w] # None /\ c = FromStr(Rendered(w)) /\ c # None
            BY <5>5, <5>6, Zenon
          <6>2. r = [top |-> c.top, stores |-> Stores(c),
                     rules |-> RulesInForce(c), broken |-> broken,
                     notifiers |-> Restrict(c, made), tasks |-> Tasks(c, made),
                     read_key_hash |-> IF "auth" \in DOMAIN c
                                       THEN c.auth.read_key_hash ELSE None,
                     by |-> w]
            BY <5>2, Zenon
          <6> QED BY <6>1, <6>2, StartedAsEntered, Zenon
        <5>7. /\ Unmixed(w)' = Unmixed(w) /\ req'[w] = req[w] /\ pc'[w] = pc[w]
          BY <2>0, <5>5, Zenon DEF Unmixed
        <5> QED BY <5>1, <5>3, <5>5, <5>6, <5>7, <2>0, Zenon DEF Faithful, AsEntered
      <4> QED BY <3>6, <4>2, <4>3, Zenon DEF StartTasks
    <3> QED BY <1>5, <2>2, <3>2, <3>3, <3>4, <3>5, <3>6, Zenon DEF DaemonStep
  <2> QED BY <2>1, <2>2
<1> QED BY <1>3, <1>4, <1>5, Zenon DEF Next, DaemonStep, SetupStep

\* The invariant holds at the beginning.
LEMMA LaunchInit == Init => LaunchInv
<1> SUFFICES ASSUME Init PROVE LaunchInv
  OBVIOUS
<1>1. TypeOK
  <2>1. \A d \in Daemons \union Setups : pc[d] = "new"
    BY DEF Init
  <2>2. <<>> \in Seq(Paths)
    BY SeqEmpty
  <2> QED BY <2>1, <2>2, Zenon DEF Init, TypeOK, Writing
<1>2. GuardInv
  BY LaunchAssumption, Zenon DEF Init, GuardInv, AtGuard, Owning
<1>3. FilesInv
  BY Zenon DEF Init, FilesInv, MixedInv, WriterInv, MeetInv, OwnInv, Writing
<1>4. RunInv
  BY DEF Init, RunInv
<1> QED BY <1>1, <1>2, <1>3, <1>4 DEF LaunchInv

(***************************************************************************)
(* Induction, from the pigeonhole principle: were m not in S, the          *)
(* successor would be an injection on S below m that misses 0.             *)
(***************************************************************************)
INSTANCE FiniteSetTheorems

\* The principle of induction in the form the lemmas use.
LEMMA SetInduction == Induction
<1> SUFFICES ASSUME NEW S \in SUBSET Nat, 0 \in S, \A n \in S : n + 1 \in S
             PROVE  S = Nat
  BY DEF Induction
<1>1. SUFFICES ASSUME NEW m \in Nat, m \notin S PROVE FALSE
  BY Zenon
<1> DEFINE T == S \cap (0 .. m)
           f == [x \in T |-> x + 1]
<1>2. IsFiniteSet(T)
  <2>1. IsFiniteSet(0 .. m)
    BY FS_Interval
  <2> QED BY <2>1, FS_Intersection, Zenon
<1>3. f \in Injection(T, T)
  BY <1>1 DEF Injection, IsInjective
<1>4. f \in Surjection(T, T)
  <2> HIDE DEF T, f
  <2> QED BY <1>2, <1>3, FS_Injection
<1>5. 0 \in T
  BY <1>1
<1>6. PICK x \in T : f[x] = 0
  <2> HIDE DEF T, f
  <2> QED BY <1>4, <1>5 DEF Surjection
<1> QED
  BY <1>6

\* What holds in every reachable state of the command line's processes.
THEOREM LaunchInvariant == Spec => []LaunchInv
<1>1. LaunchInv /\ [Next]_vars => LaunchInv'
  BY SetInduction, TypeStep, GuardStep, FilesStep, RunStep DEF LaunchInv
<1> QED BY LaunchInit, <1>1, PTL DEF Spec

\* acquire_pid_file keeps a second daemon out unless two of them were between
\* reading the PID file and writing their own PID.
THEOREM SecondKeptOut == Spec => []OneDaemonUnlessRaced
<1>1. LaunchInv => OneDaemonUnlessRaced
  <2> SUFFICES ASSUME GuardInv, ~raced
               PROVE  Cardinality({d \in Daemons : pc[d] = "run"}) <= 1
    BY DEF LaunchInv, OneDaemonUnlessRaced
  <2>1. {d \in Daemons : pc[d] = "run"} \subseteq {pidfile}
    BY DEF GuardInv, Owning
  <2>2. IsFiniteSet({pidfile}) /\ Cardinality({pidfile}) = 1
    BY FS_Singleton, Zenon
  <2> QED BY <2>1, <2>2, FS_Subset
<1> QED BY <1>1, LaunchInvariant, PTL

\* A PID file that names a daemon that has ended comes from a kill or from a
\* daemon that found no configuration.
THEOREM StaleExplained == Spec => []StaleFileExplained
<1>1. LaunchInv => StaleFileExplained
  BY DEF LaunchInv, GuardInv, StaleFileExplained, Owning, Live, AtGuard
<1> QED BY <1>1, LaunchInvariant, PTL

\* The key that setup printed opens the API of a daemon with its file.
THEOREM PrintedKeyValid == Spec => []PrintedKeyOpens
<1>1. LaunchInv => PrintedKeyOpens
  <2> SUFFICES ASSUME FilesInv, NEW s \in Setups, pc[s] = "done",
                      CollectInputs(req[s]).generate_api_key,
                      files[req[s].path] = <<Rendered(s)>>
               PROVE  /\ files[req[s].path] # <<>>
                      /\ TableOf(files[req[s].path][1], "auth")
                           = [read_key_hash |-> sha256_hex(KeyOf[s])]
    BY Zenon DEF LaunchInv, FilesInv, OwnInv, PrintedKeyOpens, Overwrites
  <2> DEFINE i == CollectInputs(req[s])
             hash == sha256_hex(KeyOf[s])
  <2>1. KeyOf[s] # None /\ KeyOf[s] \notin {Backslash, Quote}
    BY LaunchAssumption, Zenon
  <2>2. PlaintextOf(s) = KeyOf[s]
    BY DEF PlaintextOf
  <2>3. TableOf(Rendered(s), "auth") = QuotedTable([read_key_hash |-> hash])
    BY <2>1, <2>2 DEF Rendered, render_toml, TableOf
  <2>4. toml_string(hash) = hash
    BY <2>1, QuotedHash, SetInduction
  <2> HIDE DEF hash
  <2>5. QuotedTable([read_key_hash |-> hash]) = [read_key_hash |-> hash]
    BY <2>4 DEF QuotedTable, Verbatim
  <2>6. files[req[s].path][1] = Rendered(s) /\ files[req[s].path] # <<>>
    OBVIOUS
  <2> QED BY <2>3, <2>5, <2>6, Zenon DEF hash
<1> QED BY <1>1, LaunchInvariant, PTL

\* A daemon that runs from a file the wizard wrote does what was entered,
\* whatever texts were entered.
THEOREM WizardObeyed == Spec => []RunsAsEntered
<1>1. LaunchInv => RunsAsEntered
  BY Zenon DEF LaunchInv, RunInv, RunsAsEntered
<1> QED BY <1>1, LaunchInvariant, PTL
=============================================================================
