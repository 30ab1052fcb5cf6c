---------------------------- MODULE ConfigPageProofs ----------------------------
(***************************************************************************)
(* What is proved of the configuration page, for any users, bundles,       *)
(* groups, order of the directory and bounds.                              *)
(*                                                                         *)
(* First what Kept gives, by induction on the length of the sequence.      *)
(* Then the inductive invariants.  Shown: a warning still stands where it  *)
(* was drawn.  Fresh: unless a change was made of which the page has not   *)
(* heard yet, the newest load reads, has read or has brought what the      *)
(* backend has.  Typed: the types, which rest on what each request is      *)
(* about.  Listed: the list is the directory, filtered.                    *)
(***************************************************************************)
EXTENDS ConfigPage, FiniteSetTheorems, SequenceTheorems, WellFoundedInduction, TLAPS

-----------------------------------------------------------------------------
(* What Kept gives, of any sequence and any set.                           *)

\* A set of numbers that has zero and every member's successor has them all.
LEMMA Induction ==
  ASSUME NEW S, 0 \in S, \A n \in Nat : n \in S => n + 1 \in S
  PROVE  Nat \subseteq S
  <1> DEFINE T == Nat \ S
             R == OpToRel(<, Nat)
  <1> SUFFICES ASSUME T # {} PROVE FALSE OBVIOUS
  <1>1. \E x \in T : \A y \in T : ~ (<<y, x>> \in R)
    <2>1. IsWellFoundedOn(R, Nat) BY NatLessThanWellFounded
    <2>2. T \subseteq Nat OBVIOUS
    <2> HIDE DEF R, T
    <2> QED BY <2>1, <2>2, WFMin
  <1>2. PICK x \in T : \A y \in T : ~ (<<y, x>> \in R) BY <1>1
  <1>3. x - 1 \in Nat /\ x - 1 \notin S
    <2>1. x \in Nat /\ x # 0 OBVIOUS
    <2> QED BY <2>1
  <1>4. <<x - 1, x>> \in R BY <1>2, <1>3 DEF OpToRel
  <1> QED BY <1>2, <1>3, <1>4

\* What is kept of the first n entries, by what is kept of fewer.
KeptOf(s, T, f, n) ==
  IF n = 0 THEN <<>> ELSE IF s[n] \in T THEN Append(f[n - 1], s[n]) ELSE f[n - 1]

KeptUpTo(s, T) == CHOOSE f : f = [n \in 0..Len(s) |-> KeptOf(s, T, f, n)]

LEMMA KeptIsLast == ASSUME NEW s, NEW T PROVE Kept(s, T) = KeptUpTo(s, T)[Len(s)]
  BY DEF Kept, KeptUpTo, KeptOf

\* The recursion defines a function.
LEMMA PrefixesExist ==
  ASSUME NEW s, Len(s) \in Nat, NEW T
  PROVE  \A n \in 0..Len(s) : KeptUpTo(s, T)[n] = KeptOf(s, T, KeptUpTo(s, T), n)
  <1> DEFINE Good(g, m) == g = [n \in 0..m |-> KeptOf(s, T, g, n)]
             S == {m \in Nat : \E g : Good(g, m)}
  <1>1. 0 \in S
    <2> DEFINE g == [n \in 0..0 |-> <<>>]
    <2>1. Good(g, 0) BY DEF KeptOf
    <2> QED BY <2>1
  <1>2. ASSUME NEW m \in Nat, m \in S PROVE m + 1 \in S
    <2>1. PICK g : Good(g, m) BY <1>2
    <2> DEFINE h == [n \in 0..(m + 1) |-> IF n <= m THEN g[n] ELSE KeptOf(s, T, g, m + 1)]
    <2>2. ASSUME NEW n \in 0..(m + 1) PROVE h[n] = KeptOf(s, T, h, n)
      <3>1. h[n] = KeptOf(s, T, g, n)
        <4>1. CASE n <= m BY <2>1, <4>1
        <4>2. CASE n = m + 1 BY <4>2
        <4> QED BY <4>1, <4>2
      <3>2. n # 0 => h[n - 1] = g[n - 1] OBVIOUS
      <3> HIDE DEF h
      <3> QED BY <3>1, <3>2 DEF KeptOf
    <2>3. Good(h, m + 1)
      <3> DEFINE k == [n \in 0..(m + 1) |-> KeptOf(s, T, h, n)]
      <3>1. DOMAIN k = DOMAIN h OBVIOUS
      <3>2. \A n \in 0..(m + 1) : k[n] = h[n] BY <2>2
      <3> QED BY <3>1, <3>2
    <2> HIDE DEF h, Good
    <2> QED BY <2>3
  <1>3. Len(s) \in S
    <2> HIDE DEF S
    <2> QED BY <1>1, <1>2, Induction
  <1> DEFINE F == KeptUpTo(s, T)
  <1>4. F = [n \in 0..Len(s) |-> KeptOf(s, T, F, n)] BY <1>3 DEF KeptUpTo
  <1> HIDE DEF F
  <1>5. \A n \in 0..Len(s) : F[n] = KeptOf(s, T, F, n) BY <1>4
  <1> QED BY <1>5 DEF F

\* F gives what is kept of every prefix of s, each from the one before.
Built(s, S, T, F) ==
  /\ Len(s) \in Nat
  /\ F[0] = <<>>
  /\ \A n \in Nat : n + 1 <= Len(s) =>
       /\ s[n + 1] \in S
       /\ s[n + 1] \in T => F[n + 1] = Append(F[n], s[n + 1])
       /\ s[n + 1] \notin T => F[n + 1] = F[n]

LEMMA PrefixStep ==
  ASSUME NEW S, NEW s \in Seq(S), NEW T
  PROVE  Built(s, S, T, KeptUpTo(s, T))
  <1>1. Len(s) \in Nat OBVIOUS
  <1>2. \A n \in 0..Len(s) : KeptUpTo(s, T)[n] = KeptOf(s, T, KeptUpTo(s, T), n)
    BY <1>1, PrefixesExist
  <1>3. KeptUpTo(s, T)[0] = <<>> BY <1>1, <1>2 DEF KeptOf
  <1>4. ASSUME NEW n \in Nat, n + 1 <= Len(s)
        PROVE  /\ s[n + 1] \in S
               /\ s[n + 1] \in T => KeptUpTo(s, T)[n + 1] = Append(KeptUpTo(s, T)[n], s[n + 1])
               /\ s[n + 1] \notin T => KeptUpTo(s, T)[n + 1] = KeptUpTo(s, T)[n]
    <2>1. n + 1 \in 0..Len(s) /\ n + 1 # 0 /\ (n + 1) - 1 = n BY <1>1, <1>4
    <2>2. KeptUpTo(s, T)[n + 1] = KeptOf(s, T, KeptUpTo(s, T), n + 1) BY <1>2, <2>1
    <2>3. s[n + 1] \in S BY <1>1, <1>4
    <2> QED BY <2>1, <2>2, <2>3 DEF KeptOf
  <1> QED BY <1>1, <1>3, <1>4 DEF Built

\* What is kept is a sequence of entries that are in T, and of each of them.
Gathered(s, S, T, F) ==
  \A n \in Nat : n <= Len(s) => F[n] \in Seq(S) /\ ToSet(F[n]) = {s[k] : k \in 1..n} \cap T

LEMMA PrefixEntries ==
  ASSUME NEW S, NEW s \in Seq(S), NEW T
  PROVE  Gathered(s, S, T, KeptUpTo(s, T))
  <1> DEFINE F == KeptUpTo(s, T)
             Ok(n) == n <= Len(s) => F[n] \in Seq(S) /\ ToSet(F[n]) = {s[k] : k \in 1..n} \cap T
             N == {n \in Nat : Ok(n)}
  <1>0. Built(s, S, T, F) BY PrefixStep
  <1> HIDE DEF F
  <1>1. 0 \in N
    <2>1. ToSet(<<>>) = {} /\ <<>> \in Seq(S) BY DEF ToSet
    <2>2. {s[k] : k \in 1..0} = {} OBVIOUS
    <2> QED BY <1>0, <2>1, <2>2 DEF Built
  <1>2. ASSUME NEW n \in Nat, n \in N PROVE n + 1 \in N
    <2> SUFFICES ASSUME n + 1 <= Len(s) PROVE Ok(n + 1) OBVIOUS
    <2>1. F[n] \in Seq(S) /\ ToSet(F[n]) = {s[k] : k \in 1..n} \cap T BY <1>0, <1>2 DEF Built
    <2>2. {s[k] : k \in 1..(n + 1)} = {s[k] : k \in 1..n} \cup {s[n + 1]} OBVIOUS
    <2>3. CASE s[n + 1] \in T
      <3>1. F[n + 1] = Append(F[n], s[n + 1]) /\ s[n + 1] \in S BY <1>0, <2>3 DEF Built
      <3>2. F[n + 1] \in Seq(S) BY <2>1, <3>1
      <3>3. ToSet(F[n + 1]) = ToSet(F[n]) \cup {s[n + 1]}
        <4>1. /\ DOMAIN F[n] = 1..Len(F[n]) /\ Len(F[n]) \in Nat
              /\ DOMAIN F[n + 1] = 1..(Len(F[n]) + 1)
              /\ \A k \in 1..Len(F[n]) : F[n + 1][k] = F[n][k]
              /\ F[n + 1][Len(F[n]) + 1] = s[n + 1]
          BY <2>1, <3>1
        <4> DEFINE f == F[n]
                   h == F[n + 1]
                   l == Len(F[n])
        <4>2. ToSet(f) = {f[k] : k \in 1..l} /\ ToSet(h) = {h[k] : k \in 1..(l + 1)}
          BY <4>1 DEF ToSet
        <4>3. l \in Nat /\ (\A k \in 1..l : h[k] = f[k]) /\ h[l + 1] = s[n + 1] BY <4>1
        <4> HIDE DEF f, h, l
        <4>4. {h[k] : k \in 1..(l + 1)} = {f[k] : k \in 1..l} \cup {s[n + 1]} BY <4>3
        <4> QED BY <4>2, <4>4 DEF f, h
      <3> QED BY <2>1, <2>2, <2>3, <3>2, <3>3
    <2>4. CASE s[n + 1] \notin T
      BY <1>0, <2>1, <2>2, <2>4 DEF Built
    <2> QED BY <2>3, <2>4
  <1>3. Nat \subseteq N
    <2> HIDE DEF N
    <2> QED BY <1>1, <1>2, Induction
  <1> QED BY <1>3 DEF F, Gathered

\* What is kept depends on T only for the entries of s.
Same(s, T, U, F, G) ==
  \A n \in Nat : n <= Len(s) /\ (\A k \in 1..n : s[k] \in T <=> s[k] \in U) => F[n] = G[n]

LEMMA PrefixSame ==
  ASSUME NEW S, NEW s \in Seq(S), NEW T, NEW U
  PROVE  Same(s, T, U, KeptUpTo(s, T), KeptUpTo(s, U))
  <1> DEFINE F == KeptUpTo(s, T)
             G == KeptUpTo(s, U)
             Ok(n) == n <= Len(s) /\ (\A k \in 1..n : s[k] \in T <=> s[k] \in U) => F[n] = G[n]
             N == {n \in Nat : Ok(n)}
  <1>1. Built(s, S, T, F) BY PrefixStep
  <1>2. Built(s, S, U, G) BY PrefixStep
  <1> HIDE DEF F, G
  <1>3. 0 \in N BY <1>1, <1>2 DEF Built
  <1>4. ASSUME NEW n \in Nat, n \in N PROVE n + 1 \in N
    <2> SUFFICES ASSUME n + 1 <= Len(s), \A k \in 1..(n + 1) : s[k] \in T <=> s[k] \in U
                 PROVE  F[n + 1] = G[n + 1]
      OBVIOUS
    <2>1. F[n] = G[n] BY <1>1, <1>4 DEF Built
    <2>2. s[n + 1] \in T <=> s[n + 1] \in U OBVIOUS
    <2> QED BY <1>1, <1>2, <2>1, <2>2 DEF Built
  <1>5. Nat \subseteq N
    <2> HIDE DEF N
    <2> QED BY <1>3, <1>4, Induction
  <1> QED BY <1>5 DEF F, G, Same

\* An entry more, that is not among the others.
LEMMA AppendedInjective ==
  ASSUME NEW S, NEW s \in Seq(S), IsInjective(s), NEW e \in S, e \notin ToSet(s)
  PROVE  IsInjective(Append(s, e))
  <1>1. /\ DOMAIN s = 1..Len(s) /\ Len(s) \in Nat
        /\ DOMAIN Append(s, e) = 1..(Len(s) + 1)
        /\ \A k \in 1..Len(s) : Append(s, e)[k] = s[k]
        /\ Append(s, e)[Len(s) + 1] = e
    OBVIOUS
  <1>2. \A k \in 1..Len(s) : s[k] # e BY <1>1 DEF ToSet
  <1> DEFINE t == Append(s, e)
  <1> HIDE DEF t
  <1>3. ASSUME NEW a \in 1..(Len(s) + 1), NEW b \in 1..(Len(s) + 1), t[a] = t[b] PROVE a = b
    <2>1. a \in 1..Len(s) \/ a = Len(s) + 1 BY <1>1
    <2>2. b \in 1..Len(s) \/ b = Len(s) + 1 BY <1>1
    <2> QED BY <1>1, <1>2, <1>3, <2>1, <2>2 DEF IsInjective, t
  <1> QED BY <1>1, <1>3 DEF IsInjective, t

\* What is kept of a sequence without repetition has none.
Distinct(s, F) == \A n \in Nat : n <= Len(s) => IsInjective(F[n])

LEMMA PrefixInjective ==
  ASSUME NEW S, NEW s \in Seq(S), IsInjective(s), NEW T
  PROVE  Distinct(s, KeptUpTo(s, T))
  <1> DEFINE F == KeptUpTo(s, T)
             N == {n \in Nat : n <= Len(s) => IsInjective(F[n])}
  <1>1. Built(s, S, T, F) BY PrefixStep
  <1>2. Gathered(s, S, T, F) BY PrefixEntries
  <1> HIDE DEF F
  <1>3. 0 \in N
    <2>1. IsInjective(<<>>) BY DEF IsInjective
    <2> QED BY <1>1, <2>1 DEF Built
  <1>4. ASSUME NEW n \in Nat, n \in N PROVE n + 1 \in N
    <2> SUFFICES ASSUME n + 1 <= Len(s) PROVE IsInjective(F[n + 1]) OBVIOUS
    <2>0. n <= Len(s) BY <1>1 DEF Built
    <2>1. F[n] \in Seq(S) /\ ToSet(F[n]) = {s[k] : k \in 1..n} \cap T /\ IsInjective(F[n])
      <3>1. IsInjective(F[n]) BY <1>4, <2>0
      <3>2. F[n] \in Seq(S) /\ ToSet(F[n]) = {s[k] : k \in 1..n} \cap T
        BY <1>2, <2>0 DEF Gathered
      <3> QED BY <3>1, <3>2
    <2>2. s[n + 1] \notin ToSet(F[n])
      <3>1. DOMAIN s = 1..Len(s) OBVIOUS
      <3>2. \A k \in 1..n : k \in DOMAIN s /\ n + 1 \in DOMAIN s /\ k # n + 1 BY <1>1, <3>1 DEF Built
      <3>3. \A k \in 1..n : s[k] # s[n + 1] BY <3>2 DEF IsInjective
      <3> QED BY <2>1, <3>3
    <2>3. CASE s[n + 1] \in T
      <3>1. F[n + 1] = Append(F[n], s[n + 1]) /\ s[n + 1] \in S BY <1>1, <2>3 DEF Built
      <3> QED BY <2>1, <2>2, <3>1, AppendedInjective
    <2>4. CASE s[n + 1] \notin T BY <1>1, <2>1, <2>4 DEF Built
    <2> QED BY <2>3, <2>4
  <1>5. Nat \subseteq N
    <2> HIDE DEF N
    <2> QED BY <1>3, <1>4, Induction
  <1> QED BY <1>5 DEF F, Distinct

\* What is left when one entry is taken out.
Without(s, S, i, r) ==
  /\ r \in Seq(S)
  /\ Len(r) = Len(s) - 1
  /\ \A j \in 1..i - 1 : r[j] = s[j]
  /\ \A j \in i..Len(s) - 1 : r[j] = s[j + 1]

LEMMA Removed ==
  ASSUME NEW S, NEW s \in Seq(S), NEW i \in DOMAIN s
  PROVE  Without(s, S, i, RemoveAt(s, i))
  <1> DEFINE a == SubSeq(s, 1, i - 1)
             b == SubSeq(s, i + 1, Len(s))
             n == Len(s)
  <1>1. DOMAIN s = 1..n /\ n \in Nat /\ i \in 1..n /\ \A j \in 1..n : s[j] \in S
    BY ElementOfSeq
  <1>2. a \in Seq(S) /\ Len(a) = i - 1 /\ \A j \in 1..i - 1 : a[j] = s[j]
    <2>1. /\ a \in Seq(S) /\ Len(a) = IF 1 <= i - 1 THEN i - 1 - 1 + 1 ELSE 0
          /\ \A j \in 1..(i - 1) - 1 + 1 : a[j] = s[1 + j - 1]
      BY <1>1, SubSeqProperties
    <2> QED BY <1>1, <2>1
  <1>3. b \in Seq(S) /\ Len(b) = n - i /\ \A j \in 1..n - i : b[j] = s[i + j]
    <2>1. i + 1 \in Int /\ Len(s) \in Int /\ \A j \in i + 1..Len(s) : s[j] \in S BY <1>1
    <2>2. /\ b \in Seq(S) /\ Len(b) = IF i + 1 <= Len(s) THEN Len(s) - (i + 1) + 1 ELSE 0
          /\ \A j \in 1..Len(s) - (i + 1) + 1 : b[j] = s[i + 1 + j - 1]
      BY <2>1, SubSeqProperties
    <2>3. n \in Nat /\ i \in 1..n BY <1>1
    <2> HIDE DEF b
    <2>4. Len(b) = n - i BY <2>2, <2>3
    <2>5. ASSUME NEW j \in 1..n - i PROVE b[j] = s[i + j]
      <3>1. j \in 1..Len(s) - (i + 1) + 1 /\ i + 1 + j - 1 = i + j BY <2>3
      <3>2. b[j] = s[i + 1 + j - 1] BY <2>2, <3>1
      <3> QED BY <3>1, <3>2
    <2> QED BY <2>2, <2>4, <2>5
  <1> HIDE DEF a, b
  <1>4. /\ a \o b \in Seq(S) /\ Len(a \o b) = n - 1
        /\ \A j \in 1..n - 1 : (a \o b)[j] = IF j <= i - 1 THEN a[j] ELSE b[j - (i - 1)]
    <2>1. /\ a \o b \in Seq(S)
          /\ Len(a \o b) = Len(a) + Len(b)
          /\ \A j \in 1..Len(a) + Len(b) : (a \o b)[j] =
                IF j <= Len(a) THEN a[j] ELSE b[j - Len(a)]
      BY <1>2, <1>3, ConcatProperties
    <2>2. Len(a) + Len(b) = n - 1 BY <1>1, <1>2, <1>3
    <2> QED BY <1>2, <2>1, <2>2
  <1>5. \A j \in i..n - 1 : (a \o b)[j] = s[j + 1]
    <2> TAKE j \in i..n - 1
    <2>1. (a \o b)[j] = b[j - (i - 1)] BY <1>1, <1>4 DEF Built
    <2>2. j - (i - 1) \in 1..n - i /\ i + (j - (i - 1)) = j + 1 BY <1>1
    <2>3. b[j - (i - 1)] = s[i + (j - (i - 1))] BY <1>3, <2>2
    <2> QED BY <2>1, <2>2, <2>3
  <1>6. \A j \in 1..i - 1 : (a \o b)[j] = s[j] BY <1>1, <1>2, <1>4
  <1>7. RemoveAt(s, i) = a \o b BY DEF RemoveAt, a, b
  <1> QED BY <1>4, <1>5, <1>6, <1>7 DEF Without

\* An entry taken out of a sequence to which one was appended.
LEMMA RemovedAppended ==
  ASSUME NEW S, NEW s \in Seq(S), NEW e \in S, NEW i \in 1..Len(s) + 1
  PROVE  RemoveAt(Append(s, e), i) = IF i <= Len(s) THEN Append(RemoveAt(s, i), e) ELSE s
  <1> DEFINE t == Append(s, e)
             n == Len(s)
  <1>0. n \in Nat /\ i \in Int OBVIOUS
  <1>1. /\ n \in Nat /\ DOMAIN s = 1..n /\ t \in Seq(S) /\ Len(t) = n + 1 /\ DOMAIN t = 1..n + 1
        /\ t[n + 1] = e /\ \A j \in 1..n : t[j] = s[j]
    OBVIOUS
  <1>2. Without(t, S, i, RemoveAt(t, i))
    <2> HIDE DEF t
    <2> QED BY <1>1, Removed
  <1>3. CASE i <= n
    <2> DEFINE r == RemoveAt(s, i)
    <2>0. i \in DOMAIN s BY <1>1, <1>3
    <2>1. Without(s, S, i, r) BY <2>0, Removed
    <2> HIDE DEF r
    <2>2. /\ Append(r, e) \in Seq(S) /\ Len(Append(r, e)) = n
          /\ \A j \in 1..n - 1 : Append(r, e)[j] = r[j]
          /\ Append(r, e)[n] = e
      <3>1. r \in Seq(S) /\ Len(r) = n - 1 BY <2>1 DEF Without
      <3> HIDE DEF n
      <3>2. n - 1 + 1 = n BY <1>1
      <3> QED BY <3>1, <3>2, AppendProperties
    <2> DEFINE a == Append(r, e)
               b == RemoveAt(t, i)
    <2> HIDE DEF a, b, t
    <2>3. \A j \in 1..n : b[j] = a[j]
      <3> TAKE j \in 1..n
      <3>1. CASE j <= i - 1
        <4>1. b[j] = t[j] BY <1>1, <1>2, <3>1 DEF b, Without
        <4>2. a[j] = r[j] BY <1>1, <1>3, <2>2, <3>1 DEF a
        <4> QED BY <1>1, <1>3, <2>1, <3>1, <4>1, <4>2 DEF Without
      <3>2. CASE j >= i /\ j <= n - 1
        <4>1. b[j] = t[j + 1] BY <1>1, <1>2, <3>2 DEF b, Without
        <4>2. a[j] = r[j] BY <1>1, <1>3, <2>2, <3>2 DEF a
        <4>3. t[j + 1] = s[j + 1] BY <1>1, <3>2
        <4> QED BY <1>1, <1>3, <2>1, <3>2, <4>1, <4>2, <4>3 DEF Without
      <3>3. CASE j = n
        <4>1. b[j] = t[j + 1] BY <1>1, <1>2, <1>3, <3>3 DEF b, Without
        <4> QED BY <1>1, <2>2, <3>3, <4>1 DEF a
      <3>4. j <= i - 1 \/ (j >= i /\ j <= n - 1) \/ j = n BY <1>0
      <3> QED BY <3>1, <3>2, <3>3, <3>4
    <2>4. Len(b) = n /\ b \in Seq(S) BY <1>1, <1>2 DEF b, Without
    <2>5. Len(a) = n /\ a \in Seq(S) BY <2>2 DEF a
    <2>6. b = a BY <2>3, <2>4, <2>5, SeqEqual
    <2> QED BY <1>3, <2>6 DEF a, b, r, t
  <1>4. CASE i = n + 1
    <2> DEFINE b == RemoveAt(t, i)
    <2> HIDE DEF b, t
    <2>1. Len(b) = n /\ b \in Seq(S) BY <1>1, <1>2 DEF b, Without
    <2>2. \A j \in 1..n : b[j] = s[j] BY <1>1, <1>2, <1>4 DEF b, Without
    <2>3. b = s BY <2>1, <2>2, SeqEqual
    <2> QED BY <1>1, <1>4, <2>3 DEF b, t
  <1> QED BY <1>1, <1>3, <1>4

\* Taking an entry out of what is kept is keeping one entry less.
TakenOut(s, x, F, G) ==
  \A n \in Nat : n <= Len(s) =>
    \A i \in DOMAIN F[n] : F[n][i] = x => RemoveAt(F[n], i) = G[n]

LEMMA PrefixRemove ==
  ASSUME NEW S, NEW s \in Seq(S), IsInjective(s), NEW T, NEW x \in S
  PROVE  TakenOut(s, x, KeptUpTo(s, T), KeptUpTo(s, T \ {x}))
  <1> DEFINE F == KeptUpTo(s, T)
             G == KeptUpTo(s, T \ {x})
             Ok(n) == \A i \in DOMAIN F[n] : F[n][i] = x => RemoveAt(F[n], i) = G[n]
             N == {n \in Nat : n <= Len(s) => Ok(n)}
  <1>1. Built(s, S, T, F) BY PrefixStep
  <1>2. Built(s, S, T \ {x}, G) BY PrefixStep
  <1>3. Gathered(s, S, T, F) BY PrefixEntries
  <1>4. Same(s, T, T \ {x}, F, G) BY PrefixSame
  <1> HIDE DEF F, G
  <1>5. 0 \in N BY <1>1 DEF Built
  <1>6. ASSUME NEW n \in Nat, n \in N PROVE n + 1 \in N
    <2> SUFFICES ASSUME n + 1 <= Len(s), NEW i \in DOMAIN F[n + 1], F[n + 1][i] = x
                 PROVE  RemoveAt(F[n + 1], i) = G[n + 1]
      OBVIOUS
    <2> DEFINE e == s[n + 1]
    <2>0. n <= Len(s) /\ Len(s) \in Nat /\ e \in S BY <1>1 DEF Built
    <2>1. F[n] \in Seq(S) /\ ToSet(F[n]) = {s[k] : k \in 1..n} \cap T
      BY <1>3, <2>0 DEF Gathered
    <2>2. Ok(n) BY <1>6, <2>0
    <2>3. \A k \in 1..n : s[k] # e
      <3>1. DOMAIN s = 1..Len(s) OBVIOUS
      <3>2. \A k \in 1..n : k \in DOMAIN s /\ n + 1 \in DOMAIN s /\ k # n + 1 BY <2>0, <3>1
      <3> QED BY <3>2 DEF IsInjective
    <2>4. CASE e \notin T
      <3>1. F[n + 1] = F[n] /\ G[n + 1] = G[n] BY <1>1, <1>2, <2>4 DEF Built
      <3> QED BY <2>2, <3>1
    <2>5. CASE e \in T
      <3>1. F[n + 1] = Append(F[n], e) BY <1>1, <2>5 DEF Built
      <3>2. /\ Len(F[n]) \in Nat /\ DOMAIN F[n] = 1..Len(F[n])
            /\ DOMAIN F[n + 1] = 1..Len(F[n]) + 1
            /\ F[n + 1][Len(F[n]) + 1] = e
            /\ \A k \in 1..Len(F[n]) : F[n + 1][k] = F[n][k]
        <4> HIDE DEF e
        <4> QED BY <2>0, <2>1, <3>1
      <3>3. i \in 1..Len(F[n]) + 1 BY <3>2
      <3>4. RemoveAt(F[n + 1], i) = IF i <= Len(F[n]) THEN Append(RemoveAt(F[n], i), e) ELSE F[n]
        <4> DEFINE f == F[n]
        <4>1. f \in Seq(S) /\ i \in 1..Len(f) + 1 /\ e \in S BY <2>0, <2>1, <3>3
        <4> HIDE DEF e, f
        <4>2. RemoveAt(Append(f, e), i) = IF i <= Len(f) THEN Append(RemoveAt(f, i), e) ELSE f
          BY <4>1, RemovedAppended
        <4> QED BY <3>1, <4>2 DEF f
      <3>5. CASE i <= Len(F[n])
        <4>1. i \in DOMAIN F[n] /\ F[n][i] = x BY <3>2, <3>5
        <4>2. x \in ToSet(F[n]) BY <4>1 DEF ToSet
        <4>3. x # e BY <2>1, <2>3, <4>2
        <4>4. G[n + 1] = Append(G[n], e) BY <1>2, <2>5, <4>3 DEF Built
        <4>5. RemoveAt(F[n], i) = G[n] BY <2>2, <4>1
        <4> QED BY <3>4, <3>5, <4>4, <4>5
      <3>6. CASE i = Len(F[n]) + 1
        <4>1. x = e BY <3>2, <3>6
        <4>2. G[n + 1] = G[n] BY <1>2, <4>1 DEF Built
        <4>3. F[n] = G[n] BY <1>4, <2>0, <2>3, <4>1 DEF Same
        <4> QED BY <3>2, <3>4, <3>6, <4>2, <4>3
      <3> QED BY <3>2, <3>3, <3>5, <3>6
    <2> QED BY <2>4, <2>5
  <1>7. Nat \subseteq N
    <2> HIDE DEF N
    <2> QED BY <1>5, <1>6, Induction
  <1> QED BY <1>7 DEF F, G, TakenOut

-----------------------------------------------------------------------------
\* Kept keeps the entries that are in T, and no others.
LEMMA KeptEntries ==
  ASSUME NEW S, NEW s \in Seq(S), NEW T
  PROVE  Kept(s, T) \in Seq(S) /\ ToSet(Kept(s, T)) = ToSet(s) \cap T
  <1>1. Gathered(s, S, T, KeptUpTo(s, T)) BY PrefixEntries
  <1>2. Len(s) \in Nat /\ DOMAIN s = 1..Len(s) OBVIOUS
  <1>3. ToSet(s) = {s[k] : k \in 1..Len(s)} BY <1>2 DEF ToSet
  <1>4. Kept(s, T) = KeptUpTo(s, T)[Len(s)] BY KeptIsLast
  <1>5. /\ KeptUpTo(s, T)[Len(s)] \in Seq(S)
        /\ ToSet(KeptUpTo(s, T)[Len(s)]) = {s[k] : k \in 1..Len(s)} \cap T
    <2> DEFINE F == KeptUpTo(s, T)
               n == Len(s)
    <2>1. n \in Nat /\ n <= Len(s) BY <1>2
    <2> HIDE DEF F, n
    <2>2. F[n] \in Seq(S) /\ ToSet(F[n]) = {s[k] : k \in 1..n} \cap T
      BY <1>1, <2>1 DEF Gathered, F
    <2> QED BY <2>2 DEF F, n
  <1>6. ToSet(Kept(s, T)) = ToSet(s) \cap T BY <1>3, <1>4, <1>5
  <1> QED BY <1>4, <1>5, <1>6

\* What is kept of a list without repetition has none.
LEMMA KeptInjective ==
  ASSUME NEW S, NEW s \in Seq(S), IsInjective(s), NEW T
  PROVE  IsInjective(Kept(s, T))
  <1>1. Len(s) \in Nat OBVIOUS
  <1>2. Distinct(s, KeptUpTo(s, T)) BY PrefixInjective
  <1>3. Kept(s, T) = KeptUpTo(s, T)[Len(s)] BY KeptIsLast
  <1> QED BY <1>1, <1>2, <1>3 DEF Distinct

\* Taking the item at an index out of a filtered list is filtering it out.
LEMMA KeptRemove ==
  ASSUME NEW S, NEW s \in Seq(S), IsInjective(s), NEW T, NEW i \in DOMAIN Kept(s, T)
  PROVE  RemoveAt(Kept(s, T), i) = Kept(s, T \ {Kept(s, T)[i]})
  <1> DEFINE x == Kept(s, T)[i]
  <1>1. Len(s) \in Nat OBVIOUS
  <1>2. x \in S BY KeptEntries, ElementOfSeq, LenProperties
  <1>3. TakenOut(s, x, KeptUpTo(s, T), KeptUpTo(s, T \ {x}))
    <2> HIDE DEF x
    <2> QED BY <1>2, PrefixRemove
  <1>4. Kept(s, T) = KeptUpTo(s, T)[Len(s)] /\ Kept(s, T \ {x}) = KeptUpTo(s, T \ {x})[Len(s)]
    BY KeptIsLast
  <1>5. i \in DOMAIN KeptUpTo(s, T)[Len(s)] /\ KeptUpTo(s, T)[Len(s)][i] = x BY <1>4
  <1>6. RemoveAt(KeptUpTo(s, T)[Len(s)], i) = KeptUpTo(s, T \ {x})[Len(s)]
    <2> DEFINE F == KeptUpTo(s, T)
               G == KeptUpTo(s, T \ {x})
               n == Len(s)
    <2>1. TakenOut(s, x, F, G) /\ i \in DOMAIN F[n] /\ F[n][i] = x BY <1>3, <1>5
    <2>2. n \in Nat /\ n <= Len(s) BY <1>1
    <2> HIDE DEF x, F, G, n
    <2>3. \A j \in DOMAIN F[n] : F[n][j] = x => RemoveAt(F[n], j) = G[n]
      BY <2>1, <2>2 DEF TakenOut
    <2>4. RemoveAt(F[n], i) = G[n] BY <2>1, <2>3
    <2> QED BY <2>4 DEF F, G, n
  <1> QED BY <1>4, <1>6

-----------------------------------------------------------------------------
(* The warnings and the loads.                                             *)

\* What the records in flight are, of which the provers need only the fields.
Records ==
  /\ \A w \in writes : w = [id |-> w.id, op |-> w.op, item |-> w.item, line |-> w.line,
                            shown |-> w.shown, stage |-> w.stage]
  /\ \A l \in loads : l = [id |-> l.id, seen |-> l.seen]
  /\ DOMAIN lines = Users

\* An open warning is over the item or the line it was drawn on.
Shown ==
  /\ \A w \in asked : items[w.idx] = w.item
  /\ \A w \in lineAsked : lines[w.user][w.idx] = w.line
  /\ \A w \in asked : w.item \in Users \cup Groups
  /\ \A v, w \in lineAsked : v.user = w.user => v = w

\* Loads are counted, and told apart by their number.
Counted ==
  /\ issued \in Nat /\ listed \in Nat /\ listed <= issued
  /\ \A l \in loads : l.id \in Nat /\ l.id <= issued /\ l.id # listed
  /\ \A l, m \in loads : l.id = m.id => l = m

\* Every change the backend has made is known to the page or will be.
Heard == ~unseen /\ \A w \in writes : w.stage # "accepted"

Fresh ==
  Heard =>
    /\ \A l \in loads : l.id = issued /\ l.seen # None => l.seen = backend
    /\ listed = issued =>
         /\ directory = Listing(backend)
         /\ (\A w \in writes : w.op # "removebundleforuser") =>
              \A u \in Users : lines[u] = LinesOf(backend, u)

IInv == Records /\ Shown /\ ConfirmedIsShown /\ Counted /\ Fresh

-----------------------------------------------------------------------------
LEMMA InitInv == Init => IInv
  BY DEF Init, IInv, Records, Shown, ConfirmedIsShown, Counted, Heard, Fresh

\* The records keep their shape.
LEMMA RecordsStep == ASSUME IInv, Next PROVE Records'
  <1> USE DEF IInv, Records
  <1>1. ASSUME NEW s \in Subs, SwitchSub(s) PROVE Records'
    BY <1>1 DEF SwitchSub, Render
  <1>2. ASSUME NEW i \in DOMAIN items, AskDelete(i) PROVE Records'
    BY <1>2 DEF AskDelete
  <1>3. ASSUME NEW u \in Users, NEW j \in DOMAIN lines[u], AskUnassign(u, j) PROVE Records'
    BY <1>3 DEF AskUnassign
  <1>4. CASE RejectDelete BY <1>4 DEF RejectDelete
  <1>5. ASSUME NEW w \in lineAsked, RejectUnassign(w) PROVE Records'
    BY <1>5 DEF RejectUnassign
  <1>6. ASSUME NEW w \in lineAsked, ConfirmUnassign(w) PROVE Records'
    BY <1>6 DEF ConfirmUnassign, Post, Write
  <1>7. ASSUME NEW w \in asked, ConfirmDelete(w) PROVE Records'
    BY <1>7 DEF ConfirmDelete, Post, Write, Render
  <1>8. ASSUME NEW u \in Users, OpenDialog(u) PROVE Records'
    BY <1>8 DEF OpenDialog
  <1>9. ASSUME NEW b \in Bundles, SelectBundle(b) PROVE Records'
    BY <1>9 DEF SelectBundle, Post, Write
  <1>10. CASE CancelDialog BY <1>10 DEF CancelDialog
  <1>11. ASSUME NEW b \in Bundles, NEW u \in Users, AddUserToBundle(b, u) PROVE Records'
    BY <1>11 DEF AddUserToBundle, Post, Write
  <1>12. ASSUME NEW g \in Groups, AddCallGroup(g) PROVE Records'
    BY <1>12 DEF AddCallGroup, Post, Write
  <1>13. ASSUME NEW w \in writes, Accept(w) PROVE Records'
    BY <1>13 DEF Accept
  <1>14. ASSUME NEW w \in writes, Done(w) PROVE Records'
    BY <1>14 DEF Done, LoadAll
  <1>15. ASSUME NEW w \in writes, Fail(w) PROVE Records'
    BY <1>15 DEF Fail, LoadAll
  <1>16. ASSUME NEW l \in loads, Read(l) PROVE Records'
    BY <1>16 DEF Read
  <1>17. ASSUME NEW l \in loads, LoadDone(l) PROVE Records'
    BY <1>17 DEF LoadDone, Render
  <1>18. ASSUME NEW l \in loads, LoadFailed(l) PROVE Records'
    BY <1>18 DEF LoadFailed
  <1> QED
    BY <1>1, <1>2, <1>3, <1>4, <1>5, <1>6, <1>7, <1>8, <1>9,
       <1>10, <1>11, <1>12, <1>13, <1>14, <1>15, <1>16, <1>17, <1>18 DEF Next

\* A warning stays only while the list it was drawn on does.
LEMMA ShownStep == ASSUME IInv, Next PROVE Shown'
  <1> USE DEF IInv, Records, Shown
  <1>1. ASSUME NEW s \in Subs, SwitchSub(s) PROVE Shown'
    BY <1>1 DEF SwitchSub, Render
  <1>2. ASSUME NEW i \in DOMAIN items, AskDelete(i) PROVE Shown'
    BY <1>2 DEF AskDelete
  <1>3. ASSUME NEW u \in Users, NEW j \in DOMAIN lines[u], AskUnassign(u, j) PROVE Shown'
    BY <1>3 DEF AskUnassign
  <1>4. CASE RejectDelete BY <1>4 DEF RejectDelete
  <1>5. ASSUME NEW w \in lineAsked, RejectUnassign(w) PROVE Shown'
    BY <1>5 DEF RejectUnassign
  <1>6. ASSUME NEW w \in lineAsked, ConfirmUnassign(w) PROVE Shown'
    BY <1>6 DEF ConfirmUnassign, Post, Write
  <1>7. ASSUME NEW w \in asked, ConfirmDelete(w) PROVE Shown'
    BY <1>7 DEF ConfirmDelete, Post, Write, Render
  <1>8. ASSUME NEW u \in Users, OpenDialog(u) PROVE Shown'
    BY <1>8 DEF OpenDialog
  <1>9. ASSUME NEW b \in Bundles, SelectBundle(b) PROVE Shown'
    BY <1>9 DEF SelectBundle, Post, Write
  <1>10. CASE CancelDialog BY <1>10 DEF CancelDialog
  <1>11. ASSUME NEW b \in Bundles, NEW u \in Users, AddUserToBundle(b, u) PROVE Shown'
    BY <1>11 DEF AddUserToBundle, Post, Write
  <1>12. ASSUME NEW g \in Groups, AddCallGroup(g) PROVE Shown'
    BY <1>12 DEF AddCallGroup, Post, Write
  <1>13. ASSUME NEW w \in writes, Accept(w) PROVE Shown'
    BY <1>13 DEF Accept
  <1>14. ASSUME NEW w \in writes, Done(w) PROVE Shown'
    BY <1>14 DEF Done, LoadAll
  <1>15. ASSUME NEW w \in writes, Fail(w) PROVE Shown'
    BY <1>15 DEF Fail, LoadAll
  <1>16. ASSUME NEW l \in loads, Read(l) PROVE Shown'
    BY <1>16 DEF Read
  <1>17. ASSUME NEW l \in loads, LoadDone(l) PROVE Shown'
    BY <1>17 DEF LoadDone, Render
  <1>18. ASSUME NEW l \in loads, LoadFailed(l) PROVE Shown'
    BY <1>18 DEF LoadFailed
  <1> QED
    BY <1>1, <1>2, <1>3, <1>4, <1>5, <1>6, <1>7, <1>8, <1>9,
       <1>10, <1>11, <1>12, <1>13, <1>14, <1>15, <1>16, <1>17, <1>18 DEF Next

\* What a Yes posts is what the warning was drawn on.
LEMMA ConfirmedStep == ASSUME IInv, Next PROVE ConfirmedIsShown'
  <1> USE DEF IInv, Records, Shown, ConfirmedIsShown
  <1>1. ASSUME NEW s \in Subs, SwitchSub(s) PROVE ConfirmedIsShown'
    BY <1>1 DEF SwitchSub, Render
  <1>2. ASSUME NEW i \in DOMAIN items, AskDelete(i) PROVE ConfirmedIsShown'
    BY <1>2 DEF AskDelete
  <1>3. ASSUME NEW u \in Users, NEW j \in DOMAIN lines[u], AskUnassign(u, j) PROVE ConfirmedIsShown'
    BY <1>3 DEF AskUnassign
  <1>4. CASE RejectDelete BY <1>4 DEF RejectDelete
  <1>5. ASSUME NEW w \in lineAsked, RejectUnassign(w) PROVE ConfirmedIsShown'
    BY <1>5 DEF RejectUnassign
  <1>6. ASSUME NEW w \in lineAsked, ConfirmUnassign(w) PROVE ConfirmedIsShown'
    BY <1>6, ItemsAssumption DEF ConfirmUnassign, Post, Write
  <1>7. ASSUME NEW w \in asked, ConfirmDelete(w) PROVE ConfirmedIsShown'
    BY <1>7, ItemsAssumption DEF ConfirmDelete, Post, Write, Render
  <1>8. ASSUME NEW u \in Users, OpenDialog(u) PROVE ConfirmedIsShown'
    BY <1>8 DEF OpenDialog
  <1>9. ASSUME NEW b \in Bundles, SelectBundle(b) PROVE ConfirmedIsShown'
    BY <1>9 DEF SelectBundle, Post, Write
  <1>10. CASE CancelDialog BY <1>10 DEF CancelDialog
  <1>11. ASSUME NEW b \in Bundles, NEW u \in Users, AddUserToBundle(b, u) PROVE ConfirmedIsShown'
    BY <1>11 DEF AddUserToBundle, Post, Write
  <1>12. ASSUME NEW g \in Groups, AddCallGroup(g) PROVE ConfirmedIsShown'
    BY <1>12 DEF AddCallGroup, Post, Write
  <1>13. ASSUME NEW w \in writes, Accept(w) PROVE ConfirmedIsShown'
    BY <1>13 DEF Accept
  <1>14. ASSUME NEW w \in writes, Done(w) PROVE ConfirmedIsShown'
    BY <1>14 DEF Done, LoadAll
  <1>15. ASSUME NEW w \in writes, Fail(w) PROVE ConfirmedIsShown'
    BY <1>15 DEF Fail, LoadAll
  <1>16. ASSUME NEW l \in loads, Read(l) PROVE ConfirmedIsShown'
    BY <1>16 DEF Read
  <1>17. ASSUME NEW l \in loads, LoadDone(l) PROVE ConfirmedIsShown'
    BY <1>17 DEF LoadDone, Render
  <1>18. ASSUME NEW l \in loads, LoadFailed(l) PROVE ConfirmedIsShown'
    BY <1>18 DEF LoadFailed
  <1> QED
    BY <1>1, <1>2, <1>3, <1>4, <1>5, <1>6, <1>7, <1>8, <1>9,
       <1>10, <1>11, <1>12, <1>13, <1>14, <1>15, <1>16, <1>17, <1>18 DEF Next

\* A new load has a number of its own.
LEMMA CountedStep == ASSUME IInv, Next PROVE Counted'
  <1> USE DEF IInv, Records, Counted
  <1>1. ASSUME NEW s \in Subs, SwitchSub(s) PROVE Counted'
    BY <1>1 DEF SwitchSub, Render
  <1>2. ASSUME NEW i \in DOMAIN items, AskDelete(i) PROVE Counted'
    BY <1>2 DEF AskDelete
  <1>3. ASSUME NEW u \in Users, NEW j \in DOMAIN lines[u], AskUnassign(u, j) PROVE Counted'
    BY <1>3 DEF AskUnassign
  <1>4. CASE RejectDelete BY <1>4 DEF RejectDelete
  <1>5. ASSUME NEW w \in lineAsked, RejectUnassign(w) PROVE Counted'
    BY <1>5 DEF RejectUnassign
  <1>6. ASSUME NEW w \in lineAsked, ConfirmUnassign(w) PROVE Counted'
    BY <1>6 DEF ConfirmUnassign, Post, Write
  <1>7. ASSUME NEW w \in asked, ConfirmDelete(w) PROVE Counted'
    BY <1>7 DEF ConfirmDelete, Post, Write, Render
  <1>8. ASSUME NEW u \in Users, OpenDialog(u) PROVE Counted'
    BY <1>8 DEF OpenDialog
  <1>9. ASSUME NEW b \in Bundles, SelectBundle(b) PROVE Counted'
    BY <1>9 DEF SelectBundle, Post, Write
  <1>10. CASE CancelDialog BY <1>10 DEF CancelDialog
  <1>11. ASSUME NEW b \in Bundles, NEW u \in Users, AddUserToBundle(b, u) PROVE Counted'
    BY <1>11 DEF AddUserToBundle, Post, Write
  <1>12. ASSUME NEW g \in Groups, AddCallGroup(g) PROVE Counted'
    BY <1>12 DEF AddCallGroup, Post, Write
  <1>13. ASSUME NEW w \in writes, Accept(w) PROVE Counted'
    BY <1>13 DEF Accept
  <1>14. ASSUME NEW w \in writes, Done(w) PROVE Counted'
    BY <1>14 DEF Done, LoadAll
  <1>15. ASSUME NEW w \in writes, Fail(w) PROVE Counted'
    BY <1>15 DEF Fail, LoadAll
  <1>16. ASSUME NEW l \in loads, Read(l) PROVE Counted'
    BY <1>16 DEF Read
  <1>17. ASSUME NEW l \in loads, LoadDone(l) PROVE Counted'
    BY <1>17 DEF LoadDone, Render
  <1>18. ASSUME NEW l \in loads, LoadFailed(l) PROVE Counted'
    BY <1>18 DEF LoadFailed
  <1> QED
    BY <1>1, <1>2, <1>3, <1>4, <1>5, <1>6, <1>7, <1>8, <1>9,
       <1>10, <1>11, <1>12, <1>13, <1>14, <1>15, <1>16, <1>17, <1>18 DEF Next

\* A change the page hears of is followed by a load.
LEMMA FreshStep == ASSUME IInv, Next PROVE Fresh'
  <1> USE DEF IInv, Records, Counted, Heard, Fresh
  <1>1. ASSUME NEW s \in Subs, SwitchSub(s) PROVE Fresh'
    BY <1>1 DEF SwitchSub, Render
  <1>2. ASSUME NEW i \in DOMAIN items, AskDelete(i) PROVE Fresh'
    BY <1>2 DEF AskDelete
  <1>3. ASSUME NEW u \in Users, NEW j \in DOMAIN lines[u], AskUnassign(u, j) PROVE Fresh'
    BY <1>3 DEF AskUnassign
  <1>4. CASE RejectDelete BY <1>4 DEF RejectDelete
  <1>5. ASSUME NEW w \in lineAsked, RejectUnassign(w) PROVE Fresh'
    BY <1>5 DEF RejectUnassign
  <1>6. ASSUME NEW w \in lineAsked, ConfirmUnassign(w) PROVE Fresh'
    <2> DEFINE new == Write(posted + 1, "removebundleforuser", w.user,
                            lines[w.user][w.idx], w.line)
    <2>1. new \in writes' /\ writes \subseteq writes'
      BY <1>6 DEF ConfirmUnassign, Post
    <2>2. new.op = "removebundleforuser"
      BY DEF Write
    <2>3. Heard' => Heard
      BY <1>6, <2>1 DEF ConfirmUnassign
    <2>4. UNCHANGED <<backend, directory, loads, issued, listed>>
      BY <1>6 DEF ConfirmUnassign
    <2> HIDE DEF new
    <2> QED BY <2>1, <2>2, <2>3, <2>4
  <1>7. ASSUME NEW w \in asked, ConfirmDelete(w) PROVE Fresh'
    <2> DEFINE x == items[w.idx]
               also == x \in Users /\ w.idx \in DOMAIN lines[x]
               new == Write(posted + 2, "removebundleforuser", x, lines[x][w.idx], w.item)
    <2>1. writes \subseteq writes' /\ (also => new \in writes')
      BY <1>7 DEF ConfirmDelete, Post
    <2>2. new.op = "removebundleforuser"
      BY DEF Write
    <2>3. Heard' => Heard
      BY <1>7, <2>1 DEF ConfirmDelete
    <2>4. UNCHANGED <<backend, directory, loads, issued, listed>>
      BY <1>7 DEF ConfirmDelete
    <2>5. ~also => lines' = lines
      BY <1>7 DEF ConfirmDelete
    <2> HIDE DEF new, also
    <2>6. CASE also BY <2>1, <2>2, <2>3, <2>4, <2>6
    <2>7. CASE ~also BY <2>1, <2>3, <2>4, <2>5, <2>7
    <2> QED BY <2>6, <2>7
  <1>8. ASSUME NEW u \in Users, OpenDialog(u) PROVE Fresh'
    BY <1>8 DEF OpenDialog
  <1>9. ASSUME NEW b \in Bundles, SelectBundle(b) PROVE Fresh'
    BY <1>9 DEF SelectBundle, Post, Write
  <1>10. CASE CancelDialog BY <1>10 DEF CancelDialog
  <1>11. ASSUME NEW b \in Bundles, NEW u \in Users, AddUserToBundle(b, u) PROVE Fresh'
    BY <1>11 DEF AddUserToBundle, Post, Write
  <1>12. ASSUME NEW g \in Groups, AddCallGroup(g) PROVE Fresh'
    BY <1>12 DEF AddCallGroup, Post, Write
  <1>13. ASSUME NEW w \in writes, Accept(w) PROVE Fresh'
    <2>1. [w EXCEPT !.stage = "accepted"].stage = "accepted"
      BY <1>13
    <2>2. [w EXCEPT !.stage = "accepted"] \in writes'
      BY <1>13 DEF Accept
    <2>3. ~Heard'
      BY <2>1, <2>2
    <2> QED BY <2>3
  <1>14. ASSUME NEW w \in writes, Done(w) PROVE Fresh'
    BY <1>14 DEF Done, LoadAll
  <1>15. ASSUME NEW w \in writes, Fail(w) PROVE Fresh'
    <2>1. CASE w.op \in {"delete", "addgroup"}
      <3>1. UNCHANGED <<backend, directory, lines, loads, issued, listed>>
        BY <1>15, <2>1 DEF Fail
      <3>2. Heard' => Heard
        BY <1>15, <2>1 DEF Fail
      <3>3. (\A v \in writes' : v.op # "removebundleforuser")
              => \A v \in writes : v.op # "removebundleforuser"
        BY <1>15, <2>1 DEF Fail
      <3> QED BY <3>1, <3>2, <3>3
    <2>2. CASE w.op \notin {"delete", "addgroup"}
      BY <1>15, <2>2 DEF Fail, LoadAll
    <2> QED BY <2>1, <2>2
  <1>16. ASSUME NEW l \in loads, Read(l) PROVE Fresh'
    BY <1>16 DEF Read
  <1>17. ASSUME NEW l \in loads, LoadDone(l) PROVE Fresh'
    BY <1>17 DEF LoadDone, Render
  <1>18. ASSUME NEW l \in loads, LoadFailed(l) PROVE Fresh'
    BY <1>18 DEF LoadFailed
  <1> QED
    BY <1>1, <1>2, <1>3, <1>4, <1>5, <1>6, <1>7, <1>8, <1>9,
       <1>10, <1>11, <1>12, <1>13, <1>14, <1>15, <1>16, <1>17, <1>18 DEF Next

LEMMA Inductive == IInv /\ [Next]_vars => IInv'
  <1> SUFFICES ASSUME IInv, [Next]_vars PROVE IInv'
    OBVIOUS
  <1>1. CASE Next
    BY <1>1, RecordsStep, ShownStep, ConfirmedStep, CountedStep, FreshStep DEF IInv
  <1>2. CASE UNCHANGED vars
    BY <1>2 DEF vars, IInv, Records, Shown, ConfirmedIsShown, Counted, Heard, Fresh
  <1> QED BY <1>1, <1>2

THEOREM Invariance == Spec => []IInv
  BY InitInv, Inductive, PTL DEF Spec

-----------------------------------------------------------------------------
(* The types, and the list.                                                *)

\* What each request is about.
Fits(w) ==
  /\ w.op = "delete" => w.item \in Users \cup Groups
  /\ w.op = "addgroup" => w.item \in Groups
  /\ w.op \notin {"delete", "addgroup"} => w.item \in Users /\ w.line \in Bundles

\* The parts of TypeOK: what the page shows, and what is under way.
PageTypes ==
  /\ directory \in Seq(Items)
  /\ lines \in [Users -> Seq(Bundles)]
  /\ items \in Seq(Items)
  /\ sub \in Subs
  /\ asked \subseteq [idx : 1..Len(items), item : Users \cup Groups]
  /\ lineAsked \subseteq [user : Users, idx : Nat, line : Bundles]
  /\ \A w \in lineAsked : w.idx \in DOMAIN lines[w.user]
  /\ dialog \in {None} \cup [user : Users, choices : SUBSET Bundles]
  /\ hidden \subseteq Items

SentTypes == writes \subseteq Writes /\ (\A w \in writes : Fits(w)) /\ posted \in 0..MaxWrites

LoadTypes ==
  /\ backend \in Backend
  /\ loads \subseteq [id : 1..issued, seen : Backend \cup {None}]
  /\ issued \in 1..MaxLoads
  /\ listed \in 0..issued
  /\ unseen \in BOOLEAN

Typed == PageTypes /\ SentTypes /\ LoadTypes

\* One or two requests are counted as one or two.
LEMMA Counting ==
  /\ \A x : Cardinality({x}) = 1 /\ IsFiniteSet({x})
  /\ \A x, y : x # y => Cardinality({x} \cup {y}) = 2
  <1>1. \A x : Cardinality({x}) = 1 /\ IsFiniteSet({x}) BY FS_Singleton
  <1>2. ASSUME NEW x, NEW y, x # y PROVE Cardinality({x} \cup {y}) = 2
    <2>1. Cardinality({x} \cup {y}) = Cardinality({x}) + 1 BY <1>1, <1>2, FS_AddElement
    <2> QED BY <1>1, <2>1
  <1> QED BY <1>1, <1>2

\* A list of lines stays one when a line is taken out.
LEMMA LinesRemoved ==
  ASSUME PageTypes, NEW u \in Users, NEW i \in DOMAIN lines[u]
  PROVE  [lines EXCEPT ![u] = RemoveAt(@, i)] \in [Users -> Seq(Bundles)]
  <1>1. lines[u] \in Seq(Bundles) BY DEF PageTypes
  <1>2. Without(lines[u], Bundles, i, RemoveAt(lines[u], i)) BY <1>1, Removed
  <1>3. RemoveAt(lines[u], i) \in Seq(Bundles) BY <1>2 DEF Without
  <1> QED BY <1>3 DEF PageTypes

\* What a load brings, and what a tab shows of it.
LEMMA ListingTypes ==
  ASSUME NEW b
  PROVE  /\ Listing(b) \in Seq(Items) /\ IsInjective(Listing(b))
         /\ \A u : LinesOf(b, u) \in Seq(Bundles)
         /\ \A d \in Seq(Items) : \A s : Filter(d, s) \in Seq(Items)
  <1>1. Listing(b) \in Seq(Items) BY OrderAssumption, KeptEntries DEF Listing
  <1>2. IsInjective(Listing(b)) BY OrderAssumption, KeptInjective DEF Listing
  <1>3. ASSUME NEW u PROVE LinesOf(b, u) \in Seq(Bundles)
    <2> DEFINE T == {x \in Bundles : b.owner[x] = u}
               k == Kept(Order, T)
    <2>1. k \in Seq(Items) /\ ToSet(k) = ToSet(Order) \cap T
      <3> HIDE DEF T
      <3> QED BY OrderAssumption, KeptEntries
    <2>2. ToSet(k) \subseteq Bundles BY <2>1
    <2> HIDE DEF k
    <2>3. \A i \in 1..Len(k) : k[i] \in Bundles BY <2>1, <2>2 DEF ToSet
    <2>4. k \in Seq(Bundles) BY <2>1, <2>3
    <2> QED BY <2>4 DEF LinesOf, k
  <1>4. \A d \in Seq(Items) : \A s : Filter(d, s) \in Seq(Items) BY KeptEntries DEF Filter
  <1> QED BY <1>1, <1>2, <1>3, <1>4

\* A handler that posts one request.
LEMMA PostOne ==
  ASSUME SentTypes, NEW op, NEW item, NEW line, NEW shown,
         Post({Write(posted + 1, op, item, line, shown)}),
         op \in {"delete", "addgroup", "removebundleforuser", "addbundleforuser",
                 "adduserwithbundles"},
         item \in Items, line \in Bundles \cup {None}, shown \in Items \cup {None},
         Fits(Write(posted + 1, op, item, line, shown))
  PROVE  SentTypes'
  <1> DEFINE w == Write(posted + 1, op, item, line, shown)
  <1>1. /\ posted + Cardinality({w}) <= MaxWrites
        /\ posted' = posted + Cardinality({w})
        /\ writes' = writes \cup {w}
    BY DEF Post
  <1>2. Cardinality({w}) = 1 BY Counting
  <1>3. posted \in 0..MaxWrites /\ MaxWrites \in Nat BY BoundAssumption DEF SentTypes
  <1>4. posted' = posted + 1 /\ posted + 1 \in 1..MaxWrites
    <2> HIDE DEF w
    <2> QED BY <1>1, <1>2, <1>3
  <1>5. w \in Writes BY <1>4 DEF Write, Writes
  <1> HIDE DEF w
  <1>6. Fits(w) BY DEF w
  <1>7. writes' \subseteq Writes /\ (\A v \in writes' : Fits(v))
    BY <1>1, <1>5, <1>6 DEF SentTypes
  <1>8. posted' \in 0..MaxWrites BY <1>3, <1>4
  <1> QED BY <1>7, <1>8 DEF SentTypes, Fits

\* The handlers of one click that post two.
LEMMA PostTwo ==
  ASSUME SentTypes, NEW x \in Users, NEW line \in Bundles, NEW shown \in Items,
         Post({Write(posted + 1, "delete", x, None, shown)}
              \cup {Write(posted + 2, "removebundleforuser", x, line, shown)})
  PROVE  SentTypes'
  <1> DEFINE v == Write(posted + 1, "delete", x, None, shown)
             w == Write(posted + 2, "removebundleforuser", x, line, shown)
  <1>1. /\ posted + Cardinality({v} \cup {w}) <= MaxWrites
        /\ posted' = posted + Cardinality({v} \cup {w})
        /\ writes' = writes \cup {v} \cup {w}
    BY DEF Post
  <1>2. Cardinality({v} \cup {w}) = 2
    <2>1. v.op # w.op BY DEF Write
    <2> HIDE DEF v, w
    <2> QED BY <2>1, Counting
  <1>3. posted \in 0..MaxWrites /\ MaxWrites \in Nat BY BoundAssumption DEF SentTypes
  <1>4. /\ posted' = posted + 2 /\ posted + 2 \in 1..MaxWrites /\ posted + 1 \in 1..MaxWrites
    <2> HIDE DEF v, w
    <2> QED BY <1>1, <1>2, <1>3
  <1>5. v \in Writes /\ w \in Writes BY <1>4 DEF Write, Writes, Items
  <1>6. Fits(v) /\ Fits(w) BY DEF Write, Fits
  <1> HIDE DEF v, w
  <1>7. writes' \subseteq Writes /\ (\A u \in writes' : Fits(u))
    BY <1>1, <1>5, <1>6 DEF SentTypes
  <1>8. posted' \in 0..MaxWrites BY <1>3, <1>4
  <1> QED BY <1>7, <1>8 DEF SentTypes, Fits

\* What the page shows stays well-typed.
LEMMA PageTypesStep == ASSUME IInv, PageTypes, LoadTypes, Next PROVE PageTypes'
  <1> USE DEF PageTypes
  <1>1. ASSUME NEW s \in Subs, SwitchSub(s) PROVE PageTypes'
    BY <1>1, ListingTypes DEF SwitchSub, Render
  <1>2. ASSUME NEW i \in DOMAIN items, AskDelete(i) PROVE PageTypes'
    <2>1. i \in 1..Len(items) BY <1>2
    <2>2. [idx |-> i, item |-> items[i]] \in [idx : 1..Len(items), item : Users \cup Groups]
      BY <1>2, <2>1 DEF AskDelete
    <2> QED BY <1>2, <2>2 DEF AskDelete
  <1>3. ASSUME NEW u \in Users, NEW j \in DOMAIN lines[u], AskUnassign(u, j) PROVE PageTypes'
    <2>1. j \in Nat /\ lines[u][j] \in Bundles
      <3>1. lines[u] \in Seq(Bundles) OBVIOUS
      <3> QED BY <3>1
    <2> DEFINE w == [user |-> u, idx |-> j, line |-> lines[u][j]]
    <2>2. w \in [user : Users, idx : Nat, line : Bundles] /\ w.idx \in DOMAIN lines[w.user]
      BY <2>1
    <2>3. lineAsked' = lineAsked \cup {w} BY <1>3 DEF AskUnassign
    <2> HIDE DEF w
    <2> QED BY <1>3, <2>2, <2>3 DEF AskUnassign
  <1>4. CASE RejectDelete BY <1>4 DEF RejectDelete
  <1>5. ASSUME NEW w \in lineAsked, RejectUnassign(w) PROVE PageTypes'
    BY <1>5 DEF RejectUnassign
  <1>6. ASSUME NEW w \in lineAsked, ConfirmUnassign(w) PROVE PageTypes'
    <2>1. w.user \in Users /\ w.idx \in DOMAIN lines[w.user] OBVIOUS
    <2>2. lines' = [lines EXCEPT ![w.user] = RemoveAt(@, w.idx)] BY <1>6 DEF ConfirmUnassign
    <2>3. lines' \in [Users -> Seq(Bundles)] BY <2>1, <2>2, LinesRemoved
    <2>4. \A v \in lineAsked' : v.user # w.user
      BY <1>6 DEF ConfirmUnassign, IInv, Shown
    <2>5. lineAsked' \subseteq lineAsked BY <1>6 DEF ConfirmUnassign
    <2>6. \A v \in lineAsked' : v.idx \in DOMAIN lines'[v.user]
      BY <2>2, <2>4, <2>5
    <2> QED BY <1>6, <2>3, <2>5, <2>6 DEF ConfirmUnassign
  <1>7. ASSUME NEW w \in asked, ConfirmDelete(w) PROVE PageTypes'
    <2> DEFINE x == items[w.idx]
               also == x \in Users /\ w.idx \in DOMAIN lines[x]
    <2>1. w.idx \in 1..Len(items) /\ w.idx \in DOMAIN items OBVIOUS
    <2>2. x \in Items BY <2>1, ElementOfSeq
    <2>3. Without(items, Items, w.idx, RemoveAt(items, w.idx)) BY <2>1, Removed
    <2>4. items' \in Seq(Items) BY <1>7, <2>3 DEF ConfirmDelete, Render, Without
    <2>5. lines' \in [Users -> Seq(Bundles)]
      <3>1. CASE also
        <4>1. lines' = [lines EXCEPT ![x] = RemoveAt(@, w.idx)] BY <1>7, <3>1 DEF ConfirmDelete
        <4> QED BY <3>1, <4>1, LinesRemoved
      <3>2. CASE ~also BY <1>7, <3>2 DEF ConfirmDelete
      <3> QED BY <3>1, <3>2
    <2>6. asked' = {} /\ lineAsked' = {} /\ hidden' = hidden \cup {x}
      BY <1>7 DEF ConfirmDelete, Render
    <2>7. UNCHANGED <<directory, sub, dialog>> BY <1>7 DEF ConfirmDelete
    <2> HIDE DEF x
    <2> QED BY <2>2, <2>4, <2>5, <2>6, <2>7
  <1>8. ASSUME NEW u \in Users, OpenDialog(u) PROVE PageTypes'
    BY <1>8 DEF OpenDialog
  <1>9. ASSUME NEW b \in Bundles, SelectBundle(b) PROVE PageTypes'
    BY <1>9 DEF SelectBundle
  <1>10. CASE CancelDialog BY <1>10 DEF CancelDialog
  <1>11. ASSUME NEW b \in Bundles, NEW u \in Users, AddUserToBundle(b, u) PROVE PageTypes'
    BY <1>11 DEF AddUserToBundle
  <1>12. ASSUME NEW g \in Groups, AddCallGroup(g) PROVE PageTypes'
    BY <1>12 DEF AddCallGroup
  <1>13. ASSUME NEW w \in writes, Accept(w) PROVE PageTypes'
    BY <1>13 DEF Accept
  <1>14. ASSUME NEW w \in writes, Done(w) PROVE PageTypes'
    BY <1>14 DEF Done
  <1>15. ASSUME NEW w \in writes, Fail(w) PROVE PageTypes'
    BY <1>15 DEF Fail
  <1>16. ASSUME NEW l \in loads, Read(l) PROVE PageTypes'
    BY <1>16 DEF Read
  <1>17. ASSUME NEW l \in loads, LoadDone(l) PROVE PageTypes'
    <2>1. directory' = Listing(l.seen) /\ lines' = [u \in Users |-> LinesOf(l.seen, u)]
      BY <1>17 DEF LoadDone
    <2>2. directory' \in Seq(Items) /\ lines' \in [Users -> Seq(Bundles)]
      BY <2>1, ListingTypes
    <2>3. items' = Filter(Listing(l.seen), sub) /\ hidden' = {} /\ asked' = {} /\ lineAsked' = {}
      BY <1>17 DEF LoadDone, Render
    <2>4. items' \in Seq(Items) BY <2>3, ListingTypes
    <2> QED BY <1>17, <2>2, <2>3, <2>4 DEF LoadDone
  <1>18. ASSUME NEW l \in loads, LoadFailed(l) PROVE PageTypes'
    BY <1>18 DEF LoadFailed
  <1> QED
    BY <1>1, <1>2, <1>3, <1>4, <1>5, <1>6, <1>7, <1>8, <1>9,
       <1>10, <1>11, <1>12, <1>13, <1>14, <1>15, <1>16, <1>17, <1>18 DEF Next

\* The requests stay well-typed.
LEMMA SentTypesStep == ASSUME IInv, PageTypes, SentTypes, Next PROVE SentTypes'
  <1>0. UNCHANGED <<writes, posted>> => SentTypes' BY DEF SentTypes, Fits
  <1>1. ASSUME NEW s \in Subs, SwitchSub(s) PROVE SentTypes'
    BY <1>0, <1>1 DEF SwitchSub
  <1>2. ASSUME NEW i \in DOMAIN items, AskDelete(i) PROVE SentTypes'
    BY <1>0, <1>2 DEF AskDelete
  <1>3. ASSUME NEW u \in Users, NEW j \in DOMAIN lines[u], AskUnassign(u, j) PROVE SentTypes'
    BY <1>0, <1>3 DEF AskUnassign
  <1>4. CASE RejectDelete BY <1>0, <1>4 DEF RejectDelete
  <1>5. ASSUME NEW w \in lineAsked, RejectUnassign(w) PROVE SentTypes'
    BY <1>0, <1>5 DEF RejectUnassign
  <1>6. ASSUME NEW w \in lineAsked, ConfirmUnassign(w) PROVE SentTypes'
    <2> DEFINE l == lines[w.user][w.idx]
    <2>1. w.user \in Users /\ w.line \in Bundles /\ l \in Bundles
      <3>1. w.user \in Users /\ w.line \in Bundles BY DEF PageTypes
      <3>2. lines[w.user][w.idx] = w.line BY DEF IInv, Shown
      <3> QED BY <3>1, <3>2
    <2>2. Post({Write(posted + 1, "removebundleforuser", w.user, l, w.line)})
      BY <1>6 DEF ConfirmUnassign
    <2>3. Fits(Write(posted + 1, "removebundleforuser", w.user, l, w.line))
      BY <2>1 DEF Write, Fits
    <2> HIDE DEF l
    <2> QED BY <2>1, <2>2, <2>3, PostOne DEF Items
  <1>7. ASSUME NEW w \in asked, ConfirmDelete(w) PROVE SentTypes'
    <2> DEFINE x == items[w.idx]
               also == x \in Users /\ w.idx \in DOMAIN lines[x]
               l == lines[x][w.idx]
    <2>1. x \in Users \cup Groups /\ w.item \in Items
      BY DEF IInv, Shown, Items
    <2>2. CASE also
      <3>1. Post({Write(posted + 1, "delete", x, None, w.item)}
                 \cup {Write(posted + 2, "removebundleforuser", x, l, w.item)})
        BY <1>7, <2>2 DEF ConfirmDelete
      <3>2. l \in Bundles
        <4>1. lines[x] \in Seq(Bundles) BY <2>2 DEF PageTypes
        <4> QED BY <2>2, <4>1
      <3>3. x \in Users BY <2>2
      <3> HIDE DEF x, l
      <3> QED BY <2>1, <3>1, <3>2, <3>3, PostTwo
    <2>3. CASE ~also
      <3>1. Post({Write(posted + 1, "delete", x, None, w.item)})
        BY <1>7, <2>3 DEF ConfirmDelete
      <3>2. Fits(Write(posted + 1, "delete", x, None, w.item)) BY <2>1 DEF Write, Fits
      <3> HIDE DEF x
      <3> QED BY <2>1, <3>1, <3>2, PostOne DEF Items
    <2> QED BY <2>2, <2>3
  <1>8. ASSUME NEW u \in Users, OpenDialog(u) PROVE SentTypes'
    BY <1>0, <1>8 DEF OpenDialog
  <1>9. ASSUME NEW b \in Bundles, SelectBundle(b) PROVE SentTypes'
    <2>1. dialog.user \in Users BY <1>9 DEF SelectBundle, PageTypes
    <2>2. Post({Write(posted + 1, "addbundleforuser", dialog.user, b, None)})
      BY <1>9 DEF SelectBundle
    <2>3. Fits(Write(posted + 1, "addbundleforuser", dialog.user, b, None))
      BY <2>1 DEF Write, Fits
    <2> QED BY <2>1, <2>2, <2>3, PostOne DEF Items
  <1>10. CASE CancelDialog BY <1>0, <1>10 DEF CancelDialog
  <1>11. ASSUME NEW b \in Bundles, NEW u \in Users, AddUserToBundle(b, u) PROVE SentTypes'
    <2>1. Post({Write(posted + 1, "adduserwithbundles", u, b, None)})
      BY <1>11 DEF AddUserToBundle
    <2>2. Fits(Write(posted + 1, "adduserwithbundles", u, b, None)) BY DEF Write, Fits
    <2> QED BY <2>1, <2>2, PostOne DEF Items
  <1>12. ASSUME NEW g \in Groups, AddCallGroup(g) PROVE SentTypes'
    <2>1. Post({Write(posted + 1, "addgroup", g, None, None)}) BY <1>12 DEF AddCallGroup
    <2>2. Fits(Write(posted + 1, "addgroup", g, None, None)) BY DEF Write, Fits
    <2> QED BY <2>1, <2>2, PostOne DEF Items
  <1>13. ASSUME NEW w \in writes, Accept(w) PROVE SentTypes'
    <2> DEFINE v == [w EXCEPT !.stage = "accepted"]
    <2>1. w \in Writes /\ Fits(w) BY DEF SentTypes
    <2>2. v \in Writes /\ v.op = w.op /\ v.item = w.item /\ v.line = w.line
      BY <2>1 DEF Writes
    <2>3. writes' = (writes \ {w}) \cup {v} /\ posted' = posted BY <1>13 DEF Accept
    <2> HIDE DEF v
    <2>4. Fits(v) BY <2>1, <2>2 DEF Fits
    <2>5. \A u \in writes' : u \in Writes /\ Fits(u) BY <2>2, <2>3, <2>4 DEF SentTypes
    <2> QED BY <2>3, <2>5 DEF SentTypes, Fits
  <1>14. ASSUME NEW w \in writes, Done(w) PROVE SentTypes'
    BY <1>14 DEF Done, SentTypes, Fits
  <1>15. ASSUME NEW w \in writes, Fail(w) PROVE SentTypes'
    BY <1>15 DEF Fail, SentTypes, Fits
  <1>16. ASSUME NEW l \in loads, Read(l) PROVE SentTypes'
    BY <1>0, <1>16 DEF Read
  <1>17. ASSUME NEW l \in loads, LoadDone(l) PROVE SentTypes'
    BY <1>0, <1>17 DEF LoadDone
  <1>18. ASSUME NEW l \in loads, LoadFailed(l) PROVE SentTypes'
    BY <1>0, <1>18 DEF LoadFailed
  <1> QED
    BY <1>1, <1>2, <1>3, <1>4, <1>5, <1>6, <1>7, <1>8, <1>9,
       <1>10, <1>11, <1>12, <1>13, <1>14, <1>15, <1>16, <1>17, <1>18 DEF Next

\* The backend's answer to a request leaves it a backend.
LEMMA EffectTypes ==
  ASSUME NEW w \in writes, SentTypes, backend \in Backend
  PROVE  Effect(w) \in Backend
  <1>1. /\ Fits(w)
        /\ w.op \in {"delete", "addgroup", "removebundleforuser", "addbundleforuser",
                     "adduserwithbundles"}
    BY DEF SentTypes, Writes
  <1>2. /\ backend = [owner |-> backend.owner, groups |-> backend.groups]
        /\ backend.owner \in [Bundles -> Users \cup {Unassigned}]
        /\ backend.groups \subseteq Groups
    BY DEF Backend
  <1>3. CASE w.op = "delete" BY <1>2, <1>3 DEF Effect, Backend
  <1>4. CASE w.op = "addgroup" BY <1>1, <1>2, <1>4 DEF Effect, Backend, Fits
  <1>5. CASE w.op = "removebundleforuser" BY <1>1, <1>2, <1>5 DEF Effect, Backend, Fits
  <1>6. CASE w.op \notin {"delete", "addgroup", "removebundleforuser"}
    BY <1>1, <1>2, <1>6 DEF Effect, Backend, Fits
  <1> QED BY <1>3, <1>4, <1>5, <1>6

\* The backend and its loads stay well-typed.
LEMMA LoadTypesStep == ASSUME IInv, SentTypes, LoadTypes, Next PROVE LoadTypes'
  <1>0. UNCHANGED <<backend, loads, issued, listed, unseen>> => LoadTypes' BY DEF LoadTypes
  <1>00. ASSUME LoadAll, UNCHANGED <<backend, listed>> PROVE LoadTypes'
    <2>1. issued \in Nat /\ issued + 1 \in 1..MaxLoads /\ MaxLoads \in Nat
      BY <1>00, BoundAssumption DEF LoadAll, LoadTypes
    <2>2. issued' = issued + 1 /\ unseen' = FALSE
          /\ loads' = loads \cup {[id |-> issued + 1, seen |-> None]}
      BY <1>00 DEF LoadAll
    <2>3. \A l \in loads' : l \in [id : 1..issued', seen : Backend \cup {None}]
      BY <2>1, <2>2 DEF LoadTypes
    <2>4. issued' \in 1..MaxLoads /\ listed' \in 0..issued' BY <1>00, <2>1, <2>2 DEF LoadTypes
    <2> QED BY <1>00, <2>2, <2>3, <2>4 DEF LoadTypes
  <1>1. ASSUME NEW s \in Subs, SwitchSub(s) PROVE LoadTypes'
    BY <1>0, <1>1 DEF SwitchSub
  <1>2. ASSUME NEW i \in DOMAIN items, AskDelete(i) PROVE LoadTypes'
    BY <1>0, <1>2 DEF AskDelete
  <1>3. ASSUME NEW u \in Users, NEW j \in DOMAIN lines[u], AskUnassign(u, j) PROVE LoadTypes'
    BY <1>0, <1>3 DEF AskUnassign
  <1>4. CASE RejectDelete BY <1>0, <1>4 DEF RejectDelete
  <1>5. ASSUME NEW w \in lineAsked, RejectUnassign(w) PROVE LoadTypes'
    BY <1>0, <1>5 DEF RejectUnassign
  <1>6. ASSUME NEW w \in lineAsked, ConfirmUnassign(w) PROVE LoadTypes'
    BY <1>0, <1>6 DEF ConfirmUnassign
  <1>7. ASSUME NEW w \in asked, ConfirmDelete(w) PROVE LoadTypes'
    BY <1>0, <1>7 DEF ConfirmDelete
  <1>8. ASSUME NEW u \in Users, OpenDialog(u) PROVE LoadTypes'
    BY <1>0, <1>8 DEF OpenDialog
  <1>9. ASSUME NEW b \in Bundles, SelectBundle(b) PROVE LoadTypes'
    BY <1>0, <1>9 DEF SelectBundle
  <1>10. CASE CancelDialog BY <1>0, <1>10 DEF CancelDialog
  <1>11. ASSUME NEW b \in Bundles, NEW u \in Users, AddUserToBundle(b, u) PROVE LoadTypes'
    BY <1>0, <1>11 DEF AddUserToBundle
  <1>12. ASSUME NEW g \in Groups, AddCallGroup(g) PROVE LoadTypes'
    BY <1>0, <1>12 DEF AddCallGroup
  <1>13. ASSUME NEW w \in writes, Accept(w) PROVE LoadTypes'
    BY <1>13, EffectTypes DEF Accept, LoadTypes
  <1>14. ASSUME NEW w \in writes, Done(w) PROVE LoadTypes'
    BY <1>00, <1>14 DEF Done
  <1>15. ASSUME NEW w \in writes, Fail(w) PROVE LoadTypes'
    <2>1. CASE w.op \in {"delete", "addgroup"} BY <1>15, <2>1 DEF Fail, LoadTypes
    <2>2. CASE w.op \notin {"delete", "addgroup"} BY <1>00, <1>15, <2>2 DEF Fail
    <2> QED BY <2>1, <2>2
  <1>16. ASSUME NEW l \in loads, Read(l) PROVE LoadTypes'
    <2> DEFINE m == [l EXCEPT !.seen = backend]
    <2>1. m \in [id : 1..issued, seen : Backend \cup {None}] BY DEF LoadTypes
    <2>2. loads' = (loads \ {l}) \cup {m} BY <1>16 DEF Read
    <2> HIDE DEF m
    <2> QED BY <1>16, <2>1, <2>2 DEF Read, LoadTypes
  <1>17. ASSUME NEW l \in loads, LoadDone(l) PROVE LoadTypes'
    BY <1>17 DEF LoadDone, LoadTypes
  <1>18. ASSUME NEW l \in loads, LoadFailed(l) PROVE LoadTypes'
    BY <1>18 DEF LoadFailed, LoadTypes
  <1> QED
    BY <1>1, <1>2, <1>3, <1>4, <1>5, <1>6, <1>7, <1>8, <1>9,
       <1>10, <1>11, <1>12, <1>13, <1>14, <1>15, <1>16, <1>17, <1>18 DEF Next

\* What the page lists is the directory, filtered; it lists nothing twice.
Listed == IsInjective(directory) /\ ShownIsDirectory

\* Whatever changes the directory, the tab or the list changes the list to match.
LEMMA ListedStep == ASSUME IInv, PageTypes, Listed, Next PROVE Listed'
  <1>0. UNCHANGED <<directory, items, sub, hidden>> => Listed' BY DEF Listed, ShownIsDirectory
  <1>1. ASSUME NEW s \in Subs, SwitchSub(s) PROVE Listed'
    <2>1. /\ items' = Kept(directory, Tab(s)) /\ hidden' = {} /\ sub' = s
          /\ directory' = directory
      BY <1>1 DEF SwitchSub, Render, Filter
    <2>2. Tab(s) \ {} = Tab(s) OBVIOUS
    <2> QED BY <2>1, <2>2 DEF Listed, ShownIsDirectory
  <1>2. ASSUME NEW i \in DOMAIN items, AskDelete(i) PROVE Listed'
    BY <1>0, <1>2 DEF AskDelete
  <1>3. ASSUME NEW u \in Users, NEW j \in DOMAIN lines[u], AskUnassign(u, j) PROVE Listed'
    BY <1>0, <1>3 DEF AskUnassign
  <1>4. CASE RejectDelete BY <1>0, <1>4 DEF RejectDelete
  <1>5. ASSUME NEW w \in lineAsked, RejectUnassign(w) PROVE Listed'
    BY <1>0, <1>5 DEF RejectUnassign
  <1>6. ASSUME NEW w \in lineAsked, ConfirmUnassign(w) PROVE Listed'
    BY <1>0, <1>6 DEF ConfirmUnassign
  <1>7. ASSUME NEW w \in asked, ConfirmDelete(w) PROVE Listed'
    <2> DEFINE T == Tab(sub) \ hidden
               x == items[w.idx]
    <2>1. directory \in Seq(Items) /\ IsInjective(directory) /\ items = Kept(directory, T)
      BY DEF PageTypes, Listed, ShownIsDirectory
    <2>2. w.idx \in DOMAIN items BY DEF PageTypes
    <2>3. RemoveAt(items, w.idx) = Kept(directory, T \ {x})
      <3> HIDE DEF T
      <3> QED BY <2>1, <2>2, KeptRemove
    <2>4. T \ {x} = Tab(sub) \ (hidden \cup {x}) OBVIOUS
    <2>5. /\ items' = RemoveAt(items, w.idx) /\ hidden' = hidden \cup {x}
          /\ UNCHANGED <<directory, sub>>
      BY <1>7 DEF ConfirmDelete, Render
    <2>6. items' = Kept(directory', Tab(sub') \ hidden') BY <2>3, <2>4, <2>5
    <2> QED BY <2>1, <2>5, <2>6 DEF Listed, ShownIsDirectory
  <1>8. ASSUME NEW u \in Users, OpenDialog(u) PROVE Listed'
    BY <1>0, <1>8 DEF OpenDialog
  <1>9. ASSUME NEW b \in Bundles, SelectBundle(b) PROVE Listed'
    BY <1>0, <1>9 DEF SelectBundle
  <1>10. CASE CancelDialog BY <1>0, <1>10 DEF CancelDialog
  <1>11. ASSUME NEW b \in Bundles, NEW u \in Users, AddUserToBundle(b, u) PROVE Listed'
    BY <1>0, <1>11 DEF AddUserToBundle
  <1>12. ASSUME NEW g \in Groups, AddCallGroup(g) PROVE Listed'
    BY <1>0, <1>12 DEF AddCallGroup
  <1>13. ASSUME NEW w \in writes, Accept(w) PROVE Listed'
    BY <1>0, <1>13 DEF Accept
  <1>14. ASSUME NEW w \in writes, Done(w) PROVE Listed'
    BY <1>0, <1>14 DEF Done
  <1>15. ASSUME NEW w \in writes, Fail(w) PROVE Listed'
    BY <1>0, <1>15 DEF Fail
  <1>16. ASSUME NEW l \in loads, Read(l) PROVE Listed'
    BY <1>0, <1>16 DEF Read
  <1>17. ASSUME NEW l \in loads, LoadDone(l) PROVE Listed'
    <2>1. /\ directory' = Listing(l.seen) /\ sub' = sub /\ hidden' = {}
          /\ items' = Kept(Listing(l.seen), Tab(sub))
      BY <1>17 DEF LoadDone, Render, Filter
    <2>2. Tab(sub) \ {} = Tab(sub) OBVIOUS
    <2>3. IsInjective(directory') BY <2>1, ListingTypes
    <2> QED BY <2>1, <2>2, <2>3 DEF Listed, ShownIsDirectory
  <1>18. ASSUME NEW l \in loads, LoadFailed(l) PROVE Listed'
    BY <1>0, <1>18 DEF LoadFailed
  <1> QED
    BY <1>1, <1>2, <1>3, <1>4, <1>5, <1>6, <1>7, <1>8, <1>9,
       <1>10, <1>11, <1>12, <1>13, <1>14, <1>15, <1>16, <1>17, <1>18 DEF Next

\* Nothing is listed at first.
LEMMA InitTyped == Init => Typed /\ Listed
  <1> SUFFICES ASSUME Init PROVE Typed /\ Listed OBVIOUS
  <1>1. PageTypes
    BY DEF Init, PageTypes
  <1>2. SentTypes BY BoundAssumption DEF Init, SentTypes
  <1>3. LoadTypes
    <2>1. loads \subseteq [id : 1..1, seen : Backend \cup {None}]
      <3>1. [id |-> 1, seen |-> None] \in [id : 1..1, seen : Backend \cup {None}] OBVIOUS
      <3> QED BY <3>1 DEF Init
    <2>2. issued = 1 /\ listed = 0 /\ unseen = FALSE /\ backend \in Backend BY DEF Init
    <2>3. 1 \in 1..MaxLoads /\ 0 \in 0..1 BY BoundAssumption
    <2> QED BY <2>1, <2>2, <2>3 DEF LoadTypes
  <1>4. Listed
    <2>1. Kept(<<>>, Tab(sub) \ {}) = <<>>
      <3>1. <<>> \in Seq(Items) /\ Len(<<>>) = 0 OBVIOUS
      <3>2. Built(<<>>, Items, Tab(sub) \ {}, KeptUpTo(<<>>, Tab(sub) \ {})) BY <3>1, PrefixStep
      <3>3. Kept(<<>>, Tab(sub) \ {}) = KeptUpTo(<<>>, Tab(sub) \ {})[0] BY <3>1, KeptIsLast
      <3> QED BY <3>2, <3>3 DEF Built
    <2> QED BY <2>1 DEF Init, Listed, ShownIsDirectory, IsInjective
  <1> QED BY <1>1, <1>2, <1>3, <1>4 DEF Typed

\* The invariants together are inductive.
THEOREM TypeInvariance == Spec => [](IInv /\ Typed /\ Listed)
  <1>1. Init => IInv /\ Typed /\ Listed BY InitInv, InitTyped
  <1>2. IInv /\ Typed /\ Listed /\ [Next]_vars => (IInv /\ Typed /\ Listed)'
    <2> SUFFICES ASSUME IInv, Typed, Listed, [Next]_vars PROVE (IInv /\ Typed /\ Listed)'
      OBVIOUS
    <2>1. CASE Next
      BY <2>1, Inductive, PageTypesStep, SentTypesStep, LoadTypesStep, ListedStep DEF Typed
    <2>2. CASE UNCHANGED vars
      <3>1. IInv' BY <2>2, Inductive
      <3>2. PageTypes' BY <2>2 DEF vars, Typed, PageTypes
      <3>3. SentTypes' BY <2>2 DEF vars, Typed, SentTypes, Fits
      <3>4. LoadTypes' BY <2>2 DEF vars, Typed, LoadTypes
      <3>5. Listed' BY <2>2 DEF vars, Listed, ShownIsDirectory
      <3> QED BY <3>1, <3>2, <3>3, <3>4, <3>5 DEF Typed
    <2> QED BY <2>1, <2>2
  <1> QED BY <1>1, <1>2, PTL DEF Spec

-----------------------------------------------------------------------------
\* Nothing is deleted, and no line taken by its own warning, but what the
\* warning was drawn on.
THEOREM Confirmed == Spec => []ConfirmedIsShown
  <1>1. IInv => ConfirmedIsShown BY DEF IInv
  <1> QED BY <1>1, Invariance, PTL

\* When all has settled, the page lists what the backend has.
THEOREM Current == Spec => []SettledIsCurrent
  <1>1. IInv => SettledIsCurrent
    BY DEF IInv, Fresh, Heard, SettledIsCurrent
  <1> QED BY <1>1, Invariance, PTL

\* Every variable has the type that ConfigPage gives it.
THEOREM TypeCorrect == Spec => []TypeOK
  <1>1. Typed => TypeOK BY DEF Typed, PageTypes, SentTypes, LoadTypes, TypeOK
  <1> QED BY <1>1, TypeInvariance, PTL

\* No answer, no tab and no deletion leaves the list behind the directory.
THEOREM ListShown == Spec => []ShownIsDirectory
  <1>1. Listed => ShownIsDirectory BY DEF Listed
  <1> QED BY <1>1, TypeInvariance, PTL

\* When all has settled, what the page lists is what the backend has in the tab,
\* each once, but for the items whose deletion was confirmed and not carried out.
THEOREM SettledList ==
  Spec => [](writes = {} /\ listed = issued /\ ~unseen =>
               /\ ToSet(items) = {x \in Items : Present(backend, x) /\ InSub(sub, x)} \ hidden
               /\ IsInjective(items))
  <1>1. ASSUME IInv, Typed, Listed, writes = {}, listed = issued, ~unseen
        PROVE  /\ ToSet(items) = {x \in Items : Present(backend, x) /\ InSub(sub, x)} \ hidden
               /\ IsInjective(items)
    <2>1. directory = Listing(backend) BY <1>1 DEF IInv, Fresh, Heard
    <2>2. directory \in Seq(Items) /\ IsInjective(directory) BY <1>1 DEF Typed, PageTypes, Listed
    <2>3. items = Kept(directory, Tab(sub) \ hidden) BY <1>1 DEF Listed, ShownIsDirectory
    <2>4. ToSet(items) = ToSet(directory) \cap (Tab(sub) \ hidden) BY <2>2, <2>3, KeptEntries
    <2>5. ToSet(directory) = ToSet(Order) \cap {x \in Items : Present(backend, x)}
      BY <2>1, OrderAssumption, KeptEntries DEF Listing
    <2>6. IsInjective(items) BY <2>2, <2>3, KeptInjective
    <2> QED BY <2>4, <2>5, <2>6, OrderAssumption DEF Tab
  <1> QED BY <1>1, TypeInvariance, PTL
================================================================================
