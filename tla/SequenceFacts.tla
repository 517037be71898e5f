--------------------------- MODULE SequenceFacts ---------------------------
(* Facts about sequences without repetition, for the proofs about queues.  *)
EXTENDS Integers, FiniteSets, SequencesExt, SequenceTheorems,
        FiniteSetTheorems, TLAPS

\* IsInjective and ToSet, read off the indices of a sequence.
LEMMA InjectiveSeq ==
    ASSUME NEW S, NEW s \in Seq(S)
    PROVE  /\ IsInjective(s) <=>
                 \A i, j \in 1..Len(s) : s[i] = s[j] => i = j
           /\ ToSet(s) = {s[i] : i \in 1..Len(s)}
           /\ ToSet(s) \subseteq S
           /\ Len(s) \in Nat
    <1>1. DOMAIN s = 1..Len(s)
        BY LenProperties
    <1>. QED  BY <1>1, LenProperties DEF IsInjective, ToSet

LEMMA EmptyInjective == IsInjective(<<>>) /\ ToSet(<<>>) = {}
    <1>1. DOMAIN <<>> = {}
        OBVIOUS
    <1>. QED  BY <1>1 DEF IsInjective, ToSet

LEMMA FrontFacts ==
    ASSUME NEW S, NEW s \in Seq(S), s # <<>>
    PROVE  /\ Front(s) \in Seq(S)
           /\ Len(s) \in Nat \ {0}
           /\ Len(Front(s)) = Len(s) - 1
           /\ \A i \in 1..(Len(s) - 1) : Front(s)[i] = s[i]
           /\ Last(s) \in S
    <1>1. Len(s) \in Nat \ {0}
        BY EmptySeq
    <1>2. \A i \in 1..(Len(s) - 1) : s[i] \in S
        BY <1>1, ElementOfSeq
    <1>. DEFINE n == Len(s) - 1
    <1>0. n \in Nat /\ n = Len(s) - 1
        BY <1>1
    <1>. HIDE DEF n
    <1>3. /\ SubSeq(s, 1, n) \in Seq(S)
          /\ Len(SubSeq(s, 1, n)) = n
          /\ \A i \in 1..n : SubSeq(s, 1, n)[i] = s[i]
        <2>1. /\ SubSeq(s, 1, n) \in Seq(S)
              /\ Len(SubSeq(s, 1, n)) = IF 1 <= n THEN n - 1 + 1 ELSE 0
              /\ \A i \in 1..(n - 1 + 1) : SubSeq(s, 1, n)[i] = s[1 + i - 1]
            <3>1. 1 \in Int /\ n \in Int /\ \A i \in 1..n : s[i] \in S
                BY <1>0, <1>2
            <3>. QED  BY <3>1, SubSeqProperties
        <2>2. n - 1 + 1 = n /\ \A i \in 1..n : 1 + i - 1 = i
            BY <1>0
        <2>. QED  BY <1>0, <2>1, <2>2
    <1>4. s[Len(s)] \in S
        BY <1>1, ElementOfSeq
    <1>. QED  BY <1>0, <1>1, <1>3, <1>4 DEF Front, Last

LEMMA FrontInjective ==
    ASSUME NEW S, NEW s \in Seq(S), s # <<>>, IsInjective(s)
    PROVE  /\ IsInjective(Front(s))
           /\ ToSet(Front(s)) = ToSet(s) \ {Last(s)}
           /\ Last(s) \in ToSet(s)
    <1>. DEFINE f == Front(s)
    <1>1. /\ f \in Seq(S)
          /\ Len(s) \in Nat \ {0}
          /\ Len(f) = Len(s) - 1
          /\ \A i \in 1..(Len(s) - 1) : f[i] = s[i]
        BY FrontFacts
    <1>2. Last(s) = s[Len(s)]
        BY DEF Last
    <1>. HIDE DEF f
    <1>3. IsInjective(f)
        BY <1>1, InjectiveSeq
    <1>4. ToSet(f) = ToSet(s) \ {Last(s)}
        BY <1>1, <1>2, InjectiveSeq
    <1>5. Last(s) \in ToSet(s)
        BY <1>1, <1>2, InjectiveSeq
    <1>. QED  BY <1>3, <1>4, <1>5 DEF f

LEMMA AppendInjective1 ==
    ASSUME NEW S, NEW s \in Seq(S), NEW e \in S, IsInjective(s), e \notin ToSet(s)
    PROVE  /\ Append(s, e) \in Seq(S)
           /\ Len(Append(s, e)) = Len(s) + 1
           /\ IsInjective(Append(s, e))
           /\ ToSet(Append(s, e)) = ToSet(s) \cup {e}
    <1>. DEFINE f == Append(s, e)
    <1>1. /\ f \in Seq(S)
          /\ Len(s) \in Nat
          /\ Len(f) = Len(s) + 1
          /\ f[Len(s) + 1] = e
          /\ \A i \in 1..Len(s) : f[i] = s[i]
        BY AppendProperties, LenProperties
    <1>. HIDE DEF f
    <1>2. IsInjective(f)
        BY <1>1, InjectiveSeq
    <1>3. ToSet(f) = ToSet(s) \cup {e}
        BY <1>1, InjectiveSeq
    <1>. QED  BY <1>1, <1>2, <1>3 DEF f

LEMMA TailInjective ==
    ASSUME NEW S, NEW s \in Seq(S), s # <<>>, IsInjective(s)
    PROVE  /\ Tail(s) \in Seq(S)
           /\ IsInjective(Tail(s))
           /\ ToSet(Tail(s)) = ToSet(s) \ {Head(s)}
           /\ Head(s) \in ToSet(s)
    <1>. DEFINE f == Tail(s)
    <1>1. /\ f \in Seq(S)
          /\ Len(s) \in Nat \ {0}
          /\ Len(f) = Len(s) - 1
          /\ \A i \in 1..Len(f) : f[i] = s[i + 1]
          /\ Head(s) = s[1]
        BY HeadTailProperties, EmptySeq
    <1>. HIDE DEF f
    <1>2. IsInjective(f)
        BY SMTT(30), <1>1, InjectiveSeq
    <1>3. ToSet(f) = ToSet(s) \ {s[1]}
        <2>1. \A x \in ToSet(f) : x \in ToSet(s) /\ x # s[1]
            BY <1>1, InjectiveSeq
        <2>2. ASSUME NEW x \in ToSet(s), x # s[1]
              PROVE  x \in ToSet(f)
            <3>1. PICK j \in 1..Len(s) : x = s[j]
                BY InjectiveSeq
            <3>2. j - 1 \in 1..Len(f) /\ f[j - 1] = x
                BY <1>1, <2>2, <3>1
            <3>. QED  BY <1>1, <3>2, InjectiveSeq
        <2>. QED  BY <2>1, <2>2
    <1>4. s[1] \in ToSet(s)
        BY <1>1, InjectiveSeq
    <1>. QED  BY <1>1, <1>2, <1>3, <1>4 DEF f

LEMMA RemoveAtInjective ==
    ASSUME NEW S, NEW s \in Seq(S), NEW i \in 1..Len(s), IsInjective(s)
    PROVE  /\ RemoveAt(s, i) \in Seq(S)
           /\ IsInjective(RemoveAt(s, i))
           /\ ToSet(RemoveAt(s, i)) = ToSet(s) \ {s[i]}
    <1>. DEFINE f == RemoveAt(s, i)
    <1>0. Len(s) \in Nat /\ \A j \in 1..Len(s) : s[j] \in S
        BY LenProperties, ElementOfSeq
    <1>. DEFINE l == SubSeq(s, 1, i - 1)
                r == SubSeq(s, i + 1, Len(s))
    <1>1. /\ l \in Seq(S)
          /\ Len(l) = i - 1
          /\ \A j \in 1..(i - 1) : l[j] = s[j]
        BY <1>0, SubSeqProperties
    <1>2. /\ r \in Seq(S)
          /\ Len(r) = Len(s) - i
          /\ \A j \in 1..(Len(s) - i) : r[j] = s[i + j]
        BY <1>0, SubSeqProperties
    <1>3. f = l \o r
        BY DEF RemoveAt
    <1>. HIDE DEF l, r, f
    <1>4. /\ f \in Seq(S)
          /\ Len(f) = Len(s) - 1
          /\ \A j \in 1..Len(f) : f[j] = IF j < i THEN s[j] ELSE s[j + 1]
        <2>1. /\ f \in Seq(S)
              /\ Len(f) = Len(l) + Len(r)
              /\ \A j \in 1..(Len(l) + Len(r)) :
                    f[j] = IF j <= Len(l) THEN l[j] ELSE r[j - Len(l)]
            BY <1>1, <1>2, <1>3, ConcatProperties
        <2>2. Len(f) = Len(s) - 1
            BY <1>0, <1>1, <1>2, <2>1
        <2>3. ASSUME NEW j \in 1..Len(f)
              PROVE  f[j] = IF j < i THEN s[j] ELSE s[j + 1]
            <3>1. CASE j < i
                BY <1>0, <1>1, <1>2, <2>1, <2>2, <3>1
            <3>2. CASE ~(j < i)
                <4>1. /\ j - (i - 1) \in 1..(Len(s) - i)
                      /\ i + (j - (i - 1)) = j + 1
                      /\ f[j] = r[j - (i - 1)]
                    BY <1>0, <1>1, <1>2, <2>1, <2>2, <3>2
                <4>. QED  BY <1>2, <3>2, <4>1
            <3>. QED  BY <3>1, <3>2
        <2>. QED  BY <2>1, <2>2, <2>3
    <1>. DEFINE at(j) == IF j < i THEN j ELSE j + 1
    <1>5. \A p, q \in 1..Len(s) : s[p] = s[q] => p = q
        BY InjectiveSeq
    <1>6. \A j \in 1..Len(f) : at(j) \in 1..Len(s) /\ at(j) # i /\ f[j] = s[at(j)]
        BY <1>0, <1>4
    <1>7. IsInjective(f)
        <2>1. ASSUME NEW p \in 1..Len(f), NEW q \in 1..Len(f), f[p] = f[q]
              PROVE  p = q
            <3>1. at(p) = at(q)
                BY <1>5, <1>6, <2>1
            <3>. QED  BY <3>1, <1>0
        <2>. QED  BY <1>4, <2>1, InjectiveSeq
    <1>8. ToSet(f) \subseteq ToSet(s) \ {s[i]}
        <2>1. ASSUME NEW j \in 1..Len(f)
              PROVE  f[j] \in ToSet(s) \ {s[i]}
            <3>1. s[at(j)] \in ToSet(s) /\ s[at(j)] # s[i]
                BY <1>5, <1>6, InjectiveSeq
            <3>. QED  BY <1>6, <3>1
        <2>. QED  BY <1>4, <2>1, InjectiveSeq
    <1>9. \A x \in ToSet(s) \ {s[i]} : x \in ToSet(f)
        <2>. TAKE x \in ToSet(s) \ {s[i]}
        <2>1. PICK j \in 1..Len(s) : x = s[j]
            BY InjectiveSeq
        <2>2. CASE j < i
            BY <1>0, <1>4, <2>1, <2>2, InjectiveSeq
        <2>3. CASE j > i
            <3>1. j - 1 \in 1..Len(f) /\ f[j - 1] = x
                BY <1>0, <1>4, <2>1, <2>3
            <3>. QED  BY <1>4, <3>1, InjectiveSeq
        <2>. QED  BY <1>0, <2>1, <2>2, <2>3
    <1>. QED  BY <1>4, <1>7, <1>8, <1>9 DEF f

\* A sequence without repetition is as long as the set of its elements is big.
LEMMA InjectiveSeqCardinality ==
    ASSUME NEW S, NEW s \in Seq(S), IsInjective(s)
    PROVE  /\ IsFiniteSet(ToSet(s))
           /\ Cardinality(ToSet(s)) = Len(s)
    <1>1. s \in [1..Len(s) -> S] /\ Len(s) \in Nat /\ DOMAIN s = 1..Len(s)
        BY LenProperties
    <1>2. IsFiniteSet(1..Len(s)) /\ Cardinality(1..Len(s)) = Len(s)
        <2>1. 1 \in Int /\ Len(s) \in Int
            BY <1>1
        <2>2. Len(s) = IF 1 > Len(s) THEN 0 ELSE Len(s) - 1 + 1
            BY <1>1
        <2>. QED  BY <2>1, <2>2, FS_Interval
    <1>3. ToSet(s) = {s[i] : i \in 1..Len(s)}
        BY InjectiveSeq
    <1>4. s \in [1..Len(s) -> ToSet(s)]
        BY <1>1, <1>3
    <1>5. s \in Surjection(1..Len(s), ToSet(s))
        BY <1>3, <1>4 DEF Surjection
    <1>6. s \in Injection(1..Len(s), ToSet(s))
        BY <1>1, <1>4 DEF Injection, IsInjective
    <1>. QED  BY <1>2, <1>5, <1>6, FS_Surjection
=============================================================================
