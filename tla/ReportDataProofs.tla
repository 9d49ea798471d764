-------------------------- MODULE ReportDataProofs --------------------------
(***************************************************************************)
(* The report data loses its trailing nulls on its way from `kettle        *)
(* attest` to `kettle verify`.  The theorems say what verify can still     *)
(* tell, for every length of checksum and nonce.                           *)
(***************************************************************************)
EXTENDS ReportData, SequenceTheorems, WellFoundedInduction, TLAPS

\* A non-empty set of naturals has a least element.
LEMMA LeastNatural ==
    ASSUME NEW T, T \subseteq Nat, T # {}
    PROVE  \E x \in T : \A y \in T : x <= y
<1>1. PICK x \in T : \A y \in T : ~(<<y, x>> \in OpToRel(<, Nat))
    BY NatLessThanWellFounded, WFMin, Zenon
<1>2. \A y \in T : ~(y < x)
    BY <1>1 DEF OpToRel
<1>3. QED
    BY <1>2

\* strip_trailing_nulls keeps a prefix of the data that ends in a non-null
\* byte, and drops nothing but nulls.
LEMMA StripProperties ==
    ASSUME NEW d \in Seq(Nat)
    PROVE  \E k \in 0..Len(d) :
              /\ strip_trailing_nulls(d) = SubSeq(d, 1, k)
              /\ NullAfter(d, k)
              /\ k > 0 => d[k] # 0
<1> DEFINE T == {k \in 0..Len(d) : NullAfter(d, k)}
<1>1. Len(d) \in T
    BY DEF NullAfter
<1>2. PICK k \in T : \A y \in T : k <= y
  <2>1. T \subseteq Nat /\ T # {}
    BY <1>1
  <2> HIDE DEF T
  <2>2. QED
    BY <2>1, LeastNatural
<1>3. k > 0 => d[k] # 0
  <2>1. SUFFICES ASSUME k > 0, d[k] = 0
                 PROVE  FALSE
    OBVIOUS
  <2>2. k - 1 \in T
    BY <2>1 DEF NullAfter
  <2>3. QED
    BY <1>2, <2>2
<1>4. \E j \in 0..Len(d) : NullAfter(d, j) /\ (j > 0 => d[j] # 0)
    BY <1>3
<1>5. QED
    BY <1>4, Zenon DEF strip_trailing_nulls

\* Byte i of the signed data, extended by nulls, is byte i of the report data.
LEMMA StrippedPrefix ==
    ASSUME NEW d \in Seq(Nat), NEW k \in 0..Len(d), NullAfter(d, k)
    PROVE  /\ Len(SubSeq(d, 1, k)) = k
           /\ \A i \in 1..k : SubSeq(d, 1, k)[i] = d[i]
           /\ \A i \in 1..Len(d) : i > k => d[i] = 0
BY DEF NullAfter

\* The report data as a sequence of naturals.
LEMMA ReportDataBytes ==
    ASSUME NEW c \in Checksum, NEW n \in NonceBytes
    PROVE  /\ c \o n \in Seq(Nat)
           /\ Len(c \o n) = SumLen + NonceLen
           /\ \A i \in 1..SumLen : (c \o n)[i] = c[i]
           /\ \A i \in 1..NonceLen : (c \o n)[SumLen + i] = n[i]
<1>1. c \in Seq(Nat) /\ Len(c) = SumLen
  <2>1. SumLen \in Nat /\ c \in [1..SumLen -> Nat]
    BY ReportDataAssumption DEF Checksum
  <2>2. QED
    BY <2>1
<1>2. n \in Seq(Nat) /\ Len(n) = NonceLen
  <2>1. NonceLen \in Nat /\ n \in [1..NonceLen -> Nat]
    BY ReportDataAssumption DEF NonceBytes
  <2>2. QED
    BY <2>1
<1>3. /\ c \o n \in Seq(Nat)
      /\ Len(c \o n) = SumLen + NonceLen
      /\ \A i \in 1..(SumLen + NonceLen) :
            (c \o n)[i] = IF i <= SumLen THEN c[i] ELSE n[i - SumLen]
    BY <1>1, <1>2, ConcatProperties
<1>4. SumLen \in Nat /\ NonceLen \in Nat
    BY ReportDataAssumption
<1>5. ASSUME NEW i \in 1..NonceLen
      PROVE  (c \o n)[SumLen + i] = n[i]
  <2>1. /\ SumLen + i \in 1..(SumLen + NonceLen)
        /\ ~(SumLen + i <= SumLen)
        /\ (SumLen + i) - SumLen = i
    BY <1>4
  <2>2. QED
    BY <1>3, <2>1
<1>6. QED
    BY <1>3, <1>4, <1>5

\* verify_provenance accepts a provenance exactly when its checksum is the one
\* that was signed, whatever nonce was signed with it and however many nulls
\* the attestation library removed (compare_checksum).
THEOREM ChecksumExact ==
    ASSUME NEW c \in Checksum, NEW n \in NonceBytes, NEW e \in Checksum
    PROVE  compare_checksum(strip_trailing_nulls(c \o n), e) <=> c = e
<1> DEFINE d == c \o n
<1>1. /\ d \in Seq(Nat)
      /\ Len(d) = SumLen + NonceLen
      /\ \A i \in 1..SumLen : d[i] = c[i]
    BY ReportDataBytes
<1> HIDE DEF d
<1>2. PICK k \in 0..Len(d) : /\ strip_trailing_nulls(d) = SubSeq(d, 1, k)
                             /\ NullAfter(d, k)
    BY <1>1, StripProperties
<1> DEFINE r == SubSeq(d, 1, k)
<1>3. /\ Len(r) = k
      /\ \A i \in 1..k : r[i] = d[i]
      /\ \A i \in 1..Len(d) : i > k => d[i] = 0
    BY <1>1, <1>2, StrippedPrefix
<1> HIDE DEF r
<1>4. ZeroExtend(r, SumLen) = [i \in 1..SumLen |-> c[i]]
    BY <1>1, <1>3, ReportDataAssumption DEF ZeroExtend
<1>5. [i \in 1..SumLen |-> c[i]] = c
    BY DEF Checksum
<1>6. compare_checksum(r, e) <=> c = e
    BY <1>4, <1>5, Zenon DEF compare_checksum
<1>7. QED
    BY <1>2, <1>6 DEF d, r

\* verify_nonce accepts a nonce of the right form exactly when it is the one
\* that was signed, unless that nonce is all zeros and the checksum before it
\* ends in zero too: then the slot looks missing.
THEOREM NonceExact ==
    ASSUME NEW c \in Checksum, NEW n \in NonceBytes, NEW m \in NonceBytes
    PROVE  verify_nonce(strip_trailing_nulls(c \o n), [bytes |-> m, form |-> "plain"])
               <=> n = m /\ (n # Zeros(NonceLen) \/ c[SumLen] # 0)
<1> DEFINE d == c \o n
<1>1. /\ d \in Seq(Nat)
      /\ Len(d) = SumLen + NonceLen
      /\ \A i \in 1..SumLen : d[i] = c[i]
      /\ \A i \in 1..NonceLen : d[SumLen + i] = n[i]
    BY ReportDataBytes
<1> HIDE DEF d
<1>2. PICK k \in 0..Len(d) : /\ strip_trailing_nulls(d) = SubSeq(d, 1, k)
                             /\ NullAfter(d, k)
                             /\ k > 0 => d[k] # 0
    BY <1>1, StripProperties
<1> DEFINE r == SubSeq(d, 1, k)
<1>3. /\ Len(r) = k
      /\ \A i \in 1..k : r[i] = d[i]
      /\ \A i \in 1..Len(d) : i > k => d[i] = 0
    BY <1>1, <1>2, StrippedPrefix
<1>4. r \in Seq(Nat)
    BY <1>1, <1>2
<1> HIDE DEF r
<1> DEFINE s == SubSeq(r, SumLen + 1, Len(r))
<1>5. SumLen \in Nat \ {0} /\ NonceLen \in Nat \ {0}
    BY ReportDataAssumption
<1>6. CASE k >= SumLen
  <2>1. /\ Len(s) = k - SumLen
        /\ \A i \in 1..(k - SumLen) : s[i] = r[SumLen + i]
    BY <1>3, <1>4, <1>5, <1>6
  <2> HIDE DEF s
  <2>2. Len(s) <= NonceLen
    BY <1>1, <1>2, <2>1, <1>5
  <2>3. ASSUME NEW i \in 1..NonceLen
        PROVE  (IF i <= Len(s) THEN s[i] ELSE 0) = n[i]
    <3>1. CASE i <= Len(s)
      <4>1. SumLen + i \in 1..k
        BY <2>1, <3>1, <1>5
      <4>2. s[i] = d[SumLen + i]
        BY <2>1, <3>1, <4>1, <1>3
      <4>3. QED
        BY <4>2, <3>1, <1>1
    <3>2. CASE i > Len(s)
      <4>1. SumLen + i \in 1..Len(d) /\ SumLen + i > k
        BY <2>1, <3>2, <1>1, <1>2, <1>5
      <4>2. QED
        BY <4>1, <3>2, <1>1, <1>3, <2>1
    <3>3. QED
      BY <3>1, <3>2, <2>1, <1>5
  <2>4. ZeroExtend(s, NonceLen) = [i \in 1..NonceLen |-> n[i]]
    BY <2>3 DEF ZeroExtend
  <2>5. [i \in 1..NonceLen |-> n[i]] = n
    BY DEF NonceBytes
  <2>6. n # Zeros(NonceLen) \/ c[SumLen] # 0
    <3>1. CASE k = SumLen
      BY <3>1, <1>1, <1>2, <1>5
    <3>2. CASE k > SumLen
      <4>1. k - SumLen \in 1..NonceLen /\ n[k - SumLen] # 0
        BY <3>2, <1>1, <1>2, <1>5
      <4>2. QED
        BY <4>1 DEF Zeros
    <3>3. QED
      BY <1>6, <3>1, <3>2, <1>2, <1>5
  <2>7. Len(m) = NonceLen
    BY <1>5 DEF NonceBytes
  <2>8. Len(r) >= SumLen
    BY <1>3, <1>6
  <2>9. verify_nonce(r, [bytes |-> m, form |-> "plain"]) <=> ZeroExtend(s, NonceLen) = m
    BY <2>2, <2>7, <2>8 DEF verify_nonce, s
  <2>10. verify_nonce(r, [bytes |-> m, form |-> "plain"]) <=> n = m
    BY <2>4, <2>5, <2>9
  <2>11. QED
    BY <1>2, <2>6, <2>10 DEF d, r
<1>7. CASE k < SumLen
  <2>1. ~ verify_nonce(r, [bytes |-> m, form |-> "plain"])
    BY <1>3, <1>5, <1>7 DEF verify_nonce
  <2>2. c[SumLen] = 0
    BY <1>1, <1>3, <1>5, <1>7
  <2>3. ASSUME NEW i \in 1..NonceLen
        PROVE  n[i] = 0
    <3>1. SumLen + i \in 1..Len(d) /\ SumLen + i > k
      BY <1>1, <1>2, <1>5, <1>7
    <3>2. QED
      BY <3>1, <1>1, <1>3
  <2>4. n = Zeros(NonceLen)
    BY <2>3 DEF NonceBytes, Zeros
  <2>5. QED
    BY <1>2, <2>1, <2>2, <2>4 DEF d, r
<1>8. QED
    BY <1>2, <1>5, <1>6, <1>7, <1>1
=============================================================================
