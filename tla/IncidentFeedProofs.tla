-------------------------- MODULE IncidentFeedProofs --------------------------
(* Proofs about IncidentFeed, for any incidents, ring and queue sizes, any *)
(* window and any number of faults, as long as the counter of event ids    *)
(* does not start again within a millisecond (WrapsBetweenEvents).         *)
(* FeedInv is inductive: one lemma per action.                             *)
EXTENDS IncidentFeed, SequenceTheorems, WellFoundedInduction, TLAPS

USE IncidentFeedAssumption
USE DEF NoId, None

-------------------------------------------------------------------------------
(* Sequences and what stays of them.                                       *)

\* t is what is left of s when envelopes leave at its head.
SuffixOf(t, s) ==
  \E d \in 0 .. Len(s) : Len(t) = Len(s) - d /\ \A n \in 1 .. Len(t) : t[n] = s[n + d]

\* The elements of a sequence, by their places.
LEMMA RangeIs ==
  ASSUME NEW S, NEW s \in Seq(S)
  PROVE  /\ DOMAIN s = 1 .. Len(s) /\ Len(s) \in Nat
         /\ \A n \in 1 .. Len(s) : s[n] \in Range(s) /\ s[n] \in S
         /\ \A e \in Range(s) : e \in S /\ \E n \in 1 .. Len(s) : e = s[n]
  <1>1. DOMAIN s = 1 .. Len(s) /\ Len(s) \in Nat
    BY LenProperties
  <1>2. \A n \in 1 .. Len(s) : s[n] \in S
    BY ElementOfSeq
  <1> QED
    BY <1>1, <1>2 DEF Range

LEMMA EmptyRange == Range(<<>>) = {}
  BY DEF Range

LEMMA HeadIs ==
  ASSUME NEW S, NEW s \in Seq(S), s # <<>>
  PROVE  /\ Head(s) = s[1] /\ Len(s) >= 1 /\ Head(s) \in Range(s) /\ Head(s) \in S
         /\ Tail(s) \in Seq(S) /\ SuffixOf(Tail(s), s) /\ Len(Tail(s)) = Len(s) - 1
         /\ Range(s) = {Head(s)} \cup Range(Tail(s))
  <1>1. Len(s) \in Nat /\ Len(s) >= 1
    BY EmptySeq
  <1>2. Head(s) = s[1]
    BY DEF Head
  <1>3. /\ Tail(s) \in Seq(S) /\ Len(Tail(s)) = Len(s) - 1
        /\ \A n \in 1 .. Len(Tail(s)) : Tail(s)[n] = s[n + 1]
    BY HeadTailProperties
  <1>4. SuffixOf(Tail(s), s)
    BY <1>1, <1>3 DEF SuffixOf
  <1>5. ASSUME NEW e \in Range(s) PROVE e = Head(s) \/ e \in Range(Tail(s))
    <2>1. PICK n \in 1 .. Len(s) : e = s[n]
      BY RangeIs
    <2>2. CASE n = 1
      BY <1>2, <2>1, <2>2
    <2>3. CASE n # 1
      <3>1. n - 1 \in 1 .. Len(Tail(s)) /\ (n - 1) + 1 = n
        BY <1>1, <1>3, <2>1, <2>3
      <3>2. Tail(s)[n - 1] = e
        BY <1>3, <2>1, <3>1
      <3> QED
        BY <1>3, <3>1, <3>2, RangeIs
    <2> QED
      BY <2>2, <2>3
  <1>6. ASSUME NEW e \in Range(Tail(s)) PROVE e \in Range(s)
    <2>1. PICK n \in 1 .. Len(Tail(s)) : e = Tail(s)[n]
      <3> DEFINE t == Tail(s)
      <3>1. t \in Seq(S) /\ e \in Range(t)
        BY <1>3
      <3> HIDE DEF t
      <3>2. \E n \in 1 .. Len(t) : e = t[n]
        BY <3>1, RangeIs
      <3> QED
        BY <3>2 DEF t
    <2>2. n + 1 \in 1 .. Len(s)
      BY <1>1, <1>3, <2>1
    <2> QED
      BY <1>3, <2>1, <2>2, RangeIs
  <1>7. Head(s) \in Range(s) /\ Head(s) \in S
    BY <1>1, <1>2, RangeIs
  <1> QED
    BY <1>1, <1>2, <1>3, <1>4, <1>5, <1>6, <1>7

LEMMA AppendIs ==
  ASSUME NEW S, NEW s \in Seq(S), NEW e \in S
  PROVE  /\ Append(s, e) \in Seq(S) /\ Append(s, e) # <<>> /\ Len(Append(s, e)) = Len(s) + 1
         /\ Range(Append(s, e)) = Range(s) \cup {e}
         /\ \A n \in 1 .. Len(s) : Append(s, e)[n] = s[n]
         /\ Append(s, e)[Len(s) + 1] = e
         /\ Head(Append(s, e)) = IF s = <<>> THEN e ELSE Head(s)
  <1>1. /\ Append(s, e) \in Seq(S) /\ Append(s, e) # <<>> /\ Len(Append(s, e)) = Len(s) + 1
        /\ \A n \in 1 .. Len(s) : Append(s, e)[n] = s[n]
        /\ Append(s, e)[Len(s) + 1] = e
    BY AppendProperties
  <1>2. Head(Append(s, e)) = IF s = <<>> THEN e ELSE Head(s)
    BY HeadTailAppend
  <1> DEFINE t == Append(s, e)
  <1> HIDE DEF t
  <1>3. t \in Seq(S) /\ Len(t) = Len(s) + 1 /\ Len(s) \in Nat /\ t[Len(s) + 1] = e
        /\ \A n \in 1 .. Len(s) : t[n] = s[n]
    BY <1>1, RangeIs DEF t
  <1>4. ASSUME NEW f \in Range(t) PROVE f = e \/ f \in Range(s)
    <2>1. PICK n \in 1 .. Len(t) : f = t[n]
      BY <1>3, RangeIs
    <2>2. n = Len(s) + 1 \/ n \in 1 .. Len(s)
      BY <1>3, <2>1
    <2> QED
      BY <1>3, <2>1, <2>2, RangeIs
  <1>5. ASSUME NEW f \in Range(s) PROVE f \in Range(t)
    <2>1. PICK n \in 1 .. Len(s) : f = s[n]
      BY RangeIs
    <2>2. n \in 1 .. Len(t) /\ f = t[n]
      BY <1>3, <2>1
    <2> QED
      BY <1>3, <2>2, RangeIs
  <1>6. e \in Range(t)
    <2>1. Len(s) + 1 \in 1 .. Len(t)
      BY <1>3
    <2> QED
      BY <1>3, <2>1, RangeIs
  <1>7. Range(t) = Range(s) \cup {e}
    BY <1>4, <1>5, <1>6
  <1> QED
    BY <1>1, <1>2, <1>7 DEF t

\* A set of places has a first one.
LEMMA FirstPlace ==
  ASSUME NEW P, P \subseteq Nat, P # {}
  PROVE  \E n \in P : \A m \in P : n <= m
  <1> DEFINE R == {p \in Nat \X Nat : p[1] < p[2]}
  <1>1. R = OpToRel(<, Nat)
    BY DEF OpToRel
  <1>2. IsWellFoundedOn(R, Nat)
    BY <1>1, NatLessThanWellFounded
  <1> HIDE DEF R
  <1>3. PICK n \in P : \A m \in P : ~ (<<m, n>> \in R)
    BY <1>2, WFMin
  <1>4. ASSUME NEW m \in P PROVE n <= m
    <2>1. <<m, n>> \notin R
      BY <1>3
    <2>2. n \in Nat /\ m \in Nat
      OBVIOUS
    <2>3. ~(m < n)
      BY <2>1, <2>2 DEF R
    <2> QED
      BY <2>2, <2>3
  <1> QED
    BY <1>4

\* From keeps the places it is asked for, and all that come after.
LEMMA FromIs ==
  ASSUME NEW S, NEW s \in Seq(S), NEW P, P \subseteq 1 .. Len(s)
  PROVE  /\ From(s, P) \in Seq(S) /\ SuffixOf(From(s, P), s)
         /\ \A n \in P : s[n] \in Range(From(s, P))
         /\ From(s, P) # <<>> => \E n \in P : Head(From(s, P)) = s[n]
  <1>0. Len(s) \in Nat
    BY RangeIs
  <1>1. CASE P = {}
    <2>1. From(s, P) = <<>>
      BY <1>1 DEF From
    <2>2. <<>> \in Seq(S) /\ Len(<<>>) = 0
      BY EmptySeq
    <2>3. SuffixOf(<<>>, s)
      BY <1>0, <2>2 DEF SuffixOf
    <2> QED
      BY <1>1, <2>1, <2>2, <2>3
  <1>2. CASE P # {}
    <2>1. PICK n : n = CHOOSE x \in P : \A m \in P : x <= m
      OBVIOUS
    <2>2. n \in P /\ \A m \in P : n <= m
      <3>1. P \subseteq Nat
        OBVIOUS
      <3> QED
        BY <1>2, <2>1, <3>1, FirstPlace
    <2>3. n \in 1 .. Len(s)
      BY <2>2
    <2>4. PICK t : t = SubSeq(s, n, Len(s))
      OBVIOUS
    <2>5. From(s, P) = t
      BY <1>2, <2>1, <2>4 DEF From
    <2>6. \A i \in n .. Len(s) : s[i] \in S
      <3>1. \A i \in n .. Len(s) : i \in 1 .. Len(s)
        BY <1>0, <2>3
      <3> QED
        BY <3>1, RangeIs
    <2>7. /\ t \in Seq(S)
          /\ Len(t) = Len(s) - n + 1
          /\ \A i \in 1 .. Len(s) - n + 1 : t[i] = s[n + i - 1]
      BY <1>0, <2>3, <2>4, <2>6, SubSeqProperties
    <2>8. SuffixOf(t, s)
      <3>1. n - 1 \in 0 .. Len(s) /\ Len(t) = Len(s) - (n - 1)
        BY <1>0, <2>3, <2>7
      <3>2. \A i \in 1 .. Len(t) : t[i] = s[i + (n - 1)]
        BY <1>0, <2>3, <2>7
      <3> QED
        BY <3>1, <3>2 DEF SuffixOf
    <2>9. ASSUME NEW m \in P PROVE s[m] \in Range(t)
      <3>1. m - n + 1 \in 1 .. Len(t) /\ n + (m - n + 1) - 1 = m
        BY <1>0, <2>2, <2>3, <2>7
      <3>2. t[m - n + 1] = s[m]
        BY <2>7, <3>1
      <3>3. m - n + 1 \in DOMAIN t
        BY <2>7, <3>1, LenProperties
      <3> QED
        BY <3>2, <3>3 DEF Range
    <2>10. Head(t) = s[n]
      <3>1. 1 \in 1 .. Len(s) - n + 1 /\ n + 1 - 1 = n
        BY <1>0, <2>3
      <3> QED
        BY <2>7, <3>1 DEF Head
    <2> QED
      BY <2>2, <2>5, <2>7, <2>8, <2>9, <2>10
  <1> QED
    BY <1>1, <1>2

\* What leaves a sequence of ascending ids is older than what stays.
LEMMA SuffixIs ==
  ASSUME NEW s \in Seq(Envelope), NEW t \in Seq(Envelope), SuffixOf(t, s), Ascends(s)
  PROVE  /\ Ascends(t) /\ Range(t) \subseteq Range(s)
         /\ \A e \in Range(s) : e \in Range(t) \/ t = <<>> \/ e.id < Head(t).id
         /\ t # <<>> => s # <<>> /\ Head(s).id <= Head(t).id
  <1>0. Len(s) \in Nat /\ Len(t) \in Nat /\ DOMAIN s = 1 .. Len(s) /\ DOMAIN t = 1 .. Len(t)
    BY RangeIs
  <1>1. PICK d \in 0 .. Len(s) : Len(t) = Len(s) - d /\ \A n \in 1 .. Len(t) : t[n] = s[n + d]
    BY DEF SuffixOf
  <1>2. \A n \in 1 .. Len(t) : n + d \in 1 .. Len(s)
    BY <1>0, <1>1
  <1>3. Ascends(t)
    <2> SUFFICES ASSUME NEW n \in 1 .. Len(t), NEW m \in 1 .. Len(t), n < m
                 PROVE  t[n].id < t[m].id
      BY <1>0 DEF Ascends
    <2>1. n + d < m + d /\ n + d \in DOMAIN s /\ m + d \in DOMAIN s
      BY <1>0, <1>1, <1>2
    <2>2. s[n + d].id < s[m + d].id
      BY <2>1 DEF Ascends
    <2> QED
      BY <1>1, <2>2
  <1>4. ASSUME NEW e \in Range(t) PROVE e \in Range(s)
    <2>1. PICK n \in 1 .. Len(t) : e = t[n]
      BY RangeIs
    <2> QED
      BY <1>1, <1>2, <2>1, RangeIs
  <1>5. ASSUME t # <<>> PROVE Head(t) = s[1 + d] /\ 1 + d \in 1 .. Len(s) /\ s # <<>>
    <2>1. Head(t) = t[1] /\ 1 \in 1 .. Len(t)
      BY <1>0, <1>5, HeadIs
    <2>2. 1 + d \in 1 .. Len(s)
      BY <1>2, <2>1
    <2>3. s # <<>>
      BY <2>2, EmptySeq, <1>0
    <2> QED
      BY <1>1, <2>1, <2>2, <2>3
  <1>6. ASSUME NEW e \in Range(s), t # <<>> PROVE e \in Range(t) \/ e.id < Head(t).id
    <2>1. PICK n \in 1 .. Len(s) : e = s[n]
      BY RangeIs
    <2>2. CASE n <= d
      <3>1. n < 1 + d /\ n \in DOMAIN s /\ 1 + d \in DOMAIN s
        BY <1>0, <1>5, <1>6, <2>1, <2>2
      <3>2. s[n].id < s[1 + d].id
        BY <3>1 DEF Ascends
      <3> QED
        BY <1>5, <1>6, <2>1, <3>2
    <2>3. CASE n > d
      <3>1. n - d \in 1 .. Len(t) /\ (n - d) + d = n
        BY <1>0, <1>1, <2>1, <2>3
      <3>2. t[n - d] = e
        BY <1>1, <2>1, <3>1
      <3> QED
        BY <3>1, <3>2, RangeIs
    <2> QED
      BY <1>0, <1>1, <2>1, <2>2, <2>3
  <1>7. ASSUME t # <<>> PROVE Head(s).id <= Head(t).id
    <2>1. Head(s) = s[1] /\ s[1] \in Envelope /\ 1 \in DOMAIN s
      BY <1>0, <1>5, <1>7, HeadIs
    <2>2. s[1 + d] \in Envelope /\ 1 + d \in DOMAIN s
      BY <1>0, <1>5, <1>7, RangeIs
    <2>3. s[1].id \in Nat /\ s[1 + d].id \in Nat
      BY <2>1, <2>2 DEF Envelope
    <2>4. CASE d = 0
      BY <1>5, <1>7, <2>1, <2>3, <2>4
    <2>5. CASE d # 0
      <3>1. 1 < 1 + d
        BY <2>5
      <3>2. s[1].id < s[1 + d].id
        BY <2>1, <2>2, <3>1 DEF Ascends
      <3>3. s[1].id <= s[1 + d].id
        BY <2>3, <3>2, SMTT(30)
      <3>4. Head(t) = s[1 + d]
        BY <1>5, <1>7
      <3> QED
        BY <2>1, <3>3, <3>4
    <2> QED
      BY <2>4, <2>5
  <1> QED
    BY <1>3, <1>4, <1>5, <1>6, <1>7

LEMMA SuffixRefl ==
  ASSUME NEW S, NEW s \in Seq(S)
  PROVE  SuffixOf(s, s)
  <1>1. Len(s) \in Nat
    BY RangeIs
  <1> QED
    BY <1>1 DEF SuffixOf

LEMMA SuffixTrans ==
  ASSUME NEW S, NEW r \in Seq(S), NEW s \in Seq(S), NEW t \in Seq(S),
         SuffixOf(t, s), SuffixOf(s, r)
  PROVE  SuffixOf(t, r)
  <1>0. Len(r) \in Nat /\ Len(s) \in Nat /\ Len(t) \in Nat
    BY RangeIs
  <1>1. PICK d \in 0 .. Len(s) : Len(t) = Len(s) - d /\ \A n \in 1 .. Len(t) : t[n] = s[n + d]
    BY DEF SuffixOf
  <1>2. PICK c \in 0 .. Len(r) : Len(s) = Len(r) - c /\ \A n \in 1 .. Len(s) : s[n] = r[n + c]
    BY DEF SuffixOf
  <1>3. d + c \in 0 .. Len(r) /\ Len(t) = Len(r) - (d + c)
    <2>1. Len(t) = Len(s) - d /\ Len(s) = Len(r) - c
      BY <1>1, <1>2
    <2>2. d \in Nat /\ c \in Nat /\ d <= Len(s) /\ c <= Len(r)
      BY <1>0
    <2> QED
      BY <1>0, <2>1, <2>2
  <1>4. ASSUME NEW n \in 1 .. Len(t) PROVE t[n] = r[n + (d + c)]
    <2>1. n + d \in 1 .. Len(s)
      BY <1>0, <1>1
    <2>2. n \in Nat /\ d \in Nat /\ c \in Nat
      BY <1>0
    <2>3. (n + d) + c = n + (d + c)
      BY <2>2
    <2> QED
      BY <1>1, <1>2, <2>1, <2>3
  <1> QED
    BY <1>3, <1>4 DEF SuffixOf

LEMMA HeadLeast ==
  ASSUME NEW s \in Seq(Envelope), Ascends(s), NEW e \in Range(s)
  PROVE  /\ s # <<>> /\ Head(s).id <= e.id
         /\ e \in Range(Tail(s)) => Head(s).id < e.id
  <1>0. DOMAIN s = 1 .. Len(s) /\ Len(s) \in Nat
    BY RangeIs
  <1>1. PICK n \in 1 .. Len(s) : e = s[n]
    BY RangeIs
  <1>2. s # <<>>
    BY <1>1, EmptySeq
  <1>3. Head(s) = s[1] /\ 1 \in 1 .. Len(s) /\ s[1] \in Envelope /\ e \in Envelope
    BY <1>0, <1>2, HeadIs, RangeIs
  <1>4. s[1].id \in Nat /\ e.id \in Nat
    BY <1>3 DEF Envelope
  <1>5. s[1].id <= e.id
    <2>1. CASE n = 1
      BY <1>1, <1>4, <2>1
    <2>2. CASE n # 1
      <3>1. 1 < n
        BY <1>1, <2>2
      <3>2. s[1].id < s[n].id
        BY <1>0, <1>1, <1>3, <3>1 DEF Ascends
      <3>3. s[1].id < e.id
        BY <1>1, <3>2
      <3> QED
        BY <1>4, <3>3
    <2> QED
      BY <2>1, <2>2
  <1>6. ASSUME e \in Range(Tail(s)) PROVE s[1].id < e.id
    <2>1. PICK t : t = Tail(s)
      OBVIOUS
    <2>2. /\ t \in Seq(Envelope) /\ Len(t) = Len(s) - 1 /\ e \in Range(t)
          /\ \A i \in 1 .. Len(t) : t[i] = s[i + 1]
      BY <1>2, <1>6, <2>1, HeadTailProperties
    <2>3. PICK m \in 1 .. Len(t) : e = t[m]
      BY <2>2, RangeIs
    <2>4. m + 1 \in 1 .. Len(s) /\ 1 < m + 1 /\ e = s[m + 1]
      BY <1>0, <2>2, <2>3
    <2>5. s[1].id < s[m + 1].id
      BY <1>0, <1>3, <2>4 DEF Ascends
    <2> QED
      BY <2>4, <2>5
  <1> QED
    BY <1>2, <1>3, <1>5, <1>6

\* A frame on the wire is as new as the first one.
LEMMA FirstFrame ==
  ASSUME NEW s \in Seq(Envelope \cup {Reset}), Climbs(s), NEW e \in Range(Tail(s)), s # <<>>
  PROVE  Head(s).id < e.id \/ e = Head(s)
  <1>0. DOMAIN s = 1 .. Len(s) /\ Len(s) \in Nat
    BY RangeIs
  <1>1. Head(s) = s[1] /\ 1 \in 1 .. Len(s)
    BY <1>0, HeadIs
  <1>2. PICK t : t = Tail(s)
    OBVIOUS
  <1>3. /\ t \in Seq(Envelope \cup {Reset}) /\ Len(t) = Len(s) - 1 /\ e \in Range(t)
        /\ \A i \in 1 .. Len(t) : t[i] = s[i + 1]
    BY <1>2, HeadTailProperties
  <1>4. PICK m \in 1 .. Len(t) : e = t[m]
    BY <1>3, RangeIs
  <1>5. m + 1 \in 1 .. Len(s) /\ 1 < m + 1 /\ e = s[m + 1]
    BY <1>0, <1>3, <1>4
  <1> QED
    BY <1>0, <1>1, <1>5 DEF Climbs

LEMMA ClimbsTail ==
  ASSUME NEW s \in Seq(Envelope \cup {Reset}), Climbs(s), s # <<>>
  PROVE  Climbs(Tail(s))
  <1>0. DOMAIN s = 1 .. Len(s) /\ Len(s) \in Nat
    BY RangeIs
  <1>2. PICK t : t = Tail(s)
    OBVIOUS
  <1>3. /\ t \in Seq(Envelope \cup {Reset}) /\ Len(t) = Len(s) - 1
        /\ \A i \in 1 .. Len(t) : t[i] = s[i + 1]
    BY <1>2, HeadTailProperties
  <1>4. DOMAIN t = 1 .. Len(t)
    BY <1>3, RangeIs
  <1>5. ASSUME NEW n \in 1 .. Len(t), NEW m \in 1 .. Len(t), n < m
        PROVE  t[n].id < t[m].id \/ t[n] = t[m]
    <2>1. n + 1 \in 1 .. Len(s) /\ m + 1 \in 1 .. Len(s) /\ n + 1 < m + 1
      <3>1. Len(t) = Len(s) - 1 /\ Len(s) \in Nat
        BY <1>0, <1>3
      <3>2. n \in Nat /\ m \in Nat /\ 1 <= n /\ 1 <= m /\ n <= Len(s) - 1 /\ m <= Len(s) - 1
        BY <3>1
      <3> QED
        BY <1>5, <3>1, <3>2
    <2>2. s[n + 1].id < s[m + 1].id \/ s[n + 1] = s[m + 1]
      BY <1>0, <2>1 DEF Climbs
    <2> QED
      BY <1>3, <2>2
  <1>6. Climbs(t)
    BY <1>4, <1>5 DEF Climbs
  <1> QED
    BY <1>2, <1>6

\* Every envelope becomes two frames in a row.
LEMMA TwiceIs ==
  ASSUME NEW s \in Seq(Envelope), Ascends(s)
  PROVE  /\ Twice(s) \in Seq(Envelope \cup {Reset}) /\ Climbs(Twice(s))
         /\ Range(Twice(s)) = Range(s)
  <1>0. DOMAIN s = 1 .. Len(s) /\ Len(s) \in Nat /\ \A n \in 1 .. Len(s) : s[n] \in Envelope
    BY RangeIs
  <1>1. PICK t : t = Twice(s)
    OBVIOUS
  <1>2. PICK l \in Nat : l = 2 * Len(s)
    BY <1>0
  <1>3. t = [n \in 1 .. l |-> s[(n + 1) \div 2]]
    BY <1>1, <1>2 DEF Twice
  <1>4. ASSUME NEW n \in 1 .. l
        PROVE  (n + 1) \div 2 \in 1 .. Len(s) /\ \A m \in 1 .. l : n < m => (n + 1) \div 2 <= (m + 1) \div 2
    BY <1>0, <1>2
  <1>5. ASSUME NEW n \in 1 .. Len(s)
        PROVE  2 * n \in 1 .. l /\ (2 * n + 1) \div 2 = n
    BY <1>0, <1>2
  <1>6. \A n \in 1 .. l : t[n] \in Envelope
    BY <1>0, <1>3, <1>4
  <1>7. t \in Seq(Envelope \cup {Reset}) /\ Len(t) = l /\ DOMAIN t = 1 .. l
    BY <1>2, <1>3, <1>6
  <1>8. Climbs(t)
    <2> SUFFICES ASSUME NEW n \in 1 .. l, NEW m \in 1 .. l, n < m
                 PROVE  t[n].id < t[m].id \/ t[n] = t[m]
      BY <1>7 DEF Climbs
    <2>1. PICK a \in 1 .. Len(s) : a = (n + 1) \div 2
      BY <1>4
    <2>2. PICK b \in 1 .. Len(s) : b = (m + 1) \div 2
      BY <1>4
    <2>3. a < b \/ a = b
      BY <1>4, <2>1, <2>2
    <2>4. t[n] = s[a] /\ t[m] = s[b]
      BY <1>3, <2>1, <2>2
    <2> QED
      BY <1>0, <2>3, <2>4 DEF Ascends
  <1>9. ASSUME NEW e \in Range(t) PROVE e \in Range(s)
    <2>1. PICK n \in 1 .. l : e = t[n]
      BY <1>7 DEF Range
    <2> QED
      BY <1>0, <1>3, <1>4, <2>1 DEF Range
  <1>10. ASSUME NEW e \in Range(s) PROVE e \in Range(t)
    <2>1. PICK n \in 1 .. Len(s) : e = s[n]
      BY RangeIs
    <2>2. t[2 * n] = e
      BY <1>3, <1>5, <2>1
    <2> QED
      BY <1>5, <1>7, <2>2 DEF Range
  <1>11. Range(t) = Range(s)
    BY <1>9, <1>10
  <1> QED
    BY <1>1, <1>7, <1>8, <1>11

-------------------------------------------------------------------------------
(* The state.                                                              *)

\* Only finitely many incidents have been opened, so one of them is the newest.
Opened == \E n \in Nat : \A i \in Incidents : db[i] # "absent" => i <= n

Inv == FeedInv /\ Opened

LEMMA Types ==
  ASSUME Inv
  PROVE  /\ TypeOK /\ SeqWrap \in Nat \ {0}
         /\ clock \in Nat /\ seq \in 0 .. SeqWrap - 1 /\ top \in Nat /\ lastId \in Nat
         /\ ring \in Seq(Envelope) /\ queue \in Seq(Envelope)
         /\ wire \in Seq(Envelope \cup {Reset}) /\ dedupe \in Seq(Nat) /\ fetches \in Seq(Snapshot)
  BY DEF Inv, FeedInv, TypeOK

LEMMA EnvelopeIs ==
  ASSUME NEW e \in Envelope
  PROVE  /\ e.id \in Nat /\ e.id > 0 /\ e.inc \in Incidents /\ e.ends \in BOOLEAN /\ e # Reset
  BY DEF Envelope, Reset

LEMMA ResetIs == Reset.id = 0 /\ Reset.inc = 0 /\ Reset.ends = FALSE /\ Reset \notin Envelope
  BY DEF Reset, Envelope

\* A millisecond later every id is higher.
LEMMA ClockIs ==
  ASSUME NEW c \in Nat, NEW n \in 0 .. SeqWrap - 1
  PROVE  /\ EventId(c, n) \in Nat /\ EventId(c, n) < EventId(c + 1, 0)
         /\ EventId(c + 1, 0) <= EventId(c + 1, n) /\ EventId(c, n) < EventId(c + 1, n)
         /\ EventId(c, n) < EventId(c, n + 1) /\ EventId(c, 0) <= EventId(c, n)
  <1>1. PICK w \in Nat : w = c * SeqWrap
    OBVIOUS
  <1>2. (c + 1) * SeqWrap = w + SeqWrap
    BY <1>1
  <1>3. /\ EventId(c, n) = w + n /\ EventId(c, 0) = w + 0 /\ EventId(c, n + 1) = w + (n + 1)
        /\ EventId(c + 1, 0) = (w + SeqWrap) + 0 /\ EventId(c + 1, n) = (w + SeqWrap) + n
    BY <1>1, <1>2 DEF EventId
  <1>4. SeqWrap \in Nat /\ n \in Nat /\ n < SeqWrap
    OBVIOUS
  <1> QED
    BY <1>1, <1>3, <1>4

\* The newest open incident, if one is open.
LEMMA NewestIs ==
  ASSUME Inv
  PROVE  NewestOpen = None \/ (NewestOpen \in Incidents /\ db[NewestOpen] = "open")
  <1> DEFINE open == {i \in Incidents : db[i] = "open"}
  <1>1. CASE open = {}
    BY <1>1 DEF NewestOpen
  <1>2. CASE open # {}
    <2>1. PICK n \in Nat : \A i \in Incidents : db[i] # "absent" => i <= n
      BY DEF Inv, Opened
    <2> DEFINE U == {u \in Nat : \A j \in open : j <= u}
    <2>2. n \in U
      BY <2>1
    <2>3. PICK u \in U : \A m \in U : u <= m
      BY <2>2, FirstPlace
    <2>4. u \in open
      <3>1. SUFFICES ASSUME u \notin open PROVE FALSE
        OBVIOUS
      <3>2. PICK i : i \in open
        BY <1>2
      <3>3. i \in Nat /\ i # 0 /\ i <= u /\ u \in Nat
        BY <2>3, <3>2
      <3>4. u - 1 \in Nat
        BY <3>3
      <3>5. ASSUME NEW j \in open PROVE j <= u - 1
        <4>1. j \in Nat /\ j <= u /\ j # u
          BY <2>3, <3>1
        <4> QED
          BY <3>3, <4>1
      <3>6. u - 1 \in U
        BY <3>4, <3>5
      <3>7. u <= u - 1
        BY <2>3, <3>6
      <3> QED
        BY <3>3, <3>7
    <2>5. \A j \in open : j <= u
      BY <2>3
    <2>6. NewestOpen = CHOOSE i \in open : \A j \in open : j <= i
      BY <1>2 DEF NewestOpen
    <2>7. NewestOpen \in open
      BY <2>4, <2>5, <2>6
    <2> QED
      BY <2>7
  <1> QED
    BY <1>1, <1>2

-------------------------------------------------------------------------------
(* The ring.                                                               *)

\* The ring loses envelopes at its head and gains newer ones.
Onward ==
  /\ ring' \in Seq(Envelope) /\ Ascends(ring')
  /\ top' \in Nat /\ top <= top'
  /\ \A id \in Nat : id <= top /\ Passed(id) => Passed(id)'
  /\ \A e \in Range(ring) : e \in Range(ring') \/ Passed(e.id)'

\* What leaves the ring leaves a gap.
LEMMA OnwardIs ==
  ASSUME Inv, Onward
  PROVE  /\ \A id \in Nat : Gap(id) => Gap(id)'
         /\ \A i, id : id \in Nat /\ EndIn(ring, i, id) => EndIn(ring', i, id) \/ Gap(id)'
         /\ \A e \in Envelope : e.id <= top /\ (e \in Range(ring) \/ Passed(e.id))
                                  => e \in Range(ring') \/ Passed(e.id)'
  <1>0. top \in Nat /\ top' \in Nat /\ top <= top'
    BY Types DEF Onward
  <1>1. ASSUME NEW id \in Nat, Gap(id) PROVE Gap(id)'
    <2>1. id < top /\ Passed(id)
      BY <1>1 DEF Gap
    <2>2. Passed(id)'
      BY <1>0, <2>1 DEF Onward
    <2>3. id < top'
      BY <1>0, <2>1
    <2> QED
      BY <2>2, <2>3 DEF Gap
  <1>2. ASSUME NEW i, NEW id \in Nat, EndIn(ring, i, id)
        PROVE  EndIn(ring', i, id) \/ Gap(id)'
    <2>1. PICK e \in Range(ring) : e.inc = i /\ e.ends /\ e.id > id
      BY <1>2 DEF EndIn
    <2>2. e \in Envelope /\ e.id \in Nat
      BY Types, RangeIs, EnvelopeIs
    <2>3. e.id <= top
      BY DEF Inv, FeedInv, RingInv
    <2>4. CASE e \in Range(ring')
      BY <2>1, <2>4 DEF EndIn
    <2>5. CASE Passed(e.id)'
      <3>1. id < top'
        BY <1>0, <2>1, <2>2, <2>3
      <3>2. ring' = <<>> \/ e.id < Head(ring').id
        BY <2>5 DEF Passed
      <3>3. ring' # <<>> => Head(ring').id \in Nat
        BY HeadIs, EnvelopeIs DEF Onward
      <3>4. ring' = <<>> \/ id < Head(ring').id
        BY <2>1, <2>2, <3>2, <3>3
      <3> QED
        BY <3>1, <3>4 DEF Gap, Passed
    <2> QED
      BY <2>4, <2>5 DEF Onward
  <1>3. ASSUME NEW e \in Envelope, e.id <= top, e \in Range(ring) \/ Passed(e.id)
        PROVE  e \in Range(ring') \/ Passed(e.id)'
    BY <1>3, EnvelopeIs DEF Onward
  <1> QED
    BY <1>1, <1>2, <1>3

LEMMA LoseIs ==
  ASSUME Inv, ring' \in Seq(Envelope), SuffixOf(ring', ring), top' = top
  PROVE  Onward /\ Range(ring') \subseteq Range(ring)
  <1>1. Ascends(ring)
    BY DEF Inv, FeedInv, RingInv
  <1>2. /\ Ascends(ring') /\ Range(ring') \subseteq Range(ring)
        /\ \A e \in Range(ring) : e \in Range(ring') \/ ring' = <<>> \/ e.id < Head(ring').id
        /\ ring' # <<>> => ring # <<>> /\ Head(ring).id <= Head(ring').id
    BY <1>1, Types, SuffixIs
  <1>3. ASSUME NEW id \in Nat, Passed(id) PROVE Passed(id)'
    <2>1. CASE ring' = <<>>
      BY <2>1 DEF Passed
    <2>2. CASE ring' # <<>>
      <3>1. ring # <<>> /\ Head(ring).id <= Head(ring').id
        BY <1>2, <2>2
      <3>2. Head(ring).id \in Nat /\ Head(ring').id \in Nat
        BY <2>2, <3>1, Types, HeadIs, EnvelopeIs
      <3>3. id < Head(ring).id
        BY <1>3, <3>1 DEF Passed
      <3> QED
        BY <3>1, <3>2, <3>3 DEF Passed
    <2> QED
      BY <2>1, <2>2
  <1>4. top' \in Nat /\ top <= top'
    <2>1. top \in Nat
      BY Types
    <2> QED
      BY <2>1
  <1>5. \A e \in Range(ring) : e \in Range(ring') \/ Passed(e.id)'
    BY <1>2 DEF Passed
  <1> QED
    BY <1>2, <1>3, <1>4, <1>5 DEF Onward

\* The ring stays in order, and what it replays does not open an incident for good.
LEMMA RingKeeps ==
  ASSUME Inv, Onward,
         \A e \in Range(ring') : 
           e \in Range(ring)
             \/ (e.id <= top' /\ (e.ends \/ db'[e.inc] = "open" \/ "end" \in unsent'[e.inc])),
         \A i \in Incidents : db'[i] # "open" =>
           \/ "end" \in unsent'[i]
           \/ /\ db[i] # "open"
              /\ "end" \in unsent[i] => \A id \in Nat : id <= top => EndIn(ring', i, id)
  PROVE  RingInv'
  <1>1. ASSUME NEW e \in Range(ring')
        PROVE  /\ e.id <= top'
               /\ ~e.ends /\ db'[e.inc] # "open"
                    => "end" \in unsent'[e.inc] \/ EndIn(ring', e.inc, e.id)
    <2>1. CASE e \notin Range(ring)
      BY <2>1
    <2>2. CASE e \in Range(ring)
      <3>1. e \in Envelope /\ e.id \in Nat /\ e.inc \in Incidents
        BY <2>2, Types, RangeIs, EnvelopeIs
      <3>2. /\ e.id <= top
            /\ ~e.ends /\ db[e.inc] # "open" => "end" \in unsent[e.inc] \/ EndIn(ring, e.inc, e.id)
        BY <2>2 DEF Inv, FeedInv, RingInv
      <3>3. e.id <= top'
        <4>1. top \in Nat /\ top' \in Nat /\ top <= top'
          BY Types DEF Onward
        <4> QED
          BY <3>1, <3>2, <4>1
      <3>4. EndIn(ring, e.inc, e.id) => EndIn(ring', e.inc, e.id)
        <4> SUFFICES ASSUME EndIn(ring, e.inc, e.id), Gap(e.id)' PROVE FALSE
          BY <3>1, OnwardIs
        <4>1. ring' # <<>> /\ Head(ring').id <= e.id
          BY HeadLeast DEF Onward
        <4>2. e.id < Head(ring').id /\ Head(ring').id \in Nat
          BY <4>1, HeadIs, EnvelopeIs DEF Gap, Passed, Onward
        <4> QED
          BY <3>1, <4>1, <4>2
      <3> QED
        BY <3>1, <3>2, <3>3, <3>4
    <2> QED
      BY <2>1, <2>2
  <1> QED
    BY <1>1 DEF RingInv, Onward

LEMMA SameRing ==
  ASSUME Inv, ring' = ring, top' = top
  PROVE  Onward /\ \A id : (Passed(id)' <=> Passed(id)) /\ (Gap(id)' <=> Gap(id))
  <1>1. SuffixOf(ring', ring) /\ ring' \in Seq(Envelope)
    BY Types, SuffixRefl
  <1>2. \A id : (Passed(id)' <=> Passed(id)) /\ (Gap(id)' <=> Gap(id))
    BY DEF Passed, Gap
  <1> QED
    BY <1>1, <1>2, LoseIs

\* A step that leaves the connection, the browser and the ring alone.
LEMMA ConnSame ==
  ASSUME Inv, ring' = ring, top' = top, UNCHANGED <<connVars, dedupe, lastId>>
  PROVE  BrowserInv' /\ ConnInv'
  <1>1. UNCHANGED <<queue, delivered, replayed, wire, phase, url>>
    BY DEF connVars
  <1>2. \A id : (Passed(id)' <=> Passed(id)) /\ (Gap(id)' <=> Gap(id))
    BY SameRing
  <1>3. BrowserInv'
    BY <1>1 DEF Inv, FeedInv, BrowserInv
  <1>4. ConnInv'
    BY <1>1, <1>2 DEF Inv, FeedInv, ConnInv
  <1> QED
    BY <1>3, <1>4

-------------------------------------------------------------------------------
(* Incidents change, time passes.                                          *)

LEMMA CommittedKeeps ==
  ASSUME Inv, NEW i \in Incidents, NEW ends \in BOOLEAN, Committed(i, ends), Opened'
  PROVE  Inv'
  <1>1. /\ db' = [db EXCEPT ![i] = IF ends THEN "ended" ELSE "open"]
        /\ unsent' = [unsent EXCEPT ![i] = @ \cup {IF ends THEN "end" ELSE "open"}]
        /\ UNCHANGED <<clock, seq, ring, top, queue, delivered, replayed, wire, phase, url>>
        /\ UNCHANGED <<active, dedupe, lastId, fetches, missed, faults>>
    BY DEF Committed, streamVars, connVars, viewVars
  <1>2. db \in [Incidents -> {"absent", "open", "ended"}]
        /\ unsent \in [Incidents -> SUBSET {"open", "end"}]
    BY Types DEF TypeOK
  <1>3. /\ db'[i] = (IF ends THEN "ended" ELSE "open")
        /\ unsent'[i] = unsent[i] \cup {IF ends THEN "end" ELSE "open"}
        /\ \A j \in Incidents : j # i => db'[j] = db[j] /\ unsent'[j] = unsent[j]
    BY <1>1, <1>2
  <1>4. TypeOK'
    <2>1. db' \in [Incidents -> {"absent", "open", "ended"}]
          /\ unsent' \in [Incidents -> SUBSET {"open", "end"}]
      BY <1>1, <1>2
    <2> QED
      BY <1>1, <2>1, Types DEF TypeOK
  <1>5. NumberInv' /\ UnsentInv'
    BY <1>1, <1>3 DEF Inv, FeedInv, NumberInv, UnsentInv, EventId
  <1>6. RingInv'
    <2>1. Onward
      BY <1>1, SameRing
    <2> QED
      BY <1>1, <1>3, <2>1, RingKeeps
  <1>7. BrowserInv' /\ ConnInv'
    BY <1>1, ConnSame DEF connVars
  <1>8. \A j \in Incidents : \A id : db'[j] # "open" =>
          /\ (j = i /\ "end" \in unsent'[j]) \/ db[j] # "open"
          /\ EndComes(j, id) => EndComes(j, id)'
    <2> SUFFICES ASSUME NEW j \in Incidents, NEW id, db'[j] # "open"
                 PROVE  /\ (j = i /\ "end" \in unsent'[j]) \/ db[j] # "open"
                        /\ EndComes(j, id) => EndComes(j, id)'
      OBVIOUS
    <2>1. (j = i /\ "end" \in unsent'[j]) \/ (j # i /\ db[j] # "open")
      BY <1>3
    <2> QED
      BY <1>1, <1>3, <2>1 DEF EndComes
  <1>9. PipeInv'
    <2> SUFFICES ASSUME ~missed, NEW e \in Range(wire) \cup Range(queue), e # Reset, ~e.ends,
                        db'[e.inc] # "open"
                 PROVE  EndComes(e.inc, e.id)'
      BY <1>1 DEF PipeInv
    <2>1. e.inc \in Incidents
      <3>1. queue \in Seq(Envelope) /\ wire \in Seq(Envelope \cup {Reset})
        BY Types
      <3>2. e \in Envelope
        BY <3>1, RangeIs
      <3> QED
        BY <3>2, EnvelopeIs
    <2>2. db[e.inc] # "open" => EndComes(e.inc, e.id)
      BY DEF Inv, FeedInv, PipeInv
    <2>3. "end" \in unsent'[e.inc] => EndComes(e.inc, e.id)'
      BY DEF EndComes
    <2> QED
      BY <1>8, <2>1, <2>2, <2>3
  <1>10. ShownInv'
    <2> SUFFICES ASSUME ~missed, active # None, db'[active] # "open", fetches = <<>>,
                        Reset \notin Range(wire)
                 PROVE  \/ EndComes(active, lastId)'
                        \/ phase # "live" /\ (Gap(lastId)' \/ EndIn(ring, active, lastId))
      BY <1>1 DEF ShownInv, EndIn
    <2>1. active \in Incidents
      BY Types DEF TypeOK
    <2>2. db[active] # "open" =>
            \/ EndComes(active, lastId)
            \/ phase # "live" /\ (Gap(lastId) \/ EndIn(ring, active, lastId))
      BY DEF Inv, FeedInv, ShownInv
    <2>3. "end" \in unsent'[active] => EndComes(active, lastId)'
      BY <1>1 DEF EndComes
    <2>5. Gap(lastId) => Gap(lastId)'
      BY <1>1 DEF Gap, Passed
    <2>6. EndComes(active, lastId) => EndComes(active, lastId)'
      BY <1>1, <1>8, <2>1 DEF EndComes
    <2> QED
      BY <1>8, <2>1, <2>2, <2>3, <2>5, <2>6
  <1> QED
    BY <1>4, <1>5, <1>6, <1>7, <1>9, <1>10 DEF Inv, FeedInv

LEMMA IncidentsKeep ==
  ASSUME Inv, IncidentOpens \/ IncidentUpdates \/ IncidentEnds
  PROVE  Inv'
  <1>0. db \in [Incidents -> {"absent", "open", "ended"}]
    BY Types DEF TypeOK
  <1>1. PICK i \in Incidents, ends \in BOOLEAN : Committed(i, ends)
    BY DEF IncidentOpens, IncidentUpdates, IncidentEnds
  <1>2. PICK n \in Nat : \A j \in Incidents : db[j] # "absent" => j <= n
    BY DEF Inv, Opened
  <1>3. PICK m \in Nat : n <= m /\ i <= m
    <2>1. i \in Nat
      OBVIOUS
    <2> QED
      BY <2>1
  <1>4. \A j \in Incidents : db'[j] # "absent" => j <= m
    <2>1. \A j \in Incidents : j # i => db'[j] = db[j]
      BY <1>0, <1>1 DEF Committed
    <2> SUFFICES ASSUME NEW j \in Incidents, db'[j] # "absent" PROVE j <= m
      OBVIOUS
    <2>2. CASE j = i
      BY <1>3, <2>2
    <2>3. CASE j # i
      <3>1. j <= n /\ j \in Nat
        BY <1>2, <2>1, <2>3
      <3> QED
        BY <1>3, <3>1
    <2> QED
      BY <2>2, <2>3
  <1>5. Opened'
    BY <1>4 DEF Opened
  <1> QED
    BY <1>1, <1>5, CommittedKeeps

LEMMA ClockKeeps ==
  ASSUME Inv, ClockTicks
  PROVE  Inv'
  <1>1. /\ clock' = clock + 1
        /\ UNCHANGED <<db, unsent, seq, ring, top>>
        /\ UNCHANGED <<queue, delivered, replayed, wire, phase, url>>
        /\ UNCHANGED <<active, dedupe, lastId, fetches, missed, faults>>
    BY DEF ClockTicks, tableVars, connVars, viewVars
  <1>0. clock \in Nat /\ clock + 1 \in Nat
    <2>1. clock \in Nat
      BY Types
    <2> QED
      BY <2>1
  <1>2. TypeOK'
    <2>1. clock' \in Nat
      BY <1>0, <1>1
    <2> QED
      BY <1>1, <2>1, Types DEF TypeOK
  <1>3. NumberInv'
    <2>1. EventId(clock, seq) < EventId(clock + 1, seq) /\ EventId(clock, seq) \in Nat
      BY Types, ClockIs
    <2>2. EventId(clock + 1, seq) \in Nat
      <3>1. seq \in 0 .. SeqWrap - 1
        BY Types
      <3> QED
        BY <1>0, <3>1, ClockIs
    <2>3. top <= EventId(clock, seq)
      BY DEF Inv, FeedInv, NumberInv
    <2>4. top <= EventId(clock + 1, seq)
      <3>1. top \in Nat
        BY Types
      <3> QED
        BY <2>1, <2>2, <2>3, <3>1
    <2> QED
      BY <1>1, <2>4 DEF NumberInv
  <1>4. BrowserInv' /\ ConnInv'
    BY <1>1, ConnSame DEF connVars
  <1>5. RingInv' /\ UnsentInv' /\ Opened'
    BY <1>1 DEF Inv, FeedInv, RingInv, UnsentInv, Opened
  <1>6. PipeInv'
    BY <1>1 DEF Inv, FeedInv, PipeInv, EndComes
  <1>7. ShownInv'
    <2>1. \A id : Gap(id)' <=> Gap(id)
      BY <1>1, SameRing
    <2> QED
      BY <1>1, <2>1 DEF Inv, FeedInv, ShownInv, EndComes
  <1> QED
    BY <1>2, <1>3, <1>4, <1>5, <1>6, <1>7 DEF Inv, FeedInv

\* A published envelope is newer than all before it, and the ring keeps it.
LEMMA PublishIs ==
  ASSUME Inv, NEW i \in Incidents, NEW ends \in BOOLEAN, Publish(i, ends),
         seq + 1 = SeqWrap => top < EventId(clock, 0), clock' = clock
  PROVE  /\ Onward /\ NumberInv' /\ seq' \in 0 .. SeqWrap - 1
         /\ \E env \in Envelope :
              /\ env.inc = i /\ env.ends = ends /\ env.id > top /\ top' = env.id
              /\ env \in Range(ring') /\ Range(ring') \subseteq Range(ring) \cup {env}
              /\ \/ missed' = TRUE /\ queue' = queue
                 \/ missed' = missed /\ queue' = (IF phase = "live" THEN Append(queue, env) ELSE queue)
  <1>1. PICK count : count = (seq + 1) % SeqWrap
    OBVIOUS
  <1>2. /\ count \in 0 .. SeqWrap - 1
        /\ count = seq + 1 \/ (count = 0 /\ seq + 1 = SeqWrap)
    <2>1. seq \in Nat /\ seq + 1 <= SeqWrap /\ SeqWrap \in Nat \ {0}
      <3>1. SeqWrap \in Nat \ {0} /\ seq \in 0 .. SeqWrap - 1
        BY Types
      <3> QED
        BY <3>1
    <2>2. CASE seq + 1 = SeqWrap
      <3>1. SeqWrap % SeqWrap = 0
        BY <2>1
      <3> QED
        BY <1>1, <2>1, <2>2, <3>1
    <2>3. CASE seq + 1 < SeqWrap
      <3>1. (seq + 1) % SeqWrap = seq + 1
        BY <2>1, <2>3
      <3> QED
        BY <1>1, <2>1, <2>3, <3>1
    <2> QED
      BY <2>1, <2>2, <2>3
  <1>3. PICK id : id = EventId(clock, count)
    OBVIOUS
  <1>4. id \in Nat /\ id > top
    <2>1. id \in Nat
      BY <1>2, <1>3, Types, ClockIs
    <2>2. top <= EventId(clock, seq) /\ EventId(clock, seq) \in Nat
          /\ EventId(clock, seq) < EventId(clock, seq + 1)
      BY Types, ClockIs DEF Inv, FeedInv, NumberInv
    <2>3. CASE count = seq + 1
      <3>1. id = EventId(clock, seq + 1) /\ top \in Nat
        BY <1>3, <2>3, Types
      <3> QED
        BY <2>1, <2>2, <3>1
    <2>4. CASE count = 0 /\ seq + 1 = SeqWrap
      BY <1>3, <2>1, <2>4, Types
    <2> QED
      BY <1>2, <2>1, <2>3, <2>4
  <1>5. PICK env : env = [id |-> id, inc |-> i, ends |-> ends]
    OBVIOUS
  <1>6. env \in Envelope /\ env.id = id /\ env.inc = i /\ env.ends = ends
    <2>1. top \in Nat
      BY Types
    <2>2. id # 0
      BY <1>4, <2>1
    <2> QED
      BY <1>4, <1>5, <2>2 DEF Envelope
  <1>7. /\ seq' = count
        /\ ring' = Append(IF Len(Pruned(ring)) = RingSize THEN Tail(Pruned(ring)) ELSE Pruned(ring), env)
        /\ top' = (IF id > top THEN id ELSE top)
        /\ \/ missed' = (missed \/ TRUE) /\ queue' = queue
           \/ missed' = (missed \/ FALSE) /\ queue' = (IF phase = "live" THEN Append(queue, env) ELSE queue)
    BY <1>1, <1>3, <1>5 DEF Publish
  <1>8. missed \in BOOLEAN
    BY Types DEF TypeOK
  <1>9. PICK kept \in Seq(Envelope) : SuffixOf(kept, ring) /\ ring' = Append(kept, env)
    <2>1. PICK fresh : fresh = Pruned(ring)
      OBVIOUS
    <2>2. fresh \in Seq(Envelope) /\ SuffixOf(fresh, ring)
      <3>1. {n \in DOMAIN ring : ~Expired(ring[n].id)} \subseteq 1 .. Len(ring)
        BY Types, RangeIs
      <3> QED
        BY <2>1, <3>1, Types, FromIs DEF Pruned
    <2>3. CASE Len(fresh) # RingSize
      BY <1>7, <2>1, <2>2, <2>3
    <2>4. CASE Len(fresh) = RingSize
      <3>1. fresh # <<>>
        <4>1. RingSize # 0
          OBVIOUS
        <4>2. Len(<<>>) = 0
          BY EmptySeq
        <4> QED
          BY <2>4, <4>1, <4>2
      <3>2. Tail(fresh) \in Seq(Envelope) /\ SuffixOf(Tail(fresh), fresh)
        BY <2>2, <3>1, HeadIs
      <3>3. SuffixOf(Tail(fresh), ring)
        BY <2>2, <3>2, Types, SuffixTrans
      <3> QED
        BY <1>7, <2>1, <2>4, <3>2, <3>3
    <2> QED
      BY <2>3, <2>4
  <1>10. /\ Ascends(kept) /\ Range(kept) \subseteq Range(ring)
         /\ \A e \in Range(ring) : e \in Range(kept) \/ kept = <<>> \/ e.id < Head(kept).id
         /\ kept # <<>> => ring # <<>> /\ Head(ring).id <= Head(kept).id
    BY <1>9, Types, SuffixIs DEF Inv, FeedInv, RingInv
  <1>11. /\ ring' \in Seq(Envelope) /\ ring' # <<>> /\ Len(ring') = Len(kept) + 1
         /\ Range(ring') = Range(kept) \cup {env}
         /\ \A n \in 1 .. Len(kept) : ring'[n] = kept[n]
         /\ ring'[Len(kept) + 1] = env
         /\ Head(ring') = IF kept = <<>> THEN env ELSE Head(kept)
    BY <1>6, <1>9, AppendIs
  <1>12. top' = id /\ top \in Nat /\ top <= top'
    <2>1. top \in Nat
      BY Types
    <2>2. top' = id
      BY <1>4, <1>7
    <2> QED
      BY <1>4, <2>1, <2>2
  <1>13. \A e \in Range(kept) : e.id \in Nat /\ e.id <= top
    BY <1>10, Types, RangeIs, EnvelopeIs DEF Inv, FeedInv, RingInv
  <1>14. Ascends(ring')
    <2>0. Len(kept) \in Nat /\ DOMAIN kept = 1 .. Len(kept) /\ DOMAIN ring' = 1 .. Len(kept) + 1
      BY <1>11, RangeIs
    <2> SUFFICES ASSUME NEW n \in 1 .. Len(kept) + 1, NEW m \in 1 .. Len(kept) + 1, n < m
                 PROVE  ring'[n].id < ring'[m].id
      BY <2>0 DEF Ascends
    <2>1. n \in 1 .. Len(kept)
      BY <2>0
    <2>2. CASE m = Len(kept) + 1
      <3>1. kept[n].id \in Nat /\ kept[n].id <= top
        BY <1>13, <2>1, RangeIs
      <3>2. kept[n].id < id
        BY <1>4, <1>12, <3>1, SMTT(30)
      <3>3. ring'[n] = kept[n] /\ ring'[m] = env
        BY <1>11, <2>1, <2>2
      <3> QED
        BY <1>6, <3>2, <3>3
    <2>3. CASE m # Len(kept) + 1
      <3>1. m \in 1 .. Len(kept)
        BY <2>0, <2>3
      <3> QED
        BY <1>10, <1>11, <2>0, <2>1, <3>1 DEF Ascends
    <2> QED
      BY <2>2, <2>3
  <1>15. ASSUME NEW x \in Nat, x <= top, Passed(x) PROVE Passed(x)'
    <2>1. CASE kept = <<>>
      <3>1. Head(ring') = env
        BY <1>11, <2>1
      <3>2. x < env.id
        BY <1>4, <1>6, <1>12, <1>15
      <3> QED
        BY <3>1, <3>2 DEF Passed
    <2>2. CASE kept # <<>>
      <3>1. Head(ring') = Head(kept) /\ ring # <<>> /\ Head(ring).id <= Head(kept).id
        BY <1>10, <1>11, <2>2
      <3>2. x < Head(ring).id
        BY <1>15, <3>1 DEF Passed
      <3>3. Head(ring).id \in Nat /\ Head(kept).id \in Nat
        BY <2>2, <3>1, <1>9, Types, HeadIs, EnvelopeIs
      <3>4. x < Head(kept).id
        BY <3>1, <3>2, <3>3
      <3> QED
        BY <3>1, <3>4 DEF Passed
    <2> QED
      BY <2>1, <2>2
  <1>16. ASSUME NEW e \in Range(ring) PROVE e \in Range(ring') \/ Passed(e.id)'
    <2>1. e.id \in Nat /\ e.id <= top
      BY Types, RangeIs, EnvelopeIs DEF Inv, FeedInv, RingInv
    <2>2. CASE e \in Range(kept)
      BY <1>11, <2>2
    <2>3. CASE kept = <<>>
      <3>1. e.id < Head(ring').id
        BY <1>4, <1>6, <1>11, <1>12, <2>1, <2>3
      <3> QED
        BY <3>1 DEF Passed
    <2>4. CASE kept # <<>> /\ e.id < Head(kept).id
      BY <1>11, <2>4 DEF Passed
    <2> QED
      BY <1>10, <2>2, <2>3, <2>4
  <1>17. Onward
    <2>1. top' \in Nat
      BY <1>4, <1>12
    <2> QED
      BY <1>11, <1>12, <1>14, <1>15, <1>16, <2>1 DEF Onward
  <1>18. NumberInv'
    <2>1. top' = EventId(clock', seq')
      BY <1>3, <1>7, <1>12
    <2>2. top' \in Nat
      BY <1>4, <1>12
    <2>3. top' <= EventId(clock', seq')
      BY <2>1, <2>2
    <2> QED
      BY <2>3 DEF NumberInv
  <1>19. env \in Range(ring') /\ Range(ring') \subseteq Range(ring) \cup {env}
    BY <1>10, <1>11
  <1>20. \/ missed' = TRUE /\ queue' = queue
         \/ missed' = missed /\ queue' = (IF phase = "live" THEN Append(queue, env) ELSE queue)
    BY <1>7, <1>8
  <1>21. env.id > top /\ top' = env.id
    BY <1>4, <1>6, <1>12
  <1> QED
    BY <1>2, <1>6, <1>7, <1>17, <1>18, <1>19, <1>20, <1>21

LEMMA AscendsAppend ==
  ASSUME NEW s \in Seq(Envelope), Ascends(s), NEW e \in Envelope, \A f \in Range(s) : f.id < e.id
  PROVE  Ascends(Append(s, e))
  <1>1. PICK t : t = Append(s, e)
    OBVIOUS
  <1>2. /\ t \in Seq(Envelope) /\ Len(t) = Len(s) + 1 /\ Len(s) \in Nat
        /\ \A n \in 1 .. Len(s) : t[n] = s[n]
        /\ t[Len(s) + 1] = e
    BY <1>1, AppendIs, RangeIs
  <1>3. DOMAIN t = 1 .. Len(s) + 1 /\ DOMAIN s = 1 .. Len(s)
    BY <1>2, RangeIs
  <1>4. ASSUME NEW n \in 1 .. Len(s) + 1, NEW m \in 1 .. Len(s) + 1, n < m
        PROVE  t[n].id < t[m].id
    <2>1. n \in 1 .. Len(s)
      BY <1>2, <1>4
    <2>2. CASE m = Len(s) + 1
      <3>1. s[n] \in Range(s)
        BY <2>1, RangeIs
      <3> QED
        BY <1>2, <2>1, <2>2, <3>1
    <2>3. CASE m # Len(s) + 1
      <3>1. m \in 1 .. Len(s)
        BY <1>2, <2>3
      <3> QED
        BY <1>2, <1>3, <1>4, <2>1, <3>1 DEF Ascends
    <2> QED
      BY <2>2, <2>3
  <1>5. Ascends(t)
    BY <1>3, <1>4 DEF Ascends
  <1> QED
    BY <1>1, <1>5

\* A frame on its way belongs to a live connection and has been published.
LEMMA FrameIs ==
  ASSUME Inv, NEW e \in Range(wire) \cup Range(queue), e # Reset
  PROVE  /\ e \in Envelope /\ e.id \in Nat /\ e.inc \in Incidents
         /\ phase = "live" /\ e.id <= top
  <1>1. e \in Envelope
    <2>1. CASE e \in Range(queue)
      BY <2>1, Types, RangeIs
    <2>2. CASE e \in Range(wire)
      <3>1. e \in Envelope \cup {Reset}
        BY <2>2, Types, RangeIs
      <3> QED
        BY <3>1
    <2> QED
      BY <2>1, <2>2
  <1>2. e.id \in Nat /\ e.inc \in Incidents
    BY <1>1, EnvelopeIs
  <1>3. phase = "live"
    BY EmptyRange DEF Inv, FeedInv, BrowserInv
  <1>4. e.id <= top
    <2>1. delivered <= top /\ delivered \in Nat /\ top \in Nat
      BY <1>3, Types DEF Inv, FeedInv, ConnInv, TypeOK
    <2>2. CASE e \in Range(queue)
      BY <2>2 DEF Inv, FeedInv, ConnInv
    <2>3. CASE e \in Range(wire)
      <3>1. e.id <= delivered
        BY <2>3 DEF Inv, FeedInv, ConnInv
      <3> QED
        BY <1>2, <2>1, <3>1
    <2> QED
      BY <2>2, <2>3
  <1> QED
    BY <1>1, <1>2, <1>3, <1>4

LEMMA PublisherKeeps ==
  ASSUME Inv, PublisherResumes, seq + 1 = SeqWrap => top < EventId(clock, 0)
  PROVE  Inv'
  <1>30. PICK i \in Incidents : \E change \in unsent[i] :
           /\ Publish(i, change = "end")
           /\ unsent' = [unsent EXCEPT ![i] = IF change = "end" THEN {} ELSE @ \ {change}]
    BY DEF PublisherResumes
  <1>1. PICK change \in unsent[i] :
          /\ Publish(i, change = "end")
          /\ unsent' = [unsent EXCEPT ![i] = IF change = "end" THEN {} ELSE @ \ {change}]
    BY <1>30
  <1>2. /\ UNCHANGED <<db, clock, delivered, replayed, wire, phase, url, faults>>
        /\ UNCHANGED <<active, dedupe, lastId, fetches>>
    BY DEF PublisherResumes, viewVars
  <1>3. PICK ends \in BOOLEAN : ends = (change = "end")
    OBVIOUS
  <1>0. Publish(i, ends) /\ clock' = clock
    BY <1>1, <1>2, <1>3
  <1>4. Onward /\ NumberInv' /\ seq' \in 0 .. SeqWrap - 1
    BY <1>0, PublishIs
  <1>5. PICK env \in Envelope :
          /\ env.inc = i /\ env.ends = ends /\ env.id > top /\ top' = env.id
          /\ env \in Range(ring') /\ Range(ring') \subseteq Range(ring) \cup {env}
          /\ \/ missed' = TRUE /\ queue' = queue
             \/ missed' = missed /\ queue' = (IF phase = "live" THEN Append(queue, env) ELSE queue)
    BY <1>0, PublishIs, ZenonT(30)
  <1>6. unsent \in [Incidents -> SUBSET {"open", "end"}] /\ missed \in BOOLEAN
    BY Types DEF TypeOK
  <1>7. /\ \A j \in Incidents : j # i => unsent'[j] = unsent[j]
        /\ "open" \notin unsent'[i] /\ (~ends => unsent'[i] = unsent[i] \ {"open"})
        /\ unsent' \in [Incidents -> SUBSET {"open", "end"}]
        /\ ends => "end" \in unsent[i]
        /\ ~ends => "open" \in unsent[i]
    <2>1. change \in {"open", "end"}
      BY <1>6
    <2> QED
      BY <1>1, <1>3, <1>6, <2>1
  <1>8. /\ queue' \in Seq(Envelope) /\ Range(queue') \subseteq Range(queue) \cup {env}
        /\ Range(queue) \subseteq Range(queue')
        /\ env \in Range(queue') => phase = "live" \/ env \in Range(queue)
        /\ ~missed' => ~missed /\ (phase = "live" => env \in Range(queue'))
        /\ phase # "live" => queue' = queue
    <2>1. PICK longer : longer = Append(queue, env)
      OBVIOUS
    <2>2. longer \in Seq(Envelope) /\ Range(longer) = Range(queue) \cup {env}
      <3>1. queue \in Seq(Envelope)
        BY Types
      <3>2. /\ Append(queue, env) \in Seq(Envelope)
            /\ Range(Append(queue, env)) = Range(queue) \cup {env}
        BY ONLY <3>1, env \in Envelope, AppendIs
      <3> QED
        BY <2>1, <3>2
    <2>3. \/ missed' = TRUE /\ queue' = queue
          \/ missed' = missed /\ queue' = (IF phase = "live" THEN longer ELSE queue)
      BY <1>5, <2>1
    <2>4. queue \in Seq(Envelope)
      BY Types
    <2>5. CASE queue' = queue /\ (missed' \/ (missed' = missed /\ phase # "live"))
      BY <2>4, <2>5
    <2>6. CASE queue' = longer /\ missed' = missed /\ phase = "live"
      BY <2>2, <2>6
    <2> QED
      BY <2>3, <2>5, <2>6
  <1>9. \A e \in Range(queue) : e.id <= top /\ e.id \in Nat
    BY Types, RangeIs, EnvelopeIs DEF Inv, FeedInv, ConnInv
  <1>10. env.id \in Nat /\ top \in Nat /\ lastId \in Nat /\ lastId <= top
    BY Types, EnvelopeIs DEF Inv, FeedInv, BrowserInv
  <1>11. db[i] # "open" => ends \/ "end" \in unsent'[i]
    BY <1>6, <1>7 DEF Inv, FeedInv, UnsentInv
  <1>12. TypeOK'
    BY <1>2, <1>4, <1>5, <1>6, <1>7, <1>8, Types DEF TypeOK, Onward
  <1>13. UnsentInv'
    BY <1>2, <1>7 DEF Inv, FeedInv, UnsentInv
  <1>14. RingInv'
    <2>1. ASSUME NEW e \in Range(ring')
          PROVE  e \in Range(ring)
                   \/ (e.id <= top' /\ (e.ends \/ db'[e.inc] = "open" \/ "end" \in unsent'[e.inc]))
      <3>1. CASE e = env
        BY <1>2, <1>5, <1>10, <1>11, <3>1
      <3> QED
        BY <1>5, <3>1
    <2>2. ASSUME NEW j \in Incidents, db'[j] # "open"
          PROVE  \/ "end" \in unsent'[j]
                 \/ /\ db[j] # "open"
                    /\ "end" \in unsent[j] => \A id \in Nat : id <= top => EndIn(ring', j, id)
      <3>1. CASE j # i
        BY <1>2, <1>7, <2>2, <3>1
      <3>3. CASE j = i /\ ~ends
        BY <1>2, <1>11, <2>2, <3>3
      <3>2. CASE j = i /\ ends
        <4>1. db[i] # "open" /\ ends
          BY <1>2, <2>2, <3>2
        <4>2. \A id \in Nat : id <= top => env.id > id
          BY <1>5, <1>10
        <4>3. \A id \in Nat : id <= top => EndIn(ring', i, id)
          BY <1>5, <4>1, <4>2 DEF EndIn
        <4> QED
          BY <3>2, <4>1, <4>3
      <3> QED
        BY <3>1, <3>2, <3>3
    <2> QED
      BY <1>4, <2>1, <2>2, RingKeeps
  <1>15. BrowserInv'
    <2>1. lastId' <= top'
      BY <1>2, <1>5, <1>10
    <2> QED
      BY <1>2, <1>8, <2>1 DEF Inv, FeedInv, BrowserInv
  <1>16. ConnInv'
    <2>1. phase' = "live" => lastId' <= delivered' /\ delivered' <= top'
      <3>1. delivered \in Nat
        BY Types DEF TypeOK
      <3>2. phase = "live" => lastId <= delivered /\ delivered <= top
        BY DEF Inv, FeedInv, ConnInv
      <3> QED
        BY <1>2, <1>5, <1>10, <3>1, <3>2
    <2>2. \A id \in replayed' : id <= top' /\ id < env.id
      <3>1. \A id \in replayed : id \in Nat /\ id <= top
        BY Types DEF TypeOK, Inv, FeedInv, ConnInv
      <3> QED
        BY <1>2, <1>5, <1>10, <3>1
    <2>3. Ascends(queue')
      <3>1. Ascends(queue) /\ \A e \in Range(queue) : e.id < env.id
        BY <1>5, <1>9, <1>10 DEF Inv, FeedInv, ConnInv
      <3>2. Ascends(Append(queue, env))
        BY <3>1, Types, AscendsAppend
      <3> QED
        BY <1>5, <3>1, <3>2
    <2>4. ASSUME NEW e \in Range(queue')
          PROVE  delivered' < e.id /\ e.id <= top' /\ \A id \in replayed' : id < e.id
      <3>1. CASE e \in Range(queue)
        <4>1. delivered < e.id /\ \A id \in replayed : id < e.id
          BY <3>1 DEF Inv, FeedInv, ConnInv
        <4>2. e.id <= top'
          BY <1>5, <1>9, <1>10, <3>1
        <4> QED
          BY <1>2, <4>1, <4>2
      <3>2. CASE e = env /\ e \notin Range(queue)
        <4>1. delivered \in Nat /\ delivered <= top
          BY <1>8, <2>4, <3>2, Types DEF TypeOK, Inv, FeedInv, ConnInv
        <4> QED
          BY <1>2, <1>5, <1>10, <2>2, <3>2, <4>1
      <3> QED
        BY <1>8, <3>1, <3>2
    <2>5. Climbs(wire') /\ \A e \in Range(wire') : e.id <= delivered'
      BY <1>2 DEF Inv, FeedInv, ConnInv
    <2>6. ASSUME NEW e \in Range(wire') \cup Range(queue'), e # Reset
          PROVE  lastId' <= e.id /\ (e \in Range(ring') \/ Passed(e.id)')
      <3>1. CASE e = env
        BY <1>2, <1>5, <1>10, <3>1
      <3>2. CASE e # env
        <4>1. e \in Range(wire) \cup Range(queue)
          BY <1>2, <1>8, <2>6, <3>2
        <4>2. lastId <= e.id /\ (e \in Range(ring) \/ Passed(e.id))
          BY <2>6, <4>1 DEF Inv, FeedInv, ConnInv
        <4>3. e \in Envelope /\ e.id <= top
          BY <2>6, <4>1, FrameIs
        <4>4. e \in Range(ring') \/ Passed(e.id)'
          BY <1>4, <4>2, <4>3, OnwardIs
        <4> QED
          BY <1>2, <4>2, <4>4
      <3> QED
        BY <3>1, <3>2
    <2>7. Reset \in Range(wire') => Gap(lastId)'
      <3>1. Reset \in Range(wire) => Gap(lastId)
        BY DEF Inv, FeedInv, ConnInv
      <3>2. Gap(lastId) => Gap(lastId)'
        <4>1. PICK id \in Nat : id = lastId
          BY <1>10
        <4>2. Gap(id) => Gap(id)'
          BY <1>4, OnwardIs
        <4> QED
          BY <1>2, <4>1, <4>2 DEF Gap, Passed
      <3> QED
        BY <1>2, <3>1, <3>2
    <2> QED
      BY <2>1, <2>2, <2>3, <2>4, <2>5, <2>6, <2>7 DEF ConnInv
  <1>17. ASSUME phase = "live", ~missed', NEW j \in Incidents, NEW id \in Nat, id <= top, EndComes(j, id)
         PROVE  EndComes(j, id)'
    <2>1. EndIn(wire, j, id) => EndIn(wire', j, id)
      BY <1>2
    <2>2. EndIn(queue, j, id) => EndIn(queue', j, id)
      BY <1>8 DEF EndIn
    <2>3. "end" \in unsent[j] /\ (j # i \/ ~ends) => "end" \in unsent'[j]
      BY <1>7
    <2>4. j = i /\ ends => EndIn(queue', j, id)
      <3>1. env.id > id
        BY <1>5, <1>10, <1>17
      <3>2. env \in Range(queue')
        BY <1>8, <1>17
      <3> QED
        BY <1>3, <1>5, <3>1, <3>2 DEF EndIn
    <2> QED
      BY <1>17, <2>1, <2>2, <2>3, <2>4 DEF EndComes
  <1>18. PipeInv'
    <2> SUFFICES ASSUME ~missed', NEW e \in Range(wire') \cup Range(queue'), e # Reset, ~e.ends,
                        db'[e.inc] # "open"
                 PROVE  EndComes(e.inc, e.id)'
      BY DEF PipeInv
    <2>9. CASE e = env
      BY <1>2, <1>5, <1>11, <2>9 DEF EndComes
    <2>1. SUFFICES ASSUME e # env PROVE EndComes(e.inc, e.id)'
      BY <2>9
    <2>2. e \in Range(wire) \cup Range(queue)
      BY <1>2, <1>8, <2>1
    <2>3. e.inc \in Incidents /\ e.id \in Nat
      BY <2>2, FrameIs
    <2>4. phase = "live"
      BY <2>2, FrameIs
    <2>5. e.id <= top
      BY <2>2, FrameIs
    <2>6. EndComes(e.inc, e.id)
      BY <1>2, <1>8, <2>2 DEF Inv, FeedInv, PipeInv
    <2>7. PICK j \in Incidents, id \in Nat : j = e.inc /\ id = e.id
      BY <2>3
    <2>8. EndComes(j, id)'
      BY <1>17, <2>4, <2>5, <2>6, <2>7
    <2> QED
      BY <2>7, <2>8
  <1>19. ShownInv'
    <2> SUFFICES ASSUME ~missed', active # None, db[active] # "open", fetches = <<>>,
                        Reset \notin Range(wire)
                 PROVE  \/ EndComes(active, lastId)'
                        \/ phase # "live" /\ (Gap(lastId)' \/ EndIn(ring', active, lastId))
      BY <1>2 DEF ShownInv
    <2>1. PICK j \in Incidents : j = active
      BY Types DEF TypeOK
    <2>2. PICK id \in Nat : id = lastId /\ id <= top
      BY <1>10
    <2>3. \/ EndComes(j, id)
          \/ phase # "live" /\ (Gap(id) \/ EndIn(ring, j, id))
      BY <1>8, <2>1, <2>2 DEF Inv, FeedInv, ShownInv
    <2>4. phase # "live" /\ (Gap(id) \/ EndIn(ring, j, id)) => Gap(id)' \/ EndIn(ring', j, id)
      BY <1>4, OnwardIs
    <2>5. CASE phase = "live"
      <3>1. EndComes(j, id)'
        BY <1>17, <2>2, <2>3, <2>5
      <3> QED
        BY <1>2, <2>1, <2>2, <3>1 DEF EndComes
    <2>6. CASE phase # "live" /\ EndComes(j, id)
      <3>1. "end" \in unsent[j]
        BY <2>6, EmptyRange DEF Inv, FeedInv, BrowserInv, EndComes, EndIn
      <3>2. j # i \/ ~ends => "end" \in unsent'[j]
        BY <1>7, <3>1
      <3>3. j = i /\ ends => EndIn(ring', j, id)
        <4>1. env.id > id
          BY <1>5, <1>10, <2>2
        <4> QED
          BY <1>3, <1>5, <3>1, <4>1 DEF EndIn
      <3> QED
        BY <1>2, <2>1, <2>2, <2>6, <3>2, <3>3 DEF EndComes
    <2> QED
      BY <1>2, <2>1, <2>2, <2>3, <2>4, <2>5, <2>6 DEF Gap, Passed
  <1>20. Opened'
    BY <1>2 DEF Inv, Opened
  <1> QED
    BY <1>4, <1>12, <1>13, <1>14, <1>15, <1>16, <1>18, <1>19, <1>20 DEF Inv, FeedInv

-------------------------------------------------------------------------------
(* The connection.                                                         *)

\* The replay: what is newer than the id asked for, unless that is refused.
LEMMA ReplayIs ==
  ASSUME NEW s \in Seq(Envelope), Ascends(s), NEW last \in Nat
  PROVE  /\ Replay(s, last) \in Seq(Envelope) /\ Ascends(Replay(s, last))
         /\ Range(Replay(s, last)) \subseteq Range(s)
         /\ \A e \in Range(Replay(s, last)) : e.id > last /\ last # NoId /\ ~StaleId(s, last)
         /\ last # NoId /\ ~StaleId(s, last)
              => \A e \in Range(s) : e.id > last => e \in Range(Replay(s, last))
  <1>1. PICK P : P = {n \in DOMAIN s : s[n].id > last}
    OBVIOUS
  <1>2. P \subseteq 1 .. Len(s) /\ DOMAIN s = 1 .. Len(s)
    BY <1>1, RangeIs
  <1>3. CASE last = NoId \/ StaleId(s, last)
    <2>1. Replay(s, last) = <<>>
      BY <1>3 DEF Replay
    <2>2. <<>> \in Seq(Envelope) /\ Ascends(<<>>)
      BY EmptySeq DEF Ascends
    <2> QED
      BY <1>3, <2>1, <2>2, EmptyRange
  <1>4. CASE last # NoId /\ ~StaleId(s, last)
    <2>1. PICK t : t = Replay(s, last)
      OBVIOUS
    <2>2. t = From(s, P)
      BY <1>1, <1>4, <2>1 DEF Replay
    <2>3. /\ t \in Seq(Envelope) /\ SuffixOf(t, s)
          /\ \A n \in P : s[n] \in Range(t)
          /\ t # <<>> => \E n \in P : Head(t) = s[n]
      BY <1>2, <2>2, FromIs
    <2>4. Ascends(t) /\ Range(t) \subseteq Range(s)
      BY <2>3, SuffixIs
    <2>5. ASSUME NEW e \in Range(t) PROVE e.id > last
      <3>1. t # <<>> /\ Head(t).id <= e.id
        BY <2>3, <2>4, HeadLeast
      <3>2. Head(t).id > last
        BY <1>1, <2>3, <3>1
      <3>3. Head(t).id \in Nat /\ e.id \in Nat
        BY <2>3, <3>1, HeadIs, RangeIs, EnvelopeIs
      <3> QED
        BY <3>1, <3>2, <3>3
    <2>6. ASSUME NEW e \in Range(s), e.id > last PROVE e \in Range(t)
      <3>1. PICK n \in 1 .. Len(s) : e = s[n]
        BY RangeIs
      <3>2. n \in P
        BY <1>1, <1>2, <2>6, <3>1
      <3> QED
        BY <2>3, <3>1, <3>2
    <2> QED
      BY <1>4, <2>1, <2>3, <2>4, <2>5, <2>6
  <1> QED
    BY <1>3, <1>4

\* The last envelope is the newest.
LEMMA LastIs ==
  ASSUME NEW s \in Seq(Envelope), Ascends(s), s # <<>>
  PROVE  Last(s) \in Range(s) /\ \A e \in Range(s) : e.id <= Last(s).id
  <1>1. Len(s) \in 1 .. Len(s) /\ DOMAIN s = 1 .. Len(s) /\ Len(s) \in Nat
    <2>1. Len(s) \in Nat /\ Len(s) >= 1
      BY HeadIs, RangeIs
    <2> QED
      BY <2>1, RangeIs
  <1>2. Last(s) = s[Len(s)] /\ s[Len(s)] \in Range(s) /\ s[Len(s)] \in Envelope
    BY <1>1, RangeIs DEF Last
  <1>3. ASSUME NEW e \in Range(s) PROVE e.id <= s[Len(s)].id
    <2>1. PICK n \in 1 .. Len(s) : e = s[n]
      BY RangeIs
    <2>2. e.id \in Nat /\ s[Len(s)].id \in Nat
      BY <1>2, RangeIs, EnvelopeIs
    <2>3. CASE n = Len(s)
      BY <2>1, <2>2, <2>3
    <2>4. CASE n # Len(s)
      <3>1. n < Len(s)
        <4>1. n \in Nat /\ n <= Len(s) /\ Len(s) \in Nat
          BY <1>1, <2>1
        <4> QED
          BY <2>4, <4>1
      <3>2. s[n].id < s[Len(s)].id
        BY <1>1, <2>1, <3>1 DEF Ascends
      <3> QED
        BY <2>1, <2>2, <3>2
    <2> QED
      BY <2>3, <2>4
  <1> QED
    BY <1>2, <1>3

LEMMA AcceptKeeps ==
  ASSUME Inv, ServerAccepts
  PROVE  Inv'
  <1>1. PICK buffer, stale, replay :
          /\ buffer = Pruned(ring) /\ stale = StaleId(buffer, url) /\ replay = Replay(buffer, url)
          /\ phase = "connecting" /\ phase' = "live"
          /\ ring' = buffer
          /\ wire' = (IF stale THEN <<Reset>> ELSE Twice(replay))
          /\ replayed' = {e.id : e \in Range(replay)}
          /\ delivered' = (IF replay = <<>> THEN url ELSE Last(replay).id)
          /\ missed' = (~stale /\ (missed \/ LeavesGap(buffer)))
          /\ queue' = <<>>
          /\ UNCHANGED <<db, unsent, clock, seq, top, url, active, dedupe, lastId, fetches, faults>>
    BY DEF ServerAccepts, tableVars, viewVars
  <1>2. buffer \in Seq(Envelope) /\ SuffixOf(buffer, ring)
    <2>1. {n \in DOMAIN ring : ~Expired(ring[n].id)} \subseteq 1 .. Len(ring)
      BY Types, RangeIs
    <2> QED
      BY <1>1, <2>1, Types, FromIs DEF Pruned
  <1>3. Onward /\ Range(ring') \subseteq Range(ring)
    BY <1>1, <1>2, LoseIs
  <1>4. url = lastId /\ url \in Nat /\ url <= top /\ top \in Nat
    BY <1>1, Types DEF Inv, FeedInv, BrowserInv
  <1>5. Ascends(buffer)
    BY <1>1, <1>3 DEF Onward
  <1>6. /\ replay \in Seq(Envelope) /\ Ascends(replay) /\ Range(replay) \subseteq Range(buffer)
        /\ \A e \in Range(replay) : e.id > url /\ url # NoId /\ ~stale
        /\ url # NoId /\ ~stale => \A e \in Range(buffer) : e.id > url => e \in Range(replay)
    BY <1>1, <1>2, <1>4, <1>5, ReplayIs
  <1>7. \A e \in Range(buffer) : e \in Envelope /\ e.id \in Nat /\ e.id <= top /\ e.inc \in Incidents
    BY <1>1, <1>2, <1>3, RangeIs, EnvelopeIs DEF Inv, FeedInv, RingInv
  <1>8. RingInv'
    BY <1>1, <1>3, RingKeeps
  <1>9. /\ delivered' \in Nat /\ url <= delivered' /\ delivered' <= top
        /\ \A e \in Range(replay) : e.id <= delivered'
    <2>1. CASE replay = <<>>
      BY <1>1, <1>4, <2>1, EmptyRange
    <2>2. CASE replay # <<>>
      <3>1. Last(replay) \in Range(replay) /\ \A e \in Range(replay) : e.id <= Last(replay).id
        BY <1>6, <2>2, LastIs
      <3>2. Last(replay).id > url /\ Last(replay).id <= top /\ Last(replay).id \in Nat
        BY <1>6, <1>7, <3>1
      <3> QED
        BY <1>1, <1>4, <2>2, <3>1, <3>2
    <2> QED
      BY <2>1, <2>2
  <1>10. stale => buffer # <<>> /\ url < Head(buffer).id /\ url # NoId
    BY <1>1 DEF StaleId
  <1>11. stale => Gap(lastId)'
    <2> SUFFICES ASSUME stale PROVE Gap(lastId)'
      OBVIOUS
    <2>1. buffer # <<>> /\ url < Head(buffer).id
      BY <1>10
    <2>2. Head(buffer) \in Range(buffer)
      BY <1>2, <2>1, HeadIs
    <2>3. url < top
      BY <1>4, <1>7, <2>1, <2>2
    <2> QED
      BY <1>1, <1>4, <2>1, <2>3 DEF Gap, Passed
  <1>12. /\ wire' \in Seq(Envelope \cup {Reset}) /\ Climbs(wire')
         /\ stale => Range(wire') = {Reset}
         /\ ~stale => Range(wire') = Range(replay)
    <2>1. CASE stale
      <3>1. wire' = <<Reset>>
        BY <1>1, <2>1
      <3>2. Climbs(<<Reset>>) /\ Range(<<Reset>>) = {Reset}
        BY DEF Climbs, Range
      <3> QED
        BY <2>1, <3>1, <3>2
    <2>2. CASE ~stale
      BY <1>1, <1>6, <2>2, TwiceIs
    <2> QED
      BY <2>1, <2>2
  <1>13. TypeOK'
    <2>1. replayed' \subseteq Nat
      BY <1>1, <1>6, <1>7
    <2>2. missed' \in BOOLEAN /\ queue' \in Seq(Envelope)
      BY <1>1, EmptySeq DEF StaleId
    <2> QED
      BY <1>1, <1>2, <1>9, <1>12, <2>1, <2>2, Types DEF TypeOK
  <1>14. NumberInv' /\ UnsentInv' /\ Opened'
    BY <1>1 DEF Inv, FeedInv, NumberInv, UnsentInv, Opened, EventId
  <1>15. BrowserInv'
    BY <1>1 DEF Inv, FeedInv, BrowserInv
  <1>16. ConnInv'
    <2>1. \A id \in replayed' : id <= top'
      BY <1>1, <1>6, <1>7
    <2>2. Ascends(queue') /\ Range(queue') = {}
      BY <1>1, EmptyRange DEF Ascends
    <2>3. \A e \in Range(wire') : e.id <= delivered'
      <3>1. Reset.id <= delivered'
        BY <1>9, ResetIs
      <3> QED
        BY <1>9, <1>12, <3>1
    <2>4. ASSUME NEW e \in Range(wire'), e # Reset
          PROVE  lastId' <= e.id /\ e \in Range(ring')
      <3>1. e \in Range(replay)
        BY <1>12, <2>4
      <3>2. e.id > url /\ e.id \in Nat /\ e \in Range(buffer)
        BY <1>6, <1>7, <3>1
      <3>3. url <= e.id
        BY <1>4, <3>2
      <3> QED
        BY <1>1, <1>4, <3>2, <3>3
    <2>5. Reset \in Range(wire') => Gap(lastId)'
      <3>1. Reset \notin Range(replay)
        BY <1>6, <1>7, ResetIs
      <3> QED
        BY <1>11, <1>12, <3>1
    <2>6. lastId' <= delivered' /\ delivered' <= top'
      BY <1>1, <1>4, <1>9
    <2> QED
      BY <1>12, <2>1, <2>2, <2>3, <2>4, <2>5, <2>6 DEF ConnInv
  <1>17. PipeInv'
    <2> SUFFICES ASSUME NEW e \in Range(wire'), e # Reset, ~e.ends, db'[e.inc] # "open"
                 PROVE  EndComes(e.inc, e.id)'
      BY <1>1, EmptyRange DEF PipeInv
    <2>1. ~stale /\ e \in Range(replay) /\ e \in Range(ring')
      BY <1>1, <1>6, <1>12
    <2>2. "end" \in unsent'[e.inc] \/ EndIn(ring', e.inc, e.id)
      BY <1>8, <2>1 DEF RingInv
    <2>3. EndIn(ring', e.inc, e.id) => EndIn(wire', e.inc, e.id)
      <3> SUFFICES ASSUME NEW f \in Range(buffer), f.inc = e.inc, f.ends, f.id > e.id
                   PROVE  f \in Range(replay)
        BY <1>1, <1>12, <2>1 DEF EndIn
      <3>1. f.id > url
        <4>1. e.id > url /\ e.id \in Nat /\ f.id \in Nat
          BY <1>6, <1>7, <2>1
        <4> QED
          BY <1>4, <4>1
      <3> QED
        BY <1>6, <2>1, <3>1
    <2> QED
      BY <2>2, <2>3 DEF EndComes
  <1>18. ShownInv'
    <2> SUFFICES ASSUME ~stale, ~missed, ~LeavesGap(buffer), active # None, db[active] # "open",
                        fetches = <<>>
                 PROVE  EndComes(active, lastId)'
      BY <1>1, <1>12 DEF ShownInv
    <2>1. PICK j \in Incidents : j = active
      BY Types DEF TypeOK
    <2>2. wire = <<>> /\ queue = <<>>
      BY <1>1 DEF Inv, FeedInv, BrowserInv
    <2>3. "end" \in unsent[j] \/ Gap(url) \/ EndIn(ring, j, url)
      BY <1>4, <2>1, <2>2, EmptyRange DEF Inv, FeedInv, ShownInv, EndComes, EndIn
    <2>4. top > url => url # NoId /\ buffer # <<>> /\ Head(buffer).id <= url
      <3> SUFFICES ASSUME top > url PROVE url # NoId /\ buffer # <<>> /\ Head(buffer).id <= url
        OBVIOUS
      <3>1. url # NoId /\ buffer # <<>>
        BY DEF LeavesGap
      <3>2. ~(url < Head(buffer).id)
        BY <1>1, <3>1 DEF StaleId
      <3>3. Head(buffer).id \in Nat
        BY <1>2, <3>1, HeadIs, EnvelopeIs
      <3> QED
        BY <1>4, <3>1, <3>2, <3>3
    <2>5. ~Gap(url)'
      <3> SUFFICES ASSUME url < top, ring' = <<>> \/ url < Head(ring').id PROVE FALSE
        BY <1>1 DEF Gap, Passed
      <3>1. buffer # <<>> /\ Head(buffer).id <= url
        BY <1>4, <2>4
      <3>2. Head(buffer).id \in Nat
        BY <1>2, <3>1, HeadIs, EnvelopeIs
      <3> QED
        BY <1>1, <1>4, <3>1, <3>2
    <2>6. PICK u \in Nat : u = url
      BY <1>4
    <2>7. Gap(u) => Gap(u)'
      BY <1>3, OnwardIs
    <2>8. EndIn(ring, j, u) => EndIn(ring', j, u) \/ Gap(u)'
      BY <1>3, OnwardIs
    <2>9. Gap(u)' <=> Gap(url)'
      BY <1>1, <2>6
    <2>10. "end" \in unsent[j] \/ EndIn(ring', j, url)
      BY <2>3, <2>5, <2>6, <2>7, <2>8, <2>9
    <2>11. EndIn(ring', j, url) => EndIn(wire', j, url)
      <3> SUFFICES ASSUME NEW f \in Range(buffer), f.inc = j, f.ends, f.id > url
                   PROVE  f \in Range(replay)
        BY <1>1, <1>12 DEF EndIn
      <3>1. top > url
        <4>1. f.id <= top /\ f.id \in Nat
          BY <1>7
        <4> QED
          BY <1>4, <4>1
      <3> QED
        BY <1>6, <2>4, <3>1
    <2> QED
      BY <1>1, <1>4, <2>1, <2>10, <2>11 DEF EndComes
  <1> QED
    BY <1>8, <1>13, <1>14, <1>15, <1>16, <1>17, <1>18 DEF Inv, FeedInv

\* Two frames of a newer envelope go behind what is on the wire.
LEMMA ClimbsConcat ==
  ASSUME NEW s \in Seq(Envelope \cup {Reset}), Climbs(s), NEW e \in Envelope,
         NEW t \in Seq(Envelope \cup {Reset}), Range(t) = {e}, \A f \in Range(s) : f.id < e.id
  PROVE  /\ s \o t \in Seq(Envelope \cup {Reset}) /\ Climbs(s \o t)
         /\ Range(s \o t) = Range(s) \cup {e}
  <1>1. PICK r : r = s \o t
    OBVIOUS
  <1>2. /\ r \in Seq(Envelope \cup {Reset}) /\ Len(r) = Len(s) + Len(t)
        /\ \A i \in 1 .. Len(s) + Len(t) : r[i] = IF i <= Len(s) THEN s[i] ELSE t[i - Len(s)]
    BY <1>1, ConcatProperties
  <1>3. /\ Len(s) \in Nat /\ Len(t) \in Nat /\ DOMAIN s = 1 .. Len(s) /\ DOMAIN r = 1 .. Len(r)
        /\ \A i \in 1 .. Len(s) : s[i] \in Range(s)
        /\ \A i \in 1 .. Len(t) : t[i] = e
    BY <1>2, RangeIs
  <1>4. ASSUME NEW i \in 1 .. Len(r)
        PROVE  (i \in 1 .. Len(s) /\ r[i] = s[i]) \/ (i > Len(s) /\ r[i] = e)
    <2>1. CASE i <= Len(s)
      <3>1. i \in 1 .. Len(s)
        BY <1>3, <2>1
      <3> QED
        BY <1>2, <2>1, <3>1
    <2>2. CASE i > Len(s)
      <3>1. i - Len(s) \in 1 .. Len(t) /\ ~(i <= Len(s)) /\ i \in 1 .. Len(s) + Len(t)
        BY <1>2, <1>3, <2>2
      <3>2. r[i] = t[i - Len(s)]
        BY <1>2, <3>1
      <3> QED
        BY <1>3, <2>2, <3>1, <3>2
    <2> QED
      BY <1>3, <2>1, <2>2
  <1>5. Climbs(r)
    <2> SUFFICES ASSUME NEW n \in 1 .. Len(r), NEW m \in 1 .. Len(r), n < m
                 PROVE  r[n].id < r[m].id \/ r[n] = r[m]
      BY <1>3 DEF Climbs
    <2>1. CASE n \in 1 .. Len(s) /\ m \in 1 .. Len(s)
      <3>1. r[n] = s[n] /\ r[m] = s[m]
        BY <1>3, <1>4, <2>1
      <3> QED
        BY <1>3, <2>1, <3>1 DEF Climbs
    <2>2. CASE n \in 1 .. Len(s) /\ m > Len(s)
      <3>1. r[n] = s[n] /\ r[m] = e
        BY <1>3, <1>4, <2>2
      <3> QED
        BY <1>3, <2>2, <3>1
    <2>3. CASE n > Len(s)
      <3>1. m > Len(s)
        BY <1>3, <2>3
      <3>2. r[n] = e /\ r[m] = e
        BY <1>3, <1>4, <2>3, <3>1
      <3> QED
        BY <3>2
    <2> QED
      BY <1>4, <2>1, <2>2, <2>3
  <1>6. ASSUME NEW f \in Range(r) PROVE f = e \/ f \in Range(s)
    <2>1. PICK n \in 1 .. Len(r) : f = r[n]
      BY <1>2, RangeIs
    <2> QED
      BY <1>3, <1>4, <2>1
  <1>7. ASSUME NEW f \in Range(s) PROVE f \in Range(r)
    <2>1. PICK n \in 1 .. Len(s) : f = s[n]
      BY RangeIs
    <2>2. n \in 1 .. Len(r) /\ n <= Len(s)
      BY <1>2, <1>3, <2>1
    <2>3. r[n] = s[n]
      BY <1>2, <2>2
    <2> QED
      BY <1>3, <2>1, <2>2, <2>3 DEF Range
  <1>8. e \in Range(r)
    <2>0. e \in Range(t)
      OBVIOUS
    <2>1. PICK n \in DOMAIN t : e = t[n]
      BY <2>0 DEF Range
    <2>2. n \in 1 .. Len(t)
      BY <2>1, LenProperties
    <2>3. Len(s) + n \in 1 .. Len(r) /\ ~(Len(s) + n <= Len(s))
      BY <1>2, <1>3, <2>2
    <2>4. r[Len(s) + n] = e
      BY <1>3, <1>4, <2>3
    <2> QED
      BY <1>3, <2>3, <2>4 DEF Range
  <1>9. Range(r) = Range(s) \cup {e}
    BY <1>6, <1>7, <1>8
  <1> QED
    BY <1>1, <1>2, <1>5, <1>9

LEMMA AscendsTail ==
  ASSUME NEW s \in Seq(Envelope), Ascends(s), s # <<>>
  PROVE  Ascends(Tail(s))
  BY HeadIs, SuffixIs

LEMMA SendKeeps ==
  ASSUME Inv, ServerSends
  PROVE  Inv'
  <1>1. PICK env : env = Head(queue)
    OBVIOUS
  <1>2. /\ phase = "live" /\ queue # <<>> /\ queue' = Tail(queue)
        /\ \/ env.id \in replayed \/ (delivered # NoId /\ env.id <= delivered)
           \/ delivered' = env.id /\ wire' = wire \o Twice(<<env>>)
        /\ UNCHANGED <<db, unsent, clock, seq, ring, top, replayed, phase, url>>
        /\ UNCHANGED <<active, dedupe, lastId, fetches, missed, faults>>
    BY <1>1 DEF ServerSends, tableVars, streamVars, viewVars
  <1>3. /\ env \in Range(queue) /\ env \in Envelope /\ queue' \in Seq(Envelope)
        /\ Range(queue) = {env} \cup Range(queue') /\ Ascends(queue')
    BY <1>1, <1>2, Types, HeadIs, AscendsTail DEF Inv, FeedInv, ConnInv
  <1>4. /\ delivered < env.id /\ env.id <= top /\ \A id \in replayed : id < env.id
        /\ lastId <= delivered /\ delivered \in Nat
    BY <1>2, <1>3, Types DEF Inv, FeedInv, ConnInv, TypeOK
  <1>5. env.id \in Nat /\ env.inc \in Incidents /\ env # Reset
    BY <1>3, EnvelopeIs
  <1>6. delivered' = env.id /\ wire' = wire \o Twice(<<env>>)
    <2>1. env.id \notin replayed
      <3>1. ~(env.id < env.id)
        BY <1>5
      <3> QED
        BY <1>4, <3>1
    <2>2. ~(env.id <= delivered)
      BY <1>4, <1>5
    <2> QED
      BY <1>2, <2>1, <2>2
  <1>7. \A e \in Range(wire) : e.id < env.id
    <2> SUFFICES ASSUME NEW e \in Range(wire) PROVE e.id < env.id
      OBVIOUS
    <2>1. e.id <= delivered
      BY DEF Inv, FeedInv, ConnInv
    <2>2. e.id \in Nat
      <3>1. e \in Envelope \cup {Reset}
        BY Types, RangeIs
      <3> QED
        BY <3>1, EnvelopeIs, ResetIs
    <2> QED
      BY <1>4, <1>5, <2>1, <2>2
  <1>8. /\ wire' \in Seq(Envelope \cup {Reset}) /\ Climbs(wire')
        /\ Range(wire') = Range(wire) \cup {env}
    <2>1. /\ <<env>> \in Seq(Envelope) /\ Ascends(<<env>>) /\ Range(<<env>>) = {env}
      BY <1>3 DEF Ascends, Range
    <2>2. Twice(<<env>>) \in Seq(Envelope \cup {Reset}) /\ Range(Twice(<<env>>)) = {env}
      BY <2>1, TwiceIs
    <2>3. Climbs(wire)
      BY DEF Inv, FeedInv, ConnInv
    <2> QED
      BY <1>3, <1>6, <1>7, <2>2, <2>3, Types, ClimbsConcat
  <1>9. TypeOK'
    BY <1>2, <1>3, <1>5, <1>6, <1>8, Types DEF TypeOK
  <1>10. NumberInv' /\ UnsentInv' /\ RingInv' /\ Opened'
    BY <1>2 DEF Inv, FeedInv, NumberInv, UnsentInv, RingInv, Opened, EventId
  <1>11. BrowserInv'
    BY <1>2 DEF Inv, FeedInv, BrowserInv
  <1>12. \A id : (Passed(id)' <=> Passed(id)) /\ (Gap(id)' <=> Gap(id))
    BY <1>2, SameRing
  <1>13. ConnInv'
    <2>1. lastId' <= delivered' /\ delivered' <= top'
      <3>1. lastId \in Nat
        BY Types
      <3> QED
        BY <1>2, <1>4, <1>5, <1>6, <3>1
    <2>2. \A id \in replayed' : id <= top'
      BY <1>2 DEF Inv, FeedInv, ConnInv
    <2>3. ASSUME NEW e \in Range(queue')
          PROVE  delivered' < e.id /\ e.id <= top' /\ \A id \in replayed' : id < e.id
      <3>1. e \in Range(queue)
        BY <1>3
      <3>2. e.id <= top /\ \A id \in replayed : id < e.id
        BY <3>1 DEF Inv, FeedInv, ConnInv
      <3>3. Head(queue).id < e.id
        BY <1>2, <3>1, Types, HeadLeast DEF Inv, FeedInv, ConnInv
      <3> QED
        BY <1>1, <1>2, <1>6, <3>2, <3>3
    <2>4. ASSUME NEW e \in Range(wire') PROVE e.id <= delivered'
      <3>1. CASE e = env
        BY <1>5, <1>6, <3>1
      <3>2. CASE e \in Range(wire)
        <4>1. e.id < env.id
          BY <1>7, <3>2
        <4>2. e.id \in Nat
          <5>1. e \in Envelope \cup {Reset}
            BY <3>2, Types, RangeIs
          <5> QED
            BY <5>1, EnvelopeIs, ResetIs
        <4> QED
          BY <1>5, <1>6, <4>1, <4>2
      <3> QED
        BY <1>8, <3>1, <3>2
    <2>5. \A e \in Range(wire') \cup Range(queue') :
            e # Reset => lastId' <= e.id /\ (e \in Range(ring') \/ Passed(e.id)')
      <3>1. Range(wire') \cup Range(queue') = Range(wire) \cup Range(queue)
        BY <1>3, <1>8
      <3>2. \A e \in Range(wire) \cup Range(queue) :
              e # Reset => lastId <= e.id /\ (e \in Range(ring) \/ Passed(e.id))
        BY DEF Inv, FeedInv, ConnInv
      <3> QED
        BY <1>2, <1>12, <3>1, <3>2
    <2>6. Reset \in Range(wire') => Gap(lastId)'
      <3>1. Reset \in Range(wire') => Reset \in Range(wire)
        BY <1>5, <1>8
      <3>2. Reset \in Range(wire) => Gap(lastId)
        BY DEF Inv, FeedInv, ConnInv
      <3>3. Gap(lastId) => Gap(lastId)'
        BY <1>2 DEF Gap, Passed
      <3> QED
        BY <3>1, <3>2, <3>3
    <2> QED
      BY <1>3, <1>8, <2>1, <2>2, <2>3, <2>4, <2>5, <2>6 DEF ConnInv
  <1>14. \A j, id : EndComes(j, id) => EndComes(j, id)'
    BY <1>2, <1>3, <1>8 DEF EndComes, EndIn
  <1>15. PipeInv'
    <2> SUFFICES ASSUME ~missed, NEW e \in Range(wire') \cup Range(queue'), e # Reset, ~e.ends,
                        db[e.inc] # "open"
                 PROVE  EndComes(e.inc, e.id)'
      BY <1>2 DEF PipeInv
    <2>1. EndComes(e.inc, e.id)
      BY <1>3, <1>8 DEF Inv, FeedInv, PipeInv
    <2> QED
      BY <1>14, <2>1
  <1>16. ShownInv'
    <2> SUFFICES ASSUME ~missed, active # None, db[active] # "open", fetches = <<>>,
                        Reset \notin Range(wire')
                 PROVE  EndComes(active, lastId)'
      BY <1>2 DEF ShownInv
    <2>1. EndComes(active, lastId)
      BY <1>2, <1>8 DEF Inv, FeedInv, ShownInv
    <2>2. PICK j, id : j = active /\ id = lastId
      OBVIOUS
    <2>3. EndComes(j, id)'
      BY <1>14, <2>1, <2>2
    <2> QED
      BY <1>2, <2>2, <2>3 DEF EndComes
  <1> QED
    BY <1>9, <1>10, <1>11, <1>13, <1>15, <1>16 DEF Inv, FeedInv

-------------------------------------------------------------------------------
(* The snapshots.                                                          *)

\* A snapshot under way excuses what the browser shows.
LEMMA FetchesKeep ==
  ASSUME Inv, UNCHANGED <<tableVars, streamVars, connVars, active, dedupe, lastId, missed>>,
         faults' \in Nat, fetches' \in Seq(Snapshot), fetches' # <<>>
  PROVE  Inv'
  <1>1. /\ UNCHANGED <<db, unsent, clock, seq, ring, top>>
        /\ UNCHANGED <<queue, delivered, replayed, wire, phase, url>>
        /\ UNCHANGED <<active, dedupe, lastId, missed>>
    BY DEF tableVars, streamVars, connVars
  <1>2. TypeOK'
    BY <1>1, Types DEF TypeOK
  <1>3. BrowserInv' /\ ConnInv'
    BY <1>1, ConnSame
  <1>4. NumberInv' /\ UnsentInv' /\ RingInv' /\ Opened'
    BY <1>1 DEF Inv, FeedInv, NumberInv, UnsentInv, RingInv, Opened, EventId
  <1>5. PipeInv'
    BY <1>1 DEF Inv, FeedInv, PipeInv, EndComes
  <1>6. ShownInv'
    BY DEF ShownInv
  <1> QED
    BY <1>2, <1>3, <1>4, <1>5, <1>6 DEF Inv, FeedInv

LEMMA AnswerKeeps ==
  ASSUME Inv, RestAnswers \/ RestFails
  PROVE  Inv'
  <1>1. PICK n \in DOMAIN fetches, answer \in Snapshot :
          fetches' = [fetches EXCEPT ![n] = answer]
    <2>1. CASE RestAnswers
      <3>1. [at |-> "answered", open |-> NewestOpen] \in Snapshot
        BY NewestIs DEF Snapshot
      <3> QED
        BY <2>1, <3>1 DEF RestAnswers
    <2>2. CASE RestFails
      <3>1. [at |-> "failed", open |-> None] \in Snapshot
        BY DEF Snapshot
      <3> QED
        BY <2>2, <3>1 DEF RestFails
    <2> QED
      BY <2>1, <2>2
  <1>2. /\ UNCHANGED <<tableVars, streamVars, connVars, active, dedupe, lastId, missed>>
        /\ faults' \in Nat
    <2>1. faults \in Nat
      BY Types DEF TypeOK
    <2>2. faults + 1 \in Nat
      BY <2>1
    <2> QED
      BY <2>1, <2>2 DEF RestAnswers, RestFails
  <1>3. fetches \in Seq(Snapshot) /\ n \in 1 .. Len(fetches)
    BY Types, RangeIs
  <1>4. fetches' \in Seq(Snapshot) /\ Len(fetches') = Len(fetches)
    BY <1>1, <1>3, ExceptSeq
  <1>5. fetches' # <<>>
    <2>1. Len(fetches) # 0
      BY <1>3, RangeIs
    <2>2. Len(<<>>) = 0
      BY EmptySeq
    <2> QED
      BY <1>4, <2>1, <2>2
  <1> QED
    BY <1>2, <1>4, <1>5, FetchesKeep

\* An answer that lands says itself whether it is older than the table.
LEMMA SnapshotKeeps ==
  ASSUME Inv, SnapshotLands
  PROVE  Inv'
  <1>1. PICK n \in DOMAIN fetches :
          /\ fetches' = RemoveAt(fetches, n)
          /\ fetches[n].at # "asked"
          /\ \/ missed' = TRUE /\ active' = active
             \/ /\ active' = fetches[n].open
                /\ missed' = (missed \/ (fetches[n].open # None /\ db[fetches[n].open] # "open"))
          /\ phase' = (IF phase = "hydrating" THEN "connecting" ELSE phase)
          /\ url' = (IF phase = "hydrating" THEN lastId ELSE url)
          /\ UNCHANGED <<db, unsent, clock, seq, ring, top>>
          /\ UNCHANGED <<queue, delivered, replayed, wire, dedupe, lastId, faults>>
    BY DEF SnapshotLands, tableVars, streamVars
  <1>2. fetches \in Seq(Snapshot) /\ n \in 1 .. Len(fetches) /\ Len(fetches) \in Nat
    BY Types, RangeIs
  <1>3. fetches' \in Seq(Snapshot)
    <2>1. \A k \in 1 .. Len(fetches) : fetches[k] \in Snapshot
      BY <1>2, RangeIs
    <2>2. \A k \in 1 .. n - 1 : fetches[k] \in Snapshot
      <3>1. \A k \in 1 .. n - 1 : k \in 1 .. Len(fetches)
        BY <1>2
      <3> QED
        BY <2>1, <3>1
    <2>3. \A k \in n + 1 .. Len(fetches) : fetches[k] \in Snapshot
      <3>1. \A k \in n + 1 .. Len(fetches) : k \in 1 .. Len(fetches)
        BY <1>2
      <3> QED
        BY <2>1, <3>1
    <2>4. SubSeq(fetches, 1, n - 1) \in Seq(Snapshot)
      BY <1>2, <2>2, SubSeqProperties
    <2>5. SubSeq(fetches, n + 1, Len(fetches)) \in Seq(Snapshot)
      BY <1>2, <2>3, SubSeqProperties
    <2> QED
      BY <1>1, <2>4, <2>5, ConcatProperties DEF RemoveAt
  <1>4. fetches[n].open \in Incidents \cup {None}
    <2>1. fetches[n] \in Snapshot
      BY <1>2, RangeIs
    <2> QED
      BY <2>1 DEF Snapshot
  <1>5. missed' \in BOOLEAN /\ active' \in Incidents \cup {None}
    <2>1. missed \in BOOLEAN /\ active \in Incidents \cup {None}
      BY Types DEF TypeOK
    <2> QED
      BY <1>1, <1>4, <2>1
  <1>6. phase' \in {"hydrating", "connecting", "live", "backoff"} /\ url' \in Nat
    <2>1. phase \in {"hydrating", "connecting", "live", "backoff"} /\ url \in Nat /\ lastId \in Nat
      BY Types DEF TypeOK
    <2> QED
      BY <1>1, <2>1
  <1>7. TypeOK'
    BY <1>1, <1>3, <1>5, <1>6, Types DEF TypeOK
  <1>8. NumberInv' /\ UnsentInv' /\ RingInv' /\ Opened'
    BY <1>1 DEF Inv, FeedInv, NumberInv, UnsentInv, RingInv, Opened, EventId
  <1>9. phase' = "live" <=> phase = "live"
    BY <1>1
  <1>10. BrowserInv'
    BY <1>1, <1>9 DEF Inv, FeedInv, BrowserInv
  <1>11. ConnInv'
    <2>1. \A id : (Passed(id)' <=> Passed(id)) /\ (Gap(id)' <=> Gap(id))
      BY <1>1, SameRing
    <2> QED
      BY <1>1, <1>9, <2>1 DEF Inv, FeedInv, ConnInv
  <1>12. missed' = FALSE => missed = FALSE
    <2>1. missed \in BOOLEAN
      BY Types DEF TypeOK
    <2> QED
      BY <1>1, <2>1
  <1>13. PipeInv'
    <2>1. missed \in BOOLEAN
      BY Types DEF TypeOK
    <2> SUFFICES ASSUME ~missed', NEW e \in Range(wire) \cup Range(queue), e # Reset, ~e.ends,
                        db[e.inc] # "open"
                 PROVE  EndComes(e.inc, e.id)'
      BY <1>1 DEF PipeInv
    <2>2. EndComes(e.inc, e.id)
      BY <1>1, <2>1 DEF Inv, FeedInv, PipeInv
    <2> QED
      BY <1>1, <2>2 DEF EndComes
  <1>14. ShownInv'
    <2> SUFFICES ASSUME ~missed', active' # None, db[active'] # "open" PROVE FALSE
      BY <1>1 DEF ShownInv
    <2> QED
      BY <1>1
  <1> QED
    BY <1>7, <1>8, <1>10, <1>11, <1>13, <1>14 DEF Inv, FeedInv

-------------------------------------------------------------------------------
(* The browser.                                                            *)

\* A reset leaves a gap to be noticed again if the snapshot never comes.
LEMMA ResetKeeps ==
  ASSUME Inv, ResetArrives
  PROVE  Inv'
  <1>1. /\ wire # <<>> /\ Head(wire) = Reset /\ wire' = Tail(wire)
        /\ dedupe' = <<>> /\ lastId' = 0 /\ fetches' = Append(fetches, Asked)
        /\ UNCHANGED <<db, unsent, clock, seq, ring, top>>
        /\ UNCHANGED <<queue, delivered, replayed, phase, url, active, missed, faults>>
    BY DEF ResetArrives, tableVars, streamVars
  <1>2. /\ wire' \in Seq(Envelope \cup {Reset}) /\ Climbs(wire')
        /\ Range(wire) = {Reset} \cup Range(wire') /\ Reset \in Range(wire)
    BY <1>1, Types, HeadIs, ClimbsTail DEF Inv, FeedInv, ConnInv
  <1>3. fetches' \in Seq(Snapshot) /\ fetches' # <<>>
    <2>1. PICK asked \in Snapshot : asked = Asked
      BY DEF Asked, Snapshot
    <2>2. fetches \in Seq(Snapshot) /\ fetches' = Append(fetches, asked)
      BY <1>1, <2>1, Types
    <2> QED
      BY <2>2, AppendProperties
  <1>4. TypeOK'
    BY <1>1, <1>2, <1>3, EmptySeq, Types DEF TypeOK
  <1>5. NumberInv' /\ UnsentInv' /\ RingInv' /\ Opened'
    BY <1>1 DEF Inv, FeedInv, NumberInv, UnsentInv, RingInv, Opened, EventId
  <1>6. phase = "live"
    BY <1>1 DEF Inv, FeedInv, BrowserInv
  <1>7. BrowserInv'
    BY <1>1, <1>6, EmptyRange, Types DEF BrowserInv
  <1>8. Gap(lastId)'
    <2>1. lastId < top /\ (ring = <<>> \/ lastId < Head(ring).id)
      BY <1>2 DEF Inv, FeedInv, ConnInv, Gap, Passed
    <2>2. lastId \in Nat /\ top \in Nat
      BY Types
    <2>3. ring # <<>> => Head(ring).id > 0
      BY Types, HeadIs, EnvelopeIs
    <2>4. 0 < top
      BY <2>1, <2>2
    <2> QED
      BY <1>1, <2>3, <2>4 DEF Gap, Passed
  <1>9. ConnInv'
    <2>1. delivered \in Nat /\ delivered <= top
      BY <1>6, Types DEF Inv, FeedInv, ConnInv, TypeOK
    <2>2. ASSUME NEW e \in Range(wire') \cup Range(queue'), e # Reset
          PROVE  lastId' <= e.id /\ (e \in Range(ring') \/ Passed(e.id)')
      <3>1. e \in Range(wire) \cup Range(queue)
        BY <1>1, <1>2, <2>2
      <3>2. e \in Range(ring) \/ Passed(e.id)
        BY <2>2, <3>1 DEF Inv, FeedInv, ConnInv
      <3>3. e.id \in Nat
        BY <2>2, <3>1, FrameIs
      <3>4. lastId' <= e.id
        BY <1>1, <3>3
      <3> QED
        BY <1>1, <3>2, <3>4 DEF Passed
    <2>3. \A e \in Range(wire') : e.id <= delivered'
      BY <1>1, <1>2 DEF Inv, FeedInv, ConnInv
    <2>4. lastId' <= delivered' /\ delivered' <= top'
      BY <1>1, <2>1
    <2>5. /\ \A id \in replayed' : id <= top'
          /\ Ascends(queue')
          /\ \A e \in Range(queue') : delivered' < e.id /\ e.id <= top' /\ \A id \in replayed' : id < e.id
      BY <1>1 DEF Inv, FeedInv, ConnInv
    <2> QED
      BY <1>2, <1>8, <2>2, <2>3, <2>4, <2>5 DEF ConnInv
  <1>10. \A j, id : EndIn(wire, j, id) => EndIn(wire', j, id)
    BY <1>2, ResetIs DEF EndIn
  <1>11. PipeInv'
    <2> SUFFICES ASSUME ~missed, NEW e \in Range(wire') \cup Range(queue), e # Reset, ~e.ends,
                        db[e.inc] # "open"
                 PROVE  EndComes(e.inc, e.id)'
      BY <1>1 DEF PipeInv
    <2>1. EndComes(e.inc, e.id)
      BY <1>2 DEF Inv, FeedInv, PipeInv
    <2> QED
      BY <1>1, <1>10, <2>1 DEF EndComes
  <1>12. ShownInv'
    BY <1>3 DEF ShownInv
  <1> QED
    BY <1>4, <1>5, <1>7, <1>9, <1>11, <1>12 DEF Inv, FeedInv

\* What is behind a frame is newer, or its second copy.
LEMMA EnvelopeKeeps ==
  ASSUME Inv, EnvelopeArrives
  PROVE  Inv'
  <1>1. PICK env : env = Head(wire)
    OBVIOUS
  <1>2. /\ wire # <<>> /\ env # Reset /\ wire' = Tail(wire)
        /\ \/ env.id \in Range(dedupe) /\ active' = active /\ dedupe' = dedupe /\ lastId' = lastId
           \/ /\ env.id \notin Range(dedupe)
              /\ dedupe' = Remember(env.id)
              /\ lastId' = (IF env.id <= lastId THEN lastId ELSE env.id)
              /\ active' = ActiveAfter(env)
        /\ UNCHANGED <<db, unsent, clock, seq, ring, top>>
        /\ UNCHANGED <<queue, delivered, replayed, phase, url, fetches, missed, faults>>
    BY <1>1 DEF EnvelopeArrives, tableVars, streamVars
  <1>3. /\ wire' \in Seq(Envelope \cup {Reset}) /\ Climbs(wire')
        /\ Range(wire) = {env} \cup Range(wire') /\ env \in Range(wire)
        /\ \A e \in Range(wire') : env.id < e.id \/ e = env
    BY <1>1, <1>2, Types, HeadIs, ClimbsTail, FirstFrame DEF Inv, FeedInv, ConnInv
  <1>4. /\ env \in Envelope /\ env.id \in Nat /\ env.id > 0 /\ env.inc \in Incidents
        /\ env.ends \in BOOLEAN /\ phase = "live" /\ env.id <= top
    BY <1>2, <1>3, FrameIs, EnvelopeIs
  <1>5. Reset \notin Range(wire)
    <2>1. ~(env.id < Reset.id)
      BY <1>4, ResetIs
    <2> QED
      BY <1>2, <1>3, <2>1
  <1>6. /\ lastId <= env.id /\ env.id <= delivered /\ lastId \in Nat /\ delivered \in Nat
        /\ delivered <= top /\ top \in Nat
    BY <1>2, <1>3, <1>4, Types DEF Inv, FeedInv, ConnInv, TypeOK
  <1>7. \A id \in Range(dedupe) : id \in Nat /\ id <= lastId
    BY Types, RangeIs DEF Inv, FeedInv, BrowserInv
  <1>8. lastId' = env.id
    <2>1. CASE env.id \in Range(dedupe)
      <3>1. env.id <= lastId
        BY <1>7, <2>1
      <3>2. env.id = lastId
        BY <1>4, <1>6, <3>1
      <3> QED
        BY <1>2, <2>1, <3>2
    <2>2. CASE env.id \notin Range(dedupe)
      <3>1. env.id <= lastId => env.id = lastId
        BY <1>4, <1>6
      <3> QED
        BY <1>2, <2>2, <3>1
    <2> QED
      BY <2>1, <2>2
  <1>9. dedupe' \in Seq(Nat) /\ Range(dedupe') \subseteq Range(dedupe) \cup {env.id}
    <2>1. dedupe \in Seq(Nat)
      BY Types
    <2>2. CASE dedupe' = dedupe
      BY <2>1, <2>2
    <2>3. CASE dedupe' = Remember(env.id)
      <3>1. PICK kept \in Seq(Nat) : Range(kept) \subseteq Range(dedupe) /\ dedupe' = Append(kept, env.id)
        <4>1. CASE Len(dedupe) # DedupeCap
          BY <2>1, <2>3, <4>1 DEF Remember
        <4>2. CASE Len(dedupe) = DedupeCap
          <5>1. dedupe # <<>>
            <6>1. DedupeCap # 0
              OBVIOUS
            <6>2. Len(<<>>) = 0
              BY EmptySeq
            <6> QED
              BY <4>2, <6>1, <6>2
          <5>2. Tail(dedupe) \in Seq(Nat) /\ Range(Tail(dedupe)) \subseteq Range(dedupe)
            BY <2>1, <5>1, HeadIs
          <5> QED
            BY <2>3, <4>2, <5>2 DEF Remember
        <4> QED
          BY <4>1, <4>2
      <3>2. Append(kept, env.id) \in Seq(Nat) /\ Range(Append(kept, env.id)) = Range(kept) \cup {env.id}
        BY <1>4, AppendIs
      <3> QED
        BY <3>1, <3>2
    <2> QED
      BY <1>2, <2>2, <2>3
  <1>10. active' \in Incidents \cup {None}
    <2>1. active \in Incidents \cup {None}
      BY Types DEF TypeOK
    <2> QED
      BY <1>2, <1>4, <2>1 DEF ActiveAfter
  <1>11. TypeOK'
    BY <1>2, <1>3, <1>4, <1>8, <1>9, <1>10, Types DEF TypeOK
  <1>12. NumberInv' /\ UnsentInv' /\ RingInv' /\ Opened'
    BY <1>2 DEF Inv, FeedInv, NumberInv, UnsentInv, RingInv, Opened, EventId
  <1>13. BrowserInv'
    <2>1. \A id \in Range(dedupe') : id <= lastId'
      <3>1. \A id \in Range(dedupe) : id <= env.id
        BY <1>4, <1>6, <1>7
      <3> QED
        BY <1>4, <1>8, <1>9, <3>1
    <2> QED
      BY <1>2, <1>4, <1>8, <2>1 DEF BrowserInv
  <1>14. \A e \in Range(wire') \cup Range(queue) : e.id \in Nat /\ env.id <= e.id /\ e # Reset
    <2>1. ASSUME NEW e \in Range(wire') PROVE e.id \in Nat /\ env.id <= e.id /\ e # Reset
      <3>1. e \in Range(wire) /\ e # Reset
        BY <1>3, <1>5
      <3>2. e.id \in Nat
        BY <3>1, FrameIs
      <3>3. env.id < e.id \/ e = env
        BY <1>3
      <3> QED
        BY <1>4, <3>1, <3>2, <3>3
    <2>2. ASSUME NEW e \in Range(queue) PROVE e.id \in Nat /\ env.id <= e.id /\ e # Reset
      <3>1. e.id \in Nat /\ e # Reset
        BY Types, RangeIs, EnvelopeIs
      <3>2. delivered < e.id
        BY DEF Inv, FeedInv, ConnInv
      <3> QED
        BY <1>4, <1>6, <3>1, <3>2
    <2> QED
      BY <2>1, <2>2
  <1>15. ConnInv'
    <2>1. \A e \in Range(wire') : e.id <= delivered'
      BY <1>2, <1>3 DEF Inv, FeedInv, ConnInv
    <2>2. \A e \in Range(wire') \cup Range(queue') :
            e # Reset => lastId' <= e.id /\ (e \in Range(ring') \/ Passed(e.id)')
      <3>1. \A e \in Range(wire') \cup Range(queue) : e \in Range(ring) \/ Passed(e.id)
        BY <1>3, <1>14 DEF Inv, FeedInv, ConnInv
      <3> QED
        BY <1>2, <1>8, <1>14, <3>1 DEF Passed
    <2>3. Reset \notin Range(wire')
      BY <1>3, <1>5
    <2>4. lastId' <= delivered' /\ delivered' <= top'
      BY <1>2, <1>6, <1>8
    <2>5. /\ \A id \in replayed' : id <= top'
          /\ Ascends(queue')
          /\ \A e \in Range(queue') : delivered' < e.id /\ e.id <= top' /\ \A id \in replayed' : id < e.id
      BY <1>2 DEF Inv, FeedInv, ConnInv
    <2> QED
      BY <1>3, <2>1, <2>2, <2>3, <2>4, <2>5 DEF ConnInv
  <1>16. ASSUME NEW j, NEW id \in Nat, env.id <= id, EndComes(j, id)
         PROVE  EndComes(j, id)'
    <2>1. EndIn(wire, j, id) => EndIn(wire', j, id)
      <3> SUFFICES ASSUME NEW f \in Range(wire), f.inc = j, f.ends, f.id > id
                   PROVE  f \in Range(wire')
        BY DEF EndIn
      <3>1. f # env
        BY <1>4, <1>16
      <3> QED
        BY <1>3, <3>1
    <2> QED
      BY <1>2, <1>16, <2>1 DEF EndComes
  <1>17. PipeInv'
    <2> SUFFICES ASSUME ~missed, NEW e \in Range(wire') \cup Range(queue), e # Reset, ~e.ends,
                        db[e.inc] # "open"
                 PROVE  EndComes(e.inc, e.id)'
      BY <1>2 DEF PipeInv
    <2>1. EndComes(e.inc, e.id)
      BY <1>3 DEF Inv, FeedInv, PipeInv
    <2>2. PICK j : j = e.inc
      OBVIOUS
    <2>3. PICK id \in Nat : id = e.id /\ env.id <= id
      BY <1>14
    <2>4. EndComes(j, id)'
      BY <1>16, <2>1, <2>2, <2>3
    <2> QED
      BY <2>2, <2>3, <2>4
  <1>18. ShownInv'
    <2>1. PICK j : j = active'
      OBVIOUS
    <2>2. PICK id \in Nat : id = env.id
      BY <1>4
    <2> SUFFICES ASSUME ~missed, active' # None, db[active'] # "open", fetches = <<>>
                 PROVE  EndComes(j, id)'
      BY <1>2, <1>8, <2>1, <2>2 DEF ShownInv, EndComes
    <2>5. active' = active => EndComes(active, lastId)
      BY <1>4, <1>5 DEF Inv, FeedInv, ShownInv
    <2>3. EndComes(j, id)
      <3>1. CASE lastId = env.id /\ active' = active
        BY <2>1, <2>2, <2>5, <3>1
      <3>2. CASE ~env.ends /\ active' = env.inc
        BY <1>2, <1>3, <2>1, <2>2, <3>2 DEF Inv, FeedInv, PipeInv
      <3>3. CASE env.ends /\ active' = active /\ active # env.inc
        <4>1. ASSUME NEW f \in Range(wire) \cup Range(queue), f.inc = active, f.ends
              PROVE  f.id > env.id
          <5>1. CASE f \in Range(wire)
            <6>1. f # env /\ f \in Range(wire')
              BY <1>3, <3>3, <4>1, <5>1
            <6>2. env.id < f.id /\ f.id \in Nat
              BY <1>3, <1>14, <6>1
            <6> QED
              BY <1>4, <6>2
          <5>2. CASE f \in Range(queue)
            <6>1. delivered < f.id /\ f.id \in Nat
              BY <1>14, <5>2 DEF Inv, FeedInv, ConnInv
            <6> QED
              BY <1>4, <1>6, <6>1
          <5> QED
            BY <4>1, <5>1, <5>2
        <4>2. EndComes(active, lastId)
          BY <2>5, <3>3
        <4> QED
          BY <2>1, <2>2, <3>3, <4>1, <4>2 DEF EndComes, EndIn
      <3>4. \/ lastId = env.id /\ active' = active
            \/ ~env.ends /\ active' = env.inc
            \/ env.ends /\ active' = active /\ active # env.inc
        <4>1. CASE env.id \in Range(dedupe)
          BY <1>2, <1>8, <4>1
        <4>2. CASE env.id \notin Range(dedupe)
          <5>1. active' = ActiveAfter(env)
            BY <1>2, <4>2
          <5> QED
            BY <1>4, <5>1 DEF ActiveAfter
        <4> QED
          BY <4>1, <4>2
      <3> QED
        BY <3>1, <3>2, <3>3, <3>4
    <2>4. EndComes(j, id)'
      <3>1. env.id <= id
        BY <1>4, <2>2
      <3> QED
        BY <1>16, <2>3, <3>1
    <2> QED
      BY <2>4
  <1> QED
    BY <1>11, <1>12, <1>13, <1>15, <1>17, <1>18 DEF Inv, FeedInv

-------------------------------------------------------------------------------
(* Connections end and begin, the backend restarts.                        *)

LEMMA ReconnectKeeps ==
  ASSUME Inv, Reconnect
  PROVE  Inv'
  <1>1. /\ phase = "backoff" /\ phase' = "connecting" /\ url' = lastId
        /\ UNCHANGED <<db, unsent, clock, seq, ring, top>>
        /\ UNCHANGED <<queue, delivered, replayed, wire>>
        /\ UNCHANGED <<active, dedupe, lastId, fetches, missed, faults>>
    BY DEF Reconnect, tableVars, streamVars, viewVars
  <1>2. TypeOK'
    BY <1>1, Types DEF TypeOK
  <1>3. NumberInv' /\ UnsentInv' /\ RingInv' /\ Opened'
    BY <1>1 DEF Inv, FeedInv, NumberInv, UnsentInv, RingInv, Opened, EventId
  <1>4. \A id : (Passed(id)' <=> Passed(id)) /\ (Gap(id)' <=> Gap(id))
    BY <1>1, SameRing
  <1>5. BrowserInv'
    BY <1>1 DEF Inv, FeedInv, BrowserInv
  <1>6. ConnInv'
    BY <1>1, <1>4 DEF Inv, FeedInv, ConnInv
  <1>7. PipeInv'
    BY <1>1 DEF Inv, FeedInv, PipeInv, EndComes
  <1>8. ShownInv'
    BY <1>1, <1>4 DEF Inv, FeedInv, ShownInv, EndComes
  <1> QED
    BY <1>2, <1>3, <1>5, <1>6, <1>7, <1>8 DEF Inv, FeedInv

\* What was on its way to the browser is in the ring or leaves a gap.
LEMMA DisconnectKeeps ==
  ASSUME Inv, Disconnected, Onward, top' = top, UNCHANGED <<db, active, dedupe, lastId>>,
         TypeOK', NumberInv', UnsentInv', RingInv',
         fetches' = <<>> => fetches = <<>>,
         ~missed' => ~missed /\ unsent' = unsent
  PROVE  Inv'
  <1>1. /\ phase' \in {"hydrating", "backoff"}
        /\ queue' = <<>> /\ wire' = <<>> /\ replayed' = {}
        /\ Range(queue') = {} /\ Range(wire') = {}
    BY EmptyRange DEF Disconnected
  <1>2. BrowserInv'
    BY <1>1 DEF Inv, FeedInv, BrowserInv
  <1>3. ConnInv'
    BY <1>1 DEF ConnInv, Ascends, Climbs
  <1>4. PipeInv'
    BY <1>1 DEF PipeInv
  <1>5. ShownInv'
    <2>1. PICK j : j = active
      OBVIOUS
    <2>2. PICK id \in Nat : id = lastId
      BY Types
    <2> SUFFICES ASSUME ~missed', active # None, db[active] # "open", fetches' = <<>>
                 PROVE  EndComes(j, id)' \/ Gap(id)' \/ EndIn(ring', j, id)
      BY <1>1, <2>1, <2>2 DEF ShownInv, EndComes, Gap, Passed
    <2>3. ~missed /\ unsent' = unsent /\ fetches = <<>>
      OBVIOUS
    <2>4. \/ Reset \in Range(wire) \/ EndComes(j, id)
          \/ Gap(id) \/ EndIn(ring, j, id)
      BY <2>1, <2>2, <2>3 DEF Inv, FeedInv, ShownInv
    <2>5. Reset \in Range(wire) => Gap(id)
      BY <2>2 DEF Inv, FeedInv, ConnInv
    <2>6. Gap(id) => Gap(id)'
      BY OnwardIs
    <2>7. EndIn(ring, j, id) => EndIn(ring', j, id) \/ Gap(id)'
      BY OnwardIs
    <2>8. "end" \in unsent[j] => EndComes(j, id)'
      BY <2>3 DEF EndComes
    <2>9. ASSUME NEW f \in Range(wire) \cup Range(queue), f.inc = j, f.ends, f.id > id
          PROVE  EndIn(ring', j, id) \/ Gap(id)'
      <3>1. f # Reset
        BY <2>9, ResetIs
      <3>2. f \in Envelope /\ f.id \in Nat /\ f.id <= top
        BY <3>1, FrameIs
      <3>3. f \in Range(ring) \/ Passed(f.id)
        BY <3>1 DEF Inv, FeedInv, ConnInv
      <3>4. f \in Range(ring') \/ Passed(f.id)'
        BY <3>2, <3>3, OnwardIs
      <3>5. CASE f \in Range(ring')
        BY <2>9, <3>5 DEF EndIn
      <3>6. CASE Passed(f.id)'
        <4>1. ring' = <<>> \/ f.id < Head(ring').id
          BY <3>6 DEF Passed
        <4>2. ring' # <<>> => Head(ring').id \in Nat
          BY HeadIs, EnvelopeIs DEF Onward
        <4>3. ring' = <<>> \/ id < Head(ring').id
          BY <2>9, <3>2, <4>1, <4>2
        <4>4. id < top'
          <5>1. top \in Nat
            BY Types
          <5> QED
            BY <2>9, <3>2, <5>1
        <4> QED
          BY <4>3, <4>4 DEF Gap, Passed
      <3> QED
        BY <3>4, <3>5, <3>6
    <2>10. EndComes(j, id) =>
             "end" \in unsent[j] \/ \E f \in Range(wire) \cup Range(queue) : f.inc = j /\ f.ends /\ f.id > id
      BY DEF EndComes, EndIn
    <2> QED
      BY <2>4, <2>5, <2>6, <2>7, <2>8, <2>9, <2>10
  <1>6. Opened'
    BY DEF Inv, Opened
  <1> QED
    BY <1>2, <1>3, <1>4, <1>5, <1>6 DEF Inv, FeedInv

\* The types of what a lost connection leaves.
LEMMA DisconnectTypes ==
  ASSUME Inv, Disconnected
  PROVE  /\ phase' \in {"hydrating", "connecting", "live", "backoff"}
         /\ queue' \in Seq(Envelope) /\ wire' \in Seq(Envelope \cup {Reset})
         /\ replayed' \subseteq Nat /\ delivered' \in Nat /\ url' \in Nat
  BY EmptySeq, Types DEF Disconnected, TypeOK

LEMMA LostKeeps ==
  ASSUME Inv, ConnectionLost
  PROVE  Inv'
  <1>1. /\ Disconnected /\ faults' = faults + 1
        /\ UNCHANGED <<db, unsent, clock, seq, ring, top, active, dedupe, lastId, fetches, missed>>
    BY DEF ConnectionLost, tableVars, streamVars, viewVars
  <1>2. faults \in Nat
    BY Types DEF TypeOK
  <1>3. faults' \in Nat
    BY <1>1, <1>2
  <1>4. TypeOK'
    BY <1>1, <1>3, DisconnectTypes, Types DEF TypeOK
  <1>5. NumberInv' /\ UnsentInv' /\ RingInv'
    BY <1>1 DEF Inv, FeedInv, NumberInv, UnsentInv, RingInv, EventId
  <1>6. Onward
    BY <1>1, SameRing
  <1> QED
    BY <1>1, <1>4, <1>5, <1>6, DisconnectKeeps

\* The restarted backend has an empty ring: whatever the browser lacks is a gap.
LEMMA RestartKeeps ==
  ASSUME Inv, BackendRestarts
  PROVE  Inv'
  <1>1. /\ Disconnected /\ faults' = faults + 1
        /\ clock' = clock + 1 /\ seq' = 0 /\ ring' = <<>>
        /\ unsent' = [i \in Incidents |-> {}]
        /\ missed' = (missed \/ \E i \in Incidents : unsent[i] # {})
        /\ fetches' = [n \in DOMAIN fetches |->
                         IF fetches[n] = Asked THEN [at |-> "failed", open |-> None] ELSE fetches[n]]
        /\ UNCHANGED <<db, top, active, dedupe, lastId>>
    BY DEF BackendRestarts
  <1>2. faults \in Nat /\ clock \in Nat /\ missed \in BOOLEAN
        /\ unsent \in [Incidents -> SUBSET {"open", "end"}]
    BY Types DEF TypeOK
  <1>3. faults' \in Nat /\ clock' \in Nat /\ missed' \in BOOLEAN
    BY <1>1, <1>2
  <1>4. fetches' \in Seq(Snapshot) /\ (fetches' = <<>> => fetches = <<>>)
    <2>1. fetches \in Seq(Snapshot)
      BY Types
    <2>2. PICK l \in Nat : l = Len(fetches) /\ DOMAIN fetches = 1 .. l
      BY <2>1, LenProperties
    <2>3. [at |-> "failed", open |-> None] \in Snapshot
      BY DEF Snapshot
    <2>4. \A n \in 1 .. l : fetches[n] \in Snapshot
      BY <2>1, <2>2, ElementOfSeq
    <2>5. fetches' \in [1 .. l -> Snapshot]
      BY <1>1, <2>2, <2>3, <2>4
    <2>6. fetches' \in Seq(Snapshot) /\ Len(fetches') = l
      BY <2>5
    <2>7. fetches' = <<>> => l = 0
      BY <2>6, EmptySeq
    <2>8. l = 0 => fetches = <<>>
      BY <2>1, <2>2, EmptySeq
    <2> QED
      BY <2>6, <2>7, <2>8
  <1>5. seq' \in 0 .. SeqWrap - 1
    <2>1. SeqWrap \in Nat /\ SeqWrap # 0
      OBVIOUS
    <2> QED
      BY <1>1, <2>1
  <1>6. TypeOK'
    <2>1. ring' \in Seq(Envelope) /\ unsent' \in [Incidents -> SUBSET {"open", "end"}]
      BY <1>1, EmptySeq
    <2> QED
      BY <1>1, <1>3, <1>4, <1>5, <2>1, DisconnectTypes, Types DEF TypeOK
  <1>7. NumberInv'
    <2>1. top <= EventId(clock, seq) /\ seq \in 0 .. SeqWrap - 1 /\ top \in Nat
      BY Types DEF Inv, FeedInv, NumberInv
    <2>2. EventId(clock, seq) \in Nat /\ EventId(clock, seq) < EventId(clock + 1, 0)
      BY <1>2, <2>1, ClockIs
    <2>3. EventId(clock + 1, 0) \in Nat
      <3>1. clock + 1 \in Nat /\ 0 \in 0 .. SeqWrap - 1
        BY <1>1, <1>3, <1>5
      <3> QED
        BY <3>1, ClockIs
    <2>4. top <= EventId(clock + 1, 0)
      BY <2>1, <2>2, <2>3
    <2> QED
      BY <1>1, <2>4 DEF NumberInv
  <1>8. UnsentInv'
    BY <1>1 DEF UnsentInv
  <1>9. RingInv'
    BY <1>1, EmptyRange DEF RingInv, Ascends
  <1>10. Onward
    <2>1. top \in Nat /\ top <= top
      BY Types
    <2> QED
      BY <1>1, <2>1, EmptySeq DEF Onward, Passed, Ascends
  <1>11. ~missed' => ~missed /\ unsent' = unsent
    <2>1. ASSUME ~missed' PROVE unsent' = unsent
      <3>1. \A i \in Incidents : unsent[i] = {}
        BY <1>1, <2>1
      <3> QED
        BY <1>1, <1>2, <3>1
    <2> QED
      BY <1>1, <2>1
  <1> QED
    BY <1>1, <1>4, <1>6, <1>7, <1>8, <1>9, <1>10, <1>11, DisconnectKeeps

-------------------------------------------------------------------------------
(* Theorems.                                                               *)

LEMMA InitInv == Init => Inv
  <1> SUFFICES ASSUME Init PROVE Inv
    OBVIOUS
  <1>1. /\ db = [i \in Incidents |-> "absent"] /\ unsent = [i \in Incidents |-> {}]
        /\ clock = 0 /\ seq = 0 /\ ring = <<>> /\ top = 0
        /\ queue = <<>> /\ delivered = 0 /\ replayed = {} /\ wire = <<>>
        /\ phase = "hydrating" /\ url = 0
        /\ active = None /\ dedupe = <<>> /\ lastId = 0 /\ fetches = <<Asked>>
        /\ missed = FALSE /\ faults = 0
    BY DEF Init
  <1>2. seq \in 0 .. SeqWrap - 1
    <2>1. SeqWrap \in Nat /\ SeqWrap # 0
      OBVIOUS
    <2> QED
      BY <1>1, <2>1
  <1>3. fetches \in Seq(Snapshot)
    <2>1. PICK asked \in Snapshot : asked = Asked
      BY DEF Asked, Snapshot
    <2>2. <<asked>> \in Seq(Snapshot)
      BY <2>1
    <2> QED
      BY <1>1, <2>1, <2>2
  <1>4. TypeOK
    BY <1>1, <1>2, <1>3, EmptySeq DEF TypeOK
  <1>5. NumberInv
    <2>1. EventId(0, 0) = 0 * SeqWrap + 0 /\ SeqWrap \in Nat
      BY DEF EventId
    <2>2. EventId(0, 0) \in Nat
      BY <2>1
    <2> QED
      BY <1>1, <2>2 DEF NumberInv
  <1>6. UnsentInv /\ RingInv
    BY <1>1, EmptyRange DEF UnsentInv, RingInv, Ascends
  <1>7. BrowserInv
    BY <1>1, EmptyRange DEF BrowserInv
  <1>8. ConnInv
    BY <1>1, EmptyRange DEF ConnInv, Ascends, Climbs
  <1>9. PipeInv /\ ShownInv
    BY <1>1, EmptyRange DEF PipeInv, ShownInv
  <1>10. Opened
    BY <1>1 DEF Opened
  <1> QED
    BY <1>4, <1>5, <1>6, <1>7, <1>8, <1>9, <1>10 DEF Inv, FeedInv

\* A step without a change of state leaves the invariant alone.
LEMMA StutterKeeps ==
  ASSUME Inv, UNCHANGED vars
  PROVE  Inv'
  <1>1. /\ UNCHANGED <<db, unsent, clock, seq, ring, top>>
        /\ UNCHANGED <<queue, delivered, replayed, wire, phase, url>>
        /\ UNCHANGED <<active, dedupe, lastId, fetches, missed, faults>>
    BY DEF vars, tableVars, streamVars, connVars, viewVars
  <1>2. TypeOK'
    BY <1>1, Types DEF TypeOK
  <1>3. NumberInv' /\ UnsentInv' /\ RingInv' /\ Opened'
    BY <1>1 DEF Inv, FeedInv, NumberInv, UnsentInv, RingInv, Opened, EventId
  <1>4. BrowserInv' /\ ConnInv'
    BY <1>1, ConnSame DEF connVars
  <1>5. PipeInv'
    BY <1>1 DEF Inv, FeedInv, PipeInv, EndComes
  <1>6. ShownInv'
    BY <1>1 DEF Inv, FeedInv, ShownInv, EndComes, Gap, Passed
  <1> QED
    BY <1>2, <1>3, <1>4, <1>5, <1>6 DEF Inv, FeedInv

LEMMA NextKeeps ==
  Inv /\ [Next]_vars /\ [PublisherResumes /\ seq + 1 = SeqWrap => top < EventId(clock, 0)]_vars
    => Inv'
  <1> SUFFICES ASSUME Inv, [Next]_vars,
                      [PublisherResumes /\ seq + 1 = SeqWrap => top < EventId(clock, 0)]_vars
               PROVE  Inv'
    OBVIOUS
  <1>1. CASE UNCHANGED vars
    BY <1>1, StutterKeeps
  <1>2. CASE PublisherResumes /\ ~UNCHANGED vars
    BY <1>2, PublisherKeeps
  <1>3. CASE IncidentOpens \/ IncidentUpdates \/ IncidentEnds
    BY <1>3, IncidentsKeep
  <1>4. CASE ClockTicks
    BY <1>4, ClockKeeps
  <1>5. CASE ServerAccepts
    BY <1>5, AcceptKeeps
  <1>6. CASE ServerSends
    BY <1>6, SendKeeps
  <1>7. CASE RestAnswers \/ RestFails
    BY <1>7, AnswerKeeps
  <1>8. CASE SnapshotLands
    BY <1>8, SnapshotKeeps
  <1>9. CASE ResetArrives
    BY <1>9, ResetKeeps
  <1>10. CASE EnvelopeArrives
    BY <1>10, EnvelopeKeeps
  <1>11. CASE Reconnect
    BY <1>11, ReconnectKeeps
  <1>12. CASE ConnectionLost
    BY <1>12, LostKeeps
  <1>13. CASE BackendRestarts
    BY <1>13, RestartKeeps
  <1> QED
    BY <1>1, <1>2, <1>3, <1>4, <1>5, <1>6, <1>7, <1>8, <1>9, <1>10, <1>11, <1>12, <1>13 DEF Next

\* As long as the counter of event ids does not start again within a millisecond,
\* the invariant holds over every order of commits, publications, frames, lost
\* connections, snapshots and restarts.
THEOREM FeedInvariant == Spec /\ WrapsBetweenEvents => []FeedInv
  <1>1. Inv => FeedInv
    BY DEF Inv
  <1> QED
    BY <1>1, InitInv, NextKeeps, PTL DEF Spec, WrapsBetweenEvents

\* The state of the stream, the connection and the browser keeps its types.
THEOREM FeedTypes == Spec /\ WrapsBetweenEvents => []TypeOK
  <1>1. FeedInv => TypeOK
    BY DEF FeedInv
  <1> QED
    BY <1>1, FeedInvariant, PTL

\* publish calls event ids monotonic by construction.  They are, for as long as the
\* counter does not start again within a millisecond: what the ring holds ascends,
\* through pruning, eviction and a restart of the backend.
THEOREM IdsAlwaysAscend == Spec /\ WrapsBetweenEvents => []IdsAscend
  <1>1. FeedInv => IdsAscend
    <2> SUFFICES ASSUME FeedInv, NEW n \in 1 .. Len(ring) - 1 PROVE ring[n].id < ring[n + 1].id
      BY DEF IdsAscend
    <2>1. Ascends(ring) /\ ring \in Seq(Envelope)
      BY DEF FeedInv, RingInv, TypeOK
    <2>2. Len(ring) \in Nat /\ DOMAIN ring = 1 .. Len(ring)
      BY <2>1, LenProperties
    <2>3. n \in DOMAIN ring /\ n + 1 \in DOMAIN ring /\ n < n + 1
      BY <2>2
    <2> QED
      BY <2>1, <2>3 DEF Ascends
  <1> QED
    BY <1>1, FeedInvariant, PTL

\* The end of an incident reaches the browser that shows it, over lost connections,
\* replays, resets and restarts: when everything has arrived, no ended incident is
\* active, unless an envelope was dropped or an old snapshot was shown.
THEOREM EndIsTakenDown == Spec /\ WrapsBetweenEvents => []EndedIsTakenDown
  <1>1. FeedInv => EndedIsTakenDown
    <2> SUFFICES ASSUME FeedInv, Quiet, ~missed, active # None, db[active] # "open" PROVE FALSE
      BY DEF EndedIsTakenDown
    <2>1. /\ phase = "live" /\ Range(queue) = {} /\ Range(wire) = {} /\ fetches = <<>>
          /\ \A i \in Incidents : unsent[i] = {}
      BY EmptyRange DEF Quiet
    <2>2. active \in Incidents
      BY DEF FeedInv, TypeOK
    <2>3. EndComes(active, lastId)
      BY <2>1 DEF FeedInv, ShownInv
    <2> QED
      BY <2>1, <2>2, <2>3 DEF EndComes, EndIn
  <1> QED
    BY <1>1, FeedInvariant, PTL

===============================================================================
