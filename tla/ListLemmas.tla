----------------------------- MODULE ListLemmas -----------------------------
(***************************************************************************)
(* Facts about the sequence operators that model Python's lists: remove(), *)
(* pop(index) and append() are RemoveFirst, RemoveAt and Append.           *)
(***************************************************************************)
EXTENDS Integers, SequencesExt, SequenceTheorems, WellFoundedInduction, TLAPS

\* RemoveAt drops one element and keeps the order of the others.
LEMMA RemoveAtProperties ==
    ASSUME NEW S, NEW s \in Seq(S), NEW i \in 1..Len(s)
    PROVE  /\ RemoveAt(s, i) \in Seq(S)
           /\ Len(RemoveAt(s, i)) = Len(s) - 1
           /\ \A j \in 1..(Len(s) - 1) :
                 RemoveAt(s, i)[j] = IF j < i THEN s[j] ELSE s[j + 1]
<1>1. Len(s) \in Nat /\ i \in Nat /\ i >= 1 /\ i <= Len(s)
  BY LenProperties
<1>2. \A j \in 1..Len(s) : s[j] \in S
  BY ElementOfSeq
<1> DEFINE front == SubSeq(s, 1, i - 1)
           back == SubSeq(s, i + 1, Len(s))
<1>3. /\ front \in Seq(S) /\ Len(front) = i - 1
      /\ \A j \in 1..(i - 1) : front[j] = s[j]
  <2>1. \A j \in 1..(i - 1) : s[j] \in S
    BY <1>1, <1>2
  <2>2. 1 \in Int /\ i - 1 \in Int
    BY <1>1
  <2>3. /\ front \in Seq(S)
        /\ Len(front) = IF 1 <= i - 1 THEN i - 1 - 1 + 1 ELSE 0
        /\ \A j \in 1..(i - 1 - 1 + 1) : front[j] = s[1 + j - 1]
    BY <2>1, <2>2, SubSeqProperties
  <2> QED BY <2>3, <1>1
<1>4. /\ back \in Seq(S) /\ Len(back) = Len(s) - i
      /\ \A j \in 1..(Len(s) - i) : back[j] = s[i + j]
  <2>1. \A j \in (i + 1)..Len(s) : s[j] \in S
    BY <1>1, <1>2
  <2>2. i + 1 \in Int /\ Len(s) \in Int
    BY <1>1
  <2>3. /\ back \in Seq(S)
        /\ Len(back) = IF i + 1 <= Len(s) THEN Len(s) - (i + 1) + 1 ELSE 0
        /\ \A j \in 1..(Len(s) - (i + 1) + 1) : back[j] = s[i + 1 + j - 1]
    BY <2>1, <2>2, SubSeqProperties
  <2> QED BY <2>3, <1>1
<1>5. /\ front \o back \in Seq(S)
      /\ Len(front \o back) = Len(front) + Len(back)
      /\ \A j \in 1..(Len(front) + Len(back)) :
            (front \o back)[j] = IF j <= Len(front) THEN front[j] ELSE back[j - Len(front)]
  BY <1>3, <1>4, ConcatProperties
<1>6. RemoveAt(s, i) = front \o back
  BY DEF RemoveAt
<1> HIDE DEF front, back
<1>7. ASSUME NEW j \in 1..(Len(s) - 1)
      PROVE  (front \o back)[j] = IF j < i THEN s[j] ELSE s[j + 1]
  <2>1. CASE j < i
    <3>1. j \in 1..(i - 1) /\ j <= Len(front) /\ j \in 1..(Len(front) + Len(back))
      BY <2>1, <1>1, <1>3, <1>4
    <3>2. (front \o back)[j] = front[j]
      BY <3>1, <1>5
    <3> QED BY <3>1, <3>2, <2>1, <1>3
  <2>2. CASE ~(j < i)
    <3>1. j - (i - 1) \in 1..(Len(s) - i) /\ ~(j <= Len(front))
          /\ j \in 1..(Len(front) + Len(back)) /\ i + (j - (i - 1)) = j + 1
      BY <2>2, <1>1, <1>3, <1>4
    <3>2. (front \o back)[j] = back[j - (i - 1)]
      BY <3>1, <1>3, <1>5
    <3> QED BY <3>1, <3>2, <2>2, <1>4
  <2> QED BY <2>1, <2>2
<1>8. Len(front) + Len(back) = Len(s) - 1
  BY <1>1, <1>3, <1>4
<1> QED BY <1>5, <1>6, <1>7, <1>8

\* RemoveFirst drops the first occurrence, if there is one.
LEMMA RemoveFirstCases ==
    ASSUME NEW S, NEW s \in Seq(S), NEW e
    PROVE  \/ RemoveFirst(s, e) = s /\ \A i \in 1..Len(s) : s[i] # e
           \/ \E i \in 1..Len(s) : s[i] = e /\ RemoveFirst(s, e) = RemoveAt(s, i)
<1>1. CASE ~ \E i \in 1..Len(s) : s[i] = e
  BY <1>1 DEF RemoveFirst
<1>2. CASE \E i \in 1..Len(s) : s[i] = e
  <2> DEFINE I == {i \in 1..Len(s) : s[i] = e}
             k == CHOOSE x \in I : \A y \in I : x <= y
  <2>1. RemoveFirst(s, e) = RemoveAt(s, Min(I))
    BY <1>2 DEF RemoveFirst, SelectInSeq
  <2>2. \E x \in I : \A y \in I : x <= y
    <3>1. Len(s) \in Nat
      BY LenProperties
    <3>2. I \subseteq Nat /\ I # {}
      BY <1>2, <3>1
    <3> HIDE DEF I
    <3>3. \A x, y \in Nat : y < x => <<y, x>> \in OpToRel(<, Nat)
      BY ZenonT(20) DEF OpToRel
    <3>4. PICK x \in I : \A y \in I : <<y, x>> \notin OpToRel(<, Nat)
      BY <3>2, NatLessThanWellFounded, WFMin, Zenon
    <3>5. \A y \in I : ~(y < x)
      BY <3>2, <3>3, <3>4, Zenon
    <3> QED BY <3>2, <3>5
  <2>3. Min(I) \in I
    BY <2>2 DEF Min
  <2> QED BY <2>1, <2>3
<1> QED BY <1>1, <1>2

\* What pop(index) leaves in a list, and in a list without duplicates.
LEMMA RemoveAtRange ==
    ASSUME NEW S, NEW s \in Seq(S), NEW i \in 1..Len(s)
    PROVE  /\ Range(RemoveAt(s, i)) \subseteq Range(s)
           /\ \A x \in Range(s) : x # s[i] => x \in Range(RemoveAt(s, i))
           /\ IsInjective(s) =>
                 IsInjective(RemoveAt(s, i)) /\ s[i] \notin Range(RemoveAt(s, i))
<1> DEFINE t == RemoveAt(s, i)
<1>1. /\ t \in Seq(S) /\ Len(t) = Len(s) - 1
      /\ \A j \in 1..(Len(s) - 1) : t[j] = IF j < i THEN s[j] ELSE s[j + 1]
  BY RemoveAtProperties
<1>2. /\ Len(s) \in Nat /\ DOMAIN s = 1..Len(s) /\ DOMAIN t = 1..(Len(s) - 1)
      /\ i \in Nat /\ 1 <= i /\ i <= Len(s)
  BY <1>1, LenProperties
<1> HIDE DEF t
<1> DEFINE at(j) == IF j < i THEN j ELSE j + 1
<1>3. \A j \in DOMAIN t : at(j) \in DOMAIN s /\ t[j] = s[at(j)] /\ at(j) # i
  BY <1>1, <1>2
<1>4. \A k \in DOMAIN s : k # i => \E j \in DOMAIN t : at(j) = k
  <2> SUFFICES ASSUME NEW k \in DOMAIN s, k # i
               PROVE  \E j \in DOMAIN t : at(j) = k
    OBVIOUS
  <2> DEFINE w == IF k < i THEN k ELSE k - 1
  <2>1. w \in DOMAIN t /\ at(w) = k
    BY <1>2
  <2> QED BY <2>1
<1>5. \A j1, j2 \in DOMAIN t : at(j1) = at(j2) => j1 = j2
  BY <1>2
<1> HIDE DEF at
<1>6. Range(t) \subseteq Range(s)
  BY <1>3 DEF Range
<1>7. \A x \in Range(s) : x # s[i] => x \in Range(t)
  <2> SUFFICES ASSUME NEW k \in DOMAIN s, s[k] # s[i]
               PROVE  s[k] \in Range(t)
    BY DEF Range
  <2>1. PICK j \in DOMAIN t : at(j) = k
    BY <1>4
  <2> QED BY <2>1, <1>3 DEF Range
<1>8. ASSUME IsInjective(s)
      PROVE  IsInjective(t) /\ s[i] \notin Range(t)
  <2>1. \A j \in DOMAIN t : t[j] # s[i]
    BY <1>2, <1>3, <1>8 DEF IsInjective
  <2>2. \A j1, j2 \in DOMAIN t : t[j1] = t[j2] => j1 = j2
    BY <1>3, <1>5, <1>8 DEF IsInjective
  <2> QED BY <2>1, <2>2 DEF IsInjective, Range
<1> QED BY <1>6, <1>7, <1>8 DEF t

\* What remove(e), ValueError suppressed, leaves in a list.
LEMMA RemoveFirstProperties ==
    ASSUME NEW S, NEW s \in Seq(S), NEW e
    PROVE  /\ RemoveFirst(s, e) \in Seq(S)
           /\ Range(RemoveFirst(s, e)) \subseteq Range(s)
           /\ \A x \in Range(s) : x # e => x \in Range(RemoveFirst(s, e))
           /\ IsInjective(s) =>
                 IsInjective(RemoveFirst(s, e)) /\ e \notin Range(RemoveFirst(s, e))
<1>1. CASE RemoveFirst(s, e) = s /\ \A i \in 1..Len(s) : s[i] # e
  <2>1. e \notin Range(s)
    BY <1>1, LenProperties DEF Range
  <2> QED BY <1>1, <2>1
<1>2. CASE \E i \in 1..Len(s) : s[i] = e /\ RemoveFirst(s, e) = RemoveAt(s, i)
  <2>1. PICK i \in 1..Len(s) : s[i] = e /\ RemoveFirst(s, e) = RemoveAt(s, i)
    BY <1>2
  <2>2. RemoveAt(s, i) \in Seq(S)
    BY RemoveAtProperties
  <2> QED BY <2>1, <2>2, RemoveAtRange
<1> QED BY <1>1, <1>2, RemoveFirstCases

\* What append(e) adds.
LEMMA AppendRange ==
    ASSUME NEW S, NEW s \in Seq(S), NEW e \in S
    PROVE  /\ Append(s, e) \in Seq(S)
           /\ Range(Append(s, e)) = Range(s) \cup {e}
           /\ IsInjective(s) /\ e \notin Range(s) => IsInjective(Append(s, e))
<1> DEFINE t == Append(s, e)
<1>1. /\ t \in Seq(S) /\ Len(t) = Len(s) + 1
      /\ \A i \in 1..Len(s) : t[i] = s[i]
      /\ t[Len(s) + 1] = e
  BY AppendProperties
<1>2. /\ Len(s) \in Nat /\ DOMAIN s = 1..Len(s) /\ DOMAIN t = 1..(Len(s) + 1)
  BY <1>1, LenProperties
<1> HIDE DEF t
<1>3. /\ DOMAIN t = DOMAIN s \cup {Len(s) + 1} /\ Len(s) + 1 \notin DOMAIN s
      /\ \A i \in DOMAIN s : t[i] = s[i]
  BY <1>1, <1>2
<1>4. Range(t) = Range(s) \cup {e}
  BY <1>1, <1>3 DEF Range
<1>5. ASSUME IsInjective(s), e \notin Range(s)
      PROVE  IsInjective(t)
  BY <1>1, <1>3, <1>5 DEF IsInjective, Range
<1> QED BY <1>1, <1>4, <1>5 DEF t

\* What taking the head off a queue leaves in it.
LEMMA TailRange ==
    ASSUME NEW S, NEW s \in Seq(S), s # <<>>
    PROVE  /\ Head(s) \in Range(s) /\ Head(s) \in S
           /\ Tail(s) \in Seq(S)
           /\ Range(Tail(s)) \subseteq Range(s)
           /\ Head(s) = s[1] /\ 1 \in DOMAIN s
           /\ \A i \in DOMAIN Tail(s) : i + 1 \in DOMAIN s /\ Tail(s)[i] = s[i + 1] /\ i + 1 # 1
<1>1. /\ Head(s) \in S /\ Tail(s) \in Seq(S) /\ Len(Tail(s)) = Len(s) - 1
      /\ \A i \in 1..Len(Tail(s)) : Tail(s)[i] = s[i + 1]
  BY HeadTailProperties
<1>2. /\ Len(s) \in Nat \ {0} /\ DOMAIN s = 1..Len(s)
      /\ DOMAIN Tail(s) = 1..(Len(s) - 1)
  BY <1>1, LenProperties, EmptySeq
<1>3. \A i \in DOMAIN Tail(s) : i + 1 \in DOMAIN s /\ Tail(s)[i] = s[i + 1] /\ i + 1 # 1
  BY <1>1, <1>2
<1>4. Head(s) = s[1] /\ 1 \in DOMAIN s
  BY <1>2
<1> QED BY <1>1, <1>3, <1>4 DEF Range

\* remove(e) on an empty list, and on a list that starts with something else.
LEMMA RemoveFirstHead ==
    ASSUME NEW S, NEW s \in Seq(S), NEW e
    PROVE  /\ RemoveFirst(<<>>, e) = <<>>
           /\ s # <<>> /\ Head(s) # e =>
                 RemoveFirst(s, e) # <<>> /\ Head(RemoveFirst(s, e)) = Head(s)
<1>1. RemoveFirst(<<>>, e) = <<>>
  BY DEF RemoveFirst
<1>2. ASSUME s # <<>>, Head(s) # e
      PROVE  RemoveFirst(s, e) # <<>> /\ Head(RemoveFirst(s, e)) = Head(s)
  <2> DEFINE t == RemoveFirst(s, e)
  <2>1. t \in Seq(S)
    BY RemoveFirstProperties
  <2>2. Len(s) \in Nat \ {0} /\ Head(s) = s[1]
    BY <1>2, EmptySeq
  <2>3. CASE t = s
    BY <1>2, <2>3
  <2>4. ASSUME NEW i \in 1..Len(s), s[i] = e, t = RemoveAt(s, i)
        PROVE  t # <<>> /\ Head(t) = Head(s)
    <3>1. i # 1 /\ 1 \in 1..(Len(s) - 1)
      BY <1>2, <2>2, <2>4
    <3>2. 1 < i
      BY <3>1, <2>2
    <3>3. t[1] = s[1] /\ Len(t) = Len(s) - 1
      BY <2>4, <3>1, <3>2, RemoveAtProperties
    <3> HIDE DEF t
    <3>4. Len(t) # 0
      BY <3>1, <3>3, <2>2
    <3>5. t # <<>>
      BY <3>4
    <3> QED BY <2>1, <2>2, <3>3, <3>5
  <2> QED BY <2>3, <2>4, RemoveFirstCases
<1> QED BY <1>1, <1>2
=============================================================================
