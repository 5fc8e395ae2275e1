--------------------------- MODULE GdsOrderProofs ---------------------------
(***************************************************************************)
(* OwnResponse: a device that answers in the order it was asked, and whose *)
(* echoes fit the request they answer, makes _requests_match good enough,  *)
(* however many equal requests run at once.  The list self._pending, the   *)
(* queue of _send_lock and the responses under way keep one common order,  *)
(* as long as no caller leaves its entry early.                            *)
(***************************************************************************)
EXTENDS GdsCorrelationProofs

Calls == Requests \ OneWay

Orderly ==
    /\ InOrder /\ \A r \in Calls : EchoOf[r] \subseteq Matches[r]
    /\ Impatient \cap Calls = {} /\ CallersStay
    /\ MaxConnects <= 1

-----------------------------------------------------------------------------
(***************************************************************************)
(* Three relations between a pipe p of responses under way and a list q of *)
(* entries, where sent are the requests the device has got.                *)
(***************************************************************************)
Nobody == "open"   \* what a frame that is no response answers

\* An entry whose request is out stands behind entries that only wait.
InTurn(q, sent, waiting) == \A i, j \in DOMAIN q : i < j /\ q[j] \in sent => q[i] \in waiting

\* The response to an entry is under way, and nothing overtakes it but the
\* responses to the entries before it.
InFront(p, q, sent) ==
    \A j \in DOMAIN q : q[j] \in sent =>
        \E k \in DOMAIN p :
            /\ p[k] = q[j]
            /\ \A l \in 1..(k - 1) : p[l] = Nobody \/ \E i \in 1..(j - 1) : p[l] = q[i]

\* Every response under way belongs to an entry.
Accounted(p, q, sent) ==
    \A k \in DOMAIN p : p[k] = Nobody \/ (p[k] \in sent /\ \E j \in DOMAIN q : q[j] = p[k])

\* Where no request of the list is out, there is nothing to overtake.
LEMMA NoneSent ==
    ASSUME NEW p, NEW q, NEW sent, NEW waiting, \A j \in DOMAIN q : q[j] \notin sent
    PROVE  InTurn(q, sent, waiting) /\ InFront(p, q, sent)
BY DEF InTurn, InFront

\* A frame that is no response is read.
LEMMA NoiseRead ==
    ASSUME NEW n \in Nat, NEW p, DOMAIN p = 1..n, n # 0, p[1] = Nobody,
           NEW t, DOMAIN t = 1..(n - 1), \A k \in 1..(n - 1) : t[k] = p[k + 1],
           NEW q, NEW sent, \A j \in DOMAIN q : q[j] # Nobody, InFront(p, q, sent)
    PROVE  InFront(t, q, sent) /\ (Accounted(p, q, sent) => Accounted(t, q, sent))
<1>1. ASSUME NEW j \in DOMAIN q, q[j] \in sent
      PROVE  \E k \in DOMAIN t :
                /\ t[k] = q[j]
                /\ \A l \in 1..(k - 1) : t[l] = Nobody \/ \E i \in 1..(j - 1) : t[l] = q[i]
  <2>1. PICK k \in DOMAIN p :
            /\ p[k] = q[j]
            /\ \A l \in 1..(k - 1) : p[l] = Nobody \/ \E i \in 1..(j - 1) : p[l] = q[i]
    BY <1>1, Zenon DEF InFront
  <2>2. k \in 1..n /\ k # 1
    BY <2>1
  <2>3. k - 1 \in DOMAIN t /\ t[k - 1] = p[k]
    BY <2>2
  <2>4. ASSUME NEW l \in 1..(k - 2)
        PROVE  t[l] = Nobody \/ \E i \in 1..(j - 1) : t[l] = q[i]
    <3>1. t[l] = p[l + 1] /\ l + 1 \in 1..(k - 1)
      OBVIOUS
    <3> QED BY <2>1, <3>1
  <2> QED BY <2>1, <2>3, <2>4
<1>2. Accounted(p, q, sent) => Accounted(t, q, sent)
  BY DEF Accounted
<1> QED BY <1>1, <1>2 DEF InFront

\* The first response is read and given to the first entry.
LEMMA FirstAnswered ==
    ASSUME NEW n \in Nat, NEW p, DOMAIN p = 1..n, n # 0,
           \A k \in 1..n : p[k] = p[1] => k = 1,
           NEW t, DOMAIN t = 1..(n - 1), \A k \in 1..(n - 1) : t[k] = p[k + 1],
           NEW m \in Nat, NEW q, DOMAIN q = 1..m, m # 0, p[1] = q[1],
           \A j \in 1..m : q[j] = q[1] => j = 1,
           NEW u, DOMAIN u = 1..(m - 1), \A j \in 1..(m - 1) : u[j] = q[j + 1],
           NEW sent, NEW waiting, InTurn(q, sent, waiting), InFront(p, q, sent)
    PROVE  /\ InTurn(u, sent, waiting) /\ InFront(t, u, sent)
           /\ Accounted(p, q, sent) => Accounted(t, u, sent)
<1>1. InTurn(u, sent, waiting)
  <2> SUFFICES ASSUME NEW i \in 1..(m - 1), NEW j \in 1..(m - 1), i < j, u[j] \in sent
               PROVE  u[i] \in waiting
    BY DEF InTurn
  <2>1. i + 1 \in 1..m /\ j + 1 \in 1..m /\ i + 1 < j + 1 /\ q[j + 1] \in sent
    OBVIOUS
  <2>2. q[i + 1] \in waiting
    BY <2>1 DEF InTurn
  <2> QED BY <2>2
<1>2. ASSUME NEW j \in 1..(m - 1), u[j] \in sent
      PROVE  \E k \in DOMAIN t :
                /\ t[k] = u[j]
                /\ \A l \in 1..(k - 1) : t[l] = Nobody \/ \E i \in 1..(j - 1) : t[l] = u[i]
  <2>1. j + 1 \in 1..m /\ q[j + 1] \in sent
    BY <1>2
  <2>2. PICK k \in DOMAIN p :
            /\ p[k] = q[j + 1]
            /\ \A l \in 1..(k - 1) : p[l] = Nobody \/ \E i \in 1..((j + 1) - 1) : p[l] = q[i]
    BY <2>1, Zenon DEF InFront
  <2>3. k \in 1..n /\ k # 1
    BY <2>1, <2>2
  <2>4. k - 1 \in 1..(n - 1) /\ t[k - 1] = u[j]
    BY <2>2, <2>3
  <2>5. ASSUME NEW l \in 1..((k - 1) - 1)
        PROVE  t[l] = Nobody \/ \E i \in 1..(j - 1) : t[l] = u[i]
    <3>1. l + 1 \in 1..(k - 1) /\ l + 1 \in 1..n /\ l \in 1..(n - 1) /\ l + 1 # 1
      OBVIOUS
    <3>2. t[l] = p[l + 1] /\ p[l + 1] # p[1]
      BY <3>1
    <3>3. CASE p[l + 1] = Nobody
      BY <3>2, <3>3
    <3>4. ASSUME NEW i \in 1..((j + 1) - 1), p[l + 1] = q[i]
          PROVE  \E h \in 1..(j - 1) : t[l] = u[h]
      <4>1. i # 1
        BY <3>2, <3>4
      <4>2. i - 1 \in 1..(j - 1) /\ i - 1 \in 1..(m - 1) /\ (i - 1) + 1 = i
        BY <4>1
      <4>3. u[i - 1] = q[i]
        BY <4>2
      <4> QED BY <3>2, <3>4, <4>2, <4>3
    <3> QED BY <2>2, <3>1, <3>3, <3>4
  <2> QED BY <2>4, <2>5
<1>3. ASSUME Accounted(p, q, sent), NEW k \in 1..(n - 1), t[k] # Nobody
      PROVE  t[k] \in sent /\ \E j \in 1..(m - 1) : u[j] = t[k]
  <2>1. k + 1 \in 1..n /\ t[k] = p[k + 1] /\ p[k + 1] # p[1]
    OBVIOUS
  <2>2. PICK j \in 1..m : q[j] = p[k + 1]
    BY <1>3, <2>1 DEF Accounted
  <2>3. j # 1
    BY <2>1, <2>2
  <2>4. j - 1 \in 1..(m - 1) /\ (j - 1) + 1 = j
    BY <2>3
  <2>5. u[j - 1] = q[j]
    BY <2>4
  <2> QED BY <1>3, <2>1, <2>2, <2>4, <2>5 DEF Accounted
<1>4. InFront(t, u, sent)
  BY <1>2 DEF InFront
<1>5. Accounted(p, q, sent) => Accounted(t, u, sent)
  BY <1>3 DEF Accounted
<1> QED BY <1>1, <1>4, <1>5

\* A frame that is no response arrives.
LEMMA NoiseArrives ==
    ASSUME NEW n \in Nat, NEW p, DOMAIN p = 1..n, NEW c \in 0..n,
           NEW t, DOMAIN t = 1..(n + 1), t[c + 1] = Nobody,
           \A k \in 1..c : t[k] = p[k], \A k \in (c + 1)..n : t[k + 1] = p[k],
           NEW q, NEW sent, InFront(p, q, sent)
    PROVE  InFront(t, q, sent) /\ (Accounted(p, q, sent) => Accounted(t, q, sent))
<1> DEFINE To(k) == IF k <= c THEN k ELSE k + 1
<1>1. \A k \in 1..n : To(k) \in 1..(n + 1) /\ t[To(k)] = p[k]
  OBVIOUS
<1>2. \A k \in 1..n : \A l \in 1..(To(k) - 1) :
          t[l] = Nobody \/ \E h \in 1..(k - 1) : t[l] = p[h]
  <2> SUFFICES ASSUME NEW k \in 1..n, NEW l \in 1..(To(k) - 1)
               PROVE  t[l] = Nobody \/ \E h \in 1..(k - 1) : t[l] = p[h]
    OBVIOUS
  <2>1. CASE l <= c
    <3>1. l \in 1..c /\ l \in 1..(k - 1)
      BY <2>1
    <3> QED BY <3>1
  <2>2. CASE l = c + 1
    BY <2>2
  <2>3. CASE l > c + 1
    <3>1. l - 1 \in (c + 1)..n /\ l - 1 \in 1..(k - 1) /\ (l - 1) + 1 = l
      BY <2>3
    <3>2. t[l] = p[l - 1]
      BY <3>1
    <3> QED BY <3>1, <3>2
  <2> QED BY <2>1, <2>2, <2>3
<1>3. ASSUME NEW j \in DOMAIN q, q[j] \in sent
      PROVE  \E k \in DOMAIN t :
                /\ t[k] = q[j]
                /\ \A l \in 1..(k - 1) : t[l] = Nobody \/ \E i \in 1..(j - 1) : t[l] = q[i]
  <2>1. PICK k \in 1..n :
            /\ p[k] = q[j]
            /\ \A l \in 1..(k - 1) : p[l] = Nobody \/ \E i \in 1..(j - 1) : p[l] = q[i]
    BY <1>3 DEF InFront
  <2>2. ASSUME NEW l \in 1..(To(k) - 1)
        PROVE  t[l] = Nobody \/ \E i \in 1..(j - 1) : t[l] = q[i]
    <3>1. CASE t[l] = Nobody
      BY <3>1
    <3>2. ASSUME NEW h \in 1..(k - 1), t[l] = p[h]
          PROVE  t[l] = Nobody \/ \E i \in 1..(j - 1) : t[l] = q[i]
      BY <2>1, <3>2
    <3> HIDE DEF To
    <3> QED BY <1>2, <3>1, <3>2
  <2> HIDE DEF To
  <2> QED BY <1>1, <2>1, <2>2
<1>4. ASSUME Accounted(p, q, sent), NEW k \in 1..(n + 1), t[k] # Nobody
      PROVE  t[k] \in sent /\ \E j \in DOMAIN q : q[j] = t[k]
  <2>1. PICK h \in 1..n : t[k] = p[h]
    <3>1. CASE k <= c
      <4>1. k \in 1..c /\ k \in 1..n
        BY <3>1
      <4> QED BY <4>1
    <3>2. CASE k > c
      <4>1. k # c + 1
        BY <1>4
      <4>2. k - 1 \in (c + 1)..n /\ (k - 1) + 1 = k
        BY <3>2, <4>1
      <4>3. t[k] = p[k - 1]
        BY <4>2
      <4> QED BY <4>2, <4>3
    <3> QED BY <3>1, <3>2
  <2> QED BY <1>4, <2>1 DEF Accounted
<1> QED BY <1>3, <1>4 DEF InFront, Accounted

\* A call that has an entry starts to wait, or one without an entry moves on.
LEMMA OthersMove ==
    ASSUME NEW p, NEW q, NEW sent, NEW waiting, NEW sent2, NEW waiting2,
           \A j \in DOMAIN q : q[j] \in sent2 <=> q[j] \in sent,
           \A j \in DOMAIN q : q[j] \in waiting => q[j] \in waiting2
    PROVE  /\ InTurn(q, sent, waiting) => InTurn(q, sent2, waiting2)
           /\ InFront(p, q, sent) => InFront(p, q, sent2)
           /\ Accounted(p, q, sent) => Accounted(p, q, sent2)
<1>1. InTurn(q, sent, waiting) => InTurn(q, sent2, waiting2)
  BY DEF InTurn
<1>2. InFront(p, q, sent) => InFront(p, q, sent2)
  BY DEF InFront
<1>3. ASSUME Accounted(p, q, sent), NEW k \in DOMAIN p, p[k] # Nobody
      PROVE  p[k] \in sent2 /\ \E j \in DOMAIN q : q[j] = p[k]
  BY <1>3 DEF Accounted
<1> QED BY <1>1, <1>2, <1>3 DEF Accounted

\* A call joins the list.
LEMMA EntryAdded ==
    ASSUME NEW p, NEW m \in Nat, NEW q, DOMAIN q = 1..m,
           NEW u, DOMAIN u = 1..(m + 1), \A j \in 1..m : u[j] = q[j],
           NEW sent, NEW waiting, u[m + 1] \notin sent,
           InTurn(q, sent, waiting), InFront(p, q, sent)
    PROVE  /\ InTurn(u, sent, waiting) /\ InFront(p, u, sent)
           /\ Accounted(p, q, sent) => Accounted(p, u, sent)
<1>1. \A j \in 1..(m + 1) : u[j] \in sent => j \in 1..m
  OBVIOUS
<1>2. InTurn(u, sent, waiting)
  <2> SUFFICES ASSUME NEW i \in 1..(m + 1), NEW j \in 1..(m + 1), i < j, u[j] \in sent
               PROVE  u[i] \in waiting
    BY DEF InTurn
  <2>1. i \in 1..m /\ j \in 1..m /\ u[i] = q[i] /\ u[j] = q[j]
    BY <1>1
  <2> QED BY <2>1 DEF InTurn
<1>3. ASSUME NEW j \in 1..(m + 1), u[j] \in sent
      PROVE  \E k \in DOMAIN p :
                /\ p[k] = u[j]
                /\ \A l \in 1..(k - 1) : p[l] = Nobody \/ \E i \in 1..(j - 1) : p[l] = u[i]
  <2>1. j \in 1..m /\ u[j] = q[j] /\ \A i \in 1..(j - 1) : u[i] = q[i]
    BY <1>1, <1>3
  <2>2. PICK k \in DOMAIN p :
            /\ p[k] = q[j]
            /\ \A l \in 1..(k - 1) : p[l] = Nobody \/ \E i \in 1..(j - 1) : p[l] = q[i]
    BY <1>3, <2>1, Zenon DEF InFront
  <2> QED BY <2>1, <2>2, Zenon
<1>4. Accounted(p, q, sent) => Accounted(p, u, sent)
  BY DEF Accounted
<1>5. InFront(p, u, sent)
  BY <1>3, Zenon DEF InFront
<1> QED BY <1>2, <1>4, <1>5

\* A call that does not wait yet leaves the list: nobody behind it is out.
LEMMA EntryDropped ==
    ASSUME NEW p, NEW m \in Nat, NEW q, DOMAIN q = 1..m, NEW h \in 1..m,
           NEW u, DOMAIN u = 1..(m - 1),
           \A j \in 1..(m - 1) : u[j] = IF j < h THEN q[j] ELSE q[j + 1],
           NEW sent, NEW waiting, q[h] \notin waiting,
           InTurn(q, sent, waiting), InFront(p, q, sent)
    PROVE  /\ InTurn(u, sent, waiting) /\ InFront(p, u, sent)
           /\ Accounted(p, q, sent) /\ q[h] \notin sent => Accounted(p, u, sent)
<1>1. ASSUME NEW j \in 1..(m - 1), u[j] \in sent
      PROVE  j < h
  <2> SUFFICES ASSUME ~(j < h)
               PROVE  FALSE
    OBVIOUS
  <2>1. j + 1 \in 1..m /\ h < j + 1 /\ q[j + 1] \in sent
    BY <1>1
  <2> QED BY <2>1 DEF InTurn
<1>2. InTurn(u, sent, waiting)
  <2> SUFFICES ASSUME NEW i \in 1..(m - 1), NEW j \in 1..(m - 1), i < j, u[j] \in sent
               PROVE  u[i] \in waiting
    BY DEF InTurn
  <2>1. j < h
    BY <1>1
  <2>2. i \in 1..m /\ j \in 1..m /\ u[i] = q[i] /\ u[j] = q[j]
    BY <2>1
  <2> QED BY <2>2 DEF InTurn
<1>3. ASSUME NEW j \in 1..(m - 1), u[j] \in sent
      PROVE  \E k \in DOMAIN p :
                /\ p[k] = u[j]
                /\ \A l \in 1..(k - 1) : p[l] = Nobody \/ \E i \in 1..(j - 1) : p[l] = u[i]
  <2>1. j \in 1..m /\ u[j] = q[j] /\ \A i \in 1..(j - 1) : u[i] = q[i]
    BY <1>1, <1>3
  <2>2. PICK k \in DOMAIN p :
            /\ p[k] = q[j]
            /\ \A l \in 1..(k - 1) : p[l] = Nobody \/ \E i \in 1..(j - 1) : p[l] = q[i]
    BY <1>3, <2>1, Zenon DEF InFront
  <2> QED BY <2>1, <2>2, Zenon
<1>4. InFront(p, u, sent)
  BY <1>3, Zenon DEF InFront
<1>5. ASSUME Accounted(p, q, sent), q[h] \notin sent, NEW k \in DOMAIN p, p[k] # Nobody
      PROVE  p[k] \in sent /\ \E j \in 1..(m - 1) : u[j] = p[k]
  <2>1. PICK j \in 1..m : q[j] = p[k]
    BY <1>5 DEF Accounted
  <2>2. p[k] \in sent /\ j # h
    BY <1>5, <2>1 DEF Accounted
  <2>3. CASE j < h
    <3>1. j \in 1..(m - 1) /\ u[j] = q[j]
      BY <2>3
    <3> QED BY <2>1, <2>2, <3>1
  <2>4. CASE j > h
    <3>1. j - 1 \in 1..(m - 1) /\ ~(j - 1 < h) /\ (j - 1) + 1 = j
      BY <2>4
    <3>2. u[j - 1] = q[j]
      BY <3>1
    <3> QED BY <2>1, <2>2, <3>1, <3>2
  <2> QED BY <2>2, <2>3, <2>4
<1>6. Accounted(p, q, sent) /\ q[h] \notin sent => Accounted(p, u, sent)
  BY <1>5 DEF Accounted
<1> QED BY <1>2, <1>4, <1>6

\* The frame of entry h goes out, when all entries before it wait already.
LEMMA FrameWritten ==
    ASSUME NEW n \in Nat, NEW p, DOMAIN p = 1..n,
           NEW m \in Nat, NEW q, DOMAIN q = 1..m, NEW h \in 1..m,
           NEW t, DOMAIN t = 1..(n + 1), \A k \in 1..n : t[k] = p[k], t[n + 1] = q[h],
           \A j \in 1..m : q[j] = q[h] => j = h,
           NEW sent, NEW waiting, q[h] \notin sent, q[h] \notin waiting,
           \A i \in 1..(h - 1) : q[i] \in waiting,
           InTurn(q, sent, waiting), InFront(p, q, sent), Accounted(p, q, sent)
    PROVE  LET sent2 == sent \cup {q[h]}
           IN  InTurn(q, sent2, waiting) /\ InFront(t, q, sent2) /\ Accounted(t, q, sent2)
<1> DEFINE sent2 == sent \cup {q[h]}
<1>1. InTurn(q, sent2, waiting)
  <2> SUFFICES ASSUME NEW i \in 1..m, NEW j \in 1..m, i < j, q[j] \in sent2
               PROVE  q[i] \in waiting
    BY DEF InTurn
  <2>1. CASE q[j] \in sent
    BY <2>1 DEF InTurn
  <2>2. CASE q[j] = q[h]
    <3>1. i \in 1..(h - 1)
      BY <2>2
    <3> QED BY <3>1
  <2> QED BY <2>1, <2>2
<1>2. \A l \in 1..n : p[l] = Nobody \/ \E i \in 1..(h - 1) : p[l] = q[i]
  <2> SUFFICES ASSUME NEW l \in 1..n, p[l] # Nobody
               PROVE  \E i \in 1..(h - 1) : p[l] = q[i]
    OBVIOUS
  <2>1. PICK i \in 1..m : q[i] = p[l] /\ q[i] \in sent
    BY DEF Accounted
  <2>2. i # h
    BY <2>1
  <2>3. ~(h < i)
    BY <2>1 DEF InTurn
  <2>4. i \in 1..(h - 1)
    BY <2>2, <2>3
  <2> QED BY <2>1, <2>4
<1>3. ASSUME NEW j \in 1..m, q[j] \in sent2
      PROVE  \E k \in DOMAIN t :
                /\ t[k] = q[j]
                /\ \A l \in 1..(k - 1) : t[l] = Nobody \/ \E i \in 1..(j - 1) : t[l] = q[i]
  <2>1. CASE q[j] \in sent
    <3>1. PICK k \in DOMAIN p :
              /\ p[k] = q[j]
              /\ \A l \in 1..(k - 1) : p[l] = Nobody \/ \E i \in 1..(j - 1) : p[l] = q[i]
      BY <2>1, Zenon DEF InFront
    <3>2. k \in 1..n /\ k \in DOMAIN t /\ t[k] = p[k] /\ \A l \in 1..(k - 1) : t[l] = p[l]
      OBVIOUS
    <3>3. \A l \in 1..(k - 1) : t[l] = Nobody \/ \E i \in 1..(j - 1) : t[l] = q[i]
      BY <3>1, <3>2
    <3> QED BY <3>1, <3>2, <3>3
  <2>2. CASE q[j] = q[h]
    <3>1. j = h /\ n + 1 \in DOMAIN t /\ (n + 1) - 1 = n /\ \A l \in 1..n : t[l] = p[l]
      BY <2>2
    <3> QED BY <1>2, <3>1
  <2> QED BY <1>3, <2>1, <2>2
<1>4. InFront(t, q, sent2)
  BY <1>3, Zenon DEF InFront
<1>5. ASSUME NEW k \in 1..(n + 1), t[k] # Nobody
      PROVE  t[k] \in sent2 /\ \E j \in DOMAIN q : q[j] = t[k]
  <2>1. CASE k = n + 1
    BY <2>1
  <2>2. CASE k # n + 1
    <3>1. k \in 1..n /\ t[k] = p[k]
      BY <2>2
    <3> QED BY <1>5, <3>1 DEF Accounted
  <2> QED BY <2>1, <2>2
<1>6. Accounted(t, q, sent2)
  BY <1>5 DEF Accounted
<1> QED BY <1>1, <1>4, <1>6

-----------------------------------------------------------------------------
(***************************************************************************)
(* The pipe: the responses received and not read, then those the device    *)
(* still owes.  An answer moves from the second part to the first without  *)
(* changing its place.                                                     *)
(***************************************************************************)
Asked(m) == IF m.type = "response" THEN m.of ELSE Nobody

Pipe(f, d) == [k \in 1..(Len(f) + Len(d)) |->
                  IF k <= Len(f) THEN Asked(f[k]) ELSE d[k - Len(f)]]

LEMMA PipeDomain ==
    ASSUME NEW f \in Seq(Message), NEW d \in Seq(Requests)
    PROVE  /\ Len(f) + Len(d) \in Nat
           /\ DOMAIN Pipe(f, d) = 1..(Len(f) + Len(d))
<1>1. Len(f) \in Nat /\ Len(d) \in Nat
  BY LenProperties
<1> QED BY <1>1 DEF Pipe

LEMMA PipeRead ==
    ASSUME NEW f \in Seq(Message), NEW d \in Seq(Requests), f # <<>>
    PROVE  LET n == Len(f) + Len(d)
               t == Pipe(Tail(f), d)
           IN  /\ n # 0 /\ Pipe(f, d)[1] = Asked(Head(f))
               /\ DOMAIN t = 1..(n - 1)
               /\ \A k \in 1..(n - 1) : t[k] = Pipe(f, d)[k + 1]
<1> DEFINE a == Len(f)
           b == Len(d)
           g == Tail(f)
<1>1. a \in Nat /\ b \in Nat /\ a # 0
  BY LenProperties, EmptySeq
<1>2. Len(g) = a - 1 /\ Head(f) = f[1] /\ \A k \in 1..Len(g) : g[k] = f[k + 1]
  BY HeadTailProperties
<1> HIDE DEF a, b, g
<1>3. DOMAIN Pipe(g, d) = 1..((a + b) - 1)
  BY <1>1, <1>2 DEF Pipe, b
<1>4. ASSUME NEW k \in 1..((a + b) - 1)
      PROVE  Pipe(g, d)[k] = Pipe(f, d)[k + 1]
  <2>1. CASE k <= a - 1
    <3>1. g[k] = f[k + 1] /\ k \in 1..(Len(g) + b) /\ k + 1 \in 1..(a + b) /\ k + 1 <= a /\ k <= Len(g)
      BY <1>1, <1>2, <2>1
    <3> QED BY <3>1 DEF Pipe, a, b
  <2>2. CASE ~(k <= a - 1)
    <3>1. k - Len(g) = (k + 1) - a /\ k \in 1..(Len(g) + b) /\ k + 1 \in 1..(a + b)
          /\ ~(k + 1 <= a) /\ ~(k <= Len(g))
      BY <1>1, <1>2, <2>2
    <3>2. Pipe(g, d)[k] = d[k - Len(g)]
      BY <3>1 DEF Pipe, b
    <3>3. Pipe(f, d)[k + 1] = d[(k + 1) - a]
      BY <3>1 DEF Pipe, a, b
    <3> QED BY <3>1, <3>2, <3>3
  <2> QED BY <2>1, <2>2
<1>5. Pipe(f, d)[1] = Asked(Head(f))
  <2>1. 1 \in 1..(a + b) /\ 1 <= a
    BY <1>1
  <2> QED BY <1>2, <2>1 DEF Pipe, a, b
<1>6. a + b # 0
  BY <1>1
<1> QED BY <1>3, <1>4, <1>5, <1>6 DEF a, b, g

LEMMA PipeAnswer ==
    ASSUME NEW f \in Seq(Message), NEW d \in Seq(Requests), NEW m \in Message,
           1 \in 1..Len(d), Asked(m) = d[1]
    PROVE  Pipe(Append(f, m), RemoveAt(d, 1)) = Pipe(f, d)
<1> DEFINE a == Len(f)
           b == Len(d)
           g == Append(f, m)
           c == RemoveAt(d, 1)
<1>1. a \in Nat /\ b \in Nat /\ b # 0
  BY LenProperties
<1>2. Len(g) = a + 1 /\ g[a + 1] = m /\ \A k \in 1..a : g[k] = f[k]
  BY AppendProperties
<1>3. Len(c) = b - 1 /\ \A k \in 1..(b - 1) : c[k] = d[k + 1]
  <2>1. /\ Len(c) = b - 1
        /\ \A k \in 1..(b - 1) : c[k] = IF k < 1 THEN d[k] ELSE d[k + 1]
    BY RemoveAtProperties
  <2> QED BY <1>1, <2>1
<1> HIDE DEF a, b, g, c
<1>4. Len(g) + Len(c) = a + b
  BY <1>1, <1>2, <1>3
<1>5. ASSUME NEW k \in 1..(a + b)
      PROVE  (IF k <= Len(g) THEN Asked(g[k]) ELSE c[k - Len(g)])
               = (IF k <= a THEN Asked(f[k]) ELSE d[k - a])
  <2>1. CASE k <= a
    <3>1. k \in 1..a /\ k <= Len(g)
      BY <1>1, <1>2, <2>1
    <3> QED BY <1>2, <2>1, <3>1
  <2>2. CASE k = a + 1
    <3>1. ~(k <= a) /\ k - a = 1 /\ k <= Len(g)
      BY <1>1, <1>2, <2>2
    <3> QED BY <1>2, <2>2, <3>1
  <2>3. CASE k > a + 1
    <3>1. ~(k <= a) /\ ~(k <= Len(g)) /\ k - Len(g) \in 1..(b - 1) /\ (k - Len(g)) + 1 = k - a
      BY <1>1, <1>2, <2>3
    <3> QED BY <1>3, <3>1
  <2> QED BY <1>1, <2>1, <2>2, <2>3
<1>6. Pipe(g, c) = Pipe(f, d)
  BY <1>4, <1>5 DEF Pipe, a, b
<1> QED BY <1>6 DEF g, c

LEMMA PipeNoise ==
    ASSUME NEW f \in Seq(Message), NEW d \in Seq(Requests), NEW m \in Message, Asked(m) = Nobody
    PROVE  LET n == Len(f) + Len(d)
               c == Len(f)
               p == Pipe(f, d)
               t == Pipe(Append(f, m), d)
           IN  /\ c \in 0..n /\ DOMAIN t = 1..(n + 1) /\ t[c + 1] = Nobody
               /\ \A k \in 1..c : t[k] = p[k]
               /\ \A k \in (c + 1)..n : t[k + 1] = p[k]
<1> DEFINE a == Len(f)
           b == Len(d)
           g == Append(f, m)
<1>1. a \in Nat /\ b \in Nat
  BY LenProperties
<1>2. Len(g) = a + 1 /\ g[a + 1] = m /\ \A k \in 1..a : g[k] = f[k]
  BY AppendProperties
<1> HIDE DEF a, b, g
<1>3. a \in 0..(a + b) /\ DOMAIN Pipe(g, d) = 1..((a + b) + 1)
  BY <1>1, <1>2 DEF Pipe, b
<1>4. Pipe(g, d)[a + 1] = Nobody
  <2>1. a + 1 \in 1..(Len(g) + b) /\ a + 1 <= Len(g)
    BY <1>1, <1>2
  <2> QED BY <1>2, <2>1 DEF Pipe, b
<1>5. ASSUME NEW k \in 1..a
      PROVE  Pipe(g, d)[k] = Pipe(f, d)[k]
  <2>1. k \in 1..(Len(g) + b) /\ k <= Len(g) /\ k \in 1..(a + b) /\ k <= a
    BY <1>1, <1>2
  <2> QED BY <1>2, <2>1 DEF Pipe, a, b
<1>6. ASSUME NEW k \in (a + 1)..(a + b)
      PROVE  Pipe(g, d)[k + 1] = Pipe(f, d)[k]
  <2>1. k + 1 \in 1..(Len(g) + b) /\ ~(k + 1 <= Len(g)) /\ k \in 1..(a + b) /\ ~(k <= a)
        /\ (k + 1) - Len(g) = k - a
    BY <1>1, <1>2
  <2>2. Pipe(g, d)[k + 1] = d[(k + 1) - Len(g)]
    BY <2>1 DEF Pipe, b
  <2>3. Pipe(f, d)[k] = d[k - a]
    BY <2>1 DEF Pipe, a, b
  <2> QED BY <2>1, <2>2, <2>3
<1> QED BY <1>3, <1>4, <1>5, <1>6 DEF a, b, g

LEMMA PipeWrite ==
    ASSUME NEW f \in Seq(Message), NEW d \in Seq(Requests), NEW r \in Requests
    PROVE  LET n == Len(f) + Len(d)
               t == Pipe(f, Append(d, r))
           IN  /\ DOMAIN t = 1..(n + 1) /\ t[n + 1] = r
               /\ \A k \in 1..n : t[k] = Pipe(f, d)[k]
<1> DEFINE a == Len(f)
           b == Len(d)
           e == Append(d, r)
<1>1. a \in Nat /\ b \in Nat
  BY LenProperties
<1>2. Len(e) = b + 1 /\ e[b + 1] = r /\ \A k \in 1..b : e[k] = d[k]
  BY AppendProperties
<1> HIDE DEF a, b, e
<1>3. DOMAIN Pipe(f, e) = 1..((a + b) + 1)
  BY <1>1, <1>2 DEF Pipe, a
<1>4. Pipe(f, e)[(a + b) + 1] = r
  <2>1. (a + b) + 1 \in 1..(a + Len(e)) /\ ~((a + b) + 1 <= a) /\ ((a + b) + 1) - a = b + 1
    BY <1>1, <1>2
  <2>2. Pipe(f, e)[(a + b) + 1] = e[((a + b) + 1) - a]
    BY <2>1 DEF Pipe, a
  <2> QED BY <1>2, <2>1, <2>2
<1>5. ASSUME NEW k \in 1..(a + b)
      PROVE  Pipe(f, e)[k] = Pipe(f, d)[k]
  <2>1. k \in 1..(a + Len(e))
    BY <1>1, <1>2
  <2>2. ~(k <= a) => k - a \in 1..b
    BY <1>1
  <2>3. ~(k <= a) => e[k - a] = d[k - a]
    BY <1>2, <2>2
  <2>4. Pipe(f, e)[k] = IF k <= a THEN Asked(f[k]) ELSE e[k - a]
    BY <2>1 DEF Pipe, a
  <2>5. Pipe(f, d)[k] = IF k <= a THEN Asked(f[k]) ELSE d[k - a]
    BY DEF Pipe, a, b
  <2> QED BY <2>3, <2>4, <2>5
<1> QED BY <1>3, <1>4, <1>5 DEF a, b, e

\* Every response under way answers a request that is out, and only one does.
LEMMA PipeFresh ==
    ASSUME TypeOK, ResponseInv
    PROVE  /\ \A k \in DOMAIN Pipe(inbound, due) :
                 Pipe(inbound, due)[k] = Nobody \/ Fresh(Pipe(inbound, due)[k])
           /\ \A k, l \in DOMAIN Pipe(inbound, due) :
                 Pipe(inbound, due)[k] = Pipe(inbound, due)[l] /\ Pipe(inbound, due)[k] # Nobody
                 => k = l
<1> DEFINE a == Len(inbound)
           b == Len(due)
           p == Pipe(inbound, due)
<1>1. a \in Nat /\ b \in Nat /\ DOMAIN inbound = 1..a /\ DOMAIN due = 1..b
  BY LenProperties DEF TypeOK
<1>2. \A k \in 1..a : p[k] # Nobody =>
          inbound[k].type = "response" /\ p[k] = inbound[k].of /\ p[k] \notin Range(due) /\ Fresh(p[k])
  <2> SUFFICES ASSUME NEW k \in 1..a, p[k] # Nobody
               PROVE  inbound[k].type = "response" /\ p[k] = inbound[k].of /\ p[k] \notin Range(due) /\ Fresh(p[k])
    OBVIOUS
  <2>1. k \in 1..(a + b) /\ k <= a
    BY <1>1
  <2>2. p[k] = Asked(inbound[k])
    BY <2>1 DEF Pipe
  <2>3. inbound[k].type = "response" /\ p[k] = inbound[k].of
    BY <2>2 DEF Asked
  <2> QED BY <1>1, <2>3 DEF ResponseInv, InboundInv
<1>3. \A k \in 1..(a + b) : ~(k <= a) =>
          /\ p[k] = due[k - a] /\ k - a \in DOMAIN due
          /\ p[k] \in Range(due) /\ Fresh(p[k])
  <2> SUFFICES ASSUME NEW k \in 1..(a + b), ~(k <= a)
               PROVE  /\ p[k] = due[k - a] /\ k - a \in DOMAIN due
                      /\ p[k] \in Range(due) /\ Fresh(p[k])
    OBVIOUS
  <2>1. p[k] = due[k - a] /\ k - a \in DOMAIN due
    BY <1>1 DEF Pipe
  <2>2. p[k] \in Range(due)
    BY <2>1 DEF Range
  <2> QED BY <2>1, <2>2 DEF ResponseInv, DueInv
<1>4. DOMAIN p = 1..(a + b)
  BY DEF Pipe
<1>5. ASSUME NEW k \in 1..(a + b), NEW l \in 1..(a + b), p[k] = p[l], p[k] # Nobody
      PROVE  k = l
  <2>1. CASE k <= a /\ l <= a
    <3>1. k \in DOMAIN inbound /\ l \in DOMAIN inbound
      BY <1>1, <2>1
    <3>2. inbound[k].type = "response" /\ inbound[l].type = "response" /\ inbound[k].of = inbound[l].of
      BY <1>1, <1>2, <1>5, <3>1
    <3> QED BY <3>1, <3>2 DEF ResponseInv, InboundInv
  <2>2. CASE k <= a /\ ~(l <= a)
    BY <1>1, <1>2, <1>3, <1>5, <2>2
  <2>3. CASE ~(k <= a) /\ l <= a
    BY <1>1, <1>2, <1>3, <1>5, <2>3
  <2>4. CASE ~(k <= a) /\ ~(l <= a)
    <3>1. due[k - a] = due[l - a] /\ k - a \in DOMAIN due /\ l - a \in DOMAIN due
      BY <1>3, <1>5, <2>4
    <3>2. k - a = l - a
      BY <3>1 DEF ResponseInv, DueInv, IsInjective
    <3> QED BY <1>1, <3>2
  <2> QED BY <2>1, <2>2, <2>3, <2>4
<1>6. ASSUME NEW k \in 1..(a + b)
      PROVE  p[k] = Nobody \/ Fresh(p[k])
  BY <1>1, <1>2, <1>3
<1> HIDE DEF p
<1>7. /\ \A k \in DOMAIN p : p[k] = Nobody \/ Fresh(p[k])
      /\ \A k, l \in DOMAIN p : p[k] = p[l] /\ p[k] # Nobody => k = l
  BY <1>4, <1>5, <1>6
<1> QED BY <1>7 DEF p

-----------------------------------------------------------------------------
(***************************************************************************)
(* One session: until connect() has returned for the first and only time,  *)
(* no call gets as far as the lock and no response is under way.           *)
(***************************************************************************)
Early == gen = 0 \/ pc[Owner] \in {"dialling", "registering"}

LifeInv ==
    /\ gen = 0 => pc[Owner] = "outside"
    /\ \A g \in Gen : IsOpen(g) => g # 0 /\ g <= gen
    /\ reader # "none" => pc[Owner] = "inside"
    /\ ws <= gen

QuietInv ==
    Early => /\ \A r \in Calls : call[r] \in {"idle", "failed"}
             /\ due = <<>>
             /\ \A k \in DOMAIN inbound : Asked(inbound[k]) = Nobody

USE BoundAssumption DEF Tasks, Gen, callVars, connVars, eventVars, wireVars

LEMMA CloseKeepsLife ==
    ASSUME TypeOK, LifeInv, NEW t \in Tasks, Close(t) \/ ReaderAwaited(t), gen # 0
    PROVE  LifeInv' /\ (Early' => Early)
<1>1. /\ UNCHANGED <<ws, gen>> /\ (sock' = sock \/ sock' = [sock EXCEPT ![ws] = "shut"])
      /\ pc'[t] \in {"outside", "closing", "shutting"}
      /\ \A u \in Tasks : u # t => pc'[u] = pc[u]
  BY DEF TypeOK, Close, ReaderAwaited, CloseSocket, MoveTo
<1>2. reader' = "none" \/ (reader' = reader /\ pc[t] = "closing")
  BY DEF Close, ReaderAwaited
<1>3. \A g \in Gen : IsOpen(g)' => IsOpen(g)
  BY <1>1 DEF TypeOK, IsOpen
<1> QED BY <1>1, <1>2, <1>3 DEF LifeInv, Early

LEMMA LifeStep ==
    ASSUME MaxConnects <= 1, TypeOK, LifeInv, [Next]_vars
    PROVE  LifeInv' /\ (Early' => Early)
<1>1. ASSUME UNCHANGED <<ws, gen, reader, pc, sock>>
      PROVE  LifeInv' /\ (Early' => Early)
  BY <1>1 DEF LifeInv, Early, IsOpen
<1>2. ASSUME NEW r \in Requests,
             SendRequest(r) \/ Restart(r) \/ CallStep(r) \/ CancelSend(r) \/ Expire(r)
      PROVE  LifeInv' /\ (Early' => Early)
  BY <1>1, <1>2 DEF SendRequest, Restart, CallStep, Acquire, WriteFrame, SendReturns, SendFails,
                    WaitReturns, CancelSend, Expire
<1>3. ASSUME NEW t \in Tasks, Leave(t) \/ ReaderAwaited(t)
      PROVE  LifeInv' /\ (Early' => Early)
  <2>1. CASE gen # 0
    BY <1>3, <2>1, CloseKeepsLife DEF Leave
  <2>2. CASE gen = 0
    <3>1. t # Owner /\ reader = "none" /\ ws = 0
      BY <1>3, <2>2 DEF Leave, ReaderAwaited, LifeInv, TypeOK
    <3>2. UNCHANGED <<ws, gen, sock>> /\ pc'[Owner] = pc[Owner] /\ reader' = "none"
      BY <1>3, <3>1 DEF TypeOK, Leave, Close, ReaderAwaited, CloseSocket, MoveTo
    <3> QED BY <3>1, <3>2 DEF LifeInv, Early, IsOpen
  <2> QED BY <2>1, <2>2
<1>4. ASSUME NEW t \in Tasks, SocketClosed(t) \/ CancelTask(t)
      PROVE  LifeInv' /\ (Early' => Early)
  <2>1. /\ ws' \in {0, ws} /\ UNCHANGED <<gen, reader, sock>> /\ pc'[t] = "outside"
        /\ pc[t] # "inside" /\ \A u \in Tasks : u # t => pc'[u] = pc[u]
    BY <1>4 DEF TypeOK, SocketClosed, CancelTask, MoveTo
  <2> QED BY <2>1 DEF TypeOK, LifeInv, Early, IsOpen
<1>5. CASE Connect
  <2>1. gen = 0 /\ gen' = 1 /\ UNCHANGED <<ws, reader, sock>> /\ reader = "none"
    BY <1>5 DEF Connect, TypeOK, LifeInv
  <2> QED BY <2>1 DEF TypeOK, LifeInv, Early, IsOpen
<1>6. CASE SocketOpened
  <2>1. /\ ws' = gen /\ UNCHANGED <<gen, reader>> /\ sock' = [sock EXCEPT ![gen] = "open"]
        /\ gen # 0 /\ reader = "none" /\ Early
    BY <1>6 DEF SocketOpened, LifeInv, Early
  <2> QED BY <2>1 DEF TypeOK, LifeInv, IsOpen
<1>7. CASE Registered
  BY <1>7 DEF Registered, MoveTo, TypeOK, LifeInv, Early, IsOpen
<1>8. CASE ConnectFails
  <2>1. gen # 0
    BY <1>8 DEF ConnectFails, LifeInv
  <2> QED BY <1>8, <2>1, CloseKeepsLife DEF ConnectFails
<1>9. CASE ReaderStep
  <2>1. UNCHANGED <<ws, gen, pc, sock>> /\ reader # "none"
    BY <1>9 DEF ReaderStep, ReaderStarts, ReaderReceives, ReaderStops, ReaderFails
  <2> QED BY <2>1 DEF LifeInv, Early, IsOpen
<1>10. ASSUME NEW l \in Listeners, AwaitEvent(l) \/ NextEvent(l)
       PROVE  LifeInv' /\ (Early' => Early)
  BY <1>1, <1>10 DEF AwaitEvent, NextEvent
<1>11. CASE DeviceRegisters \/ ConnectionLost
  BY <1>11 DEF DeviceRegisters, ConnectionLost, TypeOK, LifeInv, Early, IsOpen
<1>12. CASE DeviceAnswers \/ DevicePushes
  BY <1>1, <1>12 DEF DeviceAnswers, DevicePushes
<1>13. CASE UNCHANGED vars
  BY <1>1, <1>13 DEF vars
<1> QED
  BY <1>2, <1>3, <1>4, <1>5, <1>6, <1>7, <1>8, <1>9, <1>10, <1>11, <1>12, <1>13
  DEF Next, TaskStep

LEMMA QuietStaysQuiet ==
    ASSUME TypeOK, LifeInv, QuietInv, [Next]_vars, Early
    PROVE  /\ \A r \in Calls : call'[r] \in {"idle", "failed"}
           /\ due' = <<>>
           /\ \A k \in DOMAIN inbound' : Asked(inbound'[k]) = Nobody
<1>0. /\ \A r \in Calls : call[r] \in {"idle", "failed"}
      /\ due = <<>> /\ reader = "none"
      /\ \A k \in DOMAIN inbound : Asked(inbound[k]) = Nobody
  BY DEF QuietInv, Early, LifeInv
<1> DEFINE Goal == /\ \A r \in Calls : call'[r] \in {"idle", "failed"}
                   /\ due' = <<>>
                   /\ \A k \in DOMAIN inbound' : Asked(inbound'[k]) = Nobody
<1>1. ASSUME UNCHANGED <<call, due, inbound>>
      PROVE  Goal
  BY <1>0, <1>1
<1>2. ASSUME NEW r \in Requests,
             SendRequest(r) \/ Restart(r) \/ CallStep(r) \/ CancelSend(r) \/ Expire(r)
      PROVE  Goal
  <2>1. r \in Calls => call[r] \in {"idle", "failed"} /\ ~Connected
    BY <1>0 DEF Connected
  <2>2. r \in Calls => Step(r, "failed")
    BY <1>2, <2>1 DEF SendRequest, Restart, CallStep, Acquire, WriteFrame, SendReturns, SendFails,
                      WaitReturns, CancelSend, Expire, Calls
  <2>3. \A q \in Calls : q # r => call'[q] = call[q]
    BY <1>2 DEF SendRequest, Restart, CallStep, Acquire, WriteFrame, SendReturns, SendFails,
                SendRaises, WaitReturns, CancelSend, Expire, EnterLock, Step, TypeOK, Calls
  <2>4. UNCHANGED <<due, inbound>>
    BY <1>2, <2>1 DEF SendRequest, Restart, CallStep, Acquire, WriteFrame, SendReturns, SendFails,
                WaitReturns, CancelSend, Expire, Calls
  <2> QED BY <1>0, <2>2, <2>3, <2>4 DEF Step, TypeOK, Calls
<1>3. ASSUME NEW t \in Tasks, Leave(t) \/ TaskStep(t) \/ CancelTask(t)
      PROVE  Goal
  BY <1>1, <1>3 DEF Leave, Close, FailPending, CloseSocket, TaskStep, ReaderAwaited, SocketClosed,
                    CancelTask
<1>4. CASE Connect \/ ConnectFails
  BY <1>1, <1>4 DEF Connect, ConnectFails, Close, FailPending, CloseSocket
<1>5. CASE SocketOpened
  BY <1>0, <1>5 DEF SocketOpened
<1>6. CASE Registered
  <2>1. \A i \in DOMAIN Tail(inbound) : i + 1 \in DOMAIN inbound /\ Tail(inbound)[i] = inbound[i + 1]
    BY <1>6, TailRange DEF Registered, TypeOK
  <2>2. \A k \in DOMAIN Tail(inbound) : Asked(Tail(inbound)[k]) = Nobody
    BY <1>0, <2>1
  <2> QED BY <1>0, <1>6, <2>2 DEF Registered
<1>7. CASE ReaderStep
  BY <1>0, <1>7 DEF ReaderStep, ReaderStarts, ReaderReceives, ReaderStops
<1>8. ASSUME NEW l \in Listeners, AwaitEvent(l) \/ NextEvent(l)
      PROVE  Goal
  BY <1>1, <1>8 DEF AwaitEvent, NextEvent
<1>9. CASE DeviceRegisters \/ DevicePushes
  <2>1. PICK m \in Message : m.type # "response" /\ inbound' = Append(inbound, m)
    BY <1>9 DEF DeviceRegisters, DevicePushes, Message
  <2>2. /\ inbound' \in Seq(Message) /\ Len(inbound') = Len(inbound) + 1 /\ Len(inbound) \in Nat
        /\ DOMAIN inbound' = 1..Len(inbound') /\ DOMAIN inbound = 1..Len(inbound)
        /\ \A k \in 1..Len(inbound) : inbound'[k] = inbound[k]
        /\ inbound'[Len(inbound) + 1] = m
    BY <2>1, AppendProperties, LenProperties DEF TypeOK
  <2>3. ASSUME NEW k \in DOMAIN inbound'
        PROVE  Asked(inbound'[k]) = Nobody
    <3>1. CASE k = Len(inbound) + 1
      BY <2>1, <2>2, <3>1 DEF Asked
    <3>2. CASE k # Len(inbound) + 1
      <4>1. k \in 1..Len(inbound)
        BY <2>2, <3>2
      <4> QED BY <1>0, <2>2, <4>1
    <3> QED BY <3>1, <3>2
  <2> QED BY <1>0, <1>9, <2>3 DEF DeviceRegisters, DevicePushes
<1>10. CASE DeviceAnswers
  BY <1>0, <1>10 DEF DeviceAnswers
<1>11. CASE ConnectionLost
  BY <1>1, <1>11 DEF ConnectionLost
<1>12. CASE UNCHANGED vars
  BY <1>1, <1>12 DEF vars
<1> QED
  BY <1>2, <1>3, <1>4, <1>5, <1>6, <1>7, <1>8, <1>9, <1>10, <1>11, <1>12 DEF Next

-----------------------------------------------------------------------------
(***************************************************************************)
(* Calls stand in self._pending in the order they queue for the lock.      *)
(***************************************************************************)
SameOrder(q, l) ==
    \A i, j \in DOMAIN q : \A a, b \in DOMAIN l :
        l[a] = q[i] /\ l[b] = q[j] /\ i < j => a < b

LEMMA RemovalKeepsOrder ==
    ASSUME NEW q \in Seq(Requests), NEW l \in Seq(Requests), SameOrder(q, l)
    PROVE  /\ \A h \in 1..Len(q) : SameOrder(RemoveAt(q, h), l)
           /\ \A h \in 1..Len(l) : SameOrder(q, RemoveAt(l, h))
<1>1. ASSUME NEW h \in 1..Len(q)
      PROVE  SameOrder(RemoveAt(q, h), l)
  <2> DEFINE u == RemoveAt(q, h)
             m == Len(q)
             At(j) == IF j < h THEN j ELSE j + 1
  <2>1. /\ DOMAIN u = 1..(m - 1) /\ DOMAIN q = 1..m /\ m \in Nat
        /\ \A j \in 1..(m - 1) : u[j] = IF j < h THEN q[j] ELSE q[j + 1]
    BY RemoveAtProperties, LenProperties
  <2> HIDE DEF u, m
  <2>2. \A j \in 1..(m - 1) : At(j) \in DOMAIN q /\ u[j] = q[At(j)]
    BY <2>1
  <2>3. \A i, j \in 1..(m - 1) : i < j => At(i) < At(j)
    BY <2>1
  <2> HIDE DEF At
  <2> SUFFICES ASSUME NEW i \in DOMAIN u, NEW j \in DOMAIN u, NEW a \in DOMAIN l, NEW b \in DOMAIN l,
                      l[a] = u[i], l[b] = u[j], i < j
               PROVE  a < b
    BY DEF SameOrder, u
  <2>4. l[a] = q[At(i)] /\ l[b] = q[At(j)] /\ At(i) < At(j)
    BY <2>1, <2>2, <2>3
  <2>5. At(i) \in DOMAIN q /\ At(j) \in DOMAIN q
    BY <2>1, <2>2
  <2> QED BY <2>4, <2>5 DEF SameOrder
<1>2. ASSUME NEW h \in 1..Len(l)
      PROVE  SameOrder(q, RemoveAt(l, h))
  <2> DEFINE u == RemoveAt(l, h)
             m == Len(l)
             At(j) == IF j < h THEN j ELSE j + 1
  <2>1. /\ DOMAIN u = 1..(m - 1) /\ DOMAIN l = 1..m /\ m \in Nat
        /\ \A j \in 1..(m - 1) : u[j] = IF j < h THEN l[j] ELSE l[j + 1]
    BY RemoveAtProperties, LenProperties
  <2> HIDE DEF u, m
  <2>2. \A j \in 1..(m - 1) : At(j) \in DOMAIN l /\ u[j] = l[At(j)]
    BY <2>1
  <2>3. \A a, b \in 1..(m - 1) : At(a) < At(b) => a < b
    BY <2>1
  <2> HIDE DEF At
  <2> SUFFICES ASSUME NEW i \in DOMAIN q, NEW j \in DOMAIN q, NEW a \in DOMAIN u, NEW b \in DOMAIN u,
                      u[a] = q[i], u[b] = q[j], i < j
               PROVE  a < b
    BY DEF SameOrder, u
  <2>4. l[At(a)] = q[i] /\ l[At(b)] = q[j] /\ At(a) \in DOMAIN l /\ At(b) \in DOMAIN l
    BY <2>1, <2>2
  <2>5. At(a) < At(b)
    BY <2>4 DEF SameOrder
  <2> QED BY <2>1, <2>3, <2>5
<1> QED BY <1>1, <1>2

LEMMA FirstRemovalKeepsOrder ==
    ASSUME NEW q \in Seq(Requests), NEW l \in Seq(Requests), NEW r, SameOrder(q, l)
    PROVE  SameOrder(RemoveFirst(q, r), l) /\ SameOrder(q, RemoveFirst(l, r))
BY RemoveFirstCases, RemovalKeepsOrder

LEMMA JoiningKeepsOrder ==
    ASSUME NEW q \in Seq(Requests), NEW l \in Seq(Requests), NEW r \in Requests,
           SameOrder(q, l), r \notin Range(q), r \notin Range(l)
    PROVE  SameOrder(q, Append(l, r)) /\ SameOrder(Append(q, r), Append(l, r))
<1> DEFINE u == Append(q, r)
           v == Append(l, r)
           m == Len(q)
           n == Len(l)
<1>1. /\ m \in Nat /\ n \in Nat /\ DOMAIN q = 1..m /\ DOMAIN l = 1..n
      /\ DOMAIN u = 1..(m + 1) /\ DOMAIN v = 1..(n + 1)
      /\ \A j \in 1..m : u[j] = q[j]
      /\ \A b \in 1..n : v[b] = l[b]
      /\ u[m + 1] = r /\ v[n + 1] = r
  BY AppendProperties, LenProperties
<1>2. (\A j \in DOMAIN q : q[j] # r) /\ (\A b \in DOMAIN l : l[b] # r)
  BY DEF Range
<1> HIDE DEF u, v, m, n
<1>3. \A j \in 1..m : \A b \in 1..(n + 1) : v[b] = q[j] => b \in 1..n /\ l[b] = q[j]
  BY <1>1, <1>2
<1>4. SameOrder(q, v)
  <2> SUFFICES ASSUME NEW i \in 1..m, NEW j \in 1..m, NEW a \in 1..(n + 1), NEW b \in 1..(n + 1),
                      v[a] = q[i], v[b] = q[j], i < j
               PROVE  a < b
    BY <1>1 DEF SameOrder
  <2>1. a \in DOMAIN l /\ l[a] = q[i] /\ b \in DOMAIN l /\ l[b] = q[j]
    BY <1>1, <1>3
  <2> QED BY <1>1, <2>1 DEF SameOrder
<1>5. SameOrder(u, v)
  <2> SUFFICES ASSUME NEW i \in 1..(m + 1), NEW j \in 1..(m + 1),
                      NEW a \in 1..(n + 1), NEW b \in 1..(n + 1),
                      v[a] = u[i], v[b] = u[j], i < j
               PROVE  a < b
    BY <1>1 DEF SameOrder
  <2>1. i \in 1..m /\ u[i] = q[i]
    BY <1>1
  <2>2. a \in 1..n
    BY <1>3, <2>1
  <2>3. CASE j = m + 1
    <3>1. b = n + 1
      <4>1. v[b] = r
        BY <1>1, <2>3
      <4>2. ~(b \in 1..n)
        BY <1>1, <1>2, <4>1
      <4> QED BY <1>1, <4>2
    <3> QED BY <1>1, <2>2, <3>1
  <2>4. CASE j # m + 1
    <3>1. j \in 1..m /\ u[j] = q[j]
      BY <1>1, <2>4
    <3> QED BY <1>1, <1>4, <2>1, <3>1 DEF SameOrder
  <2> QED BY <2>3, <2>4
<1> QED BY <1>4, <1>5 DEF u, v

LockOrder == SameOrder(pending, lockq)

LEMMA LockOrderStep ==
    ASSUME TypeOK, LockInv, EntriesInv, LockOrder, [Next]_vars
    PROVE  LockOrder'
<1>0. pending \in Seq(Requests) /\ lockq \in Seq(Requests) /\ SameOrder(pending, lockq)
  BY DEF TypeOK, LockOrder
<1>1. ASSUME UNCHANGED <<pending, lockq>>
      PROVE  LockOrder'
  BY <1>0, <1>1 DEF LockOrder
<1>2. ASSUME FailPending
      PROVE  LockOrder'
  BY <1>2 DEF FailPending, LockOrder, SameOrder
<1>3. ASSUME NEW r \in Requests, SendRequest(r) \/ Restart(r)
      PROVE  LockOrder'
  <2>1. call[r] = "idle" /\ r \notin Range(pending) /\ r \notin Range(lockq)
    BY <1>3 DEF SendRequest, Restart, EntriesInv, LockInv, AtLock
  <2>2. \/ lockq' = Append(lockq, r) /\ pending' \in {pending, Append(pending, r)}
        \/ UNCHANGED <<pending, lockq>>
    BY <1>3 DEF SendRequest, Restart, EnterLock
  <2> QED BY <1>0, <2>1, <2>2, JoiningKeepsOrder DEF LockOrder
<1>4. ASSUME NEW r \in Requests, CallStep(r) \/ CancelSend(r) \/ Expire(r)
      PROVE  LockOrder'
  <2>1. pending' \in {pending, RemoveFirst(pending, r)} /\ lockq' \in {lockq, RemoveFirst(lockq, r)}
    BY <1>4 DEF CallStep, Acquire, WriteFrame, SendReturns, SendFails, SendRaises, WaitReturns,
                CancelSend, Expire
  <2>2. RemoveFirst(pending, r) \in Seq(Requests)
    BY <1>0, RemoveFirstProperties
  <2> QED BY <1>0, <2>1, <2>2, FirstRemovalKeepsOrder DEF LockOrder
<1>5. ASSUME NEW t \in Tasks, Leave(t) \/ TaskStep(t) \/ CancelTask(t)
      PROVE  LockOrder'
  BY <1>1, <1>2, <1>5 DEF Leave, Close, TaskStep, ReaderAwaited, SocketClosed, CancelTask
<1>6. CASE Connect \/ SocketOpened \/ Registered \/ ConnectFails
  BY <1>1, <1>2, <1>6 DEF Connect, SocketOpened, Registered, ConnectFails, Close
<1>7. CASE ReaderStarts \/ ReaderStops
  BY <1>1, <1>2, <1>7 DEF ReaderStarts, ReaderStops, ReaderFails
<1>8. CASE ReaderReceives
  <2> DEFINE m == Head(inbound)
  <2>1. CASE RouteResponse(m)
    <3>1. PICK i \in DOMAIN pending : pending' = RemoveAt(pending, i) /\ UNCHANGED lockq
      BY <2>1 DEF RouteResponse
    <3>2. i \in 1..Len(pending)
      BY <1>0, LenProperties
    <3> QED BY <1>0, <3>1, <3>2, RemovalKeepsOrder DEF LockOrder
  <2>2. CASE KeepEvent(m)
    BY <1>1, <2>2 DEF KeepEvent
  <2> QED BY <1>8, <2>1, <2>2 DEF ReaderReceives
<1>9. ASSUME NEW l \in Listeners, AwaitEvent(l) \/ NextEvent(l)
      PROVE  LockOrder'
  BY <1>1, <1>9 DEF AwaitEvent, NextEvent
<1>10. CASE DeviceRegisters \/ DeviceAnswers \/ DevicePushes \/ ConnectionLost
  BY <1>1, <1>10 DEF DeviceRegisters, DeviceAnswers, DevicePushes, ConnectionLost
<1>11. CASE UNCHANGED vars
  BY <1>1, <1>11 DEF vars
<1> QED
  BY <1>3, <1>4, <1>5, <1>6, <1>7, <1>8, <1>9, <1>10, <1>11 DEF Next, ReaderStep

-----------------------------------------------------------------------------
(* There is one socket: whoever is inside send() is inside its send(). *)

SendOnInv == \A r \in Requests : call[r] \in {"sending", "sent"} => sendOn[r] = gen /\ gen # 0

LEMMA SendOnStep ==
    ASSUME MaxConnects <= 1, TypeOK, LifeInv, SendOnInv, [Next]_vars
    PROVE  SendOnInv'
<1>1. ASSUME NEW r \in Requests, NEW where, Step(r, where), UNCHANGED gen,
             \/ where \notin {"sending", "sent"} /\ UNCHANGED sendOn
             \/ where = "sent" /\ call[r] = "sending" /\ UNCHANGED sendOn
             \/ where = "sending" /\ ws # 0 /\ sendOn' = [sendOn EXCEPT ![r] = ws]
      PROVE  SendOnInv'
  <2>1. ws # 0 => ws = gen /\ gen # 0
    BY DEF TypeOK, LifeInv
  <2>2. \A q \in Requests : q # r => call'[q] = call[q] /\ sendOn'[q] = sendOn[q]
    BY <1>1 DEF TypeOK, Step
  <2>3. call'[r] = where
    BY <1>1 DEF TypeOK, Step
  <2>4. where \in {"sending", "sent"} => sendOn'[r] = gen /\ gen # 0
    BY <1>1, <2>1 DEF TypeOK, SendOnInv
  <2> QED BY <1>1, <2>2, <2>3, <2>4 DEF SendOnInv
<1>2. ASSUME NEW r \in Requests, SendRequest(r) \/ Restart(r)
      PROVE  SendOnInv'
  BY <1>1, <1>2 DEF SendRequest, Restart, EnterLock, Connected
<1>3. ASSUME NEW r \in Requests, CallStep(r)
      PROVE  SendOnInv'
  BY <1>1, <1>3 DEF CallStep, Acquire, WriteFrame, SendReturns, SendFails, SendRaises, WaitReturns
<1>4. ASSUME NEW r \in Requests, CancelSend(r) \/ Expire(r)
      PROVE  SendOnInv'
  BY <1>1, <1>4 DEF CancelSend, Expire
<1>5. ASSUME UNCHANGED <<call, sendOn, gen>>
      PROVE  SendOnInv'
  BY <1>5 DEF SendOnInv
<1>6. ASSUME NEW t \in Tasks, Leave(t) \/ TaskStep(t) \/ CancelTask(t)
      PROVE  SendOnInv'
  BY <1>5, <1>6 DEF Leave, Close, FailPending, CloseSocket, TaskStep, ReaderAwaited, SocketClosed,
                    CancelTask
<1>7. CASE Connect
  BY <1>7 DEF Connect, SendOnInv, TypeOK
<1>8. CASE SocketOpened \/ Registered \/ ConnectFails
  BY <1>5, <1>8 DEF SocketOpened, Registered, ConnectFails, Close, FailPending, CloseSocket
<1>9. CASE ReaderStep
  BY <1>5, <1>9 DEF ReaderStep, ReaderStarts, ReaderReceives, RouteResponse, KeepEvent,
                    ReaderStops, ReaderFails, FailPending
<1>10. ASSUME NEW l \in Listeners, AwaitEvent(l) \/ NextEvent(l)
       PROVE  SendOnInv'
  BY <1>5, <1>10 DEF AwaitEvent, NextEvent
<1>11. CASE DeviceRegisters \/ DeviceAnswers \/ DevicePushes \/ ConnectionLost
  BY <1>5, <1>11 DEF DeviceRegisters, DeviceAnswers, DevicePushes, ConnectionLost
<1>12. CASE UNCHANGED vars
  BY <1>5, <1>12 DEF vars
<1> QED
  BY <1>2, <1>3, <1>4, <1>6, <1>7, <1>8, <1>9, <1>10, <1>11, <1>12 DEF Next

\* The one socket opens before connect() returns; after that it can only shut.
LEMMA ShutStaysShut ==
    ASSUME MaxConnects <= 1, TypeOK, LifeInv, [Next]_vars, ~Early
    PROVE  ~Early' /\ UNCHANGED gen /\ (IsOpen(gen)' => IsOpen(gen))
<1>1. ~Early'
  BY LifeStep
<1>2. ASSUME UNCHANGED <<gen, sock>>
      PROVE  UNCHANGED gen /\ (IsOpen(gen)' => IsOpen(gen))
  BY <1>2 DEF IsOpen
<1>3. ASSUME NEW r \in Requests,
             SendRequest(r) \/ Restart(r) \/ CallStep(r) \/ CancelSend(r) \/ Expire(r)
      PROVE  UNCHANGED gen /\ (IsOpen(gen)' => IsOpen(gen))
  BY <1>2, <1>3 DEF SendRequest, Restart, CallStep, Acquire, WriteFrame, SendReturns, SendFails,
                    WaitReturns, CancelSend, Expire
<1>4. ASSUME NEW t \in Tasks, Close(t) \/ TaskStep(t) \/ CancelTask(t)
      PROVE  UNCHANGED gen /\ (IsOpen(gen)' => IsOpen(gen))
  <2>1. UNCHANGED gen /\ (sock' = sock \/ sock' = [sock EXCEPT ![ws] = "shut"])
    BY <1>4 DEF Close, CloseSocket, TaskStep, ReaderAwaited, SocketClosed, CancelTask
  <2> QED BY <2>1 DEF TypeOK, IsOpen
<1>5. CASE Connect \/ SocketOpened
  BY <1>5 DEF Connect, SocketOpened, Early, TypeOK
<1>6. CASE Registered
  BY <1>1, <1>2, <1>6 DEF Registered
<1>7. CASE ReaderStep
  BY <1>1, <1>2, <1>7 DEF ReaderStep, ReaderStarts, ReaderReceives, ReaderStops, ReaderFails
<1>8. ASSUME NEW l \in Listeners, AwaitEvent(l) \/ NextEvent(l)
      PROVE  UNCHANGED gen /\ (IsOpen(gen)' => IsOpen(gen))
  BY <1>2, <1>8 DEF AwaitEvent, NextEvent
<1>9. CASE DeviceRegisters \/ ConnectionLost
  BY <1>1, <1>9 DEF DeviceRegisters, ConnectionLost, TypeOK, IsOpen
<1>10. CASE DeviceAnswers \/ DevicePushes
  BY <1>1, <1>2, <1>10 DEF DeviceAnswers, DevicePushes
<1>11. CASE UNCHANGED vars
  BY <1>1, <1>2, <1>11 DEF vars
<1> QED
  BY <1>1, <1>3, <1>4, <1>5, <1>6, <1>7, <1>8, <1>9, <1>10, <1>11
  DEF Next, Leave, ConnectFails

-----------------------------------------------------------------------------
(***************************************************************************)
(* The order of self._pending, of the lock and of the pipe, while a reader *)
(* reads; and whose response each call holds.                              *)
(***************************************************************************)
Sent == {r \in Calls : call[r] \in {"sent", "waiting"}}
Waiting == {r \in Calls : call[r] = "waiting"}
Unsent == {r \in Calls : call[r] \in {"locking", "sending"}}
Reading == reader \in {"start", "recv"}

Aligned ==
    /\ InTurn(pending, Sent, Waiting)
    /\ InFront(Pipe(inbound, due), pending, Sent)
    /\ IsOpen(gen) => Accounted(Pipe(inbound, due), pending, Sent)

OrderInv == Reading => Aligned

HolderInv ==
    /\ \A r \in Range(pending) : future[r] = "open"
    /\ \A r \in Calls :
         /\ call[r] = "idle" => future[r] = "open"
         /\ r \in Sent \/ call[r] = "answered" => future[r] \in {r} \cup Outcome
         /\ r \in Unsent /\ future[r] \in Requests => ~Early /\ ~IsOpen(gen)
         /\ r \in Unsent /\ Reading => future[r] \in {"open"} \cup Requests
         /\ call[r] # "expired"
    /\ \A r \in OneWay : call[r] \notin {"waiting", "expired", "answered"}

\* What is known of the session already.
Ground ==
    /\ TypeOK /\ ResponseInv /\ LockInv /\ EntriesInv /\ NobodyForgotten /\ NoPendingWithoutReader
    /\ LifeInv /\ QuietInv /\ LockOrder /\ SendOnInv

\* A response that is read belongs to the first entry, or to nobody on the list:
\* then the socket is shut, and no frame of an entry is out or ever will be.
LEMMA RoutedRight ==
    ASSUME Orderly, Ground, OrderInv, reader = "recv", inbound # <<>>,
           Head(inbound).type = "response"
    PROVE  LET m == Head(inbound)
           IN  \/ /\ 1 \in DOMAIN pending /\ pending[1] = m.of /\ Hit(m, pending[1])
                  /\ pending[1] \in Sent
               \/ ~IsOpen(gen) /\ \A j \in DOMAIN pending : pending[j] \notin Sent
<1> DEFINE m == Head(inbound)
           p == Pipe(inbound, due)
           n == Len(inbound) + Len(due)
<1>1. pending \in Seq(Requests) /\ inbound \in Seq(Message) /\ due \in Seq(Requests) /\ TypeOK
  BY DEF Ground, TypeOK
<1>2. n \in Nat /\ n # 0 /\ DOMAIN p = 1..n /\ p[1] = m.of
  <2>1. n # 0 /\ p[1] = Asked(m)
    BY <1>1, PipeRead
  <2> QED BY <1>1, <2>1, PipeDomain DEF Asked
<1>3. m = inbound[1] /\ 1 \in DOMAIN inbound
  BY <1>1, TailRange
<1>4. m.of \in Calls /\ m.of # Nobody /\ m.echo \in Matches[m.of]
  <2>1. Fresh(m.of) /\ m.echo \in EchoOf[m.of]
    BY <1>3 DEF Ground, ResponseInv, InboundInv
  <2>2. m.of \in Calls
    BY <2>1 DEF Fresh, Calls
  <2>3. m.of # Nobody
    BY <2>2, RequestsAssumption DEF Calls, Nobody, Outcome
  <2> QED BY <2>1, <2>2, <2>3 DEF Orderly
<1>5. InTurn(pending, Sent, Waiting) /\ InFront(p, pending, Sent)
      /\ (IsOpen(gen) => Accounted(p, pending, Sent))
  BY DEF OrderInv, Aligned, Reading
<1>6. \A j \in DOMAIN pending : j \in Nat /\ 1 <= j
  BY <1>1, LenProperties
<1> HIDE DEF m, p, n
<1>7. CASE 1 \in DOMAIN pending /\ pending[1] \in Sent
  <2>1. PICK k \in DOMAIN p :
            /\ p[k] = pending[1]
            /\ \A l \in 1..(k - 1) : p[l] = Nobody \/ \E i \in 1..(1 - 1) : p[l] = pending[i]
    BY <1>5, <1>7, Zenon DEF InFront
  <2>2. \A l \in 1..(k - 1) : p[l] = Nobody
    BY <2>1
  <2>3. k = 1
    <3>1. k \in 1..n
      BY <1>2, <2>1
    <3>2. 1 \notin 1..(k - 1)
      BY <1>2, <1>4, <2>2
    <3> QED BY <1>2, <3>1, <3>2
  <2>4. pending[1] = m.of
    BY <1>2, <2>1, <2>3
  <2> QED BY <1>4, <1>7, <2>4 DEF Hit, m
<1>8. CASE ~(1 \in DOMAIN pending /\ pending[1] \in Sent)
  <2>1. \A j \in DOMAIN pending : pending[j] \notin Sent
    <3> SUFFICES ASSUME NEW j \in DOMAIN pending, pending[j] \in Sent
                 PROVE  FALSE
      OBVIOUS
    <3>1. 1 \in DOMAIN pending
      BY <1>1, <1>6, LenProperties
    <3>2. 1 < j
      <4>1. j # 1
        BY <1>8, <3>1
      <4> QED BY <1>6, <4>1
    <3>3. pending[1] \in Waiting
      BY <1>5, <3>1, <3>2 DEF InTurn
    <3> QED BY <1>8, <3>1, <3>3 DEF Waiting, Sent
  <2>2. ~IsOpen(gen)
    <3> SUFFICES ASSUME IsOpen(gen)
                 PROVE  FALSE
      OBVIOUS
    <3>1. 1 \in DOMAIN p /\ p[1] # Nobody
      BY <1>2, <1>4
    <3>2. PICK j \in DOMAIN pending : pending[j] = p[1] /\ p[1] \in Sent
      BY <1>5, <3>1 DEF Accounted
    <3> QED BY <2>1, <3>2
  <2> QED BY <2>1, <2>2
<1> QED BY <1>7, <1>8 DEF m

-----------------------------------------------------------------------------
(* Whose response each call holds. *)

\* The futures do not change.
LEMMA FuturesStay ==
    ASSUME Orderly, Ground, HolderInv, [Next]_vars, UNCHANGED future,
           Range(pending') \subseteq Range(pending) \cup {r \in Requests : call[r] = "idle"},
           \A r \in Requests : call'[r] = call[r]
              \/ \E where \in {"locking", "sending", "sent", "waiting", "answered", "failed", "posted"} :
                    /\ call'[r] = where
                    /\ r \in OneWay => where \notin {"waiting", "answered"}
                    /\ where \in {"waiting", "answered"} => r \in Sent
                    /\ where = "sent" => call[r] = "sending" /\ IsOpen(gen)
                    /\ where \in {"locking", "sending"} => call[r] \in {"idle", "locking"},
           Reading' => Reading \/ Early
    PROVE  HolderInv'
<1>1. /\ MaxConnects <= 1 /\ TypeOK /\ LifeInv /\ EntriesInv
      /\ Early => \A r \in Calls : call'[r] \in {"idle", "failed"}
  BY QuietStaysQuiet DEF Orderly, Ground
<1>2. ~Early => ~Early' /\ (IsOpen(gen)' => IsOpen(gen))
  BY <1>1, ShutStaysShut
<1>3. Range(pending) \subseteq Calls
  BY <1>1 DEF EntriesInv, Calls
<1>4. ASSUME NEW r \in Range(pending')
      PROVE  future'[r] = "open"
  <2>1. CASE r \in Range(pending)
    BY <2>1 DEF HolderInv
  <2>2. CASE r \in Requests /\ call[r] = "idle"
    <3>1. r \in Calls
      <4>1. Range(pending') \subseteq Calls
        BY <1>1, EntriesStep DEF Ground, EntriesInv, Calls
      <4> QED BY <4>1
    <3> QED BY <2>2, <3>1 DEF HolderInv
  <2> QED BY <2>1, <2>2
<1>5. ASSUME NEW r \in Calls
      PROVE  /\ call'[r] = "idle" => future'[r] = "open"
             /\ (r \in Sent \/ call[r] = "answered")' => future'[r] \in {r} \cup Outcome
             /\ (r \in Unsent /\ future[r] \in Requests)' => ~Early' /\ ~IsOpen(gen)'
             /\ (r \in Unsent /\ Reading)' => future'[r] \in {"open"} \cup Requests
             /\ call'[r] # "expired"
  <2>0. /\ call[r] = "idle" => future[r] = "open"
        /\ r \in Sent \/ call[r] = "answered" => future[r] \in {r} \cup Outcome
        /\ r \in Unsent /\ future[r] \in Requests => ~Early /\ ~IsOpen(gen)
        /\ r \in Unsent /\ Reading => future[r] \in {"open"} \cup Requests
        /\ call[r] # "expired" /\ r \in Requests /\ r \notin OneWay
    BY DEF HolderInv, Calls
  <2>1. future[r] \in Requests \cup Outcome
    BY <1>1, <2>0 DEF TypeOK
  <2>2. "open" \notin Requests /\ "open" \in Outcome
    BY RequestsAssumption DEF Outcome
  <2>3. CASE call'[r] = call[r]
    <3>1. (r \in Sent)' <=> r \in Sent
      BY <2>3 DEF Sent
    <3>2. (r \in Unsent)' <=> r \in Unsent
      BY <2>3 DEF Unsent
    <3>3. r \in Unsent => ~Early
      BY <1>1, <2>3 DEF Unsent
    <3> QED BY <1>2, <2>0, <2>3, <3>1, <3>2, <3>3
  <2>4. CASE call'[r] = "sent" /\ call[r] = "sending" /\ IsOpen(gen)
    <3>1. r \in Unsent
      BY <2>4 DEF Unsent
    <3>2. future[r] \in Outcome
      BY <2>0, <2>1, <2>4, <3>1
    <3> QED BY <2>4, <3>2 DEF Unsent
  <2>5. CASE call'[r] \in {"waiting", "answered"} /\ r \in Sent
    BY <2>0, <2>5 DEF Unsent
  <2>6. CASE call'[r] \in {"locking", "sending"} /\ call[r] \in {"idle", "locking"}
    <3>1. ~Early
      BY <1>1, <2>6
    <3>2. CASE call[r] = "idle"
      BY <2>0, <2>2, <2>6, <3>2 DEF Sent
    <3>3. CASE call[r] = "locking"
      <4>1. r \in Unsent
        BY <3>3 DEF Unsent
      <4> QED BY <1>2, <2>0, <2>6, <3>1, <4>1 DEF Sent
    <3> QED BY <2>6, <3>2, <3>3
  <2>7. CASE call'[r] \in {"failed", "posted"}
    BY <2>7 DEF Sent, Unsent
  <2> QED BY <2>0, <2>3, <2>4, <2>5, <2>6, <2>7
<1>6. \A r \in OneWay : call'[r] \notin {"waiting", "expired", "answered"}
  BY RequestsAssumption DEF HolderInv
<1> QED BY <1>4, <1>5, <1>6 DEF HolderInv

\* The steps of a call.
LEMMA CallKeepsHolder ==
    ASSUME Orderly, Ground, HolderInv, [Next]_vars, NEW r \in Requests,
           SendRequest(r) \/ Restart(r) \/ CallStep(r) \/ CancelSend(r) \/ Expire(r)
    PROVE  HolderInv'
<1>1. /\ TypeOK /\ EntriesInv /\ (call[r] = "expired" => FALSE) /\ MaxConnects <= 1
      /\ r \in OneWay => call[r] # "waiting"
  BY DEF Ground, HolderInv, Calls, Orderly
<1>2. ~Expire(r)
  BY <1>1 DEF Expire, Orderly, CallersStay, Calls
<1>3. UNCHANGED <<future, reader>>
  BY <1>2 DEF SendRequest, Restart, CallStep, Acquire, WriteFrame, SendReturns, SendFails,
              WaitReturns, CancelSend
<1>4. Range(pending') \subseteq Range(pending) \cup {q \in Requests : call[q] = "idle"}
  <2>1. \/ pending' = pending
        \/ pending' = RemoveFirst(pending, r)
        \/ pending' = Append(pending, r) /\ call[r] = "idle"
    BY <1>2 DEF SendRequest, Restart, CallStep, Acquire, WriteFrame, SendReturns, SendFails,
                SendRaises, WaitReturns, CancelSend
  <2>2. Range(RemoveFirst(pending, r)) \subseteq Range(pending)
    BY <1>1, RemoveFirstProperties DEF TypeOK
  <2>3. Range(Append(pending, r)) = Range(pending) \cup {r}
    BY <1>1, AppendRange DEF TypeOK
  <2> QED BY <2>1, <2>2, <2>3
<1> DEFINE Allowed(where) ==
              /\ where \in {"locking", "sending", "sent", "waiting", "answered", "failed", "posted"}
              /\ r \in OneWay => where \notin {"waiting", "answered"}
              /\ where \in {"waiting", "answered"} => r \in Sent
              /\ where = "sent" => call[r] = "sending" /\ IsOpen(gen)
              /\ where \in {"locking", "sending"} => call[r] \in {"idle", "locking"}
<1>5. \E where : Step(r, where) /\ Allowed(where)
  <2>1. CASE SendRequest(r) \/ Restart(r)
    BY <2>1 DEF SendRequest, Restart, EnterLock
  <2>2. CASE Acquire(r) \/ SendFails(r) \/ CancelSend(r)
    BY <2>2 DEF Acquire, SendFails, SendRaises, CancelSend
  <2>3. CASE WriteFrame(r)
    <3>1. sendOn[r] = gen
      BY <2>3 DEF WriteFrame, Ground, SendOnInv
    <3> QED BY <2>3, <3>1 DEF WriteFrame
  <2>4. CASE SendReturns(r)
    BY <2>4 DEF SendReturns, Sent, Calls
  <2>5. CASE WaitReturns(r)
    <3>1. call[r] = "waiting" /\ r \in Sent
      BY <1>1, <2>5 DEF WaitReturns, Sent, Calls
    <3> QED BY <1>1, <2>5, <3>1 DEF WaitReturns
  <2> QED BY <1>2, <2>1, <2>2, <2>3, <2>4, <2>5 DEF CallStep
<1>6. PICK where : Step(r, where) /\ Allowed(where)
  BY <1>5
<1>7. call'[r] = where /\ \A q \in Requests : q # r => call'[q] = call[q]
  BY <1>1, <1>6 DEF TypeOK, Step
<1>8. Reading' <=> Reading
  BY <1>3 DEF Reading
<1> QED BY <1>3, <1>4, <1>6, <1>7, <1>8, FuturesStay

\* Failing every entry, as close() and a dying reader do.
LEMMA FailKeepsHolder ==
    ASSUME Orderly, Ground, HolderInv, [Next]_vars, FailPending, reader' \in {"none", "ended"}
    PROVE  HolderInv'
<1>1. TypeOK /\ LifeInv /\ EntriesInv /\ MaxConnects <= 1 /\ QuietInv
  BY DEF Ground, Orderly
<1>2. UNCHANGED call /\ pending' = <<>> /\ Range(pending') = {} /\ ~Reading'
  BY DEF FailPending, Range, Reading
<1>3. \A r \in Requests : future'[r] = future[r] \/ (future'[r] = "failed" /\ r \in Range(pending))
  BY DEF FailPending
<1>4. ASSUME NEW r \in Calls
      PROVE  /\ call'[r] = "idle" => future'[r] = "open"
             /\ (r \in Sent \/ call[r] = "answered")' => future'[r] \in {r} \cup Outcome
             /\ (r \in Unsent /\ future[r] \in Requests)' => ~Early' /\ ~IsOpen(gen)'
             /\ call'[r] # "expired"
  <2>1. r \in Requests /\ "failed" \in Outcome /\ "failed" \notin Requests
    BY RequestsAssumption DEF Calls, Outcome
  <2>2. r \in Range(pending) => call[r] # "idle"
    BY <1>1 DEF EntriesInv
  <2>3. ((r \in Sent)' <=> r \in Sent) /\ ((r \in Unsent)' <=> r \in Unsent)
    BY <1>2 DEF Sent, Unsent
  <2>4. ~Early /\ ~IsOpen(gen) => ~Early' /\ ~IsOpen(gen)'
    BY <1>1, ShutStaysShut
  <2>5. /\ call[r] = "idle" => future[r] = "open"
        /\ r \in Sent \/ call[r] = "answered" => future[r] \in {r} \cup Outcome
        /\ r \in Unsent /\ future[r] \in Requests => ~Early /\ ~IsOpen(gen)
        /\ call[r] # "expired"
    BY DEF HolderInv
  <2> QED BY <1>2, <1>3, <2>1, <2>2, <2>3, <2>4, <2>5
<1>5. \A r \in OneWay : call'[r] \notin {"waiting", "expired", "answered"}
  BY <1>2 DEF HolderInv
<1> QED BY <1>2, <1>4, <1>5 DEF HolderInv

\* The response goes to the call it belongs to, or to one that can only fail.
LEMMA RouteKeepsHolder ==
    ASSUME Orderly, Ground, HolderInv, OrderInv, [Next]_vars, ReaderReceives,
           RouteResponse(Head(inbound))
    PROVE  HolderInv'
<1> DEFINE m == Head(inbound)
<1>1. TypeOK /\ LifeInv /\ EntriesInv /\ MaxConnects <= 1 /\ QuietInv
  BY DEF Ground, Orderly
<1>2. PICK i \in DOMAIN pending :
          /\ Hit(m, pending[i])
          /\ \A j \in 1..(i - 1) : ~Hit(m, pending[j])
          /\ pending' = RemoveAt(pending, i)
          /\ future' = [future EXCEPT ![pending[i]] = IF @ = "open" THEN m.of ELSE @]
          /\ UNCHANGED call
  BY DEF RouteResponse
<1>3. i \in 1..Len(pending) /\ DOMAIN pending = 1..Len(pending) /\ Len(pending) \in Nat
  BY <1>1, LenProperties DEF TypeOK
<1>4. pending[i] \in Range(pending)
  BY <1>2 DEF Range
<1>5. pending[i] \in Calls /\ future[pending[i]] = "open" /\ pending[i] \in Sent \cup Unsent
  <2>1. pending[i] \in Calls /\ call[pending[i]] # "idle" /\ ~Ended(pending[i])
    BY <1>1, <1>4 DEF EntriesInv, Orderly, Calls
  <2>2. future[pending[i]] = "open" /\ call[pending[i]] # "expired"
    BY <1>4, <2>1 DEF HolderInv
  <2>3. call[pending[i]] \in CallState
    BY <1>1, <2>1 DEF TypeOK, Calls
  <2> QED BY <2>1, <2>2, <2>3 DEF Ended, CallState, Sent, Unsent
<1>6. m.of \in Calls
  <2>1. m = inbound[1] /\ 1 \in DOMAIN inbound
    BY <1>1, TailRange DEF TypeOK, ReaderReceives
  <2>2. Fresh(m.of)
    BY <1>2, <2>1 DEF Ground, ResponseInv, InboundInv, Hit
  <2> QED BY <2>2 DEF Fresh, Calls
<1>7. /\ IsInjective(pending) => pending[i] \notin Range(pending')
      /\ Range(pending') \subseteq Range(pending)
  BY <1>1, <1>2, <1>3, RemoveAtRange DEF TypeOK
<1>8. /\ future'[pending[i]] = m.of
      /\ \A r \in Requests : r # pending[i] => future'[r] = future[r]
  BY <1>1, <1>2, <1>5 DEF TypeOK, Calls
<1>9. ~Early /\ ~Early' /\ (IsOpen(gen)' => IsOpen(gen))
  <2>1. ~Early
    BY <1>1 DEF ReaderReceives, LifeInv, Early
  <2> QED BY <1>1, <2>1, ShutStaysShut
<1>10. (pending[i] = m.of /\ pending[i] \in Sent) \/ (pending[i] \in Unsent /\ ~IsOpen(gen))
  <2>1. \/ /\ 1 \in DOMAIN pending /\ pending[1] = m.of /\ Hit(m, pending[1])
           /\ pending[1] \in Sent
        \/ ~IsOpen(gen) /\ \A j \in DOMAIN pending : pending[j] \notin Sent
    BY <1>2, RoutedRight DEF ReaderReceives, Hit
  <2>2. Hit(m, pending[1]) => i = 1
    <3>1. i # 1 => 1 \in 1..(i - 1)
      BY <1>3
    <3> QED BY <1>2, <3>1
  <2> QED BY <1>2, <1>5, <2>1, <2>2
<1>11. (\A r \in Requests : (r \in Sent)' <=> r \in Sent)
       /\ (\A r \in Requests : (r \in Unsent)' <=> r \in Unsent)
  BY <1>2 DEF Sent, Unsent
<1>12. reader = "recv" /\ Reading
  BY DEF ReaderReceives, Reading
<1>13. Sent \cap Unsent = {}
  BY DEF Sent, Unsent
<1> HIDE DEF m
<1>14. ASSUME NEW r \in Calls
       PROVE  /\ call'[r] = "idle" => future'[r] = "open"
              /\ (r \in Sent \/ call[r] = "answered")' => future'[r] \in {r} \cup Outcome
              /\ (r \in Unsent /\ future[r] \in Requests)' => ~Early' /\ ~IsOpen(gen)'
              /\ (r \in Unsent /\ Reading)' => future'[r] \in {"open"} \cup Requests
              /\ call'[r] # "expired"
  <2>1. /\ call[r] = "idle" => future[r] = "open"
        /\ r \in Sent \/ call[r] = "answered" => future[r] \in {r} \cup Outcome
        /\ r \in Unsent /\ future[r] \in Requests => ~Early /\ ~IsOpen(gen)
        /\ r \in Unsent /\ Reading => future[r] \in {"open"} \cup Requests
        /\ call[r] # "expired" /\ r \in Requests
    BY DEF HolderInv, Calls
  <2>2. CASE r # pending[i]
    BY <1>2, <1>8, <1>9, <1>11, <1>12, <2>1, <2>2
  <2>3. CASE r = pending[i]
    <3>1. call[r] # "idle" /\ (r \in Sent \/ r \in Unsent) /\ call[r] # "answered"
      BY <1>5, <2>3 DEF Sent, Unsent
    <3>2. m.of \in Requests
      BY <1>6 DEF Calls
    <3> QED BY <1>2, <1>8, <1>9, <1>10, <1>11, <1>13, <2>1, <2>3, <3>1, <3>2
  <2> QED BY <2>2, <2>3
<1>15. \A r \in Range(pending') : future'[r] = "open"
  <2>1. \A r \in Range(pending') : r \in Range(pending) /\ r # pending[i] /\ r \in Requests
    BY <1>1, <1>7 DEF EntriesInv
  <2> QED BY <1>8, <2>1 DEF HolderInv
<1>16. \A r \in OneWay : call'[r] \notin {"waiting", "expired", "answered"}
  BY <1>2 DEF HolderInv
<1> QED BY <1>14, <1>15, <1>16 DEF HolderInv

LEMMA HolderStep ==
    ASSUME Orderly, Ground, HolderInv, OrderInv, [Next]_vars
    PROVE  HolderInv'
<1>1. ASSUME UNCHANGED <<call, future, pending>>, Reading' => Reading \/ Early
      PROVE  HolderInv'
  BY <1>1, FuturesStay
<1>2. ASSUME NEW r \in Requests,
             SendRequest(r) \/ Restart(r) \/ CallStep(r) \/ CancelSend(r) \/ Expire(r)
      PROVE  HolderInv'
  BY <1>2, CallKeepsHolder
<1>3. ASSUME NEW t \in Tasks, Close(t)
      PROVE  HolderInv'
  BY <1>3, FailKeepsHolder DEF Close
<1>4. ASSUME NEW t \in Tasks, TaskStep(t) \/ CancelTask(t)
      PROVE  HolderInv'
  BY <1>1, <1>4 DEF TaskStep, ReaderAwaited, SocketClosed, CancelTask, Reading
<1>5. CASE Connect \/ SocketOpened \/ Registered
  BY <1>1, <1>5 DEF Connect, SocketOpened, Registered, Reading, Early
<1>6. CASE ReaderStarts
  BY <1>1, <1>6 DEF ReaderStarts, Reading
<1>7. CASE ReaderReceives
  <2>1. CASE RouteResponse(Head(inbound))
    BY <1>7, <2>1, RouteKeepsHolder
  <2>2. CASE KeepEvent(Head(inbound))
    BY <1>1, <1>7, <2>2 DEF ReaderReceives, KeepEvent, Reading
  <2> QED BY <1>7, <2>1, <2>2 DEF ReaderReceives
<1>8. CASE ReaderStops
  BY <1>8, FailKeepsHolder DEF ReaderStops, ReaderFails
<1>9. ASSUME NEW l \in Listeners, AwaitEvent(l) \/ NextEvent(l)
      PROVE  HolderInv'
  BY <1>1, <1>9 DEF AwaitEvent, NextEvent, Reading
<1>10. CASE DeviceRegisters \/ DeviceAnswers \/ DevicePushes \/ ConnectionLost
  BY <1>1, <1>10 DEF DeviceRegisters, DeviceAnswers, DevicePushes, ConnectionLost, Reading
<1>11. CASE UNCHANGED vars
  BY <1>1, <1>11 DEF vars, Reading
<1> QED
  BY <1>2, <1>3, <1>4, <1>5, <1>6, <1>7, <1>8, <1>9, <1>10, <1>11
  DEF Next, Leave, ConnectFails, ReaderStep

-----------------------------------------------------------------------------
(* The common order. *)

\* A call without an entry moves, or one with an entry moves up.
LEMMA MovingUp ==
    ASSUME TypeOK, Aligned, NEW r \in Requests, NEW where, Step(r, where),
           UNCHANGED <<pending, inbound, due, gen, sock>>,
           r \in Range(pending) => \/ where = "waiting" /\ call[r] = "sent"
                                   \/ where = "sending" /\ call[r] = "locking"
    PROVE  Aligned'
<1>1. call'[r] = where /\ \A q \in Requests : q # r => call'[q] = call[q]
  BY DEF TypeOK, Step
<1>2. ASSUME NEW j \in DOMAIN pending
      PROVE  /\ pending[j] \in Sent' <=> pending[j] \in Sent
             /\ pending[j] \in Waiting => pending[j] \in Waiting'
  <2>1. pending[j] \in Range(pending)
    BY DEF Range
  <2>2. CASE pending[j] = r
    BY <1>1, <2>1, <2>2 DEF Sent, Waiting
  <2>3. CASE pending[j] # r
    BY <1>1, <2>3 DEF Sent, Waiting, Calls
  <2> QED BY <2>2, <2>3
<1>3. /\ InTurn(pending, Sent', Waiting')
      /\ InFront(Pipe(inbound, due), pending, Sent')
      /\ IsOpen(gen) => Accounted(Pipe(inbound, due), pending, Sent')
  BY <1>2, OthersMove DEF Aligned
<1>4. Pipe(inbound, due)' = Pipe(inbound, due) /\ IsOpen(gen)' = IsOpen(gen)
  BY DEF Pipe, IsOpen
<1> QED BY <1>3, <1>4 DEF Aligned

\* "self._pending.remove(pending); raise"
LEMMA EntryLeaves ==
    ASSUME TypeOK, EntriesInv, Aligned, NEW r \in Requests, Step(r, "failed"),
           pending' = RemoveFirst(pending, r), UNCHANGED <<inbound, due, gen, sock>>,
           call[r] \in {"locking", "sending", "sent"}, call[r] = "sent" => ~IsOpen(gen)
    PROVE  Aligned'
<1>1. pending \in Seq(Requests) /\ DOMAIN pending = 1..Len(pending) /\ Len(pending) \in Nat
  BY LenProperties DEF TypeOK
<1>2. CASE pending' = pending /\ \A i \in 1..Len(pending) : pending[i] # r
  <2>1. r \notin Range(pending)
    BY <1>1, <1>2 DEF Range
  <2> QED BY <1>2, <2>1, MovingUp
<1>3. ASSUME NEW h \in 1..Len(pending), pending[h] = r, pending' = RemoveAt(pending, h)
      PROVE  Aligned'
  <2> DEFINE u == RemoveAt(pending, h)
             m == Len(pending)
             p == Pipe(inbound, due)
  <2>1. /\ m \in Nat /\ DOMAIN pending = 1..m /\ DOMAIN u = 1..(m - 1)
        /\ \A j \in 1..(m - 1) : u[j] = IF j < h THEN pending[j] ELSE pending[j + 1]
    BY <1>1, RemoveAtProperties, LenProperties
  <2>2. r \notin Waiting /\ (IsOpen(gen) => r \notin Sent)
    BY DEF Waiting, Sent
  <2>3. \A j \in DOMAIN u : u[j] # r
    <3>1. r \notin Range(u)
      BY <1>1, <1>3, RemoveAtRange DEF EntriesInv
    <3> QED BY <3>1 DEF Range
  <2>4. call'[r] = "failed" /\ \A q \in Requests : q # r => call'[q] = call[q]
    BY DEF TypeOK, Step
  <2> HIDE DEF u, m, p
  <2>5. /\ InTurn(u, Sent, Waiting) /\ InFront(p, u, Sent)
        /\ Accounted(p, pending, Sent) /\ r \notin Sent => Accounted(p, u, Sent)
    BY <1>3, <2>1, <2>2, EntryDropped DEF Aligned, p, m
  <2>6. \A j \in DOMAIN u : (u[j] \in Sent' <=> u[j] \in Sent) /\ (u[j] \in Waiting => u[j] \in Waiting')
    BY <2>3, <2>4 DEF Sent, Waiting, Calls
  <2>7. /\ InTurn(u, Sent', Waiting') /\ InFront(p, u, Sent')
        /\ IsOpen(gen) => Accounted(p, u, Sent')
    BY <2>2, <2>5, <2>6, OthersMove DEF Aligned, p
  <2>8. p' = p /\ IsOpen(gen)' = IsOpen(gen) /\ pending' = u
    BY <1>3 DEF p, u, Pipe, IsOpen
  <2> QED BY <2>7, <2>8 DEF Aligned, p
<1> QED BY <1>1, <1>2, <1>3, RemoveFirstCases

\* A frame goes out: it is the first that has not, for the list and the lock.
LEMMA WriteKeepsOrder ==
    ASSUME Orderly, Ground, HolderInv, Aligned, Reading, NEW r \in Requests, WriteFrame(r)
    PROVE  Aligned'
<1>1. /\ TypeOK /\ EntriesInv /\ pending \in Seq(Requests) /\ inbound \in Seq(Message)
      /\ due \in Seq(Requests) /\ lockq \in Seq(Requests)
  BY DEF Ground, TypeOK
<1>2. call[r] = "sending" /\ sendOn[r] = gen /\ IsOpen(gen)
  BY DEF WriteFrame, Ground, SendOnInv
<1>3. CASE r \in OneWay
  <2>1. r \notin Range(pending) /\ Step(r, "sent") /\ UNCHANGED <<pending, inbound, due, gen, sock>>
    BY <1>1, <1>3 DEF EntriesInv, WriteFrame
  <2> QED BY <1>1, <2>1, MovingUp
<1>4. CASE r \in Calls
  <2>1. r \in Range(pending)
    <3>1. r \in Unsent
      BY <1>2, <1>4 DEF Unsent
    <3>2. future[r] = "open"
      BY <1>2, <1>4, <3>1 DEF HolderInv
    <3> QED BY <1>2, <1>4, <3>2 DEF Ground, NobodyForgotten, Calls
  <2>2. PICK h \in DOMAIN pending : pending[h] = r
    BY <2>1 DEF Range
  <2> DEFINE m == Len(pending)
             p == Pipe(inbound, due)
             t == Pipe(inbound, Append(due, r))
             n == Len(inbound) + Len(due)
  <2>3. m \in Nat /\ DOMAIN pending = 1..m
    BY <1>1, LenProperties
  <2>4. /\ n \in Nat /\ DOMAIN p = 1..n
        /\ DOMAIN t = 1..(n + 1) /\ t[n + 1] = r /\ \A k \in 1..n : t[k] = p[k]
    BY <1>1, PipeWrite, PipeDomain
  <2>5. \A j \in DOMAIN pending : pending[j] = pending[h] => j = h
    BY <1>1 DEF EntriesInv, IsInjective
  <2>6. ASSUME NEW i \in 1..(h - 1)
        PROVE  pending[i] \in Waiting
    <3>1. i \in DOMAIN pending /\ i < h
      BY <2>2, <2>3
    <3>2. pending[i] \in Range(pending)
      BY <3>1 DEF Range
    <3>3. pending[i] \in Calls /\ call[pending[i]] # "idle" /\ ~Ended(pending[i])
      BY <1>1, <3>2 DEF EntriesInv, Orderly, Calls
    <3>4. call[pending[i]] # "expired" /\ call[pending[i]] \in CallState
      BY <1>1, <3>3 DEF HolderInv, TypeOK, Calls
    <3>5. CASE AtLock(pending[i])
      <4>1. pending[i] \in Range(lockq)
        BY <3>3, <3>5 DEF Ground, LockInv, Calls
      <4>2. PICK a \in DOMAIN lockq : lockq[a] = pending[i]
        BY <4>1 DEF Range
      <4>3. lockq # <<>> /\ Head(lockq) = r
        BY <1>2 DEF Ground, LockInv, OneSender
      <4>4. 1 \in DOMAIN lockq /\ lockq[1] = pending[h]
        BY <1>1, <2>2, <4>3, TailRange
      <4>5. a < 1
        BY <2>2, <3>1, <4>2, <4>4 DEF Ground, LockOrder, SameOrder
      <4>6. a \in Nat /\ 1 <= a
        BY <1>1, <4>2, LenProperties
      <4> QED BY <4>5, <4>6
    <3>6. CASE ~AtLock(pending[i])
      BY <3>3, <3>4, <3>6 DEF AtLock, Ended, CallState, Waiting
    <3> QED BY <3>5, <3>6
  <2>7. r \notin Sent /\ r \notin Waiting
    BY <1>2 DEF Sent, Waiting
  <2>8. InTurn(pending, Sent, Waiting) /\ InFront(p, pending, Sent) /\ Accounted(p, pending, Sent)
    BY <1>2 DEF Aligned
  <2>9. h \in 1..m
    BY <2>2, <2>3
  <2>10. p' = t /\ UNCHANGED <<pending, gen, sock>>
    <3>1. due' = Append(due, r)
      BY <1>2, <1>4 DEF WriteFrame, Calls
    <3>2. UNCHANGED <<pending, inbound, gen, sock>>
      BY DEF WriteFrame
    <3> QED BY <3>1, <3>2
  <2> HIDE DEF m, p, t, n
  <2>11. LET sent2 == Sent \cup {pending[h]}
         IN  InTurn(pending, sent2, Waiting) /\ InFront(t, pending, sent2) /\ Accounted(t, pending, sent2)
    BY <2>2, <2>3, <2>4, <2>5, <2>6, <2>7, <2>8, <2>9, FrameWritten
  <2>12. Sent' = Sent \cup {pending[h]} /\ Waiting' = Waiting
    <3>1. call'[r] = "sent" /\ \A q \in Requests : q # r => call'[q] = call[q]
      BY <1>1 DEF TypeOK, WriteFrame, Step
    <3> QED BY <1>2, <1>4, <2>2, <3>1 DEF Sent, Waiting, Calls
  <2>13. InTurn(pending, Sent', Waiting') /\ InFront(t, pending, Sent') /\ Accounted(t, pending, Sent')
    BY <2>11, <2>12
  <2> QED BY <2>10, <2>13 DEF Aligned, p
<1> QED BY <1>3, <1>4 DEF Calls

\* The steps of a call.
LEMMA CallKeepsOrder ==
    ASSUME Orderly, Ground, HolderInv, Aligned, Reading, NEW r \in Requests,
           SendRequest(r) \/ Restart(r) \/ CallStep(r) \/ CancelSend(r) \/ Expire(r)
    PROVE  Aligned'
<1>1. TypeOK /\ EntriesInv /\ pending \in Seq(Requests)
  BY DEF Ground, TypeOK
<1>2. CASE SendRequest(r)
  <2>1. r \notin Range(pending) /\ call[r] = "idle"
    BY <1>1, <1>2 DEF SendRequest, EntriesInv
  <2>2. CASE ~Connected
    BY <1>1, <1>2, <2>1, <2>2, MovingUp DEF SendRequest
  <2>3. CASE Connected
    <3> DEFINE m == Len(pending)
               u == Append(pending, r)
               p == Pipe(inbound, due)
    <3>1. /\ m \in Nat /\ DOMAIN pending = 1..m
          /\ DOMAIN u = 1..(m + 1) /\ u[m + 1] = r /\ \A j \in 1..m : u[j] = pending[j]
      BY <1>1, AppendProperties, LenProperties
    <3>2. r \notin Sent
      BY <2>1 DEF Sent
    <3>3. pending' = u /\ UNCHANGED <<inbound, due, gen, sock>> /\ (Step(r, "sending") \/ Step(r, "locking"))
      BY <1>2, <2>3 DEF SendRequest, EnterLock
    <3>4. Sent' = Sent /\ Waiting' = Waiting
      <4>1. call'[r] \in {"sending", "locking"} /\ \A q \in Requests : q # r => call'[q] = call[q]
        BY <1>1, <3>3 DEF TypeOK, Step
      <4> QED BY <2>1, <4>1 DEF Sent, Waiting, Calls
    <3>5. p' = p /\ IsOpen(gen)' = IsOpen(gen)
      BY <3>3 DEF Pipe, IsOpen
    <3> HIDE DEF m, u, p
    <3>6. /\ InTurn(u, Sent, Waiting) /\ InFront(p, u, Sent)
          /\ Accounted(p, pending, Sent) => Accounted(p, u, Sent)
      BY <3>1, <3>2, EntryAdded DEF Aligned, p
    <3> QED BY <3>3, <3>4, <3>5, <3>6 DEF Aligned, p
  <2> QED BY <2>2, <2>3
<1>3. CASE Restart(r)
  <2>1. r \notin Range(pending)
    BY <1>1, <1>3 DEF Restart, EntriesInv
  <2> QED BY <1>1, <1>3, <2>1, MovingUp DEF Restart, EnterLock
<1>4. CASE Acquire(r)
  <2>1. CASE ws = 0
    BY <1>1, <1>4, <2>1, EntryLeaves DEF Acquire, SendRaises
  <2>2. CASE ws # 0
    BY <1>1, <1>4, <2>2, MovingUp DEF Acquire
  <2> QED BY <2>1, <2>2
<1>5. CASE WriteFrame(r)
  BY <1>5, WriteKeepsOrder
<1>6. CASE SendReturns(r)
  <2>1. r \in OneWay => r \notin Range(pending)
    BY <1>1 DEF EntriesInv
  <2> QED BY <1>1, <1>6, <2>1, MovingUp DEF SendReturns
<1>7. CASE SendFails(r)
  <2>1. sendOn[r] = gen
    BY <1>7 DEF SendFails, Ground, SendOnInv
  <2> QED BY <1>1, <1>7, <2>1, EntryLeaves DEF SendFails, SendRaises
<1>8. CASE WaitReturns(r)
  <2>1. call[r] = "waiting" /\ future[r] # "open"
    BY <1>8 DEF WaitReturns, HolderInv, Calls
  <2>2. r \notin Range(pending)
    BY <2>1 DEF HolderInv
  <2>3. pending' = pending
    <3>1. pending' = RemoveFirst(pending, r)
      BY <1>8 DEF WaitReturns
    <3>2. \A i \in 1..Len(pending) : pending[i] # r
      BY <1>1, <2>2, LenProperties DEF Range
    <3> QED BY <1>1, <3>1, <3>2, RemoveFirstCases
  <2> QED BY <1>1, <1>8, <2>2, <2>3, MovingUp DEF WaitReturns
<1>9. CASE CancelSend(r)
  <2>1. r \notin Range(pending)
    BY <1>1, <1>9 DEF CancelSend, EntriesInv, Orderly, CallersStay
  <2> QED BY <1>1, <1>9, <2>1, MovingUp DEF CancelSend
<1>10. CASE Expire(r)
  BY <1>10 DEF Expire, Orderly, CallersStay, Calls, HolderInv
<1> QED BY <1>2, <1>3, <1>4, <1>5, <1>6, <1>7, <1>8, <1>9, <1>10 DEF CallStep

\* The reader takes a frame.
LEMMA ReceiveKeepsOrder ==
    ASSUME Orderly, Ground, OrderInv, ReaderReceives
    PROVE  Aligned'
<1> DEFINE f == Head(inbound)
           p == Pipe(inbound, due)
           t == Pipe(Tail(inbound), due)
           n == Len(inbound) + Len(due)
           m == Len(pending)
<1>1. /\ TypeOK /\ EntriesInv /\ ResponseInv /\ pending \in Seq(Requests)
      /\ inbound \in Seq(Message) /\ due \in Seq(Requests)
      /\ inbound # <<>> /\ reader = "recv" /\ Aligned
  BY DEF Ground, TypeOK, ReaderReceives, OrderInv, Reading
<1>2. /\ n \in Nat /\ n # 0 /\ DOMAIN p = 1..n /\ p[1] = Asked(f)
      /\ DOMAIN t = 1..(n - 1) /\ \A k \in 1..(n - 1) : t[k] = p[k + 1]
  BY <1>1, PipeRead, PipeDomain
<1>3. /\ m \in Nat /\ DOMAIN pending = 1..m /\ \A j \in DOMAIN pending : pending[j] \in Requests
  BY <1>1, LenProperties, ElementOfSeq
<1>4. p' = t /\ UNCHANGED <<call, gen, sock>>
  BY DEF ReaderReceives, RouteResponse, KeepEvent
<1>5. Sent' = Sent /\ Waiting' = Waiting /\ IsOpen(gen)' = IsOpen(gen)
  BY <1>4 DEF Sent, Waiting, IsOpen
<1> HIDE DEF p, t, n, m
<1>6. CASE f.type # "response"
  <2>1. UNCHANGED pending
    BY <1>6 DEF ReaderReceives, RouteResponse, KeepEvent, Hit
  <2>2. p[1] = Nobody
    BY <1>2, <1>6 DEF Asked
  <2>3. \A j \in DOMAIN pending : pending[j] # Nobody
    BY <1>3, RequestsAssumption DEF Nobody, Outcome
  <2>4. InFront(t, pending, Sent) /\ (Accounted(p, pending, Sent) => Accounted(t, pending, Sent))
    BY <1>1, <1>2, <2>2, <2>3, NoiseRead DEF Aligned, p
  <2> QED BY <1>1, <1>4, <1>5, <2>1, <2>4 DEF Aligned, p
<1>7. CASE /\ f.type = "response" /\ 1 \in DOMAIN pending /\ pending[1] = f.of
           /\ Hit(f, pending[1])
  <2>1. PICK i \in DOMAIN pending :
            (\A j \in 1..(i - 1) : ~Hit(f, pending[j])) /\ pending' = RemoveAt(pending, i)
    BY <1>7 DEF ReaderReceives, RouteResponse, KeepEvent
  <2>2. i = 1 /\ 1 \in 1..m /\ m # 0
    <3>1. i \in 1..m /\ 1 \in 1..m
      BY <1>3, <1>7, <2>1
    <3>2. i # 1 => 1 \in 1..(i - 1)
      BY <3>1
    <3> QED BY <1>3, <1>7, <2>1, <3>1, <3>2
  <2> DEFINE u == RemoveAt(pending, 1)
  <2>3. /\ DOMAIN u = 1..(m - 1) /\ \A j \in 1..(m - 1) : u[j] = pending[j + 1]
    <3>1. /\ u \in Seq(Requests) /\ Len(u) = m - 1
          /\ \A j \in 1..(m - 1) : u[j] = IF j < 1 THEN pending[j] ELSE pending[j + 1]
      BY <1>1, <2>2, RemoveAtProperties DEF m
    <3> QED BY <1>3, <3>1, LenProperties
  <2>4. p[1] = pending[1] /\ p[1] # Nobody
    <3>1. p[1] = pending[1]
      BY <1>2, <1>7 DEF Asked
    <3> QED BY <1>3, <1>7, <3>1, RequestsAssumption DEF Nobody, Outcome
  <2>5. \A k \in 1..n : p[k] = p[1] => k = 1
    <3>1. \A k, l \in DOMAIN p : p[k] = p[l] /\ p[k] # Nobody => k = l
      BY <1>1, PipeFresh DEF p
    <3>2. 1 \in 1..n
      BY <1>2
    <3> QED BY <1>2, <2>4, <3>1, <3>2
  <2>6. \A j \in 1..m : pending[j] = pending[1] => j = 1
    BY <1>1, <1>3, <1>7 DEF EntriesInv, IsInjective
  <2> HIDE DEF u
  <2>7. /\ InTurn(u, Sent, Waiting) /\ InFront(t, u, Sent)
        /\ Accounted(p, pending, Sent) => Accounted(t, u, Sent)
    BY <1>1, <1>2, <1>3, <2>2, <2>3, <2>4, <2>5, <2>6, FirstAnswered DEF Aligned, p
  <2>8. pending' = u
    BY <2>1, <2>2 DEF u
  <2> QED BY <1>1, <1>4, <1>5, <2>7, <2>8 DEF Aligned, p
<1>8. CASE ~IsOpen(gen) /\ \A j \in DOMAIN pending : pending[j] \notin Sent
  <2>1. \A j \in DOMAIN pending' : pending'[j] \notin Sent
    <3>1. UNCHANGED pending \/ \E i \in DOMAIN pending : pending' = RemoveAt(pending, i)
      BY DEF ReaderReceives, RouteResponse, KeepEvent
    <3>2. ASSUME NEW i \in DOMAIN pending
          PROVE  Range(RemoveAt(pending, i)) \subseteq Range(pending)
      BY <1>1, <1>3, RemoveAtRange DEF m
    <3>3. Range(pending') \subseteq Range(pending)
      BY <3>1, <3>2
    <3> QED BY <1>8, <3>3 DEF Range
  <2>2. InTurn(pending', Sent, Waiting) /\ InFront(t, pending', Sent)
    BY <2>1, NoneSent
  <2> QED BY <1>4, <1>5, <1>8, <2>2 DEF Aligned, p
<1>9. f.type = "response" =>
        \/ 1 \in DOMAIN pending /\ pending[1] = f.of /\ Hit(f, pending[1])
        \/ ~IsOpen(gen) /\ \A j \in DOMAIN pending : pending[j] \notin Sent
  BY <1>1, RoutedRight
<1> QED BY <1>6, <1>7, <1>8, <1>9

\* The device answers the oldest request, or something else arrives.
LEMMA ArrivalKeepsOrder ==
    ASSUME Orderly, TypeOK, Aligned, DeviceAnswers \/ DevicePushes
    PROVE  Aligned'
<1> DEFINE p == Pipe(inbound, due)
           n == Len(inbound) + Len(due)
<1>1. inbound \in Seq(Message) /\ due \in Seq(Requests) /\ n \in Nat /\ DOMAIN p = 1..n
  BY PipeDomain DEF TypeOK
<1>2. UNCHANGED <<call, pending, gen, sock>>
  BY DEF DeviceAnswers, DevicePushes
<1>3. Sent' = Sent /\ Waiting' = Waiting /\ IsOpen(gen)' = IsOpen(gen)
  BY <1>2 DEF Sent, Waiting, IsOpen
<1>4. CASE DeviceAnswers
  <2>1. PICK i \in DOMAIN due, e \in Echoes :
            /\ i = 1
            /\ due' = RemoveAt(due, i)
            /\ inbound' = Append(inbound, [type |-> "response", of |-> due[i], echo |-> e])
    BY <1>4 DEF DeviceAnswers, Orderly
  <2> DEFINE f == [type |-> "response", of |-> due[1], echo |-> e]
  <2>2. 1 \in 1..Len(due) /\ due[1] \in Requests
    BY <1>1, <2>1, LenProperties, ElementOfSeq
  <2>3. f \in Message /\ Asked(f) = due[1]
    BY <2>2 DEF Message, Asked
  <2>4. due' = RemoveAt(due, 1) /\ inbound' = Append(inbound, f)
    BY <2>1
  <2> HIDE DEF f
  <2>5. p' = p
    BY <1>1, <2>2, <2>3, <2>4, PipeAnswer
  <2> HIDE DEF p
  <2>6. Pipe(inbound, due)' = Pipe(inbound, due)
    BY <2>5 DEF p
  <2> QED BY <1>2, <1>3, <2>6 DEF Aligned
<1>5. CASE DevicePushes
  <2>1. PICK f \in Message : inbound' = Append(inbound, f) /\ Asked(f) = Nobody /\ due' = due
    BY <1>5 DEF DevicePushes, Message, Asked
  <2> DEFINE t == Pipe(Append(inbound, f), due)
             c == Len(inbound)
  <2>2. /\ c \in 0..n /\ DOMAIN t = 1..(n + 1) /\ t[c + 1] = Nobody
        /\ \A k \in 1..c : t[k] = p[k]
        /\ \A k \in (c + 1)..n : t[k + 1] = p[k]
    BY <1>1, <2>1, PipeNoise
  <2>3. p' = t
    BY <2>1
  <2>4. InTurn(pending, Sent, Waiting) /\ InFront(p, pending, Sent)
        /\ (IsOpen(gen) => Accounted(p, pending, Sent))
    BY DEF Aligned
  <2> HIDE DEF p, t, n, c
  <2>5. InFront(t, pending, Sent) /\ (Accounted(p, pending, Sent) => Accounted(t, pending, Sent))
    BY <1>1, <2>2, <2>4, NoiseArrives
  <2> QED BY <1>2, <1>3, <2>3, <2>4, <2>5 DEF Aligned, p
<1> QED BY <1>4, <1>5

LEMMA OrderStep ==
    ASSUME Orderly, Ground, HolderInv, OrderInv, [Next]_vars
    PROVE  OrderInv'
<1> SUFFICES ASSUME Reading'
             PROVE  Aligned'
  BY DEF OrderInv
<1>1. TypeOK /\ LifeInv /\ QuietInv /\ NoPendingWithoutReader /\ MaxConnects <= 1
  BY DEF Ground, Orderly
<1>2. ASSUME Reading, UNCHANGED <<call, pending, inbound, due>>, IsOpen(gen)' => IsOpen(gen)
      PROVE  Aligned'
  <2>1. Sent' = Sent /\ Waiting' = Waiting /\ Pipe(inbound, due)' = Pipe(inbound, due)
    BY <1>2 DEF Sent, Waiting, Pipe
  <2> QED BY <1>2, <2>1 DEF OrderInv, Aligned
<1>3. Reading => (IsOpen(gen)' => IsOpen(gen))
  <2>1. Reading => ~Early
    BY <1>1 DEF Reading, LifeInv, Early
  <2> QED BY <1>1, <2>1, ShutStaysShut
<1>4. ASSUME NEW r \in Requests,
             SendRequest(r) \/ Restart(r) \/ CallStep(r) \/ CancelSend(r) \/ Expire(r)
      PROVE  Aligned'
  <2>1. reader' = reader
    BY <1>4 DEF SendRequest, Restart, CallStep, Acquire, WriteFrame, SendReturns, SendFails,
                WaitReturns, CancelSend, Expire
  <2> QED BY <1>4, <2>1, CallKeepsOrder DEF OrderInv, Reading
<1>5. ASSUME NEW t \in Tasks, Close(t)
      PROVE  Aligned'
  BY <1>5 DEF Close, Reading
<1>6. ASSUME NEW t \in Tasks, TaskStep(t) \/ CancelTask(t)
      PROVE  Aligned'
  <2>1. UNCHANGED <<reader, call, pending, inbound, due>>
    BY <1>6 DEF TaskStep, ReaderAwaited, CloseSocket, SocketClosed, CancelTask
  <2> QED BY <1>2, <1>3, <2>1 DEF Reading
<1>7. CASE Connect \/ SocketOpened
  BY <1>1, <1>7 DEF Connect, SocketOpened, Reading, LifeInv
<1>8. CASE Registered
  <2>1. Early /\ pending' = <<>>
    BY <1>1, <1>8 DEF Registered, Early, LifeInv, NoPendingWithoutReader
  <2>2. due' = <<>> /\ \A k \in DOMAIN inbound' : Asked(inbound'[k]) = Nobody
    BY <1>1, <2>1, QuietStaysQuiet
  <2>3. TypeOK'
    BY <1>1, <1>8, ConnectionStepType
  <2>4. /\ Len(inbound') \in Nat /\ DOMAIN inbound' = 1..Len(inbound') /\ Len(due') = 0
    BY <2>2, <2>3, LenProperties, EmptySeq DEF TypeOK
  <2>5. \A k \in DOMAIN Pipe(inbound, due)' : Pipe(inbound, due)'[k] = Nobody
    BY <2>2, <2>4 DEF Pipe
  <2>6. DOMAIN pending' = {}
    BY <2>1
  <2>7. \A s, w : InTurn(pending', s, w) /\ InFront(Pipe(inbound, due)', pending', s)
    BY <2>6, NoneSent
  <2>8. \A s : Accounted(Pipe(inbound, due)', pending', s)
    BY <2>5 DEF Accounted
  <2> QED BY <2>7, <2>8 DEF Aligned
<1>9. CASE ReaderStarts
  BY <1>2, <1>3, <1>9 DEF ReaderStarts, Reading
<1>10. CASE ReaderReceives
  BY <1>10, ReceiveKeepsOrder
<1>11. CASE ReaderStops
  BY <1>11 DEF ReaderStops, ReaderFails, Reading
<1>12. ASSUME NEW l \in Listeners, AwaitEvent(l) \/ NextEvent(l)
       PROVE  Aligned'
  BY <1>2, <1>3, <1>12 DEF AwaitEvent, NextEvent, Reading
<1>13. CASE DeviceRegisters
  BY <1>1, <1>13 DEF DeviceRegisters, Reading, LifeInv
<1>14. CASE DeviceAnswers \/ DevicePushes
  <2>1. Aligned
    BY <1>14 DEF DeviceAnswers, DevicePushes, OrderInv, Reading
  <2> QED BY <1>1, <1>14, <2>1, ArrivalKeepsOrder
<1>15. CASE ConnectionLost
  BY <1>2, <1>3, <1>15 DEF ConnectionLost, Reading
<1>16. CASE UNCHANGED vars
  BY <1>2, <1>3, <1>16 DEF vars, Reading
<1> QED
  BY <1>4, <1>5, <1>6, <1>7, <1>8, <1>9, <1>10, <1>11, <1>12, <1>13, <1>14, <1>15, <1>16
  DEF Next, Leave, ConnectFails, ReaderStep

\* The conjuncts of Ground that the earlier modules do not prove by themselves.
SessionInv == LifeInv /\ QuietInv /\ LockOrder /\ SendOnInv /\ HolderInv /\ OrderInv

LEMMA SessionInit == Init => SessionInv
<1> SUFFICES ASSUME Init
             PROVE  SessionInv
  OBVIOUS
<1>1. LifeInv /\ SendOnInv
  BY DEF Init, LifeInv, SendOnInv, IsOpen
<1>2. QuietInv
  BY DEF Init, QuietInv, Calls
<1>3. LockOrder
  BY DEF Init, LockOrder, SameOrder
<1>4. HolderInv
  BY DEF Init, HolderInv, Range, Sent, Unsent, Calls
<1>5. OrderInv
  BY DEF Init, OrderInv, Reading
<1> QED BY <1>1, <1>2, <1>3, <1>4, <1>5 DEF SessionInv

LEMMA SessionStep ==
    Orderly /\ TypeOK /\ ResponseInv /\ LockInv /\ EntriesInv /\ NobodyForgotten
        /\ NoPendingWithoutReader /\ SessionInv /\ [Next]_vars => SessionInv'
<1> SUFFICES ASSUME Orderly, TypeOK, ResponseInv, LockInv, EntriesInv, NobodyForgotten,
                    NoPendingWithoutReader, SessionInv, [Next]_vars
             PROVE  SessionInv'
  OBVIOUS
<1>1. Ground /\ HolderInv /\ OrderInv /\ LifeInv /\ QuietInv /\ MaxConnects <= 1
  BY DEF Ground, SessionInv, Orderly
<1>2. LifeInv' /\ (Early' => Early)
  BY <1>1, LifeStep
<1>3. QuietInv'
  BY <1>1, <1>2, QuietStaysQuiet DEF QuietInv
<1>4. LockOrder'
  BY LockOrderStep DEF SessionInv
<1>5. SendOnInv'
  BY <1>1, SendOnStep DEF SessionInv
<1>6. HolderInv'
  BY <1>1, HolderStep
<1>7. OrderInv'
  BY <1>1, OrderStep
<1> QED BY <1>2, <1>3, <1>4, <1>5, <1>6, <1>7 DEF SessionInv

\* In one session, with a device that answers in order and echoes no more than it was
\* sent, and callers that wait for the answer, every caller that gets a response gets
\* its own: the oldest entry that fits is the right one (_route_response,
\* _requests_match).  Each part of Orderly is needed: an answer that comes after a
\* deadline or a cancellation, or that was given to a call still queueing when the
\* session ended, is taken for another's.
THEOREM EveryoneGetsTheirOwn ==
    ASSUME Orderly
    PROVE  Spec => []OwnResponse
<1>1. TypeOK /\ ResponseInv /\ SessionInv => OwnResponse
  <2> SUFFICES ASSUME TypeOK, ResponseInv, SessionInv, NEW r \in Requests, call[r] = "answered"
               PROVE  future[r] = r
    BY DEF OwnResponse
  <2>1. r \in Calls
    BY DEF SessionInv, HolderInv, Calls
  <2>2. future[r] \in {r} \cup Outcome
    BY <2>1 DEF SessionInv, HolderInv
  <2>3. future[r] \in Requests
    BY DEF ResponseInv, FutureInv
  <2> QED BY <2>2, <2>3, RequestsAssumption
<1>2. SessionInv /\ TypeOK /\ ResponseInv /\ LockInv /\ EntriesInv /\ NobodyForgotten
        /\ NoPendingWithoutReader /\ [Next]_vars => SessionInv'
  BY SessionStep
<1>3. Spec => []ResponseInv
  BY ResponsesTravelOnce
<1>4. Spec => []LockInv
  BY TheLockQueue
<1> QED
  BY <1>1, <1>2, <1>3, <1>4, SessionInit, TypeCorrect, EntriesAreTheCallers, NobodyIsForgotten,
     NothingPendsWithoutReader, PTL DEF Spec
=============================================================================
