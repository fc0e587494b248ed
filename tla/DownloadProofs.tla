--------------------------- MODULE DownloadProofs ---------------------------
(***************************************************************************)
(* write_data stays inside its buffer, for every body and every way to cut *)
(* it into pieces.  The invariant: whatever strip moved and left behind,   *)
(* the bytes from offset `received` on are still the NULs of calloc, so    *)
(* the string in the buffer is no longer than the body received so far.    *)
(***************************************************************************)
EXTENDS Download, SequenceTheorems, WellFoundedInduction, TLAPS

RestIsNul(b, r) == \A i \in DOMAIN b : i >= r => b[i] = NUL

IInv ==
  /\ TypeOK
  /\ phase \in {"body", "done"} => RestIsNul(buf, received)

(* A non-empty set of naturals has a least element. *)
LEMMA LeastNat ==
  ASSUME NEW T \in SUBSET Nat, T # {}
  PROVE  \E m \in T : \A k \in T : m <= k
<1>1. PICK m \in T : \A k \in T : ~ (<<k, m>> \in OpToRel(<, Nat))
  BY NatLessThanWellFounded, WFMin, Zenon
<1>2. \A k \in T : <<k, m>> \in Nat \X Nat
  OBVIOUS
<1>3. \A k \in T : ~ (k < m)
  BY <1>1, <1>2, Zenon DEF OpToRel
<1> QED
  BY <1>3

(* The length of a string in a buffer that is NUL from r on is at most r. *)
LEMMA StrlenBound ==
  ASSUME NEW L \in Nat, NEW b \in [0..L -> Bytes], NEW r \in 0..L, RestIsNul(b, r)
  PROVE  /\ Strlen(b) \in 0..r
         /\ b[Strlen(b)] = NUL
<1> DEFINE T == {i \in 0..L : b[i] = NUL}
<1>1. r \in T
  BY DEF RestIsNul
<1>2. PICK m \in T : \A k \in T : m <= k
  <2>1. T \in SUBSET Nat /\ T # {}
    BY <1>1
  <2> HIDE DEF T
  <2> QED
    BY <2>1, LeastNat, Zenon
<1>3. m \in DOMAIN b /\ b[m] = NUL /\ \A j \in DOMAIN b : j < m => b[j] # NUL
  BY <1>2
<1>4. /\ Strlen(b) \in DOMAIN b
      /\ b[Strlen(b)] = NUL
      /\ \A j \in DOMAIN b : j < Strlen(b) => b[j] # NUL
  BY <1>3, Zenon DEF Strlen
<1>5. ~ (r < Strlen(b))
  BY <1>1, <1>4
<1> QED
  BY <1>4, <1>5

(* memcpy of n bytes behind a string of at most r reaches r + n at most. *)
LEMMA MemcpyFacts ==
  ASSUME NEW L \in Nat, NEW b \in [0..L -> Bytes], NEW r \in 0..L, RestIsNul(b, r),
         NEW at \in 0..r, NEW s \in Seq(Letter \union {SP}), r + Len(s) <= L
  PROVE  /\ Memcpy(b, at, s) \in [0..L -> Bytes]
         /\ RestIsNul(Memcpy(b, at, s), r + Len(s))
<1>1. \A i \in 0..L : i \in at..at + Len(s) - 1 => s[i - at + 1] \in Bytes
  BY DEF Bytes
<1>2. Memcpy(b, at, s) \in [0..L -> Bytes]
  BY <1>1 DEF Memcpy
<1>3. \A i \in 0..L : i >= r + Len(s) => Memcpy(b, at, s)[i] = b[i]
  BY DEF Memcpy
<1> QED
  BY <1>2, <1>3 DEF RestIsNul

(* Stripping the end turns bytes into NULs. *)
LEMMA StripEndFacts ==
  ASSUME NEW L \in Nat, NEW b \in [0..L -> Bytes], NEW r \in 0..L, RestIsNul(b, r)
  PROVE  /\ StripEnd(b) \in [0..L -> Bytes]
         /\ RestIsNul(StripEnd(b), r)
BY DEF StripEnd, RestIsNul, Bytes

(* Stripping the beginning moves bytes to the front. *)
LEMMA StripBeginFacts ==
  ASSUME NEW L \in Nat, NEW b \in [0..L -> Bytes], NEW r \in 0..L, RestIsNul(b, r)
  PROVE  /\ StripBegin(b) \in [0..L -> Bytes]
         /\ RestIsNul(StripBegin(b), r)
<1> DEFINE First(i) == b[i] # SP /\ \A j \in DOMAIN b : j < i => b[j] = SP
           x == CHOOSE i \in DOMAIN b : First(i)
           y == Strlen(b)
           T == {i \in 0..L : b[i] # SP}
<1>1. y \in 0..r /\ b[y] = NUL
  BY StrlenBound
<1>2. y \in T
  BY <1>1, DownloadAssumption
<1>3. PICK m \in T : \A k \in T : m <= k
  <2>1. T \in SUBSET Nat /\ T # {}
    BY <1>2
  <2> HIDE DEF T
  <2> QED
    BY <2>1, LeastNat, Zenon
<1>4. m \in DOMAIN b /\ First(m)
  BY <1>3
<1>5. x \in DOMAIN b /\ First(x)
  BY <1>4, Zenon
<1>6. x \in 0..y
  BY <1>1, <1>2, <1>5
<1> HIDE DEF x, y, First
<1>7. StripBegin(b) = IF x = 0 THEN b
                      ELSE [i \in DOMAIN b |-> IF i < y - x THEN b[i + x]
                                               ELSE IF i = y - x THEN NUL ELSE b[i]]
  BY Zenon DEF StripBegin, x, y, First
<1>8. CASE x = 0
  BY <1>7, <1>8
<1>9. CASE x # 0
  <2>1. \A i \in 0..L : i < y - x => i + x \in 0..L
    BY <1>1, <1>6
  <2>2. NUL \in Bytes
    BY DEF Bytes
  <2>3. StripBegin(b) \in [0..L -> Bytes]
    BY <1>7, <1>9, <2>1, <2>2
  <2>4. \A i \in 0..L : i >= r => StripBegin(b)[i] \in {NUL, b[i]}
    BY <1>1, <1>6, <1>7, <1>9
  <2> QED
    BY <2>3, <2>4 DEF RestIsNul
<1> QED
  BY <1>8, <1>9

THEOREM DownloadInvariant == Spec => []IInv
<1> USE DownloadAssumption
<1>1. Init => IInv
  BY DEF Init, IInv, TypeOK
<1>2. IInv /\ [Next]_vars => IInv'
  <2> SUFFICES ASSUME IInv, [Next]_vars PROVE IInv'
    OBVIOUS
  <2> body \in Seq(Letter \union {SP}) /\ Len(body) \in Nat
    BY DEF IInv, TypeOK
  <2>1. CASE head_data
    <3>1. buf' \in [0..Len(body') -> Bytes] /\ RestIsNul(buf', received')
      BY <2>1 DEF head_data, Bytes, RestIsNul
    <3> QED
      BY <2>1, <3>1 DEF IInv, TypeOK, head_data
  <2>2. CASE write_data
    <3>1. PICK n \in 1..Len(body) - received :
            /\ buf' = strip(Memcpy(buf, Strlen(buf), SubSeq(body, received + 1, received + n)))
            /\ received' = received + n
      BY <2>2 DEF write_data
    <3> DEFINE s == SubSeq(body, received + 1, received + n)
               c == Memcpy(buf, Strlen(buf), s)
    <3>2. received \in 0..Len(body) /\ buf \in [0..Len(body) -> Bytes] /\ RestIsNul(buf, received)
      BY <2>2 DEF IInv, TypeOK, write_data
    <3>3. received + n \in 0..Len(body)
      BY <3>2
    <3>4. s \in Seq(Letter \union {SP}) /\ Len(s) = n
      BY <3>2, <3>3
    <3>5. Strlen(buf) \in 0..received
      BY <3>2, StrlenBound
    <3>6. c \in [0..Len(body) -> Bytes] /\ RestIsNul(c, received + n)
      BY <3>2, <3>3, <3>4, <3>5, MemcpyFacts
    <3>7. StripEnd(c) \in [0..Len(body) -> Bytes] /\ RestIsNul(StripEnd(c), received + n)
      BY <3>3, <3>6, StripEndFacts
    <3>8. strip(c) \in [0..Len(body) -> Bytes] /\ RestIsNul(strip(c), received + n)
      BY <3>3, <3>7, StripBeginFacts DEF strip
    <3> HIDE DEF c, s
    <3>9. buf' = strip(c)
      BY <3>1 DEF c, s
    <3> QED
      BY <2>2, <3>1, <3>3, <3>8, <3>9 DEF IInv, TypeOK, write_data
  <2>3. CASE Finish
    BY <2>3 DEF IInv, TypeOK, Finish
  <2>4. CASE Fail
    BY <2>4 DEF IInv, TypeOK, Fail
  <2>5. CASE UNCHANGED vars
    BY <2>5 DEF IInv, TypeOK, vars
  <2> QED
    BY <2>1, <2>2, <2>3, <2>4, <2>5 DEF Next
<1> QED
  BY <1>1, <1>2, PTL DEF Spec

(* The buffer of data_return is Content-Length + 1 bytes, on every path. *)
THEOREM DownloadTypeOK == Spec => []TypeOK
<1>1. IInv => TypeOK
  BY DEF IInv
<1> QED
  BY <1>1, DownloadInvariant, PTL

(* The memcpy of write_data never reaches past the end of the buffer. *)
THEOREM DownloadNoOverflow == Spec => []NoOverflow
<1>1. IInv => NoOverflow
  <2> SUFFICES ASSUME IInv, phase = "body"
               PROVE  Strlen(buf) + (Len(body) - received) <= Len(body)
    BY DEF NoOverflow
  <2>1. Len(body) \in Nat /\ received \in 0..Len(body)
    BY DownloadAssumption DEF IInv, TypeOK
  <2>2. buf \in [0..Len(body) -> Bytes] /\ RestIsNul(buf, received)
    BY DEF IInv, TypeOK
  <2>3. Strlen(buf) \in 0..received
    BY <2>1, <2>2, StrlenBound
  <2> QED
    BY <2>1, <2>3
<1> QED
  BY <1>1, DownloadInvariant, PTL

-----------------------------------------------------------------------------
(* What is kept of the text *)

LEMMA SetInduction ==
  ASSUME NEW S, 0 \in S, \A n \in Nat : n \in S => n + 1 \in S
  PROVE  Nat \subseteq S
<1> DEFINE T == Nat \ S
<1> SUFFICES ASSUME T # {} PROVE FALSE
  OBVIOUS
<1>1. PICK m \in T : \A k \in T : m <= k
  <2>1. T \in SUBSET Nat
    OBVIOUS
  <2> HIDE DEF T
  <2> QED
    BY <2>1, LeastNat
<1>2. m # 0 /\ m - 1 \in Nat
  BY <1>1
<1>3. m - 1 \in S
  BY <1>1, <1>2
<1> QED
  BY <1>2, <1>3

(* f is the visible part of the first 0, 1, ..., n bytes of s. *)
IsSeen(f, s, n) ==
  f = [r \in 0..n |-> IF r = 0 THEN <<>>
                      ELSE IF s[r] = SP THEN f[r - 1] ELSE Append(f[r - 1], s[r])]

LEMMA SeenNext ==
  ASSUME NEW f, NEW s, NEW n \in Nat, IsSeen(f, s, n), NEW r \in Nat, r + 1 <= n
  PROVE  f[r + 1] = IF s[r + 1] = SP THEN f[r] ELSE Append(f[r], s[r + 1])
<1> DEFINE k == r + 1
<1>1. k \in 0..n /\ k # 0 /\ k - 1 = r
  OBVIOUS
<1> HIDE DEF k
<1>2. f[k] = IF s[k] = SP THEN f[k - 1] ELSE Append(f[k - 1], s[k])
  BY <1>1 DEF IsSeen
<1> QED
  BY <1>1, <1>2 DEF k

LEMMA SeenExists ==
  ASSUME NEW s
  PROVE  \A n \in Nat : \E f : IsSeen(f, s, n)
<1> DEFINE S == {n \in Nat : \E f : IsSeen(f, s, n)}
<1>1. 0 \in S
  <2>1. IsSeen([r \in 0..0 |-> <<>>], s, 0)
    BY DEF IsSeen
  <2> QED
    BY <2>1
<1>2. ASSUME NEW n \in Nat, n \in S PROVE n + 1 \in S
  <2>1. PICK f : IsSeen(f, s, n)
    BY <1>2
  <2> DEFINE last == IF s[n + 1] = SP THEN f[n] ELSE Append(f[n], s[n + 1])
             g == [r \in 0..n + 1 |-> IF r = n + 1 THEN last ELSE f[r]]
  <2>2. ASSUME NEW r \in 0..n + 1
        PROVE  g[r] = IF r = 0 THEN <<>>
                      ELSE IF s[r] = SP THEN g[r - 1] ELSE Append(g[r - 1], s[r])
    <3>1. CASE r = n + 1
      BY <3>1
    <3>2. CASE r \in 0..n
      <4>1. g[r] = f[r] /\ (r # 0 => g[r - 1] = f[r - 1])
        BY <3>2
      <4>2. f[r] = IF r = 0 THEN <<>>
                   ELSE IF s[r] = SP THEN f[r - 1] ELSE Append(f[r - 1], s[r])
        BY <2>1, <3>2 DEF IsSeen
      <4> QED
        BY <4>1, <4>2
    <3> QED
      BY <3>1, <3>2
  <2>3. IsSeen(g, s, n + 1)
    BY <2>2 DEF IsSeen
  <2> QED
    BY <2>3
<1> HIDE DEF S
<1>3. Nat \subseteq S
  BY <1>1, <1>2, SetInduction
<1> QED
  BY <1>3 DEF S

LEMMA VisibleSeen ==
  ASSUME NEW s, Len(s) \in Nat
  PROVE  \E f : IsSeen(f, s, Len(s)) /\ Visible(s) = f[Len(s)]
<1> DEFINE f == CHOOSE f : IsSeen(f, s, Len(s))
<1>1. IsSeen(f, s, Len(s))
  BY SeenExists
<1>2. Visible(s) = f[Len(s)]
  BY DEF Visible, IsSeen
<1> QED
  BY <1>1, <1>2

(* One more byte: it is visible or white space. *)
LEMMA VisibleStep ==
  ASSUME NEW n \in Nat, NEW s, NEW t, Len(s) = n, Len(t) = n + 1, \A i \in 1..n : t[i] = s[i]
  PROVE  Visible(t) = IF t[n + 1] = SP THEN Visible(s) ELSE Append(Visible(s), t[n + 1])
<1>1. PICK f : IsSeen(f, s, n) /\ Visible(s) = f[n]
  BY VisibleSeen
<1>2. PICK g : IsSeen(g, t, n + 1) /\ Visible(t) = g[n + 1]
  BY VisibleSeen
<1> DEFINE S == {r \in Nat : r <= n => f[r] = g[r]}
<1>3. 0 \in S
  BY <1>1, <1>2 DEF IsSeen
<1>4. ASSUME NEW r \in Nat, r \in S PROVE r + 1 \in S
  <2> SUFFICES ASSUME r + 1 <= n PROVE f[r + 1] = g[r + 1]
    OBVIOUS
  <2>1. f[r + 1] = IF s[r + 1] = SP THEN f[r] ELSE Append(f[r], s[r + 1])
    BY <1>1, SeenNext
  <2>2. g[r + 1] = IF t[r + 1] = SP THEN g[r] ELSE Append(g[r], t[r + 1])
    BY <1>2, SeenNext
  <2>3. f[r] = g[r] /\ s[r + 1] = t[r + 1]
    BY <1>4
  <2> QED
    BY <2>1, <2>2, <2>3
<1> HIDE DEF S
<1>5. Nat \subseteq S
  BY <1>3, <1>4, SetInduction
<1>6. f[n] = g[n]
  BY <1>5 DEF S
<1>7. g[n + 1] = IF t[n + 1] = SP THEN g[n] ELSE Append(g[n], t[n + 1])
  BY <1>2, SeenNext
<1> QED
  BY <1>1, <1>2, <1>6, <1>7

(* The first k bytes of a buffer. *)
TextTo(b, k) == [i \in 1..k |-> b[i - 1]]

LEMMA TextToStep ==
  ASSUME NEW b, NEW k \in Nat
  PROVE  Visible(TextTo(b, k + 1)) =
           IF b[k] = SP THEN Visible(TextTo(b, k)) ELSE Append(Visible(TextTo(b, k)), b[k])
<1> DEFINE s == TextTo(b, k)
           t == TextTo(b, k + 1)
<1>1. Len(s) = k /\ Len(t) = k + 1 /\ (\A i \in 1..k : t[i] = s[i]) /\ t[k + 1] = b[k]
  BY DEF TextTo
<1> HIDE DEF s, t
<1>2. Visible(t) = IF t[k + 1] = SP THEN Visible(s) ELSE Append(Visible(s), t[k + 1])
  BY <1>1, VisibleStep
<1> QED
  BY <1>1, <1>2 DEF s, t

(* The length of a string, from where its first NUL is. *)
LEMMA StrlenIs ==
  ASSUME NEW b, NEW L \in Nat, DOMAIN b = 0..L, NEW k \in 0..L, b[k] = NUL,
         \A i \in 0..k - 1 : b[i] # NUL
  PROVE  Strlen(b) = k
<1> DEFINE P(i) == b[i] = NUL /\ \A j \in DOMAIN b : j < i => b[j] # NUL
<1>1. P(k)
  OBVIOUS
<1>2. ASSUME NEW i \in DOMAIN b, P(i) PROVE i = k
  <2>1. ~ (i < k) /\ ~ (k < i)
    BY <1>2
  <2> QED
    BY <2>1
<1> HIDE DEF P
<1>3. Strlen(b) = CHOOSE i \in DOMAIN b : P(i)
  BY DEF Strlen, P
<1> QED
  BY <1>1, <1>2, <1>3

(***************************************************************************)
(* strip of a buffer that begins with a letter: the text before NULs loses *)
(* the white space at its end, and nothing visible.                        *)
(***************************************************************************)
LEMMA StripKeeps ==
  ASSUME NEW L \in Nat, NEW c \in [0..L -> Bytes], NEW n \in 1..L, RestIsNul(c, n),
         \A i \in 0..n - 1 : c[i] # NUL, c[0] # SP
  PROVE  /\ Strlen(strip(c)) \in 1..n
         /\ RestIsNul(strip(c), Strlen(strip(c)))
         /\ \A i \in 0..Strlen(strip(c)) - 1 : strip(c)[i] # NUL
         /\ strip(c)[0] # SP
         /\ Visible(Text(strip(c))) = Visible(TextTo(c, n))
<1> DEFINE d == StripEnd(c)
           T == {i \in 0..n : \A j \in i..n - 1 : c[j] = SP}
<1>1. PICK z \in T : \A k \in T : z <= k
  <2>1. T \in SUBSET Nat /\ n \in T
    OBVIOUS
  <2> HIDE DEF T
  <2> QED
    BY <2>1, LeastNat
<1>2. z \in 1..n
  BY <1>1
<1>3. Strlen(c) = n
  BY StrlenIs DEF RestIsNul
<1>4. DOMAIN d = 0..L
  BY DEF StripEnd
<1>5. \A i \in 0..L : i >= z => d[i] = NUL
  BY <1>1, <1>2, <1>3 DEF StripEnd, RestIsNul
<1>6. \A i \in 0..z - 1 : d[i] = c[i] /\ c[i] # NUL
  <2> SUFFICES ASSUME NEW i \in 0..z - 1 PROVE d[i] = c[i] /\ c[i] # NUL
    OBVIOUS
  <2>1. i \in 0..n - 1 /\ i \in 0..L /\ i \notin T
    BY <1>1, <1>2
  <2>2. ~ (\A j \in DOMAIN c : i <= j /\ j < n => c[j] = SP)
    <3>1. PICK j \in i..n - 1 : c[j] # SP
      BY <2>1
    <3> QED
      BY <2>1, <3>1
  <2>3. d[i] = c[i]
    BY <1>3, <2>1, <2>2 DEF StripEnd
  <2> QED
    BY <2>1, <2>3
<1> HIDE DEF T, d
<1>7. Strlen(d) = z
  BY <1>2, <1>4, <1>5, <1>6, StrlenIs
<1>8. StripBegin(d) = d
  <2> DEFINE First(i) == d[i] # SP /\ \A j \in DOMAIN d : j < i => d[j] = SP
  <2>1. First(0) /\ 0 \in DOMAIN d
    BY <1>2, <1>4, <1>6
  <2>2. ASSUME NEW i \in DOMAIN d, First(i) PROVE i = 0
    BY <1>4, <2>1, <2>2
  <2> HIDE DEF First
  <2>3. (CHOOSE i \in DOMAIN d : First(i)) = 0
    BY <2>1, <2>2
  <2> QED
    BY <2>3 DEF StripBegin, First
<1>9. strip(c) = d
  BY <1>8 DEF strip, d
<1>10. Text(d) = TextTo(c, z)
  BY <1>2, <1>6, <1>7 DEF Text, TextTo
<1>11. Visible(TextTo(c, n)) = Visible(TextTo(c, z))
  <2> DEFINE S == {k \in Nat : z + k <= n => Visible(TextTo(c, z + k)) = Visible(TextTo(c, z))}
  <2>1. 0 \in S
    BY <1>2
  <2>2. ASSUME NEW k \in Nat, k \in S PROVE k + 1 \in S
    <3> SUFFICES ASSUME z + (k + 1) <= n
                 PROVE  Visible(TextTo(c, z + (k + 1))) = Visible(TextTo(c, z))
      OBVIOUS
    <3> DEFINE m == z + k
    <3>1. m \in Nat /\ z + (k + 1) = m + 1 /\ m \in z..n - 1
      BY <1>2
    <3>2. c[m] = SP
      BY <1>1, <3>1 DEF T
    <3>3. Visible(TextTo(c, m)) = Visible(TextTo(c, z))
      BY <2>2, <3>1
    <3> HIDE DEF m
    <3>4. Visible(TextTo(c, m + 1)) = Visible(TextTo(c, m))
      BY <3>1, <3>2, TextToStep
    <3> QED
      BY <3>1, <3>3, <3>4
  <2> HIDE DEF S
  <2>3. Nat \subseteq S
    BY <2>1, <2>2, SetInduction
  <2>4. n - z \in Nat /\ z + (n - z) = n
    BY <1>2
  <2> QED
    BY <2>3, <2>4 DEF S
<1> QED
  BY <1>2, <1>4, <1>5, <1>6, <1>7, <1>9, <1>10, <1>11 DEF RestIsNul

(* c is b, of which m bytes count, with the bytes of s after r up to r + n behind. *)
Behind(c, b, m, s, r, n) ==
  /\ \A i \in 0..m - 1 : c[i] = b[i]
  /\ \A i \in m..m + n - 1 : c[i] = s[i - m + r + 1]
  /\ Visible(TextTo(c, m + n)) = Visible(SubSeq(s, 1, r + n))

(* A piece behind the text: what is visible of it comes behind, too. *)
LEMMA MemcpyKeeps ==
  ASSUME NEW L \in Nat, NEW b \in [0..L -> Bytes], NEW s \in Seq(Letter \union {SP}), Len(s) = L,
         NEW r \in 0..L, NEW n \in 1..L - r, NEW m \in 0..r,
         Visible(TextTo(b, m)) = Visible(SubSeq(s, 1, r))
  PROVE  Behind(Memcpy(b, m, SubSeq(s, r + 1, r + n)), b, m, s, r, n)
<1> DEFINE t == SubSeq(s, r + 1, r + n)
           c == Memcpy(b, m, t)
<1>1. Len(t) = n /\ \A i \in 1..n : t[i] = s[r + i]
  BY SubSeqProperties
<1> HIDE DEF t
<1>2. \A i \in 0..m - 1 : c[i] = b[i]
  BY <1>1 DEF Memcpy
<1>3. \A i \in m..m + n - 1 : c[i] = s[i - m + r + 1]
  <2> SUFFICES ASSUME NEW i \in m..m + n - 1 PROVE c[i] = s[i - m + r + 1]
    OBVIOUS
  <2>1. i \in 0..L /\ i - m + 1 \in 1..n
    OBVIOUS
  <2>2. c[i] = t[i - m + 1]
    BY <1>1, <2>1 DEF Memcpy
  <2>3. t[i - m + 1] = s[r + (i - m + 1)]
    BY <1>1, <2>1
  <2>4. r + (i - m + 1) = i - m + r + 1
    BY <2>1
  <2> QED
    BY <2>2, <2>3, <2>4
<1> HIDE DEF c
<1> DEFINE S == {k \in Nat : k <= n => Visible(TextTo(c, m + k)) = Visible(SubSeq(s, 1, r + k))}
<1>4. 0 \in S
  <2>1. TextTo(c, m) = TextTo(b, m)
    BY <1>2 DEF TextTo
  <2> QED
    BY <2>1
<1>5. ASSUME NEW k \in Nat, k \in S PROVE k + 1 \in S
  <2> SUFFICES ASSUME k + 1 <= n
               PROVE  Visible(TextTo(c, m + (k + 1))) = Visible(SubSeq(s, 1, r + (k + 1)))
    OBVIOUS
  <2> DEFINE u == SubSeq(s, 1, r + k)
             v == SubSeq(s, 1, r + (k + 1))
             a == m + k
             e == r + k
  <2>1. a \in m..m + n - 1 /\ m + (k + 1) = a + 1 /\ a \in Nat /\ e \in Nat /\ r + (k + 1) = e + 1
        /\ a - m + r + 1 = e + 1 /\ e + 1 <= L
    OBVIOUS
  <2>2. Len(u) = e /\ Len(v) = e + 1 /\ (\A i \in 1..e : v[i] = u[i]) /\ v[e + 1] = s[e + 1]
    BY SubSeqProperties
  <2>3. Visible(TextTo(c, a)) = Visible(u)
    BY <1>5
  <2> HIDE DEF u, v, a, e
  <2>4. Visible(v) = IF v[e + 1] = SP THEN Visible(u) ELSE Append(Visible(u), v[e + 1])
    BY <2>1, <2>2, VisibleStep
  <2>5. c[a] = s[e + 1]
    BY <1>3, <2>1
  <2>6. Visible(TextTo(c, a + 1)) = Visible(v)
    <3>1. Visible(TextTo(c, a + 1)) =
            IF c[a] = SP THEN Visible(TextTo(c, a)) ELSE Append(Visible(TextTo(c, a)), c[a])
      BY <2>1, TextToStep
    <3> QED
      BY <2>2, <2>3, <2>4, <2>5, <3>1
  <2> QED
    BY <2>1, <2>6 DEF v
<1> HIDE DEF S
<1>6. Nat \subseteq S
  BY <1>4, <1>5, SetInduction
<1>7. Visible(TextTo(c, m + n)) = Visible(SubSeq(s, 1, r + n))
  BY <1>6 DEF S
<1> QED
  BY <1>2, <1>3, <1>7 DEF c, t, Behind

(***************************************************************************)
(* The text of a body that begins with a letter does so in the buffer, is  *)
(* followed by NULs only, and shows what is visible of the bytes received. *)
(***************************************************************************)
TextInv ==
  phase \in {"body", "done"} /\ BeginsVisible =>
    /\ RestIsNul(buf, Strlen(buf))
    /\ \A i \in 0..Strlen(buf) - 1 : buf[i] # NUL
    /\ received > 0 => Strlen(buf) > 0
    /\ Strlen(buf) > 0 => buf[0] # SP
    /\ Visible(TextTo(buf, Strlen(buf))) = Visible(SubSeq(body, 1, received))

LEMMA TextStep ==
  ASSUME IInv, TextInv, [Next]_vars
  PROVE  TextInv'
<1> USE DownloadAssumption
<1> SUFFICES ASSUME BeginsVisible, body' = body PROVE TextInv'
  <2>1. body' = body
    BY DEF Next, head_data, write_data, Finish, Fail, vars
  <2>2. CASE BeginsVisible
    BY <2>1, <2>2
  <2>3. CASE ~BeginsVisible
    BY <2>1, <2>3 DEF TextInv, BeginsVisible
  <2> QED
    BY <2>2, <2>3
<1> body \in Seq(Letter \union {SP}) /\ Len(body) \in Nat
  BY DEF IInv, TypeOK
<1>1. CASE head_data
  <2>1. received = 0 /\ received' = 0 /\ body' = body
    BY <1>1 DEF head_data, IInv, TypeOK
  <2>2. DOMAIN buf' = 0..Len(body) /\ \A i \in 0..Len(body) : buf'[i] = NUL
    BY <1>1 DEF head_data
  <2> QED
    BY <2>1, <2>2
<1>2. CASE write_data
  <2>1. PICK n \in 1..Len(body) - received :
          /\ buf' = strip(Memcpy(buf, Strlen(buf), SubSeq(body, received + 1, received + n)))
          /\ received' = received + n
    BY <1>2 DEF write_data
  <2> DEFINE L == Len(body)
             r == received
             m == Strlen(buf)
             t == SubSeq(body, r + 1, r + n)
             c == Memcpy(buf, m, t)
  <2>2. r \in 0..L /\ buf \in [0..L -> Bytes] /\ RestIsNul(buf, r) /\ phase = "body" /\ L \in Nat
    BY <1>2 DEF IInv, TypeOK, write_data
  <2>3. m \in 0..r
    BY <2>2, StrlenBound
  <2>4. /\ RestIsNul(buf, m) /\ (\A i \in 0..m - 1 : buf[i] # NUL)
        /\ (r > 0 => m > 0) /\ (m > 0 => buf[0] # SP)
        /\ Visible(TextTo(buf, m)) = Visible(SubSeq(body, 1, r))
    BY <2>2 DEF TextInv
  <2> HIDE DEF m
  <2>5. /\ \A i \in 0..m - 1 : c[i] = buf[i]
        /\ \A i \in m..m + n - 1 : c[i] = body[i - m + r + 1]
        /\ Visible(TextTo(c, m + n)) = Visible(SubSeq(body, 1, r + n))
    <3>1. n \in 1..L - r /\ body \in Seq(Letter \union {SP}) /\ Len(body) = L
      BY <2>1
    <3>2. Visible(TextTo(buf, m)) = Visible(SubSeq(body, 1, r))
      BY <2>4
    <3> HIDE DEF L, r
    <3>3. Behind(c, buf, m, body, r, n)
      BY <2>2, <2>3, <3>1, <3>2, MemcpyKeeps
    <3> QED
      BY <3>3 DEF Behind, r
  <2>6. t \in Seq(Letter \union {SP}) /\ Len(t) = n
    BY <2>1, <2>2
  <2>7. c \in [0..L -> Bytes] /\ RestIsNul(c, m + n) /\ m + n \in 1..L
    <3>1. m + n \in 1..L /\ m \in 0..m /\ m \in 0..L /\ m + n <= L
      BY <2>1, <2>2, <2>3
    <3> HIDE DEF t, L
    <3>2. m + Len(t) <= L
      BY <2>6, <3>1
    <3>3. c \in [0..L -> Bytes] /\ RestIsNul(c, m + Len(t))
      BY <2>2, <2>4, <2>6, <3>1, <3>2, MemcpyFacts
    <3> QED
      BY <2>6, <3>1, <3>3
  <2>8. \A i \in 0..m + n - 1 : c[i] # NUL
    <3>1. \A i \in m..m + n - 1 : i - m + r + 1 \in 1..L
      BY <2>1, <2>2, <2>3
    <3>2. \A i \in m..m + n - 1 : c[i] \in Letter \union {SP}
      BY <2>5, <3>1
    <3> QED
      BY <2>1, <2>3, <2>4, <2>5, <3>2
  <2>9. c[0] # SP
    <3>1. CASE m > 0
      BY <2>3, <2>4, <2>5, <3>1
    <3>2. CASE m = 0
      <4>1. r = 0 /\ body # <<>> /\ body[1] # SP
        BY <2>1, <2>2, <2>3, <2>4, <3>2 DEF BeginsVisible
      <4>2. c[0] = body[1]
        BY <2>1, <2>5, <3>2, <4>1
      <4> QED
        BY <4>1, <4>2
    <3> QED
      BY <2>3, <3>1, <3>2
  <2> HIDE DEF c
  <2> DEFINE d == strip(c)
  <2> PICK k \in 1..L : k = m + n
    BY <2>7
  <2>10. RestIsNul(c, k) /\ (\A i \in 0..k - 1 : c[i] # NUL) /\ c \in [0..L -> Bytes]
    BY <2>7, <2>8
  <2>11. /\ Strlen(d) \in 1..k
         /\ RestIsNul(d, Strlen(d))
         /\ \A i \in 0..Strlen(d) - 1 : d[i] # NUL
         /\ d[0] # SP
         /\ Visible(Text(d)) = Visible(TextTo(c, k))
    BY <2>2, <2>9, <2>10, StripKeeps
  <2>12. Text(d) = TextTo(d, Strlen(d))
    BY DEF Text, TextTo
  <2>13. buf' = d /\ received' = r + n /\ body' = body
    BY <1>2, <2>1 DEF c, m, t, write_data
  <2> HIDE DEF d
  <2>14. Visible(TextTo(d, Strlen(d))) = Visible(SubSeq(body, 1, r + n))
    BY <2>5, <2>11, <2>12
  <2> QED
    BY <2>2, <2>11, <2>13, <2>14 DEF TextInv
<1>3. CASE Finish \/ Fail \/ UNCHANGED vars
  <2>1. UNCHANGED <<buf, received, body>> /\ (phase' \in {"body", "done"} => phase \in {"body", "done"})
    BY <1>3 DEF Finish, Fail, vars
  <2> QED
    BY <2>1 DEF TextInv
<1> QED
  BY <1>1, <1>2, <1>3 DEF Next

(***************************************************************************)
(* Of any body that begins with a letter, nothing but white space is lost, *)
(* wherever it is cut: the strip after each piece, of a buffer that begins *)
(* with a letter, shifts nothing and leaves only NULs behind the text.     *)
(***************************************************************************)
THEOREM DownloadOnlySpaceLost == Spec => []OnlySpaceLost
<1>1. Init => TextInv
  BY DEF Init, TextInv
<1>2. IInv /\ TextInv /\ [Next]_vars => TextInv'
  BY TextStep
<1>3. TextInv => OnlySpaceLost
  BY DEF TextInv, OnlySpaceLost, Text, TextTo
<1> QED
  BY <1>1, <1>2, <1>3, DownloadInvariant, PTL DEF Spec
=============================================================================
