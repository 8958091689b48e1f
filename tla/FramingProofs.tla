---------------------------- MODULE FramingProofs ----------------------------
(***************************************************************************)
(* The framing implements Channel, for any data sizes, reads and bounds.    *)
(*                                                                         *)
(* The argument: at every moment the bytes in the buffer and on the wire    *)
(* are those of the packages that were sent and not yet taken, one after    *)
(* the other.  FrameInv says so with the places at which they end, so that  *)
(* sending adds a place, taking a package moves all of them down, and no    *)
(* induction over the stream is needed.                                     *)
(***************************************************************************)
EXTENDS Framing, TLAPS, SequenceTheorems

-----------------------------------------------------------------------------
(* The invariant.                                                          *)

\* The bytes that were sent and not taken: those in the buffer come first.
stream == m_buffer \o wire

\* How many bytes p has on the wire; Malformed is a length and nothing else.
BytesOf(p) == HeaderSize + p.size

\* After the first `at' bytes of s come the length, the type and the id of p.
Header(s, at, p) ==
    IF p = Malformed
    THEN 256 * s[at + 1] + s[at + 2] \in {0, LengthSize}
    ELSE /\ 256 * s[at + 1] + s[at + 2] = BytesOf(p)
         /\ s[at + 3] = p.type
         /\ s[at + 4] = p.requestID

\* The bytes s are those of the packages q: the i-th ends at byte ends[i].
Frames(s, q, ends) ==
    /\ ends[0] = 0 /\ ends[Len(q)] = Len(s)
    /\ \A i, j \in 0 .. Len(q) : i <= j => ends[i] <= ends[j]
    /\ \A i \in 1 .. Len(q) :
          ends[i] = ends[i - 1] + BytesOf(q[i]) /\ Header(s, ends[i - 1], q[i])

Framed(s, q) == \E ends \in [0 .. Len(q) -> 0 .. Len(s)] : Frames(s, q, ends)

FrameInv == pc # "closed" => Framed(stream, sent)

\* The ids of the requests in q.
Waiting(q) == {q[i].requestID : i \in {j \in DOMAIN q : q[j].type = Text}}

\* No two requests in q have the same id.
Distinct(q) ==
    \A i, j \in DOMAIN q :
        q[i].type = Text /\ q[j].type = Text /\ q[i].requestID = q[j].requestID => i = j

\* The requests sent and not taken have different ids, and none has that of the
\* request in hand, which is not a heartbeat.
IdInv ==
    pc # "closed" =>
        /\ Distinct(sent)
        /\ pc = "process" => pack.type = Text /\ pack.requestID \notin Waiting(sent)

IInv == TypeOK /\ FrameInv /\ IdInv /\ RequestsAccountedFor
-----------------------------------------------------------------------------
(* Packages and their bytes.                                               *)

\* Two sequences after each other.
LEMMA Concat ==
    ASSUME NEW S, NEW A \in Seq(S), NEW B \in Seq(S)
    PROVE  /\ A \o B \in Seq(S) /\ Len(A \o B) = Len(A) + Len(B)
           /\ \A i \in 1 .. Len(A) : (A \o B)[i] = A[i]
           /\ \A i \in 1 .. Len(B) : (A \o B)[Len(A) + i] = B[i]
<1>1. /\ A \o B \in Seq(S) /\ Len(A \o B) = Len(A) + Len(B)
      /\ \A i \in 1 .. Len(A) + Len(B) :
            (A \o B)[i] = IF i <= Len(A) THEN A[i] ELSE B[i - Len(A)]
  BY ConcatProperties
<1>2. Len(A) \in Nat /\ Len(B) \in Nat
  OBVIOUS
<1>3. ASSUME NEW i \in 1 .. Len(A) PROVE (A \o B)[i] = A[i]
  BY <1>1, <1>2
<1>4. ASSUME NEW i \in 1 .. Len(B) PROVE (A \o B)[Len(A) + i] = B[i]
  <2>1. /\ Len(A) + i \in 1 .. Len(A) + Len(B)
        /\ ~(Len(A) + i <= Len(A)) /\ (Len(A) + i) - Len(A) = i
    BY <1>2
  <2> QED BY <1>1, <2>1
<1> QED BY <1>1, <1>3, <1>4

\* Two pairs after each other.
LEMMA ConcatPairs ==
    ASSUME NEW S, NEW A \in Seq(S), NEW B \in Seq(S), Len(A) = 2, Len(B) = 2
    PROVE  /\ A \o B \in Seq(S) /\ Len(A \o B) = 4
           /\ (A \o B)[1] = A[1] /\ (A \o B)[2] = A[2]
           /\ (A \o B)[3] = B[1] /\ (A \o B)[4] = B[2]
<1>1. /\ 1 \in 1 .. Len(A) /\ 2 \in 1 .. Len(A) /\ 1 \in 1 .. Len(B) /\ 2 \in 1 .. Len(B)
      /\ Len(A) + 1 = 3 /\ Len(A) + 2 = 4 /\ Len(A) + Len(B) = 4
  OBVIOUS
<1>2. A \o B \in Seq(S) /\ Len(A \o B) = Len(A) + Len(B)
  BY Concat
<1>3. (A \o B)[1] = A[1] /\ (A \o B)[2] = A[2]
  <2>1. \A i \in 1 .. Len(A) : (A \o B)[i] = A[i]
    BY Concat
  <2> QED BY <1>1, <2>1, Zenon
<1>4. /\ (A \o B)[Len(A) + 1] = B[1]
      /\ (A \o B)[Len(A) + 2] = B[2]
  <2>1. \A i \in 1 .. Len(B) : (A \o B)[Len(A) + i] = B[i]
    BY Concat
  <2>2. 1 \in 1 .. Len(B) /\ 2 \in 1 .. Len(B)
    BY <1>1
  <2> QED BY <2>1, <2>2, Zenon
<1> QED BY <1>1, <1>2, <1>3, <1>4

\* The sizes of the fields.
LEMMA Sizes == LengthSize = 2 /\ HeaderSize = 4 /\ MaxLength \in Nat
BY DEF LengthSize, HeaderSize, MaxLength

\* What a package is, and how it differs from Malformed.
LEMMA PackageFacts ==
    ASSUME NEW p \in Packages
    PROVE  /\ p.size \in Nat /\ BytesOf(p) \in Nat /\ BytesOf(p) <= MaxLength
           /\ p.type \in {Text, HeartBeat} /\ p.requestID \in 0 .. 255
           /\ p.type = Text => p.requestID \in RequestIDs
           /\ p # Malformed
<1>1. CASE p = heartbeat
  <2>1. p.type = HeartBeat /\ p.requestID = 0 /\ p.size = 0 /\ p # Malformed
    BY <1>1 DEF heartbeat, Malformed, HeartBeat
  <2>2. BytesOf(p) \in Nat /\ BytesOf(p) <= MaxLength
    BY <2>1 DEF BytesOf, HeaderSize, LengthSize, MaxLength
  <2> QED BY <2>1, <2>2 DEF Text, HeartBeat
<1>2. CASE p \in [type : {Text}, requestID : RequestIDs, size : DataSizes]
  <2>1. p.type = Text /\ p.requestID \in RequestIDs /\ p.size \in DataSizes
    BY <1>2
  <2>2. p # Malformed
    BY <2>1 DEF Malformed, Text
  <2>3. PICK id \in 1 .. 255, n \in 0 .. (MaxLength - HeaderSize) : p.requestID = id /\ p.size = n
    BY <2>1, RequestIDsAssumption, DataSizesAssumption, Zenon
  <2>4. n \in Nat /\ HeaderSize + n <= MaxLength /\ HeaderSize + n \in Nat /\ id \in 0 .. 255
    BY Sizes
  <2> QED BY <2>1, <2>2, <2>3, <2>4 DEF BytesOf
<1> QED BY <1>1, <1>2 DEF Packages

\* The length field.
LEMMA LengthField ==
    ASSUME NEW n \in Nat, n <= MaxLength
    PROVE  /\ n \div 256 \in 0 .. 255 /\ n % 256 \in 0 .. 255
           /\ 256 * (n \div 256) + (n % 256) = n
BY DEF MaxLength

\* The bytes of a package.
LEMMA Encoded ==
    ASSUME NEW p \in Packages
    PROVE  /\ packageToString(p) \in Seq(Bytes)
           /\ Len(packageToString(p)) = BytesOf(p)
           /\ Header(packageToString(p), 0, p)
<1> PICK n \in Nat, size \in Nat, type \in 0 .. 255, id \in 0 .. 255 :
         /\ n = BytesOf(p) /\ n <= MaxLength /\ n = 4 + size
         /\ size = p.size /\ type = p.type /\ id = p.requestID
  <2>1. /\ p.size \in Nat /\ BytesOf(p) \in Nat /\ BytesOf(p) <= MaxLength
        /\ p.requestID \in 0 .. 255
    BY PackageFacts
  <2>2. p.type \in 0 .. 255
    BY PackageFacts DEF Text, HeartBeat
  <2>3. BytesOf(p) = 4 + p.size
    BY Sizes DEF BytesOf
  <2> QED BY <2>1, <2>2, <2>3
<1> DEFINE L == <<n \div 256, n % 256>>
           T == <<type, id>>
           D == [i \in 1 .. size |-> 0]
<1>1. packageToString(p) = (L \o T) \o D
  BY DEF packageToString, PackageLength, swapNetworkEndianness, BytesOf
<1>2. L \in Seq(Bytes) /\ Len(L) = 2
  <2>1. n \div 256 \in Bytes /\ n % 256 \in Bytes
    BY LengthField DEF Bytes
  <2> QED BY <2>1
<1>3. T \in Seq(Bytes) /\ Len(T) = 2
  BY DEF Bytes
<1>4. D \in Seq(Bytes) /\ Len(D) = size
  BY DEF Bytes
<1>5. 256 * L[1] + L[2] = n /\ T[1] = type /\ T[2] = id
  BY LengthField
<1> HIDE DEF L, T, D
<1> DEFINE H == L \o T
<1>6. /\ H \in Seq(Bytes) /\ Len(H) = 4
      /\ H[1] = L[1] /\ H[2] = L[2] /\ H[3] = T[1] /\ H[4] = T[2]
  BY <1>2, <1>3, ConcatPairs
<1>7. packageToString(p) = H \o D
  BY <1>1
<1> HIDE DEF H
<1>8. H \o D \in Seq(Bytes) /\ Len(H \o D) = n
  <2>1. H \o D \in Seq(Bytes) /\ Len(H \o D) = Len(H) + Len(D)
    BY <1>4, <1>6, Concat
  <2> QED BY <1>4, <1>6, <2>1
<1>9. /\ (H \o D)[1] = H[1] /\ (H \o D)[2] = H[2] /\ (H \o D)[3] = H[3] /\ (H \o D)[4] = H[4]
  <2>1. 1 \in 1 .. Len(H) /\ 2 \in 1 .. Len(H) /\ 3 \in 1 .. Len(H) /\ 4 \in 1 .. Len(H)
    BY <1>6
  <2>2. \A i \in 1 .. Len(H) : (H \o D)[i] = H[i]
    BY <1>4, <1>6, Concat
  <2> QED BY <2>1, <2>2
<1>10. p # Malformed
  BY PackageFacts
<1> DEFINE X == H \o D
<1>11. 256 * X[1] + X[2] = BytesOf(p) /\ X[3] = p.type /\ X[4] = p.requestID
  BY <1>5, <1>6, <1>9
<1>12. X = packageToString(p) /\ X \in Seq(Bytes) /\ Len(X) = BytesOf(p)
  BY <1>7, <1>8
<1> HIDE DEF X
<1>13. 0 + 1 = 1 /\ 0 + 2 = 2 /\ 0 + 3 = 3 /\ 0 + 4 = 4
  OBVIOUS
<1>14. Header(X, 0, p)
  BY <1>10, <1>11, <1>13, Zenon DEF Header
<1> QED BY <1>12, <1>14

\* What stands for a malformed package on the wire.
LEMMA EncodedMalformed ==
    ASSUME NEW bytes \in MalformedBytes
    PROVE  /\ bytes \in Seq(Bytes) /\ Len(bytes) = BytesOf(Malformed)
           /\ Header(bytes, 0, Malformed)
<1>1. PICK n \in {0, LengthSize} : bytes = <<n \div 256, n % 256>>
  BY MalformedLengthsAssumption DEF MalformedBytes, swapNetworkEndianness
<1>2. n = 0 \/ n = 2
  BY Sizes
<1>3. n \div 256 = 0 /\ n % 256 = n /\ n \in Bytes /\ 0 \in Bytes
  BY <1>2 DEF Bytes
<1>4. bytes = <<0, n>>
  BY <1>1, <1>3
<1>5. bytes \in Seq(Bytes) /\ Len(bytes) = 2
  BY <1>3, <1>4
<1>6. bytes[1] = 0 /\ bytes[2] = n
  BY <1>4
<1>7. BytesOf(Malformed) = 2
  BY DEF BytesOf, Malformed, HeaderSize, LengthSize
<1>8. 256 * bytes[1] + bytes[2] = n
  BY <1>2, <1>6
<1> QED BY <1>1, <1>5, <1>7, <1>8 DEF Header

-----------------------------------------------------------------------------
(* Frames: what sending adds to them and taking removes.                   *)

\* What can be sent.
Sendable == Packages \cup {Malformed}

\* Everything sent has a whole length field, and a package a whole header.
LEMMA SendableFacts ==
    ASSUME NEW p \in Sendable
    PROVE  BytesOf(p) \in Nat /\ BytesOf(p) >= 2 /\ (p # Malformed => BytesOf(p) >= 4)
<1>1. CASE p = Malformed
  BY <1>1 DEF BytesOf, Malformed, HeaderSize, LengthSize
<1>2. CASE p \in Packages
  BY <1>2, PackageFacts, Sizes DEF BytesOf
<1> QED BY <1>1, <1>2 DEF Sendable

\* Sending p puts its bytes at the end.
LEMMA FramesSend ==
    ASSUME NEW s \in Seq(Bytes), NEW q \in Seq(Sendable), Framed(s, q),
           NEW p \in Sendable, NEW t \in Seq(Bytes), Len(t) = BytesOf(p), Header(t, 0, p)
    PROVE  Framed(s \o t, Append(q, p))
<1> PICK ends \in [0 .. Len(q) -> 0 .. Len(s)] : Frames(s, q, ends)
  BY DEF Framed
<1> PICK n \in Nat, l \in Nat, k \in Nat : n = Len(q) /\ l = Len(s) /\ k = Len(t)
  OBVIOUS
<1> DEFINE u == s \o t
           r == Append(q, p)
           e == [i \in 0 .. n + 1 |-> IF i <= n THEN ends[i] ELSE l + k]
<1>1. /\ Len(u) = l + k
      /\ \A i \in 1 .. l : u[i] = s[i]
      /\ \A i \in 1 .. k : u[l + i] = t[i]
  <2>1. u = s \o t
    OBVIOUS
  <2> HIDE DEF u, r, e
  <2>2. u \in Seq(Bytes) /\ Len(u) = Len(s) + Len(t)
    BY <2>1, Concat
  <2>3. \A i \in 1 .. Len(s) : u[i] = s[i]
    BY <2>1, Concat
  <2>4. \A i \in 1 .. Len(t) : u[Len(s) + i] = t[i]
    BY <2>1, Concat
  <2> QED BY <2>2, <2>3, <2>4, Zenon
<1>2. Len(r) = n + 1 /\ r[n + 1] = p /\ \A i \in 1 .. n : r[i] = q[i] /\ q[i] \in Sendable
  BY DEF Sendable
<1>3. /\ ends[0] = 0 /\ ends[n] = l
      /\ \A i, j \in 0 .. n : i <= j => ends[i] <= ends[j]
      /\ \A i \in 1 .. n :
            ends[i] = ends[i - 1] + BytesOf(q[i]) /\ Header(s, ends[i - 1], q[i])
      /\ \A i \in 0 .. n : ends[i] \in 0 .. l
  BY DEF Frames
<1> HIDE DEF u, r
<1>4. /\ \A i \in 0 .. n : e[i] = ends[i]
      /\ e[n + 1] = l + k
      /\ e \in [0 .. n + 1 -> 0 .. l + k]
  BY <1>3
<1> HIDE DEF e
<1>5. \A i, j \in 0 .. n + 1 : i <= j => e[i] <= e[j]
  <2> SUFFICES ASSUME NEW i \in 0 .. n + 1, NEW j \in 0 .. n + 1, i <= j
               PROVE  e[i] <= e[j]
    OBVIOUS
  <2>1. CASE j \in 0 .. n
    <3>1. i \in 0 .. n
      BY <2>1
    <3> QED BY <1>3, <1>4, <2>1, <3>1
  <2>2. CASE j = n + 1
    <3>1. e[i] \in 0 .. l + k
      BY <1>4
    <3> QED BY <1>4, <2>2, <3>1
  <2> QED BY <2>1, <2>2
<1>6. ASSUME NEW i \in 1 .. n
      PROVE  e[i] = e[i - 1] + BytesOf(r[i]) /\ Header(u, e[i - 1], r[i])
  <2>1. /\ i - 1 \in 0 .. n /\ i \in 0 .. n
    OBVIOUS
  <2> PICK a \in 0 .. l, b \in 0 .. l : a = ends[i - 1] /\ b = ends[i]
    BY <1>3, <2>1
  <2>2. b = a + BytesOf(q[i]) /\ Header(s, a, q[i]) /\ q[i] \in Sendable
    BY <1>2, <1>3
  <2>3. e[i - 1] = a /\ e[i] = b /\ r[i] = q[i]
    BY <1>2, <1>4, <2>1
  <2>4. ASSUME NEW x \in 1 .. 4, a + x <= l
        PROVE  u[a + x] = s[a + x]
    <3>1. a + x \in 1 .. l
      BY <2>4
    <3> QED BY <1>1, <3>1
  <2>5. /\ a + 1 <= l /\ a + 2 <= l
        /\ q[i] # Malformed => a + 3 <= l /\ a + 4 <= l
    BY <2>2, SendableFacts
  <2>6. /\ u[a + 1] = s[a + 1] /\ u[a + 2] = s[a + 2]
        /\ q[i] # Malformed => u[a + 3] = s[a + 3] /\ u[a + 4] = s[a + 4]
    BY <2>4, <2>5
  <2>7. Header(u, a, q[i])
    BY <2>2, <2>6 DEF Header
  <2> QED BY <2>2, <2>3, <2>7
<1>7. e[n + 1] = e[n] + BytesOf(p) /\ Header(u, e[n], p)
  <2>1. e[n] = l
    BY <1>3, <1>4
  <2>2. \A x \in 1 .. 4 : x <= k => u[l + x] = t[0 + x]
    BY <1>1
  <2>3. 2 <= k /\ (p # Malformed => 4 <= k)
    BY SendableFacts
  <2>4. /\ u[l + 1] = t[0 + 1] /\ u[l + 2] = t[0 + 2]
        /\ p # Malformed => u[l + 3] = t[0 + 3] /\ u[l + 4] = t[0 + 4]
    BY <2>2, <2>3
  <2>5. Header(u, l, p)
    BY <2>4 DEF Header
  <2> QED BY <1>4, <2>1, <2>5
<1>8. \A i \in 1 .. n + 1 :
         e[i] = e[i - 1] + BytesOf(r[i]) /\ Header(u, e[i - 1], r[i])
  <2> SUFFICES ASSUME NEW i \in 1 .. n + 1
               PROVE  e[i] = e[i - 1] + BytesOf(r[i]) /\ Header(u, e[i - 1], r[i])
    OBVIOUS
  <2>1. CASE i = n + 1
    <3>1. i - 1 = n
      BY <2>1
    <3> QED BY <1>2, <1>7, <2>1, <3>1
  <2>2. CASE i # n + 1
    BY <1>6, <2>2
  <2> QED BY <2>1, <2>2
<1>9. e[0] = 0
  BY <1>3, <1>4
<1> QED BY <1>1, <1>2, <1>4, <1>5, <1>8, <1>9 DEF Framed, Frames, u, r
\* Taking the bytes of the first package leaves those of the others.
LEMMA FramesTake ==
    ASSUME NEW f \in Seq(Bytes), NEW s \in Seq(Bytes), NEW q \in Seq(Sendable),
           q # <<>>, Len(f) = BytesOf(q[1]), Framed(f \o s, q)
    PROVE  Framed(s, Tail(q))
<1> DEFINE u == f \o s
<1>1. /\ Len(u) = Len(f) + Len(s)
      /\ \A i \in 1 .. Len(s) : u[Len(f) + i] = s[i]
  <2>1. Len(u) = Len(f) + Len(s)
    BY Concat
  <2>2. \A i \in 1 .. Len(s) : u[Len(f) + i] = s[i]
    BY Concat
  <2> QED BY <2>1, <2>2
<1>2. Framed(u, q)
  OBVIOUS
<1> HIDE DEF u
<1> PICK ends \in [0 .. Len(q) -> 0 .. Len(u)] : Frames(u, q, ends)
  BY <1>2 DEF Framed
<1> PICK n \in Nat, k \in Nat, l \in Nat : n + 1 = Len(q) /\ k = Len(f) /\ l = Len(s)
  <2>1. Len(q) \in Nat /\ Len(q) >= 1 /\ Len(f) \in Nat /\ Len(s) \in Nat
    OBVIOUS
  <2>2. (Len(q) - 1) + 1 = Len(q) /\ Len(q) - 1 \in Nat
    BY <2>1
  <2> QED BY <2>1, <2>2
<1> DEFINE r == Tail(q)
           e == [i \in 0 .. n |-> ends[i + 1] - k]
<1>3. /\ Len(u) = k + l
      /\ \A i \in 1 .. l : u[k + i] = s[i]
  BY <1>1, Zenon
<1>4. Len(r) = n /\ \A i \in 1 .. n : r[i] = q[i + 1] /\ q[i + 1] \in Sendable
  OBVIOUS
<1>5. /\ ends[0] = 0 /\ ends[n + 1] = k + l
      /\ \A i, j \in 0 .. n + 1 : i <= j => ends[i] <= ends[j]
      /\ \A i \in 1 .. n + 1 :
            ends[i] = ends[i - 1] + BytesOf(q[i]) /\ Header(u, ends[i - 1], q[i])
      /\ \A i \in 0 .. n + 1 : ends[i] \in 0 .. k + l
  BY <1>3 DEF Frames
<1> HIDE DEF r
<1>6. ends[1] = k
  <2>1. 1 \in 1 .. n + 1 /\ 1 - 1 = 0
    OBVIOUS
  <2>2. ends[1] = ends[0] + BytesOf(q[1])
    BY <1>5, <2>1
  <2> QED BY <1>5, <2>2
<1>7. \A i \in 0 .. n : ends[i + 1] \in k .. k + l
  <2> SUFFICES ASSUME NEW i \in 0 .. n PROVE ends[i + 1] \in k .. k + l
    OBVIOUS
  <2>1. 1 \in 0 .. n + 1 /\ i + 1 \in 0 .. n + 1 /\ 1 <= i + 1
    OBVIOUS
  <2>2. ends[1] <= ends[i + 1] /\ ends[i + 1] \in 0 .. k + l
    BY <1>5, <2>1
  <2> QED BY <1>6, <2>2
<1>8. /\ \A i \in 0 .. n : e[i] = ends[i + 1] - k
      /\ \A i \in 0 .. n : e[i] \in 0 .. l
      /\ e \in [0 .. n -> 0 .. l]
  <2>1. \A i \in 0 .. n : ends[i + 1] - k \in 0 .. l
    BY <1>7
  <2> QED BY <2>1
<1> HIDE DEF e
<1>9. \A i, j \in 0 .. n : i <= j => e[i] <= e[j]
  <2> SUFFICES ASSUME NEW i \in 0 .. n, NEW j \in 0 .. n, i <= j
               PROVE  e[i] <= e[j]
    OBVIOUS
  <2>1. i + 1 \in 0 .. n + 1 /\ j + 1 \in 0 .. n + 1 /\ i + 1 <= j + 1
    OBVIOUS
  <2>2. ends[i + 1] <= ends[j + 1]
    BY <1>5, <2>1
  <2> QED BY <1>7, <1>8, <2>2
<1>10. ASSUME NEW i \in 1 .. n
       PROVE  e[i] = e[i - 1] + BytesOf(r[i]) /\ Header(s, e[i - 1], r[i])
  <2>1. /\ i \in 0 .. n /\ i - 1 \in 0 .. n /\ (i - 1) + 1 = i /\ (i + 1) - 1 = i
        /\ i + 1 \in 1 .. n + 1
    OBVIOUS
  <2>2. ends[i] \in k .. k + l /\ ends[i + 1] \in k .. k + l
    BY <1>7, <2>1
  <2> PICK a \in 0 .. l, b \in 0 .. l : ends[i] = k + a /\ ends[i + 1] = k + b
    <3>1. PICK x \in k .. k + l, y \in k .. k + l : ends[i] = x /\ ends[i + 1] = y
      BY <2>2
    <3>2. x - k \in 0 .. l /\ y - k \in 0 .. l /\ x = k + (x - k) /\ y = k + (y - k)
      OBVIOUS
    <3> QED BY <3>1, <3>2
  <2>3. e[i - 1] = a /\ e[i] = b /\ r[i] = q[i + 1] /\ q[i + 1] \in Sendable
    <3>1. e[i - 1] = ends[(i - 1) + 1] - k /\ e[i] = ends[i + 1] - k
      BY <1>8, <2>1
    <3>2. r[i] = q[i + 1] /\ q[i + 1] \in Sendable
      BY <1>4
    <3>3. (k + a) - k = a /\ (k + b) - k = b
      OBVIOUS
    <3> QED BY <2>1, <3>1, <3>2, <3>3
  <2>4. k + b = (k + a) + BytesOf(q[i + 1]) /\ Header(u, k + a, q[i + 1])
    BY <1>5, <2>1
  <2>w. PICK w \in Nat :
           w = BytesOf(q[i + 1]) /\ w >= 2 /\ (q[i + 1] # Malformed => w >= 4)
    BY <2>3, SendableFacts
  <2>5. w \in Nat /\ b = a + w
    <3>1. k + b = (k + a) + w /\ w \in Nat
      BY <2>4, <2>w, Zenon
    <3> QED BY <3>1
  <2>6. ASSUME NEW x \in 1 .. 4, a + x <= l
        PROVE  u[(k + a) + x] = s[a + x]
    <3>1. a + x \in 1 .. l /\ (k + a) + x = k + (a + x)
      BY <2>6
    <3> QED BY <1>3, <3>1
  <2>7. /\ a + 1 <= l /\ a + 2 <= l
        /\ q[i + 1] # Malformed => a + 3 <= l /\ a + 4 <= l
    <3>1. w >= 2 => a + 1 <= l /\ a + 2 <= l
      BY <2>5
    <3>2. w >= 4 => a + 3 <= l /\ a + 4 <= l
      BY <2>5
    <3> QED BY <2>w, <3>1, <3>2
  <2>8. /\ u[(k + a) + 1] = s[a + 1] /\ u[(k + a) + 2] = s[a + 2]
        /\ q[i + 1] # Malformed =>
              u[(k + a) + 3] = s[a + 3] /\ u[(k + a) + 4] = s[a + 4]
    BY <2>6, <2>7
  <2>9. Header(s, a, q[i + 1])
    BY <2>4, <2>8 DEF Header
  <2> QED BY <2>3, <2>w, <2>5, <2>9
<1>11. e[0] = 0 /\ e[n] = l
  <2>1. 0 \in 0 .. n /\ n \in 0 .. n /\ 0 + 1 = 1
    OBVIOUS
  <2>2. e[0] = ends[1] - k /\ e[n] = ends[n + 1] - k
    BY <1>8, <2>1
  <2>3. k - k = 0 /\ (k + l) - k = l
    OBVIOUS
  <2> QED BY <1>5, <1>6, <2>2, <2>3
<1> QED BY <1>4, <1>8, <1>9, <1>10, <1>11 DEF Framed, Frames, r

\* Bytes on their way begin with the header of the first package.
LEMMA FramesHead ==
    ASSUME NEW s \in Seq(Bytes), NEW q \in Seq(Sendable), Len(s) >= 1, Framed(s, q)
    PROVE  /\ q # <<>> /\ q[1] \in Sendable /\ BytesOf(q[1]) <= Len(s)
           /\ Header(s, 0, q[1])
<1> PICK ends \in [0 .. Len(q) -> 0 .. Len(s)] : Frames(s, q, ends)
  BY DEF Framed
<1>1. Len(q) # 0
  BY DEF Frames
<1>2. q # <<>> /\ 1 \in 1 .. Len(q) /\ 1 - 1 = 0 /\ q[1] \in Sendable
  BY <1>1
<1>3. ends[1] = ends[0] + BytesOf(q[1]) /\ ends[0] = 0 /\ Header(s, ends[0], q[1])
  BY <1>2 DEF Frames
<1>4. ends[1] \in 0 .. Len(s)
  BY <1>2
<1>5. BytesOf(q[1]) \in Nat
  BY <1>2, SendableFacts
<1> QED BY <1>2, <1>3, <1>4, <1>5
\* A sequence cut in two.
LEMMA Cut ==
    ASSUME NEW b \in Seq(Bytes), NEW n \in Nat, n <= Len(b)
    PROVE  /\ SubSeq(b, 1, n) \in Seq(Bytes) /\ Len(SubSeq(b, 1, n)) = n
           /\ \A i \in 1 .. n : SubSeq(b, 1, n)[i] = b[i]
           /\ SubSeq(b, n + 1, Len(b)) \in Seq(Bytes)
           /\ SubSeq(b, 1, n) \o SubSeq(b, n + 1, Len(b)) = b
<1> PICK l \in Nat : l = Len(b)
  OBVIOUS
<1>1. /\ SubSeq(b, 1, n) \in Seq(Bytes) /\ Len(SubSeq(b, 1, n)) = n
      /\ \A i \in 1 .. n : SubSeq(b, 1, n)[i] = b[i]
  <2>1. \A i \in 1 .. n : b[i] \in Bytes
    OBVIOUS
  <2>2. /\ SubSeq(b, 1, n) \in Seq(Bytes)
        /\ Len(SubSeq(b, 1, n)) = IF 1 <= n THEN n - 1 + 1 ELSE 0
        /\ \A i \in 1 .. n - 1 + 1 : SubSeq(b, 1, n)[i] = b[1 + i - 1]
    BY <2>1, SubSeqProperties
  <2>3. n - 1 + 1 = n /\ (IF 1 <= n THEN n - 1 + 1 ELSE 0) = n
        /\ \A i \in 1 .. n : 1 + i - 1 = i
    OBVIOUS
  <2> QED BY <2>2, <2>3
<1>2. SubSeq(b, n + 1, l) \in Seq(Bytes)
  <2>1. \A i \in n + 1 .. l : b[i] \in Bytes
    OBVIOUS
  <2> QED BY <2>1, SubSeqProperties
<1>3. SubSeq(b, 1, n) \o SubSeq(b, n + 1, l) = SubSeq(b, 1, l)
  <2>1. 1 \in 1 .. Len(b) + 1 /\ n \in 1 - 1 .. Len(b) /\ l \in n .. Len(b)
    OBVIOUS
  <2> QED BY <2>1, ConcatAdjacentSubSeq
<1>4. SubSeq(b, 1, l) = b
  BY SubSeqFull
<1> QED BY <1>1, <1>2, <1>3, <1>4

\* Three sequences after each other.
LEMMA ConcatThree ==
    \A x, y, z \in Seq(Bytes) : (x \o y) \o z = x \o (y \o z)
<1> SUFFICES ASSUME NEW x \in Seq(Bytes), NEW y \in Seq(Bytes), NEW z \in Seq(Bytes)
             PROVE  (x \o y) \o z = x \o (y \o z)
  OBVIOUS
<1> QED BY ConcatAssociative

\* A package is what its three fields say.
LEMMA PackageShape ==
    ASSUME NEW p \in Packages, NEW type, NEW id, NEW n,
           type = p.type, id = p.requestID, n = p.size
    PROVE  [type |-> type, requestID |-> id, size |-> n] = p
BY DEF Packages, heartbeat

\* What is left of the bytes b after a read.
LEMMA Decoded ==
    ASSUME NEW b \in Seq(Bytes), canRead(b)
    PROVE  Rest(b) \in Seq(Bytes)
<1> DEFINE m == firstMsgLength(b)
<1>1. m = 256 * b[1] + b[2] /\ m <= Len(b) /\ Len(b) >= 2
  BY Sizes DEF canRead, firstMsgLength
<1> HIDE DEF m
<1>2. m \in Nat
  <2>1. b[1] \in Bytes /\ b[2] \in Bytes
    BY <1>1
  <2>2. PICK x \in 0 .. 255, y \in 0 .. 255 : x = b[1] /\ y = b[2]
    BY <2>1 DEF Bytes
  <2>3. 256 * x + y \in Nat
    OBVIOUS
  <2> QED BY <1>1, <2>2, <2>3
<1>3. SubSeq(b, m + 1, Len(b)) \in Seq(Bytes)
  BY <1>1, <1>2, Cut
<1> QED BY <1>3 DEF Rest, m

\* What the reader makes of the bytes b it has, when those of q are under way:
\* the first package of q as soon as it is whole, and no other.
LEMMA FirstRead ==
    ASSUME NEW b \in Seq(Bytes), NEW rest \in Seq(Bytes), NEW q \in Seq(Sendable),
           Len(b) >= 1, Framed(b \o rest, q), canRead(b)
    PROVE  /\ q # <<>> /\ q[1] \in Sendable
           /\ q[1] = Malformed => ~IsPackage(First(b))
           /\ q[1] # Malformed =>
                 /\ firstMsgLength(b) > 0 /\ IsPackage(First(b))
                 /\ stringToPackage(First(b)) = q[1]
                 /\ Rest(b) \in Seq(Bytes) /\ Framed(Rest(b) \o rest, Tail(q))
<1> DEFINE s == b \o rest
           p == q[1]
           m == firstMsgLength(b)
           f == First(b)
<1>1. s \in Seq(Bytes) /\ Len(s) = Len(b) + Len(rest)
  BY Concat
<1>2. \A i \in 1 .. Len(b) : s[i] = b[i]
  BY Concat
<1>3. Framed(s, q)
  OBVIOUS
<1> HIDE DEF s
<1>4. Len(s) >= 1
  BY <1>1
<1>5. q # <<>> /\ p \in Sendable /\ Header(s, 0, p)
  BY <1>1, <1>3, <1>4, FramesHead
<1> HIDE DEF p
<1>6. /\ Len(b) \in Nat /\ Len(b) >= 2 /\ m <= Len(b)
      /\ m = 256 * b[1] + b[2]
  BY Sizes DEF canRead, firstMsgLength
<1>7. m \in Nat
  <2>1. b[1] \in Bytes /\ b[2] \in Bytes
    BY <1>6
  <2>2. PICK x \in 0 .. 255, y \in 0 .. 255 : x = b[1] /\ y = b[2]
    BY <2>1 DEF Bytes
  <2>3. 256 * x + y \in Nat
    OBVIOUS
  <2> QED BY <1>6, <2>2, <2>3
<1>8. m = 256 * s[0 + 1] + s[0 + 2]
  <2>1. s[1] = b[1] /\ s[2] = b[2]
    BY <1>2, <1>6
  <2> QED BY <1>6, <2>1
<1> HIDE DEF m
<1>9. f = SubSeq(b, 1, m) /\ Rest(b) = SubSeq(b, m + 1, Len(b))
  BY DEF First, Rest, m
<1> HIDE DEF f
<1>10. /\ f \in Seq(Bytes) /\ Len(f) = m
       /\ \A i \in 1 .. m : f[i] = b[i]
       /\ Rest(b) \in Seq(Bytes) /\ f \o Rest(b) = b
  <2> DEFINE r == SubSeq(b, m + 1, Len(b))
  <2>1. /\ SubSeq(b, 1, m) \in Seq(Bytes) /\ Len(SubSeq(b, 1, m)) = m
        /\ \A i \in 1 .. m : SubSeq(b, 1, m)[i] = b[i]
        /\ r \in Seq(Bytes) /\ SubSeq(b, 1, m) \o r = b
    BY <1>6, <1>7, Cut
  <2> HIDE DEF r
  <2>2. f = SubSeq(b, 1, m) /\ Rest(b) = r
    BY <1>9 DEF r
  <2> QED BY <2>1, <2>2
<1>11. CASE p = Malformed
  <2>1. m \in {0, 2}
    BY <1>5, <1>8, <1>11, Sizes DEF Header
  <2>2. ~IsPackage(f)
    BY <1>10, <2>1, Sizes DEF IsPackage
  <2> QED BY <1>5, <1>11, <2>2 DEF p, f
<1>12. CASE p # Malformed
  <2>1. m = BytesOf(p) /\ s[0 + 3] = p.type /\ s[0 + 4] = p.requestID
    BY <1>5, <1>8, <1>12 DEF Header
  <2>2. m >= 4 /\ p \in Packages
    BY <1>5, <1>12, <2>1, SendableFacts DEF Sendable
  <2>3. f[1] = b[1] /\ f[2] = b[2] /\ f[3] = s[3] /\ f[4] = s[4]
    <3>1. /\ 1 \in 1 .. m /\ 2 \in 1 .. m /\ 3 \in 1 .. m /\ 4 \in 1 .. m
          /\ 3 \in 1 .. Len(b) /\ 4 \in 1 .. Len(b)
      BY <1>6, <1>7, <2>2
    <3> QED BY <1>2, <1>10, <3>1
  <2>4. firstMsgLength(f) = m
    <3>1. ~(Len(f) < LengthSize)
      BY <1>7, <1>10, <2>2, Sizes
    <3> QED BY <1>6, <2>3, <3>1 DEF firstMsgLength
  <2>5. IsPackage(f)
    BY <1>7, <1>10, <2>2, <2>4, Sizes DEF IsPackage
  <2>6. stringToPackage(f) = p
    <3>1. f[LengthSize + 1] = p.type /\ f[LengthSize + 2] = p.requestID
      BY <2>1, <2>3, Sizes
    <3>2. Len(f) - HeaderSize = p.size
      <4>1. p.size \in Nat /\ BytesOf(p) = 4 + p.size
        BY <2>2, PackageFacts, Sizes DEF BytesOf
      <4> QED BY <1>10, <2>1, <4>1, Sizes
    <3> QED BY <2>2, <3>1, <3>2, PackageShape DEF stringToPackage
  <2>7. Framed(Rest(b) \o rest, Tail(q))
    <3>1. s = f \o (Rest(b) \o rest)
      <4>1. f \in Seq(Bytes) /\ Rest(b) \in Seq(Bytes)
        BY <1>10
      <4>2. (f \o Rest(b)) \o rest = f \o (Rest(b) \o rest)
        BY <4>1, ConcatThree, Zenon
      <4> QED BY <1>10, <4>2, Zenon DEF s
    <3>2. Rest(b) \o rest \in Seq(Bytes)
      BY <1>10, Concat
    <3> QED BY <1>3, <1>5, <1>10, <2>1, <3>1, <3>2, FramesTake DEF p
  <2>8. m > 0
    BY <1>7, <2>2
  <2> QED BY <1>5, <1>10, <1>12, <2>5, <2>6, <2>7, <2>8, Zenon DEF p, m, f
<1> QED BY <1>11, <1>12
-----------------------------------------------------------------------------
(* The ids of the requests under way.                                      *)

\* Sending adds the id of a request.
LEMMA WaitingSend ==
    ASSUME NEW q \in Seq(Sendable), NEW p \in Sendable,
           Distinct(q), p.type = Text => p.requestID \notin Waiting(q)
    PROVE  /\ Distinct(Append(q, p))
           /\ Waiting(Append(q, p)) =
                 Waiting(q) \cup (IF p.type = Text THEN {p.requestID} ELSE {})
<1> PICK n \in Nat : n = Len(q)
  OBVIOUS
<1> DEFINE r == Append(q, p)
<1>1. /\ DOMAIN q = 1 .. n /\ DOMAIN r = 1 .. n + 1
      /\ r[n + 1] = p /\ \A i \in 1 .. n : r[i] = q[i]
  OBVIOUS
<1> HIDE DEF r
<1>2. \A i \in DOMAIN q : q[i].type = Text => q[i].requestID \in Waiting(q)
  BY DEF Waiting
<1>3. Distinct(r)
  <2> SUFFICES ASSUME NEW i \in 1 .. n + 1, NEW j \in 1 .. n + 1,
                      r[i].type = Text, r[j].type = Text, r[i].requestID = r[j].requestID
               PROVE  i = j
    BY <1>1 DEF Distinct
  <2>1. CASE i \in 1 .. n /\ j \in 1 .. n
    BY <1>1, <2>1 DEF Distinct
  <2>2. CASE i \in 1 .. n /\ j = n + 1
    BY <1>1, <1>2, <2>2
  <2>3. CASE i = n + 1 /\ j \in 1 .. n
    BY <1>1, <1>2, <2>3
  <2> QED BY <2>1, <2>2, <2>3
<1>4. Waiting(r) = Waiting(q) \cup (IF p.type = Text THEN {p.requestID} ELSE {})
  <2>1. ASSUME NEW x \in Waiting(r)
        PROVE  x \in Waiting(q) \cup (IF p.type = Text THEN {p.requestID} ELSE {})
    <3>1. PICK i \in 1 .. n + 1 : r[i].type = Text /\ x = r[i].requestID
      BY <1>1 DEF Waiting
    <3>2. CASE i \in 1 .. n
      BY <1>1, <1>2, <3>1, <3>2
    <3>3. CASE i = n + 1
      BY <1>1, <3>1, <3>3
    <3> QED BY <3>2, <3>3
  <2>2. ASSUME NEW x \in Waiting(q) PROVE x \in Waiting(r)
    <3>1. PICK i \in 1 .. n : q[i].type = Text /\ x = q[i].requestID
      BY <1>1 DEF Waiting
    <3>2. i \in DOMAIN r /\ r[i].type = Text /\ x = r[i].requestID
      BY <1>1, <3>1
    <3> QED BY <3>2 DEF Waiting
  <2>3. ASSUME p.type = Text PROVE p.requestID \in Waiting(r)
    <3>1. n + 1 \in DOMAIN r /\ r[n + 1] = p
      BY <1>1
    <3> QED BY <2>3, <3>1 DEF Waiting
  <2> QED BY <2>1, <2>2, <2>3
<1> QED BY <1>3, <1>4 DEF r

\* Taking removes the id of the first.
LEMMA WaitingTake ==
    ASSUME NEW q \in Seq(Sendable), q # <<>>, Distinct(q)
    PROVE  /\ Distinct(Tail(q))
           /\ q[1].type = Text => q[1].requestID \notin Waiting(Tail(q))
           /\ Waiting(q) =
                 Waiting(Tail(q)) \cup (IF q[1].type = Text THEN {q[1].requestID} ELSE {})
<1> PICK n \in Nat : n + 1 = Len(q)
  <2>1. Len(q) \in Nat /\ Len(q) >= 1
    OBVIOUS
  <2>2. Len(q) - 1 \in Nat /\ (Len(q) - 1) + 1 = Len(q)
    BY <2>1
  <2> QED BY <2>2
<1> DEFINE r == Tail(q)
<1>1. /\ DOMAIN q = 1 .. n + 1 /\ DOMAIN r = 1 .. n
      /\ \A i \in 1 .. n : r[i] = q[i + 1]
  OBVIOUS
<1> HIDE DEF r
<1>2. Distinct(r)
  <2> SUFFICES ASSUME NEW i \in 1 .. n, NEW j \in 1 .. n,
                      r[i].type = Text, r[j].type = Text, r[i].requestID = r[j].requestID
               PROVE  i = j
    BY <1>1 DEF Distinct
  <2>1. i + 1 \in 1 .. n + 1 /\ j + 1 \in 1 .. n + 1
    OBVIOUS
  <2>2. i + 1 = j + 1
    BY <1>1, <2>1 DEF Distinct
  <2> QED BY <2>2
<1>3. ASSUME q[1].type = Text, q[1].requestID \in Waiting(r) PROVE FALSE
  <2>1. PICK i \in 1 .. n : r[i].type = Text /\ q[1].requestID = r[i].requestID
    BY <1>1, <1>3 DEF Waiting
  <2>2. i + 1 \in 1 .. n + 1 /\ 1 \in 1 .. n + 1 /\ i + 1 # 1
    OBVIOUS
  <2>3. q[i + 1].type = Text /\ q[1].requestID = q[i + 1].requestID
    BY <1>1, <2>1
  <2> QED BY <1>1, <1>3, <2>2, <2>3 DEF Distinct
<1>4. Waiting(q) = Waiting(r) \cup (IF q[1].type = Text THEN {q[1].requestID} ELSE {})
  <2>1. ASSUME NEW x \in Waiting(q)
        PROVE  x \in Waiting(r) \cup (IF q[1].type = Text THEN {q[1].requestID} ELSE {})
    <3>1. PICK i \in 1 .. n + 1 : q[i].type = Text /\ x = q[i].requestID
      BY <1>1 DEF Waiting
    <3>2. CASE i = 1
      BY <3>1, <3>2
    <3>3. CASE i # 1
      <4>1. PICK j \in 1 .. n : i = j + 1
        <5>1. i - 1 \in 1 .. n /\ i = (i - 1) + 1
          BY <3>3
        <5> QED BY <5>1
      <4>2. j \in DOMAIN r /\ r[j].type = Text /\ x = r[j].requestID
        BY <1>1, <3>1, <4>1
      <4> QED BY <4>2 DEF Waiting
    <3> QED BY <3>2, <3>3
  <2>2. ASSUME NEW x \in Waiting(r) PROVE x \in Waiting(q)
    <3>1. PICK i \in 1 .. n : r[i].type = Text /\ x = r[i].requestID
      BY <1>1 DEF Waiting
    <3>2. i + 1 \in DOMAIN q /\ q[i + 1].type = Text /\ x = q[i + 1].requestID
      BY <1>1, <3>1
    <3> QED BY <3>2 DEF Waiting
  <2>3. ASSUME q[1].type = Text PROVE q[1].requestID \in Waiting(q)
    <3>1. 1 \in DOMAIN q
      BY <1>1
    <3> QED BY <2>3, <3>1 DEF Waiting
  <2> QED BY <2>1, <2>2, <2>3
<1> QED BY <1>2, <1>3, <1>4 DEF r

-----------------------------------------------------------------------------
(* What a read does to the stream.                                         *)

\* The smaller of two.
LEMMA MinPair ==
    ASSUME NEW a \in Int, NEW b \in Int
    PROVE  Min({a, b}) \in {a, b} /\ Min({a, b}) <= a /\ Min({a, b}) <= b
<1>1. \E x \in {a, b} : \A y \in {a, b} : x <= y
  OBVIOUS
<1> QED BY <1>1 DEF Min

\* A read moves bytes from the wire to the end of the buffer.
LEMMA Reading ==
    ASSUME TypeOK, ReadSome
    PROVE  /\ pc = "read" /\ outstanding' = outstanding
           /\ \E b \in Seq(Bytes) :
                 /\ wire' \in Seq(Bytes) /\ Len(b) >= 1 /\ b \o wire' = stream
                 /\ Incomplete(b) \/ Bad(b) \/ Complete(b)
<1>1. /\ pc = "read" /\ outstanding' = outstanding
      /\ \E size \in 1 .. Min({buffer_lenth, Len(wire)}) :
            LET b == write(m_buffer, SubSeq(wire, 1, size))
            IN /\ wire' = SubSeq(wire, size + 1, Len(wire))
               /\ Incomplete(b) \/ Bad(b) \/ Complete(b)
  BY DEF ReadSome
<1>2. m_buffer \in Seq(Bytes) /\ wire \in Seq(Bytes)
  BY DEF TypeOK
<1>3. PICK size \in 1 .. Min({buffer_lenth, Len(wire)}) :
         LET b == write(m_buffer, SubSeq(wire, 1, size))
         IN /\ wire' = SubSeq(wire, size + 1, Len(wire))
            /\ Incomplete(b) \/ Bad(b) \/ Complete(b)
  BY <1>1
<1>4. size \in Nat /\ size >= 1 /\ size <= Len(wire)
  <2>1. Len(wire) \in Int /\ buffer_lenth \in Int
    BY <1>2, BoundsAssumption
  <2>2. /\ Min({buffer_lenth, Len(wire)}) \in {buffer_lenth, Len(wire)}
        /\ Min({buffer_lenth, Len(wire)}) <= Len(wire)
    BY <2>1, MinPair
  <2> QED BY <2>1, <2>2
<1> DEFINE x == SubSeq(wire, 1, size)
           y == SubSeq(wire, size + 1, Len(wire))
           b == m_buffer \o x
<1>5. x \in Seq(Bytes) /\ Len(x) = size /\ y \in Seq(Bytes) /\ x \o y = wire
  BY <1>2, <1>4, Cut
<1>6. wire' = y /\ (Incomplete(b) \/ Bad(b) \/ Complete(b))
  BY <1>3 DEF write
<1> HIDE DEF x, y
<1>7. b \in Seq(Bytes) /\ Len(b) >= 1
  <2>1. b \in Seq(Bytes) /\ Len(b) = Len(m_buffer) + Len(x)
    BY <1>2, <1>5, Concat
  <2>2. Len(m_buffer) \in Nat
    BY <1>2
  <2> HIDE DEF b
  <2> QED BY <1>4, <1>5, <2>1, <2>2
<1>8. b \o y = stream
  BY <1>2, <1>5, ConcatThree, Zenon DEF stream
<1> HIDE DEF b
<1> QED BY <1>1, <1>5, <1>6, <1>7, <1>8
\* Reads that leave the stream as it was, that close the connection, and that
\* take the first of the packages sent.
Skips == stream' = stream /\ UNCHANGED <<pack, heart_beat_times, pc, sent>>

Rejects ==
    /\ sent # <<>> /\ sent[1] = Malformed
    /\ pc' = "closed"
    /\ UNCHANGED <<pack, heart_beat_times, sent>>

Takes ==
    /\ sent # <<>> /\ sent[1] \in Packages
    /\ pack' = sent[1] /\ sent' = Tail(sent)
    /\ Framed(stream', sent')
    /\ \/ pack'.type = HeartBeat /\ CountHeartBeat
       \/ pack'.type # HeartBeat /\ pc' = "process" /\ UNCHANGED heart_beat_times

\* These are all there are: whatever the read returns, the reader sees the
\* first package sent when it is whole and rejects what is none.
LEMMA ReadCases ==
    ASSUME TypeOK, FrameInv, ReadSome
    PROVE  /\ pc = "read" /\ outstanding' = outstanding
           /\ wire' \in Seq(Bytes) /\ m_buffer' \in Seq(Bytes)
           /\ Skips \/ Rejects \/ Takes
<1>1. pc = "read" /\ outstanding' = outstanding
  BY Reading
<1>2. PICK b \in Seq(Bytes) :
         /\ wire' \in Seq(Bytes) /\ Len(b) >= 1 /\ b \o wire' = stream
         /\ Incomplete(b) \/ Bad(b) \/ Complete(b)
  BY Reading
<1>3. sent \in Seq(Sendable) /\ Framed(b \o wire', sent)
  BY <1>1, <1>2 DEF TypeOK, FrameInv, Sendable
<1>4. CASE Incomplete(b)
  <2>1. m_buffer' = b /\ UNCHANGED <<pack, heart_beat_times, pc, sent>>
    BY <1>4 DEF Incomplete
  <2>2. stream' = stream
    BY <1>2, <2>1 DEF stream
  <2> QED BY <1>1, <1>2, <2>1, <2>2 DEF Skips
<1>5. CASE Bad(b)
  <2>1. canRead(b) /\ pc' = "closed" /\ UNCHANGED <<pack, heart_beat_times, sent>>
    BY <1>5 DEF Bad
  <2>2. firstMsgLength(b) = 0 \/ ~IsPackage(First(b))
    BY <1>5 DEF Bad
  <2>3. /\ sent # <<>>
        /\ sent[1] # Malformed => firstMsgLength(b) > 0 /\ IsPackage(First(b))
    BY <1>2, <1>3, <2>1, FirstRead
  <2>4. sent[1] = Malformed
    BY <2>2, <2>3
  <2>5. m_buffer' \in Seq(Bytes)
    <3>1. Rest(b) \in Seq(Bytes)
      BY <2>1, Decoded
    <3> QED BY <1>2, <1>5, <3>1 DEF Bad
  <2> QED BY <1>1, <1>2, <2>1, <2>3, <2>4, <2>5 DEF Rejects
<1>6. CASE Complete(b)
  <2>1. /\ canRead(b) /\ IsPackage(First(b))
        /\ m_buffer' = Rest(b) /\ sent' = Tail(sent)
        /\ pack' = stringToPackage(First(b))
        /\ \/ pack'.type = HeartBeat /\ CountHeartBeat
           \/ pack'.type # HeartBeat /\ pc' = "process" /\ UNCHANGED heart_beat_times
    BY <1>6 DEF Complete
  <2>2. /\ sent # <<>> /\ sent[1] \in Sendable
        /\ sent[1] = Malformed => ~IsPackage(First(b))
        /\ sent[1] # Malformed =>
              /\ stringToPackage(First(b)) = sent[1]
              /\ Rest(b) \in Seq(Bytes) /\ Framed(Rest(b) \o wire', Tail(sent))
    BY <1>2, <1>3, <2>1, FirstRead
  <2>3. sent[1] # Malformed /\ sent[1] \in Packages
    BY <2>1, <2>2 DEF Sendable
  <2>4. stream' = Rest(b) \o wire'
    BY <2>1 DEF stream
  <2> QED BY <1>1, <1>2, <2>1, <2>2, <2>3, <2>4 DEF Takes
<1> QED BY <1>1, <1>2, <1>4, <1>5, <1>6

-----------------------------------------------------------------------------
(* The invariant holds.                                                    *)

\* At the start nothing is under way.
LEMMA InitInv == Init => IInv
<1> SUFFICES ASSUME Init PROVE IInv
  OBVIOUS
<1> USE DEF Init
<1>1. TypeOK
  BY BoundsAssumption DEF TypeOK, Packages
<1>2. FrameInv
  <2>1. stream = <<>>
    BY DEF stream
  <2> DEFINE ends == [i \in 0 .. 0 |-> 0]
  <2>2. ends \in [0 .. Len(sent) -> 0 .. Len(stream)]
    BY <2>1
  <2>3. Frames(stream, sent, ends)
    BY <2>1 DEF Frames
  <2> HIDE DEF ends
  <2> QED BY <2>2, <2>3 DEF FrameInv, Framed
<1>3. Waiting(sent) = {}
  BY DEF Waiting
<1>4. IdInv
  BY DEF IdInv, Distinct
<1>5. RequestsAccountedFor
  BY <1>3 DEF RequestsAccountedFor, Waiting
<1> QED BY <1>1, <1>2, <1>4, <1>5 DEF IInv

\* What the unanswered requests are, in the words of the invariant.
LEMMA Accounted ==
    RequestsAccountedFor <=>
        (pc # "closed" =>
            outstanding =
                Waiting(sent) \cup (IF pc = "process" THEN {pack.requestID} ELSE {}))
BY DEF RequestsAccountedFor, Waiting

\* Sending p, whose bytes are given.
LEMMA SendInv ==
    ASSUME IInv, NEW p \in Sendable, NEW bytes \in Seq(Bytes), Send(bytes, p),
           Len(bytes) = BytesOf(p), Header(bytes, 0, p),
           p.type = Text => p.requestID \in RequestIDs /\ p.requestID \notin outstanding,
           outstanding' = outstanding \cup (IF p.type = Text THEN {p.requestID} ELSE {})
    PROVE  IInv'
<1>1. /\ pc # "closed" /\ wire' = wire \o bytes /\ sent' = Append(sent, p)
      /\ UNCHANGED <<m_buffer, pack, heart_beat_times, pc>>
  BY DEF Send
<1>2. /\ TypeOK /\ wire \in Seq(Bytes) /\ m_buffer \in Seq(Bytes) /\ sent \in Seq(Sendable)
      /\ outstanding \subseteq RequestIDs
  BY DEF IInv, TypeOK, Sendable
<1>3. wire' \in Seq(Bytes)
  BY <1>1, <1>2, Concat
<1>4. sent' \in Seq(Sendable)
  BY <1>1, <1>2
<1>5. TypeOK'
  BY <1>1, <1>2, <1>3, <1>4 DEF TypeOK, Sendable
<1>6. FrameInv'
  <2>1. stream' = stream \o bytes
    BY <1>1, <1>2, ConcatThree, Zenon DEF stream
  <2>2. stream \in Seq(Bytes) /\ Framed(stream, sent)
    BY <1>1, <1>2, Concat DEF stream, IInv, FrameInv
  <2>3. Framed(stream \o bytes, Append(sent, p))
    BY <1>2, <2>2, FramesSend
  <2> QED BY <1>1, <2>1, <2>3 DEF FrameInv
<1>7. /\ Distinct(sent)
      /\ pc = "process" => pack.type = Text /\ pack.requestID \notin Waiting(sent)
      /\ outstanding =
            Waiting(sent) \cup (IF pc = "process" THEN {pack.requestID} ELSE {})
  BY <1>1, Accounted DEF IInv, IdInv
<1>8. /\ Distinct(sent')
      /\ Waiting(sent') = Waiting(sent) \cup (IF p.type = Text THEN {p.requestID} ELSE {})
  BY <1>1, <1>2, <1>7, WaitingSend
<1>9. IdInv'
  <2>1. pc = "process" => pack.type = Text /\ pack.requestID \notin Waiting(sent')
    BY <1>7, <1>8
  <2> QED BY <1>1, <1>8, <2>1 DEF IdInv
<1>10. RequestsAccountedFor'
  <2>1. outstanding' = Waiting(sent') \cup (IF pc' = "process" THEN {pack'.requestID} ELSE {})
    BY <1>1, <1>7, <1>8
  <2> QED BY <2>1 DEF RequestsAccountedFor, Waiting
<1> QED BY <1>5, <1>6, <1>9, <1>10 DEF IInv
\* The peer sends.
LEMMA PeerInv ==
    ASSUME IInv,
           \/ \E p \in Packages : SendRequest(p)
           \/ SendHeartBeat
           \/ \E bytes \in MalformedBytes : SendMalformed(bytes)
    PROVE  IInv'
<1>1. ASSUME NEW p \in Packages, SendRequest(p) PROVE IInv'
  <2>1. /\ Send(packageToString(p), p) /\ p.type = Text /\ p.requestID \notin outstanding
        /\ outstanding' = outstanding \cup {p.requestID}
    BY <1>1 DEF SendRequest
  <2>2. p \in Sendable /\ p.requestID \in RequestIDs
    BY <2>1, PackageFacts DEF Sendable
  <2> QED BY <2>1, <2>2, Encoded, SendInv
<1>2. CASE SendHeartBeat
  <2>1. Send(packageToString(heartbeat), heartbeat) /\ outstanding' = outstanding
    BY <1>2 DEF SendHeartBeat
  <2>2. heartbeat \in Packages /\ heartbeat \in Sendable /\ heartbeat.type # Text
    BY DEF Packages, Sendable, heartbeat, HeartBeat, Text
  <2>3. outstanding' =
           outstanding \cup (IF heartbeat.type = Text THEN {heartbeat.requestID} ELSE {})
    BY <2>1, <2>2
  <2> QED BY <2>1, <2>2, <2>3, Encoded, SendInv
<1>3. ASSUME NEW bytes \in MalformedBytes, SendMalformed(bytes) PROVE IInv'
  <2>1. Send(bytes, Malformed) /\ outstanding' = outstanding
    BY <1>3 DEF SendMalformed
  <2>2. Malformed \in Sendable /\ Malformed.type # Text
    BY DEF Sendable, Malformed, Text
  <2>3. outstanding' =
           outstanding \cup (IF Malformed.type = Text THEN {Malformed.requestID} ELSE {})
    BY <2>1, <2>2
  <2> QED BY <2>1, <2>2, <2>3, EncodedMalformed, SendInv
<1> QED BY <1>1, <1>2, <1>3

\* What a heartbeat does.
LEMMA CountFacts ==
    ASSUME heart_beat_times \in Nat, CountHeartBeat, pc = "read"
    PROVE  heart_beat_times' \in Nat /\ pc' \in {"read", "closed"}
BY DEF CountHeartBeat

\* A read.
LEMMA ReadInv ==
    ASSUME IInv, ReadSome
    PROVE  IInv'
<1>1. TypeOK /\ FrameInv
  BY DEF IInv
<1>2. /\ pc = "read" /\ outstanding' = outstanding
      /\ wire' \in Seq(Bytes) /\ m_buffer' \in Seq(Bytes)
      /\ Skips \/ Rejects \/ Takes
  BY <1>1, ReadCases
<1>3. sent \in Seq(Sendable) /\ outstanding \subseteq RequestIDs
  BY <1>1 DEF TypeOK, Sendable
<1>4. Distinct(sent) /\ outstanding = Waiting(sent)
  BY <1>2, Accounted DEF IInv, IdInv
<1>5. CASE Skips
  <2>1. stream' = stream /\ UNCHANGED <<pack, heart_beat_times, pc, sent>>
    BY <1>5 DEF Skips
  <2>2. TypeOK'
    BY <1>1, <1>2, <2>1 DEF TypeOK
  <2>3. FrameInv'
    BY <1>1, <2>1 DEF FrameInv
  <2>4. IdInv' /\ RequestsAccountedFor'
    BY <1>2, <2>1 DEF IInv, IdInv, RequestsAccountedFor
  <2> QED BY <2>2, <2>3, <2>4 DEF IInv
<1>6. CASE Rejects
  <2>1. pc' = "closed" /\ UNCHANGED <<pack, heart_beat_times, sent>>
    BY <1>6 DEF Rejects
  <2>2. TypeOK'
    BY <1>1, <1>2, <2>1 DEF TypeOK
  <2>3. FrameInv' /\ IdInv' /\ RequestsAccountedFor'
    BY <2>1 DEF FrameInv, IdInv, RequestsAccountedFor
  <2> QED BY <2>2, <2>3 DEF IInv
<1>7. CASE Takes
  <2>1. /\ sent # <<>> /\ sent[1] \in Packages
        /\ pack' = sent[1] /\ sent' = Tail(sent)
        /\ Framed(stream', sent')
        /\ \/ pack'.type = HeartBeat /\ CountHeartBeat
           \/ pack'.type # HeartBeat /\ pc' = "process" /\ UNCHANGED heart_beat_times
    BY <1>7 DEF Takes
  <2>2. sent' \in Seq(Sendable)
    BY <1>3, <2>1
  <2>3. /\ heart_beat_times' \in Nat
        /\ pc' \in {"read", "process", "closed"}
    <3>1. heart_beat_times \in Nat
      BY <1>1 DEF TypeOK
    <3> QED BY <1>2, <2>1, <3>1, CountFacts
  <2>4. TypeOK'
    BY <1>2, <1>3, <2>1, <2>2, <2>3 DEF TypeOK, Sendable
  <2>5. FrameInv'
    BY <2>1 DEF FrameInv
  <2>6. /\ Distinct(sent')
        /\ sent[1].type = Text => sent[1].requestID \notin Waiting(sent')
        /\ Waiting(sent) =
              Waiting(sent') \cup (IF sent[1].type = Text THEN {sent[1].requestID} ELSE {})
    BY <1>3, <1>4, <2>1, WaitingTake
  <2>7. /\ pc' = "process" => pack'.type = Text
        /\ pc' \notin {"process", "closed"} => pack'.type # Text
    <3>1. pack'.type \in {Text, HeartBeat} /\ Text # HeartBeat
      BY <2>1, PackageFacts DEF Text, HeartBeat
    <3>2. CASE pack'.type = HeartBeat /\ CountHeartBeat
      <4>1. pc' \in {"read", "closed"}
        BY <1>1, <1>2, <3>2, CountFacts DEF TypeOK
      <4> QED BY <3>1, <3>2, <4>1
    <3>3. CASE pack'.type # HeartBeat /\ pc' = "process"
      BY <3>1, <3>3
    <3> QED BY <2>1, <3>2, <3>3
  <2>8. IdInv'
    <3>1. pc' = "process" => pack'.type = Text /\ pack'.requestID \notin Waiting(sent')
      BY <2>1, <2>6, <2>7
    <3> QED BY <2>6, <3>1 DEF IdInv
  <2>9. RequestsAccountedFor'
    <3>1. pc' # "closed" =>
             outstanding' =
                 Waiting(sent') \cup (IF pc' = "process" THEN {pack'.requestID} ELSE {})
      BY <1>2, <1>4, <2>1, <2>6, <2>7
    <3> QED BY <3>1 DEF RequestsAccountedFor, Waiting
  <2> QED BY <2>4, <2>5, <2>8, <2>9 DEF IInv
<1> QED BY <1>2, <1>5, <1>6, <1>7

\* The handler answers, or fails.
LEMMA HandlerInv ==
    ASSUME IInv, Process \/ ProcessFails
    PROVE  IInv'
<1>1. TypeOK
  BY DEF IInv
<1>2. CASE Process
  <2>1. /\ pc = "process" /\ pc' = "read"
        /\ outstanding' = outstanding \ {pack.requestID}
        /\ UNCHANGED <<wire, m_buffer, pack, heart_beat_times, sent>>
    BY <1>2 DEF Process
  <2>2. TypeOK'
    BY <1>1, <2>1 DEF TypeOK
  <2>3. stream' = stream
    BY <2>1 DEF stream
  <2>4. FrameInv'
    BY <2>1, <2>3 DEF IInv, FrameInv
  <2>5. /\ Distinct(sent) /\ pack.requestID \notin Waiting(sent)
        /\ outstanding = Waiting(sent) \cup {pack.requestID}
    BY <2>1, Accounted DEF IInv, IdInv
  <2>6. IdInv'
    BY <2>1, <2>5 DEF IdInv
  <2>7. outstanding' = Waiting(sent)
    BY <2>1, <2>5
  <2>8. RequestsAccountedFor'
    BY <2>1, <2>7 DEF RequestsAccountedFor, Waiting
  <2> QED BY <2>2, <2>4, <2>6, <2>8 DEF IInv
<1>3. CASE ProcessFails
  <2>1. /\ pc' = "closed"
        /\ UNCHANGED <<wire, m_buffer, pack, heart_beat_times, outstanding, sent>>
    BY <1>3 DEF ProcessFails
  <2>2. TypeOK'
    BY <1>1, <2>1 DEF TypeOK
  <2> QED BY <2>1, <2>2 DEF IInv, FrameInv, IdInv, RequestsAccountedFor
<1> QED BY <1>2, <1>3

\* Every step keeps the invariant.
LEMMA StepInv == IInv /\ [Next]_vars => IInv'
<1> SUFFICES ASSUME IInv, [Next]_vars PROVE IInv'
  OBVIOUS
<1>1. CASE UNCHANGED vars
  BY <1>1 DEF vars, IInv, TypeOK, FrameInv, IdInv, RequestsAccountedFor, stream
<1>2. CASE Next
  BY <1>2, PeerInv, ReadInv, HandlerInv DEF Next
<1> QED BY <1>1, <1>2

\* IInv is an invariant of the framing.
THEOREM Invariance == Spec => []IInv
BY InitInv, StepInv, PTL DEF Spec

\* Every variable keeps its type; in particular the package handed on is always
\* one that can be sent, and the heartbeat count stays within its limit.
THEOREM TypeCorrect == Spec => []TypeOK
<1>1. IInv => TypeOK
  BY DEF IInv
<1> QED BY <1>1, Invariance, PTL

\* The unanswered requests of an open connection are those in the stream and
\* the one in hand, for any reads, sizes and bounds (Network::process and
\* SocketService::process).
THEOREM RequestsAlwaysAccountedFor == Spec => []RequestsAccountedFor
<1>1. IInv => RequestsAccountedFor
  BY DEF IInv
<1> QED BY <1>1, Invariance, PTL

-----------------------------------------------------------------------------
(* The framing implements Channel.                                         *)

\* Each send is a send of the channel, each read that takes a package a delivery,
\* a malformed package closes, a failing handler aborts, and the rest stutters.
LEMMA RefinementStep == IInv /\ [Next]_vars => [C!Next]_(C!vars)
<1> SUFFICES ASSUME IInv, [Next]_vars PROVE C!Next \/ UNCHANGED C!vars
  BY DEF C!vars
<1>1. ASSUME NEW p \in Packages \cup {Malformed}, NEW bytes, Send(bytes, p)
      PROVE  C!Next
  <2>1. pc # "closed" /\ sent' = Append(sent, p) /\ pack' = pack /\ pc' = pc
    BY <1>1 DEF Send
  <2>2. C!Send(p)
    BY <2>1 DEF C!Send, queue
  <2> QED BY <2>2 DEF C!Next
<1>2. CASE ReadSome
  <2>1. TypeOK /\ FrameInv
    BY DEF IInv
  <2>2. pc = "read" /\ (Skips \/ Rejects \/ Takes)
    BY <1>2, <2>1, ReadCases
  <2>3. queue = sent
    BY <2>2 DEF queue
  <2>4. CASE Skips
    BY <2>4 DEF Skips, C!vars, queue
  <2>5. CASE Rejects
    <3>1. /\ sent # <<>> /\ Head(sent) = Malformed /\ pc' = "closed" /\ pack' = pack
      BY <2>5 DEF Rejects
    <3>2. queue' = <<>>
      BY <3>1 DEF queue
    <3>3. C!Reject
      BY <2>2, <2>3, <3>1, <3>2 DEF C!Reject, C!Close
    <3> QED BY <3>3 DEF C!Next
  <2>6. CASE Takes
    <3>1. /\ sent # <<>> /\ Head(sent) \in Packages
          /\ pack' = Head(sent) /\ sent' = Tail(sent)
      BY <2>6 DEF Takes
    <3>2. CASE pc' = "closed"
      <4>1. queue' = <<>>
        BY <3>2 DEF queue
      <4>2. Head(sent).type = HeartBeat
        BY <2>6, <3>1, <3>2 DEF Takes
      <4>3. C!Deliver
        BY <2>2, <2>3, <3>1, <3>2, <4>1, <4>2 DEF C!Deliver, C!Close
      <4> QED BY <4>3 DEF C!Next
    <3>3. CASE pc' # "closed"
      <4>1. queue' = Tail(sent)
        BY <3>1, <3>3 DEF queue
      <4>2. C!Deliver
        BY <2>2, <2>3, <3>1, <3>3, <4>1 DEF C!Deliver
      <4> QED BY <4>2 DEF C!Next
    <3> QED BY <3>2, <3>3
  <2> QED BY <2>2, <2>4, <2>5, <2>6
<1>3. CASE Process
  <2>1. pc = "process" /\ pc' = "read" /\ pack' = pack /\ sent' = sent
    BY <1>3 DEF Process
  <2> QED BY <2>1 DEF C!vars, queue
<1>4. CASE ProcessFails
  <2>1. pc = "process" /\ pc' = "closed" /\ pack' = pack
    BY <1>4 DEF ProcessFails
  <2>2. pack.type # HeartBeat
    BY <2>1 DEF IInv, IdInv, Text, HeartBeat
  <2>3. C!Abort
    BY <2>1, <2>2 DEF C!Abort, C!Close, queue
  <2> QED BY <2>3 DEF C!Next
<1>5. CASE UNCHANGED vars
  BY <1>5 DEF vars, C!vars, queue
<1>6. CASE Next
  <2>1. ASSUME NEW p \in Packages, SendRequest(p) PROVE C!Next
    BY <1>1, <2>1 DEF SendRequest
  <2>2. CASE SendHeartBeat
    BY <1>1, <2>2 DEF SendHeartBeat, Packages
  <2>3. ASSUME NEW bytes \in MalformedBytes, SendMalformed(bytes) PROVE C!Next
    BY <1>1, <2>3 DEF SendMalformed
  <2> QED BY <1>2, <1>3, <1>4, <1>6, <2>1, <2>2, <2>3 DEF Next
<1> QED BY <1>5, <1>6

\* However the stream is cut, what Network::process hands on are the packages
\* that were sent: all of them, once, in order, none after a malformed one.
THEOREM ImplementsChannel == Spec => ChannelSpec
<1>1. Init => C!Init
  BY DEF Init, C!Init, queue, Packages
<1>2. IInv /\ [Next]_vars => [C!Next]_(C!vars)
  BY RefinementStep
<1> QED BY <1>1, <1>2, Invariance, PTL DEF Spec, C!Spec, ChannelSpec

=============================================================================
