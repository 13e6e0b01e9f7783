--------------------------- MODULE TransportProofs ---------------------------
(***************************************************************************)
(* transport/: frames of any length and bytes of any number, transports    *)
(* with any number of connections and chunks of any size, and the file of  *)
(* an endpoint for any number of processes.                                *)
(*                                                                         *)
(* ValueOf folds over the bytes of a header, which takes an induction: the *)
(* well-foundedness of the natural numbers gives it for sets.              *)
(***************************************************************************)
EXTENDS LocalIpc, SocketPath, WellFoundedInduction, TLAPS

-----------------------------------------------------------------------------
(* Frames. *)

LEMMA Constants == HeaderBytes \in Nat \ {0} /\ ByteValues \in Nat \ {0}
BY FrameAssumption

\* Induction over the natural numbers, by the least that is not in S: S is a set, so that the
\* provers can instantiate it.
LEMMA Induction ==
    ASSUME NEW S, 0 \in S, \A n \in Nat : n \in S => n + 1 \in S
    PROVE  \A n \in Nat : n \in S
<1>1. SUFFICES ASSUME Nat \ S # {} PROVE FALSE
  OBVIOUS
<1>2. PICK m \in Nat \ S : \A n \in Nat \ S : ~(n < m)
  <2>1. \E m \in Nat \ S : \A n \in Nat \ S : <<n, m>> \notin OpToRel(<, Nat)
    BY <1>1, NatLessThanWellFounded, WFMin, Zenon
  <2>. QED
    BY <2>1, Zenon DEF OpToRel
<1>3. m # 0 /\ m - 1 \in Nat /\ m - 1 \in S
  BY <1>2
<1>. QED
  BY <1>2, <1>3

\* The function in ValueOf, up to n and on all natural numbers.
Folds(f, s, n) == f = [k \in 0 .. n |-> IF k = 0 THEN 0 ELSE ByteValues * f[k - 1] + s[k]]
FoldsAll(f, s) == f = [k \in Nat |-> IF k = 0 THEN 0 ELSE ByteValues * f[k - 1] + s[k]]
Fold(s) == CHOOSE f : FoldsAll(f, s)

LEMMA FoldAt ==
    ASSUME NEW f, NEW s, NEW n \in Nat, Folds(f, s, n), NEW k \in 0 .. n
    PROVE  f[k] = IF k = 0 THEN 0 ELSE ByteValues * f[k - 1] + s[k]
BY DEF Folds

LEMMA FoldsAgree ==
    ASSUME NEW s, NEW m \in Nat, NEW n \in Nat, m <= n, NEW f, NEW g,
           Folds(f, s, m), Folds(g, s, n)
    PROVE  f[m] = g[m]
<1>. DEFINE S == {k \in Nat : k <= m => f[k] = g[k]}
<1>1. 0 \in S
  BY DEF Folds
<1>2. ASSUME NEW k \in Nat, k \in S PROVE k + 1 \in S
  <2>. SUFFICES ASSUME k + 1 <= m PROVE f[k + 1] = g[k + 1]
    OBVIOUS
  <2>1. f[k] = g[k]
    BY <1>2
  <2>2. f[k + 1] = ByteValues * f[k] + s[k + 1]
    BY DEF Folds
  <2>3. g[k + 1] = ByteValues * g[k] + s[k + 1]
    BY DEF Folds
  <2>. QED
    BY <2>1, <2>2, <2>3
<1>. HIDE DEF S
<1>3. \A k \in Nat : k \in S
  BY <1>1, <1>2, Induction
<1>. QED
  BY <1>3 DEF S

\* It exists, so that it is what its definition says.
LEMMA FoldsExist == \A s : \A n \in Nat : \E f : Folds(f, s, n)
<1>. SUFFICES ASSUME NEW s PROVE \A n \in Nat : \E f : Folds(f, s, n)
  OBVIOUS
<1>. DEFINE S == {n \in Nat : \E f : Folds(f, s, n)}
<1>1. 0 \in S
  <2>. DEFINE f == [k \in 0 .. 0 |-> 0]
  <2>1. Folds(f, s, 0)
    BY DEF Folds
  <2>. QED
    BY <2>1
<1>2. ASSUME NEW n \in Nat, n \in S PROVE n + 1 \in S
  <2>1. PICK f : Folds(f, s, n)
    BY <1>2
  <2>. DEFINE g == [k \in 0 .. n + 1 |-> IF k = n + 1 THEN ByteValues * f[n] + s[k] ELSE f[k]]
  <2>2. Folds(g, s, n + 1)
    <3>1. ASSUME NEW k \in 0 .. n + 1
          PROVE  g[k] = IF k = 0 THEN 0 ELSE ByteValues * g[k - 1] + s[k]
      BY <2>1 DEF Folds
    <3>. QED
      BY <3>1 DEF Folds
  <2>. QED
    BY <2>2
<1>. HIDE DEF S
<1>3. \A n \in Nat : n \in S
  BY <1>1, <1>2, Induction
<1>. QED
  BY <1>3 DEF S

LEMMA FoldDefined == \A s : FoldsAll(Fold(s), s)
<1>. SUFFICES ASSUME NEW s PROVE \E f : FoldsAll(f, s)
  BY DEF Fold
<1>. DEFINE G == [n \in Nat |-> CHOOSE f : Folds(f, s, n)]
            f == [n \in Nat |-> G[n][n]]
            h == [n \in Nat |-> IF n = 0 THEN 0 ELSE ByteValues * f[n - 1] + s[n]]
<1>1. \A n \in Nat : Folds(G[n], s, n)
  BY FoldsExist
<1>. HIDE DEF G
<1>2. ASSUME NEW n \in Nat PROVE f[n] = h[n]
  <2>1. CASE n = 0
    <3>1. G[0][0] = 0
      BY <1>1, FoldAt
    <3>. QED
      BY <2>1, <3>1
  <2>2. CASE n # 0
    <3>1. G[n][n] = ByteValues * G[n][n - 1] + s[n]
      BY <1>1, <2>2, FoldAt
    <3>2. G[n - 1][n - 1] = G[n][n - 1]
      BY <1>1, <2>2, FoldsAgree
    <3>. QED
      BY <3>1, <3>2, <2>2
  <2>. QED
    BY <2>1, <2>2
<1>. QED
  BY <1>2 DEF FoldsAll

LEMMA FoldSteps ==
    ASSUME NEW s
    PROVE  /\ Fold(s)[0] = 0
           /\ \A k \in Nat : Fold(s)[k + 1] = ByteValues * Fold(s)[k] + s[k + 1]
<1>1. FoldsAll(Fold(s), s)
  BY FoldDefined
<1>. QED
  BY <1>1 DEF FoldsAll

LEMMA ValueIsFold == \A s : ValueOf(s) = Fold(s)[HeaderBytes]
BY DEF ValueOf, Fold, FoldsAll

\* Only the bytes it has folded count.
LEMMA SameFold ==
    ASSUME NEW s, NEW t, NEW n \in Nat, \A k \in 1 .. n : s[k] = t[k]
    PROVE  Fold(s)[n] = Fold(t)[n]
<1>. DEFINE S == {k \in Nat : k <= n => Fold(s)[k] = Fold(t)[k]}
<1>1. 0 \in S
  BY FoldSteps
<1>2. ASSUME NEW k \in Nat, k \in S PROVE k + 1 \in S
  <2>. SUFFICES ASSUME k + 1 <= n PROVE Fold(s)[k + 1] = Fold(t)[k + 1]
    OBVIOUS
  <2>1. Fold(s)[k] = Fold(t)[k] /\ s[k + 1] = t[k + 1]
    BY <1>2
  <2>2. /\ Fold(s)[k + 1] = ByteValues * Fold(s)[k] + s[k + 1]
        /\ Fold(t)[k + 1] = ByteValues * Fold(t)[k] + t[k + 1]
    BY FoldSteps
  <2>. QED
    BY <2>1, <2>2
<1>. HIDE DEF S
<1>3. \A k \in Nat : k \in S
  BY <1>1, <1>2, Induction
<1>. QED
  BY <1>3 DEF S

LEMMA FoldIsNat ==
    ASSUME NEW s, NEW n \in Nat, \A k \in 1 .. n : s[k] \in Byte
    PROVE  Fold(s)[n] \in Nat
<1>. DEFINE S == {k \in Nat : k <= n => Fold(s)[k] \in Nat}
<1>1. 0 \in S
  BY FoldSteps
<1>2. ASSUME NEW k \in Nat, k \in S PROVE k + 1 \in S
  <2>. SUFFICES ASSUME k + 1 <= n PROVE Fold(s)[k + 1] \in Nat
    OBVIOUS
  <2>1. Fold(s)[k] \in Nat /\ s[k + 1] \in Nat
    BY <1>2 DEF Byte
  <2>2. Fold(s)[k + 1] = ByteValues * Fold(s)[k] + s[k + 1]
    BY FoldSteps
  <2>. QED
    BY <2>1, <2>2, Constants
<1>. HIDE DEF S
<1>3. \A k \in Nat : k \in S
  BY <1>1, <1>2, Induction
<1>. QED
  BY <1>3 DEF S

LEMMA Division == \A n \in Nat : \E q \in Nat, r \in Byte : n = ByteValues * q + r
<1>. DEFINE S == {n \in Nat : \E q \in Nat, r \in Byte : n = ByteValues * q + r}
<1>1. 0 \in S
  <2>1. 0 = ByteValues * 0 + 0 /\ 0 \in Byte
    BY Constants DEF Byte
  <2>. QED
    BY <2>1
<1>2. ASSUME NEW n \in Nat, n \in S PROVE n + 1 \in S
  <2>1. PICK q \in Nat, r \in Byte : n = ByteValues * q + r
    BY <1>2
  <2>2. CASE r + 1 < ByteValues
    <3>1. r + 1 \in Byte /\ n + 1 = ByteValues * q + (r + 1)
      BY <2>1, <2>2, Constants DEF Byte
    <3>. QED
      BY <3>1
  <2>3. CASE r + 1 = ByteValues
    <3>1. 0 \in Byte /\ n + 1 = ByteValues * (q + 1) + 0
      BY <2>1, <2>3, Constants DEF Byte
    <3>. QED
      BY <3>1
  <2>. QED
    BY <2>2, <2>3, Constants DEF Byte
<1>. HIDE DEF S
<1>3. \A n \in Nat : n \in S
  BY <1>1, <1>2, Induction
<1>. QED
  BY <1>3 DEF S

LEMMA Quotient ==
    ASSUME NEW b \in Nat \ {0}, NEW m \in Nat, NEW q \in Nat, NEW r \in Nat,
           b * q + r <= b * m + (b - 1)
    PROVE  q <= m
<1>. SUFFICES ASSUME q >= m + 1 PROVE FALSE
  OBVIOUS
<1>. DEFINE d == q - m - 1
<1>1. d \in Nat /\ q = m + 1 + d
  OBVIOUS
<1>. HIDE DEF d
<1>2. b * q = b * m + b + b * d
  BY <1>1
<1>3. b * d >= 0
  BY <1>1
<1>. QED
  BY <1>2, <1>3

\* Every length up to the largest has a header: one byte more, the remainder, for each quotient.
LEMMA HeadersExist == \A n \in 0 .. MaxUint : \E h \in [1 .. HeaderBytes -> Byte] : ValueOf(h) = n
<1>. DEFINE largest == [i \in 1 .. HeaderBytes |-> ByteValues - 1]
            max == Fold(largest)
            S == {k \in Nat : k <= HeaderBytes =>
                     \A n \in Nat : n <= max[k] => \E h \in [1 .. k -> Byte] : Fold(h)[k] = n}
<1>1. \A k \in 0 .. HeaderBytes : max[k] \in Nat
  BY FoldIsNat, Constants DEF Byte
<1>5. max[0] = 0 /\ \A k \in 0 .. HeaderBytes - 1 : max[k + 1] = ByteValues * max[k] + (ByteValues - 1)
  <2>1. \A k \in 0 .. HeaderBytes - 1 : largest[k + 1] = ByteValues - 1 /\ k \in Nat
    BY Constants
  <2>. HIDE DEF largest
  <2>. QED
    BY <2>1, FoldSteps
<1>6. ValueOf(largest) = max[HeaderBytes]
  BY ValueIsFold
<1>. HIDE DEF max
<1>2. 0 \in S
  <2>. DEFINE h == [i \in 1 .. 0 |-> 0]
  <2>1. h \in [1 .. 0 -> Byte]
    OBVIOUS
  <2>2. Fold(h)[0] = 0
    BY FoldSteps
  <2>. HIDE DEF h
  <2>3. \A n \in Nat : n <= max[0] => Fold(h)[0] = n
    BY <2>2, <1>5
  <2>. QED
    BY <2>1, <2>3
<1>3. ASSUME NEW k \in Nat, k \in S PROVE k + 1 \in S
  <2>. SUFFICES ASSUME k + 1 <= HeaderBytes, NEW n \in Nat, n <= max[k + 1]
                PROVE  \E h \in [1 .. k + 1 -> Byte] : Fold(h)[k + 1] = n
    OBVIOUS
  <2>1. PICK q \in Nat, r \in Byte : n = ByteValues * q + r
    BY Division
  <2>2. max[k + 1] = ByteValues * max[k] + (ByteValues - 1)
    BY <1>5, Constants
  <2>3. max[k] \in Nat /\ r \in Nat /\ k <= HeaderBytes
    BY <1>1, Constants DEF Byte
  <2>4. q <= max[k]
    BY <2>1, <2>2, <2>3, Quotient, Constants
  <2>5. PICK g \in [1 .. k -> Byte] : Fold(g)[k] = q
    BY <1>3, <2>3, <2>4
  <2>. DEFINE h == [i \in 1 .. k + 1 |-> IF i = k + 1 THEN r ELSE g[i]]
  <2>6. h \in [1 .. k + 1 -> Byte] /\ h[k + 1] = r /\ \A i \in 1 .. k : h[i] = g[i]
    OBVIOUS
  <2>. HIDE DEF h
  <2>7. Fold(h)[k] = q
    BY <2>5, <2>6, SameFold
  <2>8. Fold(h)[k + 1] = ByteValues * q + r
    BY <2>6, <2>7, FoldSteps
  <2>. QED
    BY <2>1, <2>6, <2>8
<1>. HIDE DEF S
<1>4. HeaderBytes \in S
  BY <1>2, <1>3, Induction, Constants
<1>. QED
  <2>1. \A n \in Nat : n <= max[HeaderBytes] => \E h \in [1 .. HeaderBytes -> Byte] : ValueOf(h) = n
    BY <1>4, ValueIsFold, Constants DEF S
  <2>. QED
    BY <2>1, <1>1, <1>6, Constants DEF MaxUint

\* s is how t begins.
StartOf(s, t) == Len(s) <= Len(t) /\ \A i \in 1 .. Len(s) : s[i] = t[i]

\* What a decoder can be: complete just with a whole frame.
Decoders == [bytes : Seq(Byte), status : DecoderFailures \cup {"open", "complete"}]
DecoderOK(d) ==
    /\ d \in Decoders
    /\ d.status = "complete" =>
          Len(d.bytes) >= HeaderBytes /\ Len(d.bytes) = HeaderBytes + ValueOf(d.bytes)

LEMMA SameBytes ==
    ASSUME NEW s \in Seq(Byte), NEW t \in Seq(Byte), Len(s) = Len(t),
           \A i \in 1 .. Len(s) : s[i] = t[i]
    PROVE  s = t
OBVIOUS

LEMMA Joined ==
    ASSUME NEW s \in Seq(Byte), NEW t \in Seq(Byte)
    PROVE  /\ s \o t \in Seq(Byte)
           /\ Len(s \o t) = Len(s) + Len(t)
           /\ \A i \in 1 .. Len(s) : (s \o t)[i] = s[i]
           /\ \A i \in 1 .. Len(t) : (s \o t)[Len(s) + i] = t[i]
OBVIOUS

LEMMA Part ==
    ASSUME NEW s \in Seq(Byte), NEW m \in Nat, NEW n \in Nat, m <= n, n <= Len(s)
    PROVE  /\ SubSeq(s, m + 1, n) \in Seq(Byte)
           /\ Len(SubSeq(s, m + 1, n)) = n - m
           /\ \A i \in 1 .. n - m : SubSeq(s, m + 1, n)[i] = s[m + i]
OBVIOUS

LEMMA ValueIsNat ==
    ASSUME NEW s \in Seq(Byte), Len(s) >= HeaderBytes
    PROVE  ValueOf(s) \in Nat
<1>1. \A k \in 1 .. HeaderBytes : s[k] \in Byte
  BY Constants
<1>. QED
  BY <1>1, ValueIsFold, FoldIsNat, Constants

LEMMA HeaderIs ==
    ASSUME NEW n \in 0 .. MaxPayload
    PROVE  /\ Header(n) \in Seq(Byte)
           /\ Len(Header(n)) = HeaderBytes
           /\ ValueOf(Header(n)) = n
<1>1. ASSUME NEW i \in 1 .. HeaderBytes
      PROVE  [k \in 1 .. HeaderBytes |-> ByteValues - 1][i] \in Byte
  BY Constants DEF Byte
<1>2. MaxUint \in Nat
  BY <1>1, ValueIsFold, FoldIsNat, Constants DEF MaxUint
<1>3. n \in 0 .. MaxUint
  BY <1>2, FrameAssumption
<1>4. Header(n) \in [1 .. HeaderBytes -> Byte] /\ ValueOf(Header(n)) = n
  BY <1>3, HeadersExist DEF Header
<1>. QED
  BY <1>4, Constants

LEMMA FrameIs ==
    ASSUME NEW p \in Seq(Byte), Encodable(p)
    PROVE  /\ Frame(p) \in Seq(Byte)
           /\ Len(Frame(p)) = HeaderBytes + Len(p)
           /\ ValueOf(Frame(p)) = Len(p)
           /\ Len(p) \in 0 .. MaxPayload
           /\ \A i \in 1 .. Len(p) : Frame(p)[HeaderBytes + i] = p[i]
<1>. DEFINE h == Header(Len(p))
<1>1. MaxPayload \in Int
  BY FrameAssumption
<1>2. Len(p) \in 0 .. MaxPayload
  BY <1>1 DEF Encodable
<1>3. h \in Seq(Byte) /\ Len(h) = HeaderBytes /\ ValueOf(h) = Len(p)
  BY <1>2, HeaderIs
<1>. HIDE DEF h
<1>4. /\ h \o p \in Seq(Byte)
      /\ Len(h \o p) = HeaderBytes + Len(p)
      /\ \A i \in 1 .. HeaderBytes : (h \o p)[i] = h[i]
      /\ \A i \in 1 .. Len(p) : (h \o p)[HeaderBytes + i] = p[i]
  BY <1>3, Constants
<1>5. ValueOf(h \o p) = ValueOf(h)
  BY <1>4, SameFold, ValueIsFold, Constants
<1>. QED
  BY <1>2, <1>3, <1>4, <1>5 DEF Frame, h

\* Once the header is there, its value is the length of the payload.
LEMMA StartOfFrame ==
    ASSUME NEW p \in Seq(Byte), Encodable(p), NEW s \in Seq(Byte),
           StartOf(s, Frame(p)), Len(s) >= HeaderBytes
    PROVE  ValueOf(s) = Len(p)
<1>1. \A k \in 1 .. HeaderBytes : s[k] = Frame(p)[k]
  BY Constants DEF StartOf
<1>. QED
  <2>1. Fold(s)[HeaderBytes] = Fold(Frame(p))[HeaderBytes]
    BY <1>1, SameFold, Constants
  <2>. QED
    BY <2>1, FrameIs, ValueIsFold

LEMMA WholeFrame ==
    ASSUME NEW p \in Seq(Byte), Encodable(p), NEW d, DecoderOK(d), d.status = "complete",
           StartOf(d.bytes, Frame(p))
    PROVE  Len(d.bytes) = Len(Frame(p)) /\ Payload(d) = p
<1>1. /\ d.bytes \in Seq(Byte)
      /\ Len(d.bytes) >= HeaderBytes
      /\ Len(d.bytes) = HeaderBytes + ValueOf(d.bytes)
  BY DEF DecoderOK, Decoders
<1>2. Len(d.bytes) = HeaderBytes + Len(p) /\ Len(d.bytes) = Len(Frame(p))
  BY <1>1, StartOfFrame, FrameIs
<1>3. ASSUME NEW i \in 1 .. Len(p) PROVE d.bytes[HeaderBytes + i] = p[i]
  <2>1. HeaderBytes + i \in 1 .. Len(d.bytes)
    BY <1>2, Constants
  <2>2. d.bytes[HeaderBytes + i] = Frame(p)[HeaderBytes + i]
    BY <2>1 DEF StartOf
  <2>. QED
    BY <2>2, FrameIs
<1>. DEFINE body == SubSeq(d.bytes, HeaderBytes + 1, Len(d.bytes))
<1>4. /\ body \in Seq(Byte)
      /\ Len(body) = Len(d.bytes) - HeaderBytes
      /\ \A i \in 1 .. Len(d.bytes) - HeaderBytes : body[i] = d.bytes[HeaderBytes + i]
  BY <1>1, Part, Constants
<1>. HIDE DEF body
<1>5. Len(d.bytes) - HeaderBytes = Len(p)
  BY <1>2, Constants
<1>7. Len(body) = Len(p) /\ \A i \in 1 .. Len(p) : body[i] = p[i]
  BY <1>3, <1>4, <1>5
<1>6. body = p
  BY <1>4, <1>7, SameBytes
<1>. QED
  BY <1>2, <1>6 DEF Payload, body

\* FrameDecoder.push takes every byte or fails, and takes none after a whole frame.
LEMMA PushIs ==
    ASSUME NEW d, DecoderOK(d), NEW chunk \in Seq(Byte), chunk # <<>>
    PROVE  /\ DecoderOK(Push(d, chunk))
           /\ d.status # "open" => Failed(Push(d, chunk))
           /\ Failed(Push(d, chunk)) \/ Push(d, chunk).bytes = d.bytes \o chunk
<1>. DEFINE all == d.bytes \o chunk
            end == HeaderBytes + ValueOf(all)
<1>1. d.bytes \in Seq(Byte) /\ d.status \in DecoderFailures \cup {"open", "complete"}
  BY DEF DecoderOK, Decoders
<1>2. all \in Seq(Byte) /\ Len(all) \in Nat
  BY <1>1
<1>3. CASE Failed(d)
  BY <1>3, <1>1 DEF Push
<1>4. CASE d.status = "complete"
  <2>1. Push(d, chunk) = [d EXCEPT !.status = "trailing-data"]
    BY <1>4 DEF Push, Failed, DecoderFailures
  <2>. QED
    BY <2>1, <1>1 DEF DecoderOK, Decoders, Failed, DecoderFailures
<1>5. CASE d.status = "open"
  <2>. HIDE DEF all
  <2>1. ~Failed(d)
    BY <1>5 DEF Failed, DecoderFailures
  <2>2. ASSUME Push(d, chunk) = [d EXCEPT !.bytes = all]
        PROVE  DecoderOK(Push(d, chunk)) /\ Push(d, chunk).bytes = all
    BY <2>2, <1>2, <1>5 DEF DecoderOK, Decoders
  <2>3. CASE Len(all) < HeaderBytes
    <3>1. Push(d, chunk) = [d EXCEPT !.bytes = all]
      BY <1>5, <2>1, <2>3 DEF Push, all
    <3>. QED
      BY <3>1, <2>2, <1>5 DEF all
  <2>4. CASE Len(all) >= HeaderBytes /\ ValueOf(all) > MaxPayload
    <3>1. Push(d, chunk) = [bytes |-> SubSeq(all, 1, HeaderBytes), status |-> "oversized-frame"]
      BY <1>2, <1>5, <2>1, <2>4, Constants DEF Push, all
    <3>2. SubSeq(all, 1, HeaderBytes) \in Seq(Byte)
      BY <1>2, <2>4, Constants
    <3>. QED
      BY <3>1, <3>2, <1>5 DEF DecoderOK, Decoders, Failed, DecoderFailures
  <2>5. CASE Len(all) >= HeaderBytes /\ ~(ValueOf(all) > MaxPayload)
    <3>1. ValueOf(all) \in Nat /\ end \in Nat
      BY <1>2, <2>5, ValueIsNat, Constants
    <3>2. CASE Len(all) < end
      <4>1. Push(d, chunk) = [d EXCEPT !.bytes = all]
        BY <1>2, <1>5, <2>1, <2>5, <3>2, Constants DEF Push, all
      <4>. QED
        BY <4>1, <2>2, <1>5 DEF all
    <3>3. CASE Len(all) = end
      <4>1. Push(d, chunk) = [bytes |-> SubSeq(all, 1, end), status |-> "complete"]
        BY <1>2, <1>5, <2>1, <2>5, <3>1, <3>3, Constants DEF Push, all
      <4>2. SubSeq(all, 1, end) = all
        BY <1>2, <3>1, <3>3
      <4>. QED
        <5>1. Push(d, chunk) = [bytes |-> all, status |-> "complete"]
          BY <4>1, <4>2
        <5>2. DecoderOK([bytes |-> all, status |-> "complete"])
          BY <1>2, <2>5, <3>3 DEF DecoderOK, Decoders
        <5>. QED
          BY <5>1, <5>2, <1>5 DEF all
    <3>4. CASE Len(all) > end
      <4>1. Push(d, chunk) = [bytes |-> SubSeq(all, 1, end), status |-> "trailing-data"]
        <5>1. ~(Len(all) < HeaderBytes) /\ ~(Len(all) < end) /\ Len(all) # end
          BY <1>2, <2>5, <3>1, <3>4, Constants
        <5>. QED
          BY <1>5, <2>1, <2>5, <5>1, Zenon DEF Push, all, end
      <4>2. SubSeq(all, 1, end) \in Seq(Byte)
        BY <1>2, <3>1, <3>4
      <4>. QED
        BY <4>1, <4>2, <1>5 DEF DecoderOK, Decoders, Failed, DecoderFailures
    <3>. QED
      BY <1>2, <3>1, <3>2, <3>3, <3>4
  <2>. QED
    BY <1>2, <2>3, <2>4, <2>5, Constants
<1>. QED
  BY <1>1, <1>3, <1>4, <1>5 DEF Failed

\* encodeFrame and FrameDecoder.push: a frame goes through any decoder in chunks of any size
\* without a failure, completes it just when its last byte is in, and gives its payload back.
THEOREM FramesGoThrough ==
    ASSUME NEW p \in Seq(Byte), Encodable(p), NEW d, DecoderOK(d), d.status = "open",
           NEW chunk \in Seq(Byte), chunk # <<>>, StartOf(d.bytes \o chunk, Frame(p))
    PROVE  LET pushed == Push(d, chunk)
           IN  /\ pushed.bytes = d.bytes \o chunk
               /\ pushed.status = IF Len(pushed.bytes) = Len(Frame(p)) THEN "complete" ELSE "open"
               /\ pushed.status = "complete" => Payload(pushed) = p
<1>. DEFINE all == d.bytes \o chunk
            end == HeaderBytes + ValueOf(all)
<1>1. d.bytes \in Seq(Byte) /\ all \in Seq(Byte)
  BY DEF DecoderOK, Decoders
<1>2. Len(all) <= HeaderBytes + Len(p) /\ StartOf(all, Frame(p))
  BY FrameIs DEF StartOf
<1>. HIDE DEF all
<1>3. Len(all) >= HeaderBytes => ValueOf(all) = Len(p)
  BY <1>1, <1>2, StartOfFrame
<1>4. ~Failed(d)
  BY DEF Failed, DecoderFailures
<1>5. Len(p) \in Nat /\ Len(p) <= MaxPayload /\ MaxPayload \in Int /\ Len(Frame(p)) = HeaderBytes + Len(p)
  BY FrameIs, FrameAssumption
<1>6. Push(d, chunk) =
         IF Len(all) = Len(Frame(p)) THEN [bytes |-> SubSeq(all, 1, end), status |-> "complete"]
         ELSE [d EXCEPT !.bytes = all]
  <2>1. CASE Len(all) < HeaderBytes
    <3>1. Len(all) # Len(Frame(p))
      BY <1>1, <1>5, <2>1, Constants
    <3>. QED
      BY <1>4, <2>1, <3>1 DEF Push, all
  <2>2. CASE Len(all) >= HeaderBytes
    <3>1. ~(ValueOf(all) > MaxPayload) /\ end \in Nat /\ Len(all) <= end /\ end = Len(Frame(p))
      BY <1>2, <1>3, <1>5, <2>2, Constants
    <3>2. CASE Len(all) < end
      BY <1>1, <1>4, <2>2, <3>1, <3>2, Constants DEF Push, all
    <3>3. CASE Len(all) = end
      BY <1>1, <1>4, <2>2, <3>1, <3>3, Constants DEF Push, all
    <3>. QED
      BY <1>1, <3>1, <3>2, <3>3
  <2>. QED
    BY <1>1, <2>1, <2>2, Constants
<1>7. Len(all) = Len(Frame(p)) => SubSeq(all, 1, end) = all
  BY <1>1, <1>3, <1>5, Constants
<1>8. /\ Push(d, chunk).bytes = all
      /\ Push(d, chunk).status = IF Len(all) = Len(Frame(p)) THEN "complete" ELSE "open"
  BY <1>6, <1>7 DEF DecoderOK, Decoders
<1>9. Push(d, chunk).status = "complete" => Payload(Push(d, chunk)) = p
  <2>1. DecoderOK(Push(d, chunk))
    BY PushIs
  <2>. QED
    BY <1>2, <1>8, <2>1, WholeFrame
<1>. QED
  BY <1>8, <1>9 DEF all

\* A stream is its first bytes and the rest.
LEMMA Chunks ==
    ASSUME NEW b \in Seq(Byte), NEW r \in Seq(Byte), NEW k \in 1 .. Len(r)
    PROVE  /\ SubSeq(r, 1, k) \in Seq(Byte) /\ SubSeq(r, 1, k) # <<>>
           /\ SubSeq(r, k + 1, Len(r)) \in Seq(Byte)
           /\ (b \o SubSeq(r, 1, k)) \o SubSeq(r, k + 1, Len(r)) = b \o r
<1>. DEFINE x == SubSeq(r, 1, k)
            y == SubSeq(r, k + 1, Len(r))
<1>1. x \in Seq(Byte) /\ Len(x) = k /\ \A i \in 1 .. k : x[i] = r[i]
  OBVIOUS
<1>2. y \in Seq(Byte) /\ Len(y) = Len(r) - k /\ \A i \in 1 .. Len(r) - k : y[i] = r[k + i]
  OBVIOUS
<1>. HIDE DEF x, y
<1>3. /\ b \o x \in Seq(Byte) /\ Len(b \o x) = Len(b) + k
      /\ \A i \in 1 .. Len(b) : (b \o x)[i] = b[i]
      /\ \A i \in 1 .. k : (b \o x)[Len(b) + i] = x[i]
  BY <1>1, Joined
<1>. DEFINE bx == b \o x
<1>. HIDE DEF bx
<1>4. /\ bx \o y \in Seq(Byte) /\ Len(bx \o y) = Len(bx) + (Len(r) - k)
      /\ \A i \in 1 .. Len(bx) : (bx \o y)[i] = bx[i]
      /\ \A i \in 1 .. Len(r) - k : (bx \o y)[Len(bx) + i] = y[i]
  <2>1. bx \in Seq(Byte)
    BY <1>3 DEF bx
  <2>2. /\ bx \o y \in Seq(Byte) /\ Len(bx \o y) = Len(bx) + Len(y)
        /\ \A i \in 1 .. Len(bx) : (bx \o y)[i] = bx[i]
        /\ \A i \in 1 .. Len(y) : (bx \o y)[Len(bx) + i] = y[i]
    BY <2>1, <1>2, Joined
  <2>3. Len(y) = Len(r) - k
    BY <1>2
  <2>. QED
    BY <2>2, <2>3, Zenon
<1>5. /\ b \o r \in Seq(Byte) /\ Len(b \o r) = Len(b) + Len(r)
      /\ \A i \in 1 .. Len(b) : (b \o r)[i] = b[i]
      /\ \A i \in 1 .. Len(r) : (b \o r)[Len(b) + i] = r[i]
  BY Joined
<1>. DEFINE all == b \o r
            parts == bx \o y
<1>. HIDE DEF all, parts
<1>6. ASSUME NEW i \in 1 .. Len(all) PROVE parts[i] = all[i]
  <2>1. CASE i <= Len(b)
    BY <2>1, <1>3, <1>4, <1>5 DEF bx, all, parts
  <2>2. CASE i > Len(b) /\ i <= Len(b) + k
    <3>1. i - Len(b) \in 1 .. k /\ i = Len(b) + (i - Len(b)) /\ i \in 1 .. Len(b) + k
      BY <2>2
    <3>2. parts[i] = bx[i] /\ bx[i] = x[i - Len(b)] /\ x[i - Len(b)] = r[i - Len(b)]
      BY <3>1, <1>1, <1>3, <1>4 DEF bx, parts
    <3>3. all[i] = r[i - Len(b)]
      BY <3>1, <1>5 DEF all
    <3>. QED
      BY <3>2, <3>3
  <2>3. CASE i > Len(b) + k
    <3>1. Len(bx) = Len(b) + k /\ Len(all) = Len(b) + Len(r)
      BY <1>3, <1>5 DEF bx, all
    <3>2. PICK j \in 1 .. Len(r) - k : i = Len(bx) + j
      <4>1. i - Len(bx) \in 1 .. Len(r) - k /\ i = Len(bx) + (i - Len(bx))
        BY <2>3, <3>1
      <4>. QED
        BY <4>1
    <3>3. parts[i] = r[k + j]
      BY <1>2, <1>4, <3>2 DEF parts
    <3>4. k + j \in 1 .. Len(r) /\ i = Len(b) + (k + j)
      BY <3>1, <3>2
    <3>5. all[i] = r[k + j]
      BY <1>5, <3>4 DEF all
    <3>. QED
      BY <3>3, <3>5
  <2>. QED
    BY <2>1, <2>2, <2>3, <1>5 DEF all
<1>7. parts \in Seq(Byte) /\ all \in Seq(Byte) /\ Len(parts) = Len(all)
  BY <1>3, <1>4, <1>5 DEF bx, all, parts
<1>8. parts = all
  BY <1>6, <1>7, SameBytes
<1>9. x # <<>>
  BY <1>1
<1>. QED
  BY <1>1, <1>2, <1>8, <1>9 DEF x, y, bx, all, parts

\* What begins a stream still does once its end is cut off.
LEMMA Starts ==
    ASSUME NEW b \in Seq(Byte), NEW r \in Seq(Byte), NEW t \in Seq(Byte), StartOf(b \o r, t)
    PROVE  /\ StartOf(b, t)
           /\ \A k \in 0 .. Len(r) : StartOf(b \o SubSeq(r, 1, k), t)
<1>1. StartOf(b, t)
  BY DEF StartOf
<1>2. ASSUME NEW k \in 0 .. Len(r) PROVE StartOf(b \o SubSeq(r, 1, k), t)
  <2>. DEFINE x == SubSeq(r, 1, k)
  <2>1. x \in Seq(Byte) /\ Len(x) = k /\ \A i \in 1 .. k : x[i] = r[i]
    OBVIOUS
  <2>. HIDE DEF x
  <2>2. Len(b \o x) <= Len(b \o r) /\ \A i \in 1 .. Len(b \o x) : (b \o x)[i] = (b \o r)[i]
    BY <2>1
  <2>. QED
    BY <2>1, <2>2 DEF StartOf, x
<1>. QED
  BY <1>1, <1>2

-----------------------------------------------------------------------------
(* Connections and transports. *)

\* s begins what the client of c has written, or what its server has answered.
WasAsked(c, s) ==
    IF ClientOf(c) = Stranger THEN \E t \in Streams : StartOf(s, t)
    ELSE StartOf(s, Frame(Request[c]))
WasAnswered(c, s) ==
    IF ServerOf(c) = Stranger THEN \E t \in Streams : StartOf(s, t)
    ELSE calls[c] = 1 /\ Encodable(answered[c]) /\ StartOf(s, Frame(answered[c]))

\* The types, of what belongs to connections and of what belongs to transports.
ConnTypes ==
    /\ client \in [Conns -> {"idle", "connecting", "writing", "reading", "settling",
                             "resolved", "rejected"}]
    /\ serving \in [Conns -> {"none", "strange", "arriving", "reading", "handling", "writing",
                              "over"}]
    /\ clientSocket \in [Conns -> {"none", "open", "destroyed", "closed"}]
    /\ serverSocket \in [Conns -> {"none", "open", "destroyed", "closed"}]
    /\ up \in [Conns -> Seq(Byte)]
    /\ down \in [Conns -> Seq(Byte)]
    /\ calls \in [Conns -> Nat]
    /\ answered \in [Conns -> Seq(Byte)]
    /\ route \in [Conns -> [client : Nodes \cup {Stranger}, server : Nodes \cup {Stranger}]]
    /\ clientDecoder \in [Conns -> Decoders] /\ \A c \in Conns : DecoderOK(clientDecoder[c])
    /\ serverDecoder \in [Conns -> Decoders] /\ \A c \in Conns : DecoderOK(serverDecoder[c])
NodeTypes ==
    /\ closing \in [Nodes -> BOOLEAN]
    /\ lifecycle \in [Nodes -> Seq({"bind", "close"})]
    /\ step \in [Nodes -> {"idle", "listening", "refused", "reclaiming", "stat", "discarding",
                           "draining", "forcing", "unlinking"}]
    /\ server \in [Nodes -> {"none", "listening", "closing"}]
    /\ handler \in [Nodes -> BOOLEAN]
    /\ path \in [Nodes -> {"free", "ours", "taken"}]
    /\ owned \in [Nodes -> BOOLEAN]
    /\ binds \in [Nodes -> Nat]
    /\ closed \in [Nodes -> {"none", "pending", "done", "failed"}]

\* Which ends of c take part, and in which order they come to it.
EndsAt(c) ==
    /\ ServerOf(c) = Stranger => serving[c] \in {"none", "strange", "over"}
    /\ ServerOf(c) # Stranger => serving[c] # "strange"
    /\ ClientOf(c) = Stranger => client[c] = "idle"
    /\ ClientOf(c) # Stranger /\ client[c] \in {"idle", "connecting"} => serving[c] = "none"

\* What the server has read is what was written, and its handler has had it once
\* or never.
ServerAt(c) ==
    /\ serving[c] \in {"none", "strange", "arriving"} => serverDecoder[c] = NewDecoder
    /\ serving[c] \in {"none", "strange", "arriving", "reading"} => calls[c] = 0
    /\ serving[c] = "arriving" => WasAsked(c, up[c])
    /\ serving[c] = "reading" =>
          serverDecoder[c].status = "open" /\ WasAsked(c, serverDecoder[c].bytes \o up[c])
    /\ serving[c] \in {"handling", "writing"} => calls[c] = 1
    /\ calls[c] <= 1
    /\ calls[c] = 1 => serverDecoder[c].status = "complete" /\ WasAsked(c, serverDecoder[c].bytes)

\* What the requester has read, and will read, begins what was answered.
Unanswered(c) == down[c] = <<>> /\ clientDecoder[c] = NewDecoder
ClientAt(c) ==
    /\ client[c] \in {"idle", "connecting", "writing"} => clientDecoder[c] = NewDecoder
    /\ client[c] = "reading" => clientDecoder[c].status = "open"
    /\ client[c] \in {"settling", "resolved"} => clientDecoder[c].status = "complete"
    /\ serving[c] \notin {"writing", "over"} => Unanswered(c)
    /\ \/ Unanswered(c)
       \/ Failed(clientDecoder[c])
       \/ WasAnswered(c, clientDecoder[c].bytes \o down[c])

ConnAt(c) == EndsAt(c) /\ ServerAt(c) /\ ClientAt(c)
ConnInv == ConnTypes /\ \A c \in Conns : ConnAt(c)

LEMMA NewDecoderOK == NewDecoder \in Decoders /\ DecoderOK(NewDecoder)
BY Constants DEF NewDecoder, Decoders, DecoderOK, DecoderFailures

LEMMA TypesOfParts == ConnTypes /\ NodeTypes => TypeOK
BY DEF ConnTypes, NodeTypes, TypeOK, Decoders

LEMMA InitConnInv == Init => ConnInv
<1>. SUFFICES ASSUME Init PROVE ConnInv
  OBVIOUS
<1>1. ConnTypes
  BY NewDecoderOK, ConnsAssumption DEF Init, ConnTypes, NoPayload
<1>2. ASSUME NEW c \in Conns PROVE ConnAt(c)
  BY <1>1, <1>2 DEF Init, ConnAt, EndsAt, ServerAt, ClientAt, Unanswered, ConnTypes, ClientOf, ServerOf
<1>. QED
  BY <1>1, <1>2 DEF ConnInv

\* A connection where nothing happens.
Untouched(x) ==
    /\ client'[x] = client[x] /\ serving'[x] = serving[x]
    /\ up'[x] = up[x] /\ down'[x] = down[x]
    /\ clientDecoder'[x] = clientDecoder[x] /\ serverDecoder'[x] = serverDecoder[x]
    /\ calls'[x] = calls[x] /\ answered'[x] = answered[x]

LEMMA UntouchedAt ==
    ASSUME NEW x, ConnAt(x), Untouched(x), route' = route
    PROVE  ConnAt(x)'
<1>1. EndsAt(x)'
  BY DEF ConnAt, EndsAt, Untouched, ClientOf, ServerOf
<1>2. ServerAt(x)'
  BY DEF ConnAt, ServerAt, Untouched, ClientOf, WasAsked
<1>3. ClientAt(x)'
  BY DEF ConnAt, ClientAt, Untouched, ServerOf, WasAnswered, Unanswered
<1>. QED
  BY <1>1, <1>2, <1>3 DEF ConnAt

LEMMA AtOne ==
    ASSUME ConnInv, ConnTypes', route' = route, NEW c \in Conns, ConnAt(c)',
           \A x \in Conns \ {c} : Untouched(x)
    PROVE  ConnInv'
<1>1. ASSUME NEW x \in Conns PROVE ConnAt(x)'
  BY UntouchedAt DEF ConnInv
<1>. QED
  BY <1>1 DEF ConnInv

LEMMA RequestSteps ==
    ASSUME ConnInv, route' = route, NEW c \in Conns,
           \/ RequestStarts(c) \/ Connects(c) \/ RequestWritten(c)
           \/ ResponseSettles(c) \/ RequestFails(c)
    PROVE  ConnInv'
<1>. USE DEF ConnInv
<1>1. CASE RequestStarts(c)
  <2>1. ConnTypes'
    BY <1>1 DEF RequestStarts, ConnTypes, servingVars
  <2>2. ConnAt(c)'
    BY <1>1, NodesAssumption DEF RequestStarts, ConnTypes, ConnAt, EndsAt, ServerAt, ClientAt, Unanswered,
       ClientOf, ServerOf, WasAsked, WasAnswered, servingVars
  <2>3. \A x \in Conns \ {c} : Untouched(x)
    BY <1>1 DEF RequestStarts, ConnTypes, servingVars, Untouched
  <2>. QED
    BY <2>1, <2>2, <2>3, AtOne
<1>2. CASE Connects(c)
  <2>0. ClientOf(c) # Stranger /\ serving[c] = "none"
    BY <1>2 DEF Connects, ConnAt, EndsAt
  <2>1. ConnTypes'
    BY <1>2, PayloadAssumption, FrameIs DEF Connects, ConnTypes
  <2>2. ConnAt(c)'
    <3>1. up'[c] = Frame(Request[c]) /\ StartOf(Frame(Request[c]), Frame(Request[c]))
      BY <1>2, PayloadAssumption, FrameIs DEF Connects, ConnTypes, StartOf
    <3>. QED
      BY <1>2, <2>0, <3>1 DEF Connects, ConnTypes, ConnAt, EndsAt, ServerAt, ClientAt, Unanswered,
         ClientOf, ServerOf, WasAsked, WasAnswered
  <2>3. \A x \in Conns \ {c} : Untouched(x)
    BY <1>2 DEF Connects, ConnTypes, Untouched
  <2>. QED
    BY <2>1, <2>2, <2>3, AtOne
<1>3. CASE RequestWritten(c)
  <2>1. ConnTypes'
    BY <1>3 DEF RequestWritten, ConnTypes, servingVars
  <2>2. ConnAt(c)'
    BY <1>3 DEF RequestWritten, ConnTypes, ConnAt, EndsAt, ServerAt, ClientAt, Unanswered,
       ClientOf, ServerOf, WasAsked, WasAnswered, servingVars, NewDecoder
  <2>3. \A x \in Conns \ {c} : Untouched(x)
    BY <1>3 DEF RequestWritten, ConnTypes, servingVars, Untouched
  <2>. QED
    BY <2>1, <2>2, <2>3, AtOne
<1>4. CASE ResponseSettles(c)
  <2>1. ConnTypes'
    BY <1>4 DEF ResponseSettles, ConnTypes, servingVars, Destroyed
  <2>2. ConnAt(c)'
    BY <1>4 DEF ResponseSettles, ConnTypes, ConnAt, EndsAt, ServerAt, ClientAt, Unanswered,
       ClientOf, ServerOf, WasAsked, WasAnswered, servingVars
  <2>3. \A x \in Conns \ {c} : Untouched(x)
    BY <1>4 DEF ResponseSettles, ConnTypes, servingVars, Untouched
  <2>. QED
    BY <2>1, <2>2, <2>3, AtOne
<1>5. CASE RequestFails(c)
  <2>1. ConnTypes'
    BY <1>5 DEF RequestFails, ConnTypes, servingVars, Destroyed
  <2>2. ConnAt(c)'
    BY <1>5 DEF RequestFails, ConnTypes, ConnAt, EndsAt, ServerAt, ClientAt, Unanswered,
       ClientOf, ServerOf, WasAsked, WasAnswered, servingVars
  <2>3. \A x \in Conns \ {c} : Untouched(x)
    BY <1>5 DEF RequestFails, ConnTypes, servingVars, Untouched
  <2>. QED
    BY <2>1, <2>2, <2>3, AtOne
<1>. QED
  BY <1>1, <1>2, <1>3, <1>4, <1>5

LEMMA PartsWritten ==
    ASSUME ConnTypes, NEW c \in Conns, NEW b \in Seq(Byte), NEW r \in Seq(Byte)
    PROVE  /\ WasAsked(c, b \o r) => WasAsked(c, b)
           /\ WasAnswered(c, b \o r) =>
                 \A k \in 0 .. Len(r) : WasAnswered(c, b \o SubSeq(r, 1, k))
<1>1. ASSUME WasAsked(c, b \o r) PROVE WasAsked(c, b)
  <2>1. CASE ClientOf(c) = Stranger
    <3>1. PICK t \in Streams : StartOf(b \o r, t)
      BY <1>1, <2>1 DEF WasAsked
    <3>2. StartOf(b, t)
      BY <3>1, Starts, PayloadAssumption
    <3>. QED
      BY <2>1, <3>2 DEF WasAsked
  <2>2. CASE ClientOf(c) # Stranger
    BY <1>1, <2>2, Starts, FrameIs, PayloadAssumption DEF WasAsked
  <2>. QED
    BY <2>1, <2>2
<1>2. ASSUME WasAnswered(c, b \o r), NEW k \in 0 .. Len(r)
      PROVE  WasAnswered(c, b \o SubSeq(r, 1, k))
  <2>1. CASE ServerOf(c) = Stranger
    <3>1. PICK t \in Streams : StartOf(b \o r, t)
      BY <1>2, <2>1 DEF WasAnswered
    <3>2. StartOf(b \o SubSeq(r, 1, k), t)
      BY <3>1, Starts, PayloadAssumption
    <3>. QED
      BY <2>1, <3>2 DEF WasAnswered
  <2>2. CASE ServerOf(c) # Stranger
    <3>1. answered[c] \in Seq(Byte) /\ Encodable(answered[c]) /\ calls[c] = 1
          /\ StartOf(b \o r, Frame(answered[c]))
      BY <1>2, <2>2 DEF WasAnswered, ConnTypes
    <3>2. StartOf(b \o SubSeq(r, 1, k), Frame(answered[c]))
      BY <3>1, FrameIs, Starts
    <3>. QED
      BY <2>2, <3>1, <3>2 DEF WasAnswered
  <2>. QED
    BY <2>1, <2>2
<1>. QED
  BY <1>1, <1>2

LEMMA ResponseChunkInv ==
    ASSUME ConnInv, route' = route, NEW c \in Conns, ResponseChunk(c)
    PROVE  ConnInv'
<1>. USE DEF ConnInv
<1>1. PICK k \in 1 .. Len(down[c]) :
         LET d == Push(clientDecoder[c], SubSeq(down[c], 1, k))
         IN /\ down' = [down EXCEPT ![c] = SubSeq(@, k + 1, Len(@))]
            /\ clientDecoder' = [clientDecoder EXCEPT ![c] = d]
            /\ client' = [client EXCEPT ![c] =
                  IF Failed(d) THEN "rejected"
                  ELSE IF d.status = "complete" THEN "settling" ELSE @]
            /\ clientSocket' = [clientSocket EXCEPT ![c] = IF Failed(d) THEN Destroyed(@) ELSE @]
  BY DEF ResponseChunk
<1>. DEFINE chunk == SubSeq(down[c], 1, k)
            left == SubSeq(down[c], k + 1, Len(down[c]))
            d == Push(clientDecoder[c], chunk)
<1>2. /\ clientDecoder[c].bytes \in Seq(Byte) /\ down[c] \in Seq(Byte)
      /\ DecoderOK(clientDecoder[c])
      /\ clientDecoder[c].status \in DecoderFailures \cup {"open", "complete"}
  BY DEF ConnTypes, Decoders
<1>3. /\ chunk \in Seq(Byte) /\ chunk # <<>> /\ left \in Seq(Byte)
      /\ (clientDecoder[c].bytes \o chunk) \o left = clientDecoder[c].bytes \o down[c]
  BY <1>2, Chunks
<1>4. /\ DecoderOK(d)
      /\ clientDecoder[c].status # "open" => Failed(d)
      /\ Failed(d) \/ d.bytes = clientDecoder[c].bytes \o chunk
  BY <1>2, <1>3, PushIs
<1>5. d \in Decoders /\ d.status \in DecoderFailures \cup {"open", "complete"}
  BY <1>4 DEF DecoderOK, Decoders
<1>6. /\ down' = [down EXCEPT ![c] = left]
      /\ clientDecoder' = [clientDecoder EXCEPT ![c] = d]
      /\ client' = [client EXCEPT ![c] =
            IF Failed(d) THEN "rejected" ELSE IF d.status = "complete" THEN "settling" ELSE @]
      /\ clientSocket' = [clientSocket EXCEPT ![c] = IF Failed(d) THEN Destroyed(@) ELSE @]
      /\ UNCHANGED <<serving, serverSocket, serverDecoder, calls, answered, up>>
      /\ client[c] \in {"reading", "settling"}
  BY <1>1 DEF ResponseChunk, servingVars
<1>. HIDE DEF left, d, chunk
<1>7. ConnTypes'
  BY <1>3, <1>4, <1>5, <1>6 DEF ConnTypes, Destroyed
<1>8. \A x \in Conns \ {c} : Untouched(x)
  BY <1>6 DEF ConnTypes, Untouched
<1>9. ConnAt(c)'
  <2>1. EndsAt(c)' /\ ServerAt(c)'
    BY <1>6 DEF ConnTypes, ConnAt, EndsAt, ServerAt, ClientOf, ServerOf, WasAsked
  <2>2. down[c] # <<>>
    BY <1>2
  <2>3. Failed(clientDecoder[c]) \/ WasAnswered(c, clientDecoder[c].bytes \o down[c])
    BY <2>2 DEF ConnAt, ClientAt, Unanswered
  <2>4. serving[c] \in {"writing", "over"}
    BY <2>2 DEF ConnAt, ClientAt, Unanswered
  <2>5. clientDecoder'[c] = d /\ down'[c] = left /\ serving'[c] = serving[c]
    BY <1>6 DEF ConnTypes
  <2>6. CASE Failed(d)
    <3>1. client'[c] = "rejected"
      BY <1>6, <2>6 DEF ConnTypes
    <3>. QED
      BY <2>1, <2>4, <2>5, <2>6, <3>1 DEF ConnAt, ClientAt
  <2>7. CASE ~Failed(d)
    <3>1. clientDecoder[c].status = "open" /\ client[c] = "reading"
      BY <1>4, <1>6, <2>7 DEF ConnAt, ClientAt
    <3>2. WasAnswered(c, d.bytes \o left)
      BY <1>3, <1>4, <2>3, <2>7, <3>1 DEF Failed, DecoderFailures
    <3>4. client'[c] = (IF d.status = "complete" THEN "settling" ELSE "reading")
      BY <1>6, <2>7, <3>1 DEF ConnTypes
    <3>5. d.status \in {"open", "complete"}
      BY <1>5, <2>7 DEF Failed
    <3>6. WasAnswered(c, clientDecoder[c].bytes \o down[c])'
      BY <3>2, <1>6, <2>5 DEF WasAnswered, ServerOf
    <3>. QED
      BY <2>1, <2>4, <2>5, <3>4, <3>5, <3>6 DEF ConnAt, ClientAt
  <2>. QED
    BY <2>6, <2>7
<1>. QED
  BY <1>7, <1>8, <1>9, AtOne

LEMMA RequestChunkInv ==
    ASSUME ConnInv, route' = route, NEW c \in Conns, RequestChunk(c)
    PROVE  ConnInv'
<1>. USE DEF ConnInv
<1>1. PICK k \in 1 .. Len(up[c]) :
         LET d == Push(serverDecoder[c], SubSeq(up[c], 1, k))
         IN /\ up' = [up EXCEPT ![c] = SubSeq(@, k + 1, Len(@))]
            /\ serverDecoder' = [serverDecoder EXCEPT ![c] = d]
            /\ \/ /\ Handles(c, d)
                  /\ serving' = [serving EXCEPT ![c] = "handling"]
                  /\ calls' = [calls EXCEPT ![c] = @ + 1]
                  /\ UNCHANGED serverSocket
               \/ /\ ~Handles(c, d)
                  /\ d.status = "open"
                  /\ UNCHANGED <<serving, calls, serverSocket>>
               \/ /\ ~Handles(c, d)
                  /\ d.status # "open"
                  /\ serving' = [serving EXCEPT ![c] = "over"]
                  /\ serverSocket' = [serverSocket EXCEPT ![c] = Destroyed(@)]
                  /\ UNCHANGED calls
  BY DEF RequestChunk
<1>. DEFINE chunk == SubSeq(up[c], 1, k)
            left == SubSeq(up[c], k + 1, Len(up[c]))
            d == Push(serverDecoder[c], chunk)
<1>2. /\ serverDecoder[c].bytes \in Seq(Byte) /\ up[c] \in Seq(Byte)
      /\ DecoderOK(serverDecoder[c]) /\ serving[c] = "reading"
      /\ serverDecoder[c].status = "open" /\ WasAsked(c, serverDecoder[c].bytes \o up[c])
      /\ calls[c] = 0 /\ Unanswered(c)
  BY DEF ConnTypes, Decoders, RequestChunk, ConnAt, ServerAt, ClientAt
<1>3. /\ chunk \in Seq(Byte) /\ chunk # <<>> /\ left \in Seq(Byte)
      /\ (serverDecoder[c].bytes \o chunk) \o left = serverDecoder[c].bytes \o up[c]
  BY <1>2, Chunks
<1>4. DecoderOK(d) /\ (Failed(d) \/ d.bytes = serverDecoder[c].bytes \o chunk)
  BY <1>2, <1>3, PushIs
<1>5. /\ d \in Decoders /\ d.status \in DecoderFailures \cup {"open", "complete"}
      /\ d.bytes \in Seq(Byte)
  BY <1>4 DEF DecoderOK, Decoders
<1>6. /\ up' = [up EXCEPT ![c] = left]
      /\ serverDecoder' = [serverDecoder EXCEPT ![c] = d]
      /\ UNCHANGED <<client, clientSocket, clientDecoder, answered, down>>
      /\ \/ /\ d.status = "complete"
            /\ serving' = [serving EXCEPT ![c] = "handling"]
            /\ calls' = [calls EXCEPT ![c] = 1]
            /\ UNCHANGED serverSocket
         \/ d.status = "open" /\ UNCHANGED <<serving, calls, serverSocket>>
         \/ /\ serving' = [serving EXCEPT ![c] = "over"]
            /\ serverSocket' = [serverSocket EXCEPT ![c] = Destroyed(@)]
            /\ UNCHANGED calls
  <2>1. UNCHANGED <<client, clientSocket, clientDecoder, answered, down>>
    BY DEF RequestChunk, clientVars
  <2>2. calls[c] + 1 = 1
    BY <1>2
  <2>. HIDE DEF d
  <2>3. CASE Handles(c, d) /\ serving' = [serving EXCEPT ![c] = "handling"]
             /\ calls' = [calls EXCEPT ![c] = @ + 1] /\ UNCHANGED serverSocket
    BY <1>1, <2>1, <2>2, <2>3, Zenon DEF Handles, d
  <2>. QED
    BY <1>1, <2>1, <2>3, Zenon DEF d
<1>. HIDE DEF left, d, chunk
<1>7. ConnTypes'
  <2>1. /\ up' \in [Conns -> Seq(Byte)]
        /\ serverDecoder' \in [Conns -> Decoders]
        /\ \A x \in Conns : DecoderOK(serverDecoder'[x])
    BY <1>3, <1>4, <1>5, <1>6 DEF ConnTypes
  <2>2. /\ serving' \in [Conns -> {"none", "strange", "arriving", "reading", "handling",
                                   "writing", "over"}]
        /\ serverSocket' \in [Conns -> {"none", "open", "destroyed", "closed"}]
        /\ calls' \in [Conns -> Nat]
    <3>1. Destroyed(serverSocket[c]) \in {"none", "open", "destroyed", "closed"}
      BY DEF ConnTypes, Destroyed
    <3>2. serving' \in [Conns -> {"none", "strange", "arriving", "reading", "handling",
                                  "writing", "over"}]
      BY <1>6 DEF ConnTypes
    <3>3. serverSocket' \in [Conns -> {"none", "open", "destroyed", "closed"}]
      BY <1>6, <3>1 DEF ConnTypes
    <3>4. calls' \in [Conns -> Nat]
      BY <1>6 DEF ConnTypes
    <3>. QED
      BY <3>2, <3>3, <3>4
  <2>. QED
    BY <1>6, <2>1, <2>2 DEF ConnTypes
<1>8. \A x \in Conns \ {c} : Untouched(x)
  BY <1>6 DEF ConnTypes, Untouched
<1>9. d.status \in {"open", "complete"} => WasAsked(c, d.bytes \o left) /\ WasAsked(c, d.bytes)
  <2>. SUFFICES ASSUME d.status \in {"open", "complete"}
                PROVE  WasAsked(c, d.bytes \o left) /\ WasAsked(c, d.bytes)
    OBVIOUS
  <2>1. WasAsked(c, d.bytes \o left)
    BY <1>2, <1>3, <1>4 DEF Failed, DecoderFailures
  <2>. QED
    BY <2>1, <1>3, <1>5, PartsWritten
<1>10. ConnAt(c)'
  <2>1. /\ serverDecoder'[c] = d /\ up'[c] = left
        /\ ClientOf(c)' = ClientOf(c) /\ ServerOf(c)' = ServerOf(c)
    BY <1>6 DEF ConnTypes, ClientOf, ServerOf
  <2>2. /\ WasAsked(c, d.bytes) => WasAsked(c, serverDecoder[c].bytes)'
        /\ WasAsked(c, d.bytes \o left) => WasAsked(c, serverDecoder[c].bytes \o up[c])'
    BY <2>1 DEF WasAsked
  <2>3. ServerOf(c) # Stranger
    BY <1>2 DEF ConnAt, EndsAt
  <2>4. ~(ClientOf(c) # Stranger /\ client[c] \in {"idle", "connecting"})
    BY <1>2 DEF ConnAt, EndsAt
  <2>5. Unanswered(c)' /\ client'[c] = client[c]
    BY <1>2, <1>6 DEF Unanswered
  <2>6. ClientAt(c)'
    BY <1>2, <1>6, <2>5 DEF ConnAt, ClientAt, Unanswered
  <2>7. CASE d.status = "complete" /\ serving' = [serving EXCEPT ![c] = "handling"]
             /\ calls' = [calls EXCEPT ![c] = 1]
    <3>1. serving'[c] = "handling" /\ calls'[c] = 1
      BY <2>7 DEF ConnTypes
    <3>. QED
      BY <1>9, <2>1, <2>2, <2>3, <2>4, <2>5, <2>6, <2>7, <3>1 DEF ConnAt, EndsAt, ServerAt
  <2>8. CASE d.status = "open" /\ UNCHANGED <<serving, calls>>
    BY <1>2, <1>9, <2>1, <2>2, <2>3, <2>4, <2>5, <2>6, <2>8 DEF ConnAt, EndsAt, ServerAt
  <2>9. CASE serving' = [serving EXCEPT ![c] = "over"] /\ UNCHANGED calls
    <3>1. serving'[c] = "over" /\ calls'[c] = 0
      BY <2>9, <1>2 DEF ConnTypes
    <3>. QED
      BY <2>1, <2>3, <2>4, <2>5, <2>6, <3>1 DEF ConnAt, EndsAt, ServerAt
  <2>. QED
    BY <1>6, <2>7, <2>8, <2>9
<1>. QED
  BY <1>7, <1>8, <1>10, AtOne

LEMMA ServingSteps ==
    ASSUME ConnInv, route' = route, NEW c \in Conns,
           \/ StrangerConnects(c) \/ Accept(c) \/ TrailingRequestData(c)
           \/ ResponseWritten(c) \/ ServingFails(c) \/ StrangerAnswers(c)
           \/ \E response \in Responses : HandlerReturns(c, response)
    PROVE  ConnInv'
<1>. USE DEF ConnInv
<1>1. CASE StrangerConnects(c)
  <2>0. PICK s \in Streams : up' = [up EXCEPT ![c] = s]
    BY <1>1 DEF StrangerConnects
  <2>1. ConnTypes'
    BY <1>1, <2>0, PayloadAssumption DEF StrangerConnects, ConnTypes, clientVars
  <2>2. ConnAt(c)'
    <3>1. up'[c] = s /\ StartOf(s, s) /\ ServerOf(c) # Stranger
      BY <1>1, <2>0, PayloadAssumption, NodesAssumption DEF StrangerConnects, ConnTypes, StartOf, Listens
    <3>2. serving'[c] = "arriving" /\ serving[c] = "none" /\ ClientOf(c) = Stranger
      BY <1>1 DEF StrangerConnects, ConnTypes
    <3>3. WasAsked(c, up[c])'
      BY <3>1, <3>2 DEF WasAsked, ClientOf
    <3>4. EndsAt(c)'
      BY <1>1, <3>1, <3>2 DEF StrangerConnects, ConnAt, EndsAt, ClientOf, ServerOf, clientVars
    <3>5. ServerAt(c)'
      BY <1>1, <3>2, <3>3 DEF StrangerConnects, ConnAt, ServerAt
    <3>6. ClientAt(c)'
      BY <1>1, <3>2 DEF StrangerConnects, ConnAt, ClientAt, clientVars, Unanswered
    <3>. QED
      BY <3>4, <3>5, <3>6 DEF ConnAt
  <2>3. \A x \in Conns \ {c} : Untouched(x)
    BY <1>1, <2>0 DEF StrangerConnects, ConnTypes, Untouched, clientVars
  <2>. QED
    BY <2>1, <2>2, <2>3, AtOne
<1>2. CASE Accept(c)
  <2>1. ConnTypes'
    BY <1>2 DEF Accept, ConnTypes, clientVars
  <2>2. ConnAt(c)'
    <3>1. /\ serving[c] = "arriving" /\ serving'[c] \in {"reading", "over"}
          /\ serverDecoder[c] = NewDecoder /\ up[c] \in Seq(Byte) /\ calls[c] = 0
          /\ UNCHANGED <<client, clientDecoder, serverDecoder, calls, answered, up, down>>
      BY <1>2 DEF Accept, ConnTypes, ConnAt, ServerAt, clientVars
    <3>2. NewDecoder.bytes \o up[c] = up[c] /\ NewDecoder.status = "open"
      BY <3>1 DEF NewDecoder
    <3>3. EndsAt(c)'
      BY <3>1 DEF ConnAt, EndsAt, ClientOf, ServerOf
    <3>4. ServerAt(c)'
      BY <3>1, <3>2 DEF ConnAt, ServerAt, WasAsked, ClientOf
    <3>5. ClientAt(c)'
      BY <3>1 DEF ConnAt, ClientAt, Unanswered
    <3>. QED
      BY <3>3, <3>4, <3>5 DEF ConnAt
  <2>3. \A x \in Conns \ {c} : Untouched(x)
    BY <1>2 DEF Accept, ConnTypes, Untouched, clientVars
  <2>. QED
    BY <2>1, <2>2, <2>3, AtOne
<1>3. CASE TrailingRequestData(c)
  <2>1. ConnTypes'
    BY <1>3 DEF TrailingRequestData, ConnTypes, clientVars, Destroyed
  <2>2. ConnAt(c)'
    BY <1>3 DEF TrailingRequestData, ConnTypes, clientVars, ConnAt, EndsAt, ServerAt, ClientAt,
       Unanswered, WasAsked, WasAnswered, ClientOf, ServerOf
  <2>3. \A x \in Conns \ {c} : Untouched(x)
    BY <1>3 DEF TrailingRequestData, ConnTypes, Untouched, clientVars
  <2>. QED
    BY <2>1, <2>2, <2>3, AtOne
<1>4. CASE ResponseWritten(c)
  <2>1. ConnTypes'
    BY <1>4 DEF ResponseWritten, ConnTypes, clientVars, Destroyed
  <2>2. ConnAt(c)'
    BY <1>4 DEF ResponseWritten, ConnTypes, clientVars, ConnAt, EndsAt, ServerAt, ClientAt,
       Unanswered, WasAsked, WasAnswered, ClientOf, ServerOf
  <2>3. \A x \in Conns \ {c} : Untouched(x)
    BY <1>4 DEF ResponseWritten, ConnTypes, Untouched, clientVars
  <2>. QED
    BY <2>1, <2>2, <2>3, AtOne
<1>5. CASE ServingFails(c)
  <2>0. PICK kept \in 0 .. Len(down[c]) : down' = [down EXCEPT ![c] = SubSeq(@, 1, kept)]
    BY <1>5 DEF ServingFails
  <2>. DEFINE part == SubSeq(down[c], 1, kept)
  <2>1. down[c] \in Seq(Byte) /\ part \in Seq(Byte) /\ (down[c] = <<>> => part = <<>>)
    BY DEF ConnTypes
  <2>2. down'[c] = part /\ down' = [down EXCEPT ![c] = part]
    BY <2>0 DEF ConnTypes
  <2>. HIDE DEF part
  <2>3. ConnTypes'
    BY <1>5, <2>1, <2>2 DEF ServingFails, ConnTypes, clientVars, Destroyed
  <2>4. /\ serving[c] \in {"reading", "handling", "writing"} /\ serving'[c] = "over"
        /\ UNCHANGED <<client, clientDecoder, serverDecoder, calls, answered, up>>
    BY <1>5 DEF ServingFails, ConnTypes, clientVars
  <2>5. EndsAt(c)' /\ ServerAt(c)'
    BY <2>4 DEF ConnAt, EndsAt, ServerAt, ClientOf, ServerOf, WasAsked
  <2>6. ClientAt(c)'
    <3>1. clientDecoder[c].bytes \in Seq(Byte)
      BY DEF ConnTypes, Decoders
    <3>2. CASE Unanswered(c)
      BY <2>1, <2>2, <2>4, <3>2 DEF ConnAt, ClientAt, Unanswered
    <3>3. CASE Failed(clientDecoder[c])
      BY <2>4, <3>3 DEF ConnAt, ClientAt
    <3>4. CASE WasAnswered(c, clientDecoder[c].bytes \o down[c])
      <4>1. WasAnswered(c, clientDecoder[c].bytes \o part)
        BY <2>1, <3>1, <3>4, PartsWritten DEF part
      <4>2. WasAnswered(c, clientDecoder[c].bytes \o down[c])'
        BY <4>1, <2>2, <2>4 DEF WasAnswered, ServerOf
      <4>. QED
        BY <4>2, <2>4 DEF ConnAt, ClientAt
    <3>. QED
      BY <3>2, <3>3, <3>4 DEF ConnAt, ClientAt
  <2>7. \A x \in Conns \ {c} : Untouched(x)
    BY <1>5, <2>2 DEF ServingFails, ConnTypes, Untouched, clientVars
  <2>. QED
    BY <2>3, <2>5, <2>6, <2>7, AtOne DEF ConnAt
<1>6. CASE StrangerAnswers(c)
  <2>0. PICK s \in Streams : down' = [down EXCEPT ![c] = s]
    BY <1>6 DEF StrangerAnswers
  <2>1. ConnTypes'
    BY <1>6, <2>0, PayloadAssumption DEF StrangerAnswers, ConnTypes, clientVars
  <2>2. ConnAt(c)'
    <3>1. /\ s \in Seq(Byte) /\ down'[c] = s /\ StartOf(s, s) /\ NewDecoder.bytes \o s = s
          /\ serving[c] = "strange" /\ serving'[c] = "over"
          /\ UNCHANGED <<client, clientDecoder, serverDecoder, calls, answered, up>>
      BY <1>6, <2>0, PayloadAssumption DEF StrangerAnswers, ConnTypes, StartOf, NewDecoder, clientVars
    <3>2. ServerOf(c) = Stranger /\ clientDecoder[c] = NewDecoder
      BY <3>1 DEF ConnAt, EndsAt, ClientAt, Unanswered
    <3>3. WasAnswered(c, clientDecoder[c].bytes \o down[c])'
      BY <3>1, <3>2 DEF WasAnswered, ServerOf
    <3>4. EndsAt(c)' /\ ServerAt(c)'
      BY <3>1 DEF ConnAt, EndsAt, ServerAt, ClientOf, ServerOf, WasAsked
    <3>5. ClientAt(c)'
      BY <3>1, <3>3 DEF ConnAt, ClientAt
    <3>. QED
      BY <3>4, <3>5 DEF ConnAt
  <2>3. \A x \in Conns \ {c} : Untouched(x)
    BY <1>6, <2>0 DEF StrangerAnswers, ConnTypes, Untouched, clientVars
  <2>. QED
    BY <2>1, <2>2, <2>3, AtOne
<1>7. ASSUME NEW response \in Responses, HandlerReturns(c, response) PROVE ConnInv'
  <2>0. /\ response \in Seq(Byte) /\ answered' = [answered EXCEPT ![c] = response]
        /\ serving[c] = "handling" /\ calls[c] = 1 /\ Unanswered(c)
        /\ UNCHANGED <<client, clientSocket, clientDecoder, serverDecoder, calls, up>>
    BY <1>7, PayloadAssumption DEF HandlerReturns, ConnAt, ServerAt, ClientAt, clientVars
  <2>1. CASE Encodable(response) /\ serverSocket[c] = "open"
    <3>1. /\ serving' = [serving EXCEPT ![c] = "writing"]
          /\ down' = [down EXCEPT ![c] = Frame(response)]
          /\ UNCHANGED serverSocket
      BY <1>7, <2>1 DEF HandlerReturns
    <3>2. Frame(response) \in Seq(Byte)
      BY <2>0, <2>1, FrameIs
    <3>3. ConnTypes'
      BY <2>0, <3>1, <3>2 DEF ConnTypes
    <3>4. /\ serving'[c] = "writing" /\ down'[c] = Frame(response) /\ answered'[c] = response
          /\ StartOf(Frame(response), Frame(response))
          /\ NewDecoder.bytes \o Frame(response) = Frame(response)
      BY <2>0, <3>1, <3>2 DEF ConnTypes, StartOf, NewDecoder
    <3>5. EndsAt(c)' /\ ServerAt(c)'
      BY <2>0, <3>4 DEF ConnAt, EndsAt, ServerAt, ClientOf, ServerOf, WasAsked
    <3>6. ServerOf(c) # Stranger
      BY <2>0 DEF ConnAt, EndsAt
    <3>7. WasAnswered(c, clientDecoder[c].bytes \o down[c])'
      BY <2>0, <2>1, <3>4, <3>6 DEF WasAnswered, ServerOf, Unanswered
    <3>8. ClientAt(c)'
      BY <2>0, <3>4, <3>7 DEF ConnAt, ClientAt
    <3>9. \A x \in Conns \ {c} : Untouched(x)
      BY <2>0, <3>1 DEF ConnTypes, Untouched
    <3>. QED
      BY <3>3, <3>5, <3>8, <3>9, AtOne DEF ConnAt
  <2>2. CASE ~(Encodable(response) /\ serverSocket[c] = "open")
    <3>1. /\ serving' = [serving EXCEPT ![c] = "over"]
          /\ serverSocket' = [serverSocket EXCEPT ![c] = Destroyed(@)]
          /\ UNCHANGED down
      BY <1>7, <2>2 DEF HandlerReturns
    <3>3. ConnTypes'
      BY <2>0, <3>1 DEF ConnTypes, Destroyed
    <3>4. serving'[c] = "over"
      BY <3>1 DEF ConnTypes
    <3>5. EndsAt(c)' /\ ServerAt(c)'
      BY <2>0, <3>4 DEF ConnAt, EndsAt, ServerAt, ClientOf, ServerOf, WasAsked
    <3>8. ClientAt(c)'
      BY <2>0, <3>1, <3>4 DEF ConnAt, ClientAt, Unanswered
    <3>9. \A x \in Conns \ {c} : Untouched(x)
      BY <2>0, <3>1 DEF ConnTypes, Untouched
    <3>. QED
      BY <3>3, <3>5, <3>8, <3>9, AtOne DEF ConnAt
  <2>. QED
    BY <2>1, <2>2
<1>. QED
  BY <1>1, <1>2, <1>3, <1>4, <1>5, <1>6, <1>7

LEMMA SocketSteps ==
    ASSUME ConnInv, route' = route, NEW c \in Conns, ClientSocketCloses(c) \/ ServerSocketCloses(c)
    PROVE  ConnInv'
<1>1. ConnTypes'
  BY DEF ConnInv, ConnTypes, ClientSocketCloses, ServerSocketCloses, clientVars, servingVars
<1>2. \A x \in Conns : Untouched(x)
  BY DEF ClientSocketCloses, ServerSocketCloses, Untouched, clientVars, servingVars
<1>. QED
  BY <1>1, <1>2, UntouchedAt DEF ConnInv

\* A step of a transport: it drops what it has not accepted, and destroys sockets.
LEMMA NodeSteps ==
    ASSUME ConnInv, route' = route, NEW n \in Nodes, LifecycleStep(n) \/ Bind(n) \/ Close(n)
    PROVE  /\ ConnInv'
           /\ \A x \in Conns :
                 /\ clientSocket'[x] \in {clientSocket[x], Destroyed(clientSocket[x])}
                 /\ serverSocket'[x] \in {serverSocket[x], Destroyed(serverSocket[x])}
                 /\ calls'[x] = calls[x]
<1>. USE DEF ConnInv
<1>1. /\ serving' \in {serving, ArrivalsDropped(n)}
      /\ UNCHANGED <<client, clientDecoder, serverDecoder, calls, answered, up, down>>
      /\ (UNCHANGED <<clientSocket, serverSocket>> \/ DestroySockets(n))
  BY DEF LifecycleStep, Bind, Close, BindStarts, ListenRefused, Reclaims, Publish, BindSucceeds,
     PathDisappeared, Discarded, CloseStarts, Drained, ShutdownLate, ForceLate, EndpointReleased,
     Discards, clientVars, servingVars
<1>2. ASSUME NEW x \in Conns
      PROVE  /\ clientSocket'[x] \in {clientSocket[x], Destroyed(clientSocket[x])}
             /\ serverSocket'[x] \in {serverSocket[x], Destroyed(serverSocket[x])}
  BY <1>1 DEF DestroySockets
<1>3. /\ clientSocket' \in [Conns -> {"none", "open", "destroyed", "closed"}]
      /\ serverSocket' \in [Conns -> {"none", "open", "destroyed", "closed"}]
  BY <1>1 DEF DestroySockets, ConnTypes, Destroyed
<1>4. /\ serving' \in [Conns -> {"none", "strange", "arriving", "reading", "handling", "writing",
                                "over"}]
      /\ \A x \in Conns : serving'[x] = serving[x]
                          \/ (serving[x] = "arriving" /\ serving'[x] = "over" /\ ServerOf(x) = n)
  BY <1>1 DEF ArrivalsDropped, ConnTypes
<1>5. ConnTypes'
  BY <1>1, <1>3, <1>4 DEF ConnTypes
<1>6. ASSUME NEW x \in Conns PROVE ConnAt(x)'
  <2>1. CASE serving'[x] = serving[x]
    BY <1>1, <2>1, UntouchedAt DEF Untouched
  <2>2. CASE serving[x] = "arriving" /\ serving'[x] = "over" /\ ServerOf(x) = n
    BY <1>1, <2>2, NodesAssumption DEF ConnAt, EndsAt, ServerAt, ClientAt, Unanswered, WasAsked,
       WasAnswered, ClientOf, ServerOf
  <2>. QED
    BY <1>4, <2>1, <2>2
<1>. QED
  BY <1>1, <1>2, <1>5, <1>6

\* Every step keeps every connection in order.
LEMMA NextConnInv == ConnInv /\ [Next]_vars => ConnInv'
<1>. SUFFICES ASSUME ConnInv, [Next]_vars PROVE ConnInv'
  OBVIOUS
<1>1. CASE UNCHANGED vars
  <2>1. ConnTypes' /\ route' = route /\ \A x \in Conns : Untouched(x)
    BY <1>1 DEF ConnInv, ConnTypes, vars, clientVars, servingVars, Untouched
  <2>. QED
    BY <2>1, UntouchedAt DEF ConnInv
<1>2. ASSUME NEW c \in Conns, ConnStep(c) \/ Exchange(c), route' = route PROVE ConnInv'
  BY <1>2, RequestSteps, ResponseChunkInv, RequestChunkInv, ServingSteps, SocketSteps
     DEF ConnStep, Exchange
<1>. QED
  BY <1>1, <1>2, NodeSteps DEF Next

\* A whole frame that begins what was written is all of it.
LEMMA ConnInvWhole == ConnInv => WholeExchanges
<1>. SUFFICES ASSUME ConnInv, NEW c \in Conns
              PROVE  /\ calls[c] <= 1
                     /\ calls[c] = 1 =>
                           /\ ~Failed(serverDecoder[c])
                           /\ IF ClientOf(c) = Stranger THEN OfAStranger(serverDecoder[c])
                              ELSE Payload(serverDecoder[c]) = Request[c]
                     /\ client[c] = "resolved" =>
                           /\ clientDecoder[c].status = "complete"
                           /\ IF ServerOf(c) = Stranger THEN OfAStranger(clientDecoder[c])
                              ELSE calls[c] = 1 /\ Payload(clientDecoder[c]) = answered[c]
  BY DEF WholeExchanges
<1>. USE DEF ConnInv
<1>1. ASSUME NEW b \in Seq(Byte), NEW s \in Streams, StartOf(b, s)
      PROVE  Len(b) <= Len(s) /\ b = SubSeq(s, 1, Len(b))
  <2>1. Len(b) <= Len(s) /\ s \in Seq(Byte) /\ \A i \in 1 .. Len(b) : b[i] = s[i]
    BY <1>1, PayloadAssumption DEF StartOf
  <2>. DEFINE t == SubSeq(s, 1, Len(b))
  <2>2. t \in Seq(Byte) /\ Len(t) = Len(b) /\ \A i \in 1 .. Len(b) : t[i] = s[i]
    BY <2>1
  <2>. HIDE DEF t
  <2>3. b = t
    BY <2>1, <2>2, SameBytes
  <2>. QED
    BY <2>1, <2>3 DEF t
<1>2. calls[c] <= 1
  BY DEF ConnAt, ServerAt
<1>3. ASSUME calls[c] = 1
      PROVE  /\ ~Failed(serverDecoder[c])
             /\ IF ClientOf(c) = Stranger THEN OfAStranger(serverDecoder[c])
                ELSE Payload(serverDecoder[c]) = Request[c]
  <2>1. /\ serverDecoder[c].status = "complete" /\ WasAsked(c, serverDecoder[c].bytes)
        /\ DecoderOK(serverDecoder[c]) /\ serverDecoder[c].bytes \in Seq(Byte)
    BY <1>3 DEF ConnAt, ServerAt, ConnTypes, Decoders
  <2>2. ~Failed(serverDecoder[c])
    BY <2>1 DEF Failed, DecoderFailures
  <2>3. CASE ClientOf(c) = Stranger
    BY <1>1, <2>1, <2>2, <2>3 DEF WasAsked, OfAStranger
  <2>4. CASE ClientOf(c) # Stranger
    BY <2>1, <2>2, <2>4, WholeFrame, PayloadAssumption DEF WasAsked
  <2>. QED
    BY <2>3, <2>4
<1>4. ASSUME client[c] = "resolved"
      PROVE  /\ clientDecoder[c].status = "complete"
             /\ IF ServerOf(c) = Stranger THEN OfAStranger(clientDecoder[c])
                ELSE calls[c] = 1 /\ Payload(clientDecoder[c]) = answered[c]
  <2>1. /\ clientDecoder[c].status = "complete" /\ DecoderOK(clientDecoder[c])
        /\ clientDecoder[c].bytes \in Seq(Byte) /\ down[c] \in Seq(Byte)
        /\ answered[c] \in Seq(Byte)
    BY <1>4 DEF ConnAt, ClientAt, ConnTypes, Decoders
  <2>2. ~Unanswered(c) /\ ~Failed(clientDecoder[c])
    BY <2>1 DEF Failed, DecoderFailures, Unanswered, NewDecoder
  <2>3. WasAnswered(c, clientDecoder[c].bytes \o down[c])
    BY <2>2 DEF ConnAt, ClientAt
  <2>4. CASE ServerOf(c) = Stranger
    <3>1. PICK s \in Streams : StartOf(clientDecoder[c].bytes \o down[c], s)
      BY <2>3, <2>4 DEF WasAnswered
    <3>2. StartOf(clientDecoder[c].bytes, s)
      BY <2>1, <3>1, Starts, PayloadAssumption
    <3>. QED
      BY <1>1, <2>1, <2>4, <3>2 DEF OfAStranger
  <2>5. CASE ServerOf(c) # Stranger
    <3>1. /\ calls[c] = 1 /\ Encodable(answered[c])
          /\ StartOf(clientDecoder[c].bytes \o down[c], Frame(answered[c]))
      BY <2>3, <2>5 DEF WasAnswered
    <3>2. StartOf(clientDecoder[c].bytes, Frame(answered[c]))
      BY <2>1, <3>1, Starts, FrameIs
    <3>. QED
      BY <2>1, <2>5, <3>1, <3>2, WholeFrame
  <2>. QED
    BY <2>4, <2>5
<1>. QED
  BY <1>2, <1>3, <1>4

\* The chain has a close just while close is pending, and never two.
ChainHolds(l, pending) ==
    /\ pending <=> \E i \in 1 .. Len(l) : l[i] = "close"
    /\ \A i, j \in 1 .. Len(l) : l[i] = "close" /\ l[j] = "close" => i = j

\* What a transport waits for is a wait of the oldest operation.
BindSteps == {"listening", "refused", "reclaiming", "stat", "discarding"}
CloseSteps == {"draining", "forcing", "unlinking"}
ChainAt(n) ==
    /\ closing[n] <=> closed[n] # "none"
    /\ ChainHolds(lifecycle[n], closed[n] = "pending")
    /\ step[n] \in BindSteps => lifecycle[n] # <<>> /\ Head(lifecycle[n]) = "bind"
    /\ step[n] \in CloseSteps => lifecycle[n] # <<>> /\ Head(lifecycle[n]) = "close"

\* What a transport holds, at each wait and once everything has settled.
Bound(n) == server[n] = "listening" /\ path[n] = "ours"
Unbound(n) == server[n] # "listening" /\ path[n] # "ours"
HoldingsAt(n) ==
    /\ step[n] \in {"listening", "stat"} => Bound(n) /\ ~owned[n]
    /\ step[n] \in {"refused", "reclaiming"} => Unbound(n) /\ server[n] = "none" /\ ~owned[n]
    /\ step[n] = "discarding" => Unbound(n) /\ ~owned[n]
    /\ step[n] \in CloseSteps => Unbound(n)
    /\ step[n] = "idle" /\ closed[n] \in {"none", "pending"} =>
          IF owned[n] THEN Bound(n) ELSE Unbound(n) /\ server[n] = "none"
    /\ closed[n] \in {"done", "failed"} => step[n] = "idle" /\ Unbound(n)
    /\ step[n] = "unlinking" \/ closed[n] = "done" => server[n] = "none" /\ SocketsOf(n) = {}

NodeAt(n) == ChainAt(n) /\ HoldingsAt(n)
NodeInv == NodeTypes /\ \A n \in Nodes : NodeAt(n)

Operations == {"bind", "close"}

LEMMA Chain ==
    ASSUME NEW l \in Seq(Operations), NEW pending \in BOOLEAN, ChainHolds(l, pending)
    PROVE  /\ ChainHolds(Append(l, "bind"), pending)
           /\ ~pending => ChainHolds(Append(l, "close"), TRUE)
           /\ l # <<>> /\ Head(l) = "bind" => ChainHolds(Tail(l), pending)
           /\ l # <<>> /\ Head(l) = "close" => pending /\ ChainHolds(Tail(l), FALSE)
<1>1. ASSUME NEW o \in Operations
      PROVE  /\ Append(l, o) \in Seq(Operations) /\ Len(Append(l, o)) = Len(l) + 1
             /\ \A i \in 1 .. Len(l) : Append(l, o)[i] = l[i]
             /\ Append(l, o)[Len(l) + 1] = o
  OBVIOUS
<1>2. ChainHolds(Append(l, "bind"), pending)
  BY <1>1 DEF ChainHolds, Operations
<1>3. ASSUME ~pending PROVE ChainHolds(Append(l, "close"), TRUE)
  BY <1>1, <1>3 DEF ChainHolds, Operations
<1>4. ASSUME l # <<>>
      PROVE  /\ Tail(l) \in Seq(Operations) /\ Len(Tail(l)) = Len(l) - 1 /\ Head(l) = l[1]
             /\ Len(l) \in Nat \ {0}
             /\ \A i \in 1 .. Len(l) - 1 : Tail(l)[i] = l[i + 1]
  BY <1>4
<1>5. ASSUME l # <<>>, Head(l) = "bind" PROVE ChainHolds(Tail(l), pending)
  <2>1. ASSUME NEW i \in 1 .. Len(l), l[i] = "close"
        PROVE  i - 1 \in 1 .. Len(Tail(l)) /\ Tail(l)[i - 1] = "close"
    BY <1>4, <1>5, <2>1
  <2>2. \A i \in 1 .. Len(Tail(l)) : i + 1 \in 1 .. Len(l) /\ Tail(l)[i] = l[i + 1]
    BY <1>4, <1>5
  <2>3. pending <=> \E i \in 1 .. Len(Tail(l)) : Tail(l)[i] = "close"
    BY <2>1, <2>2 DEF ChainHolds
  <2>4. ASSUME NEW i \in 1 .. Len(Tail(l)), NEW j \in 1 .. Len(Tail(l)),
               Tail(l)[i] = "close", Tail(l)[j] = "close"
        PROVE  i = j
    <3>1. i + 1 = j + 1
      BY <2>2, <2>4 DEF ChainHolds
    <3>. QED
      BY <3>1
  <2>. QED
    BY <2>3, <2>4 DEF ChainHolds
<1>6. ASSUME l # <<>>, Head(l) = "close" PROVE pending /\ ChainHolds(Tail(l), FALSE)
  <2>1. 1 \in 1 .. Len(l) /\ l[1] = "close"
    BY <1>4, <1>6
  <2>2. ASSUME NEW i \in 1 .. Len(Tail(l)), Tail(l)[i] = "close" PROVE FALSE
    <3>1. i + 1 \in 1 .. Len(l) /\ l[i + 1] = "close"
      BY <1>4, <1>6, <2>2
    <3>2. i + 1 = 1
      BY <2>1, <3>1 DEF ChainHolds
    <3>. QED
      BY <3>2
  <2>. QED
    BY <2>1, <2>2 DEF ChainHolds
<1>. QED
  BY <1>2, <1>3, <1>5, <1>6

LEMMA InitNodeInv == Init => NodeInv
<1>. SUFFICES ASSUME Init PROVE NodeInv
  OBVIOUS
<1>1. NodeTypes
  BY BindsAssumption DEF Init, NodeTypes
<1>2. ASSUME NEW n \in Nodes PROVE NodeAt(n)
  <2>1. ChainHolds(<<>>, FALSE)
    BY DEF ChainHolds
  <2>2. ChainAt(n)
    BY <2>1 DEF Init, ChainAt, BindSteps, CloseSteps
  <2>3. HoldingsAt(n)
    BY DEF Init, HoldingsAt, Bound, Unbound, CloseSteps
  <2>. QED
    BY <2>2, <2>3 DEF NodeAt
<1>. QED
  BY <1>1, <1>2 DEF NodeInv

\* A transport that nothing happens to, and its sockets.
Idle(n) ==
    /\ closing'[n] = closing[n] /\ lifecycle'[n] = lifecycle[n] /\ step'[n] = step[n]
    /\ server'[n] = server[n] /\ path'[n] = path[n] /\ owned'[n] = owned[n]
    /\ closed'[n] = closed[n]

LEMMA IdleAt ==
    ASSUME NEW n, NodeAt(n), Idle(n),
           step[n] = "unlinking" \/ closed[n] = "done" => SocketsOf(n)' \subseteq SocketsOf(n)
    PROVE  NodeAt(n)'
<1>1. ChainAt(n)'
  BY DEF NodeAt, ChainAt, Idle
<1>2. HoldingsAt(n)'
  BY DEF NodeAt, HoldingsAt, Idle, Bound, Unbound
<1>. QED
  BY <1>1, <1>2 DEF NodeAt

\* Once close has got so far that it waits for its path to go, it was called.
LEMMA Closing ==
    ASSUME NodeInv, NEW n \in Nodes, step[n] = "unlinking" \/ closed[n] = "done"
    PROVE  closing[n] /\ server[n] = "none"
<1>1. ChainAt(n) /\ HoldingsAt(n) /\ lifecycle[n] \in Seq(Operations)
  BY DEF NodeInv, NodeAt, NodeTypes, Operations
<1>2. step[n] = "unlinking" => closed[n] = "pending"
  BY <1>1, Chain DEF ChainAt, CloseSteps
<1>. QED
  BY <1>1, <1>2 DEF ChainAt, HoldingsAt

\* The steps of connections: sockets only open where a transport is open.
LEMMA NewSockets ==
    ASSUME ConnInv, NEW c \in Conns, ConnStep(c) \/ Exchange(c), NEW x \in Conns
    PROVE  /\ Tracked(serverSocket'[x]) /\ ~Tracked(serverSocket[x]) =>
                 server[ServerOf(x)] = "listening"
           /\ Tracked(clientSocket'[x]) /\ ~Tracked(clientSocket[x]) => ~closing[ClientOf(x)]
<1>. USE DEF ConnInv, ConnTypes, Tracked, Destroyed
<1>1. CASE RequestStarts(c) \/ Connects(c) \/ RequestWritten(c) \/ ResponseSettles(c) \/ RequestFails(c)
  BY <1>1 DEF RequestStarts, Connects, RequestWritten, ResponseSettles, RequestFails, servingVars
<1>2. CASE ResponseChunk(c)
  BY <1>2 DEF ResponseChunk, servingVars
<1>3. CASE RequestChunk(c)
  BY <1>3 DEF RequestChunk, clientVars
<1>4. CASE StrangerConnects(c) \/ Accept(c) \/ TrailingRequestData(c) \/ ResponseWritten(c)
           \/ ServingFails(c) \/ StrangerAnswers(c)
  BY <1>4 DEF StrangerConnects, Accept, TrailingRequestData, ResponseWritten, ServingFails,
     StrangerAnswers, clientVars, Listens
<1>5. ASSUME NEW response \in Responses, HandlerReturns(c, response)
      PROVE  /\ Tracked(serverSocket'[x]) /\ ~Tracked(serverSocket[x]) =>
                   server[ServerOf(x)] = "listening"
             /\ Tracked(clientSocket'[x]) /\ ~Tracked(clientSocket[x]) => ~closing[ClientOf(x)]
  BY <1>5 DEF HandlerReturns, clientVars
<1>6. CASE ClientSocketCloses(c) \/ ServerSocketCloses(c)
  BY <1>6 DEF ClientSocketCloses, ServerSocketCloses, servingVars, clientVars
<1>. QED
  BY <1>1, <1>2, <1>3, <1>4, <1>5, <1>6 DEF ConnStep, Exchange

LEMMA ConnStepsNodeInv ==
    ASSUME ConnInv, NodeInv, NEW c \in Conns, ConnStep(c) \/ Exchange(c), route' = route
    PROVE  NodeInv'
<1>1. UNCHANGED nodeVars
  BY DEF ConnStep, Exchange, RequestStarts, Connects, RequestWritten, ResponseSettles, RequestFails,
     ResponseChunk, RequestChunk, StrangerConnects, Accept, TrailingRequestData, ResponseWritten,
     ServingFails, StrangerAnswers, HandlerReturns, ClientSocketCloses, ServerSocketCloses
<1>2. NodeTypes'
  BY <1>1 DEF NodeInv, NodeTypes, nodeVars
<1>3. ASSUME NEW n \in Nodes PROVE NodeAt(n)'
  <2>1. ASSUME step[n] = "unlinking" \/ closed[n] = "done"
        PROVE  SocketsOf(n)' \subseteq SocketsOf(n)
    <3>1. closing[n] /\ server[n] = "none"
      BY <2>1, Closing
    <3>2. ASSUME NEW x \in Conns PROVE x \in SocketsOf(n)' => x \in SocketsOf(n)
      BY <3>1, NewSockets DEF SocketsOf, ServerConns, ClientConns, ServerOf, ClientOf
    <3>. QED
      BY <3>2 DEF SocketsOf, ServerConns, ClientConns
  <2>2. Idle(n)
    BY <1>1 DEF Idle, nodeVars
  <2>. QED
    BY <2>1, <2>2, IdleAt DEF NodeInv
<1>. QED
  BY <1>2, <1>3 DEF NodeInv

\* The steps of bind and close, each of which changes one transport.
LEMMA LifecycleNodeInv ==
    ASSUME ConnInv, NodeInv, NEW n \in Nodes, LifecycleStep(n) \/ Bind(n) \/ Close(n),
           route' = route
    PROVE  NodeInv'
<1>1. ASSUME NEW m \in Nodes PROVE SocketsOf(m)' \subseteq SocketsOf(m)
  <2>1. ASSUME NEW x \in Conns PROVE x \in SocketsOf(m)' => x \in SocketsOf(m)
    BY NodeSteps DEF SocketsOf, ServerConns, ClientConns, ServerOf, ClientOf, Tracked, Destroyed
  <2>. QED
    BY <2>1 DEF SocketsOf, ServerConns, ClientConns
<1>2. /\ NodeTypes /\ NodeAt(n) /\ ChainAt(n) /\ HoldingsAt(n)
      /\ lifecycle[n] \in Seq(Operations)
  BY DEF NodeInv, NodeAt, NodeTypes, Operations
<1>3. /\ ChainHolds(Append(lifecycle[n], "bind"), closed[n] = "pending")
      /\ closed[n] = "none" => ChainHolds(Append(lifecycle[n], "close"), TRUE)
      /\ lifecycle[n] # <<>> /\ Head(lifecycle[n]) = "bind" =>
            ChainHolds(Tail(lifecycle[n]), closed[n] = "pending")
      /\ lifecycle[n] # <<>> /\ Head(lifecycle[n]) = "close" =>
            closed[n] = "pending" /\ ChainHolds(Tail(lifecycle[n]), FALSE)
  BY <1>2, Chain DEF ChainAt
<1>4. /\ Append(lifecycle[n], "bind") \in Seq({"bind", "close"})
      /\ Append(lifecycle[n], "close") \in Seq({"bind", "close"})
      /\ lifecycle[n] # <<>> => Tail(lifecycle[n]) \in Seq({"bind", "close"})
      /\ lifecycle[n] # <<>> => Head(Append(lifecycle[n], "close")) = Head(lifecycle[n])
      /\ Append(lifecycle[n], "close") # <<>>
  <2>1. ASSUME NEW l \in Seq(Operations), NEW o \in Operations
        PROVE  /\ Append(l, o) \in Seq(Operations) /\ Append(l, o) # <<>>
               /\ l # <<>> => Tail(l) \in Seq(Operations) /\ Head(Append(l, o)) = Head(l)
    <3>1. /\ Append(l, o) \in Seq(Operations) /\ Len(Append(l, o)) = Len(l) + 1
          /\ Len(l) \in Nat /\ \A i \in 1 .. Len(l) : Append(l, o)[i] = l[i]
      OBVIOUS
    <3>2. Append(l, o) # <<>>
      BY <3>1
    <3>3. ASSUME l # <<>> PROVE Tail(l) \in Seq(Operations) /\ Head(Append(l, o)) = Head(l)
      <4>1. Len(l) \in Nat \ {0} /\ Head(l) = l[1] /\ Tail(l) \in Seq(Operations)
        BY <3>3
      <4>2. Head(Append(l, o)) = Append(l, o)[1]
        BY <3>1, <3>2
      <4>. QED
        BY <3>1, <4>1, <4>2
    <3>. QED
      BY <3>1, <3>2, <3>3
  <2>. QED
    BY <1>2, <2>1 DEF Operations
<1>8. NodeTypes
  BY <1>2
<1>9. Settles(n) /\ lifecycle[n] # <<>> =>
         /\ lifecycle' \in [Nodes -> Seq({"bind", "close"})]
         /\ step' \in [Nodes -> {"idle", "listening", "refused", "reclaiming", "stat",
                                 "discarding", "draining", "forcing", "unlinking"}]
  BY <1>4, <1>8 DEF Settles, NodeTypes
<1>5. NodeTypes'
  <2>. USE <1>8, <1>9 DEF NodeTypes, WaitsFor, Oldest, Listening, StopListening, Discards,
       CloseSettles
  <2>1. CASE Bind(n)
    BY <1>4, <2>1 DEF Bind
  <2>2. CASE Close(n)
    BY <1>4, <2>2 DEF Close
  <2>3. CASE BindStarts(n)
    <3>1. CASE closing[n] \/ server[n] # "none"
      BY <2>3, <3>1 DEF BindStarts
    <3>2. CASE ~closing[n] /\ server[n] = "none"
      BY <2>3, <3>2 DEF BindStarts
    <3>. QED
      BY <3>1, <3>2
  <2>4. CASE ListenRefused(n)
    BY <2>4 DEF ListenRefused
  <2>5. CASE Reclaims(n)
    BY <2>5 DEF Reclaims
  <2>6. CASE Publish(n)
    <3>1. CASE closing[n]
      <4>1. /\ step' = [step EXCEPT ![n] = "discarding"]
            /\ handler' = [handler EXCEPT ![n] = FALSE]
            /\ UNCHANGED <<closing, lifecycle, owned, binds, closed>>
        BY <2>6, <3>1 DEF Publish
      <4>2. StopListening(n)
        BY <2>6, <3>1 DEF Publish
      <4>3. /\ server' \in [Nodes -> {"none", "listening", "closing"}]
            /\ path' \in [Nodes -> {"free", "ours", "taken"}]
        BY <4>2
      <4>. QED
        BY <4>1, <4>3
    <3>2. CASE ~closing[n]
      BY <2>6, <3>2 DEF Publish
    <3>. QED
      BY <3>1, <3>2
  <2>7. CASE BindSucceeds(n)
    BY <2>7 DEF BindSucceeds
  <2>8. CASE PathDisappeared(n)
    BY <2>8 DEF PathDisappeared
  <2>9. CASE Discarded(n)
    BY <2>9 DEF Discarded
  <2>10. CASE CloseStarts(n)
    BY <2>10 DEF CloseStarts
  <2>11. CASE Drained(n)
    <3>1. CASE owned[n]
      BY <2>11, <3>1 DEF Drained
    <3>2. CASE ~owned[n]
      BY <2>11, <3>2 DEF Drained
    <3>. QED
      BY <3>1, <3>2
  <2>12. CASE ShutdownLate(n)
    BY <2>12 DEF ShutdownLate
  <2>13. CASE ForceLate(n)
    BY <2>13 DEF ForceLate
  <2>14. CASE EndpointReleased(n)
    BY <2>14 DEF EndpointReleased
  <2>. QED
    BY <2>1, <2>2, <2>3, <2>4, <2>5, <2>6, <2>7, <2>8, <2>9, <2>10, <2>11, <2>12, <2>13, <2>14
       DEF LifecycleStep
<1>6. \A m \in Nodes \ {n} : Idle(m)
  <2>. SUFFICES ASSUME NEW m \in Nodes \ {n} PROVE Idle(m)
    OBVIOUS
  <2>. USE <1>8 DEF NodeTypes, Idle, Settles, WaitsFor, Oldest, Listening, StopListening, Discards,
       CloseSettles
  <2>1. CASE Bind(n)
    BY <2>1 DEF Bind
  <2>2. CASE Close(n)
    BY <2>2 DEF Close
  <2>3. CASE BindStarts(n)
    BY <2>3 DEF BindStarts
  <2>4. CASE ListenRefused(n)
    BY <2>4 DEF ListenRefused
  <2>5. CASE Reclaims(n)
    BY <2>5 DEF Reclaims
  <2>6. CASE Publish(n)
    BY <2>6 DEF Publish
  <2>7. CASE BindSucceeds(n)
    BY <2>7 DEF BindSucceeds
  <2>8. CASE PathDisappeared(n)
    BY <2>8 DEF PathDisappeared
  <2>9. CASE Discarded(n)
    BY <2>9 DEF Discarded
  <2>10. CASE CloseStarts(n)
    BY <2>10 DEF CloseStarts
  <2>11. CASE Drained(n)
    BY <2>11 DEF Drained
  <2>12. CASE ShutdownLate(n)
    BY <2>12 DEF ShutdownLate
  <2>13. CASE ForceLate(n)
    BY <2>13 DEF ForceLate
  <2>14. CASE EndpointReleased(n)
    BY <2>14 DEF EndpointReleased
  <2>. QED
    BY <2>1, <2>2, <2>3, <2>4, <2>5, <2>6, <2>7, <2>8, <2>9, <2>10, <2>11, <2>12, <2>13, <2>14
       DEF LifecycleStep
<1>7. NodeAt(n)'
  <2>. USE <1>2 DEF NodeTypes
  <2>. USE DEF NodeAt, ChainAt, HoldingsAt, Bound, Unbound, BindSteps, CloseSteps,
       Settles, WaitsFor, Oldest, Listening, StopListening, Discards, CloseSettles
  <2>1. CASE Bind(n)
    BY <1>1, <1>3, <2>1 DEF Bind
  <2>2. CASE Close(n)
    <3>1. /\ closed[n] = "none" /\ closed'[n] = "pending" /\ closing'[n] = TRUE
          /\ lifecycle'[n] = Append(lifecycle[n], "close")
          /\ step'[n] = step[n] /\ server'[n] = server[n] /\ path'[n] = path[n]
          /\ owned'[n] = owned[n]
      BY <2>2 DEF Close
    <3>2. ChainAt(n)'
      BY <1>3, <1>4, <3>1
    <3>3. step[n] # "unlinking"
      BY <1>3, <3>1
    <3>4. HoldingsAt(n)'
      BY <3>1, <3>3
    <3>. QED
      BY <3>2, <3>4
  <2>3. CASE BindStarts(n)
    <3>1. CASE closing[n] \/ server[n] # "none"
      <4>1. /\ lifecycle[n] # <<>> /\ Head(lifecycle[n]) = "bind" /\ step[n] = "idle"
            /\ lifecycle'[n] = Tail(lifecycle[n]) /\ step'[n] = "idle"
            /\ closed'[n] = closed[n] /\ closing'[n] = closing[n] /\ server'[n] = server[n]
            /\ path'[n] = path[n] /\ owned'[n] = owned[n]
        BY <2>3, <3>1 DEF BindStarts
      <4>. QED
        BY <1>1, <1>3, <4>1
    <3>2. CASE ~closing[n] /\ server[n] = "none"
      <4>1. /\ lifecycle[n] # <<>> /\ Head(lifecycle[n]) = "bind" /\ step[n] = "idle"
            /\ lifecycle'[n] = lifecycle[n]
            /\ closed'[n] = closed[n] /\ closing'[n] = closing[n] /\ owned'[n] = owned[n]
            /\ \/ server'[n] = "listening" /\ path'[n] = "ours" /\ step'[n] = "listening"
               \/ server'[n] = server[n] /\ path'[n] = path[n] /\ step'[n] = "refused"
        BY <2>3, <3>2 DEF BindStarts
      <4>. QED
        BY <3>2, <4>1
    <3>. QED
      BY <3>1, <3>2
  <2>4. CASE ListenRefused(n)
    <3>1. /\ lifecycle[n] # <<>> /\ Head(lifecycle[n]) = "bind" /\ step[n] = "refused"
          /\ closed'[n] = closed[n] /\ closing'[n] = closing[n] /\ owned'[n] = owned[n]
          /\ server'[n] = server[n] /\ path'[n] = path[n]
          /\ \/ lifecycle'[n] = lifecycle[n] /\ step'[n] = "reclaiming"
             \/ lifecycle'[n] = Tail(lifecycle[n]) /\ step'[n] = "idle"
      BY <2>4 DEF ListenRefused
    <3>. QED
      BY <1>1, <1>3, <3>1
  <2>5. CASE Reclaims(n)
    <3>1. /\ lifecycle[n] # <<>> /\ Head(lifecycle[n]) = "bind" /\ step[n] = "reclaiming"
          /\ closed'[n] = closed[n] /\ closing'[n] = closing[n] /\ owned'[n] = owned[n]
          /\ \/ lifecycle'[n] = lifecycle[n] /\ step'[n] = "listening"
                /\ server'[n] = "listening" /\ path'[n] = "ours"
             \/ lifecycle'[n] = Tail(lifecycle[n]) /\ step'[n] = "idle"
                /\ server'[n] = server[n] /\ path'[n] = path[n]
      BY <2>5 DEF Reclaims
    <3>. QED
      BY <1>1, <1>3, <3>1
  <2>6. CASE Publish(n)
    BY <1>1, <1>3, <2>6 DEF Publish
  <2>7. CASE BindSucceeds(n)
    <3>1. /\ lifecycle[n] # <<>> /\ Head(lifecycle[n]) = "bind" /\ step[n] = "stat"
          /\ lifecycle'[n] = Tail(lifecycle[n]) /\ step'[n] = "idle" /\ owned'[n] = TRUE
          /\ closed'[n] = closed[n] /\ closing'[n] = closing[n] /\ server'[n] = server[n]
          /\ path'[n] = path[n]
      BY <2>7 DEF BindSucceeds
    <3>. QED
      BY <1>1, <1>3, <3>1
  <2>8. CASE PathDisappeared(n)
    BY <1>1, <1>3, <2>8 DEF PathDisappeared
  <2>9. CASE Discarded(n)
    BY <1>1, <1>3, <2>9 DEF Discarded
  <2>10. CASE CloseStarts(n)
    BY <1>1, <1>3, <2>10 DEF CloseStarts
  <2>11. CASE Drained(n)
    <3>1. closed[n] = "pending" /\ SocketsOf(n)' = {} /\ step[n] \in {"draining", "forcing"}
      BY <1>1, <1>3, <2>11 DEF Drained
    <3>2. CASE owned[n]
      <4>1. /\ lifecycle'[n] = lifecycle[n] /\ step'[n] = "unlinking"
            /\ closed'[n] = closed[n] /\ server'[n] = "none"
            /\ closing'[n] = closing[n] /\ path'[n] = path[n] /\ owned'[n] = owned[n]
            /\ lifecycle[n] # <<>> /\ Head(lifecycle[n]) = "close"
        BY <2>11, <3>2 DEF Drained
      <4>. QED
        BY <3>1, <4>1
    <3>3. CASE ~owned[n]
      <4>1. /\ lifecycle'[n] = Tail(lifecycle[n]) /\ step'[n] = "idle"
            /\ closed'[n] = "done" /\ server'[n] = "none"
            /\ closing'[n] = closing[n] /\ path'[n] = path[n] /\ owned'[n] = owned[n]
            /\ lifecycle[n] # <<>> /\ Head(lifecycle[n]) = "close"
            /\ step[n] \in {"draining", "forcing"}
        BY <2>11, <3>3 DEF Drained
      <4>2. ChainAt(n)'
        BY <1>3, <3>1, <4>1
      <4>3. HoldingsAt(n)'
        BY <3>1, <4>1
      <4>. QED
        BY <4>2, <4>3
    <3>. QED
      BY <3>2, <3>3
  <2>12. CASE ShutdownLate(n)
    BY <1>1, <1>3, <2>12 DEF ShutdownLate
  <2>13. CASE ForceLate(n)
    BY <1>1, <1>3, <2>13 DEF ForceLate
  <2>14. CASE EndpointReleased(n)
    <3>1. /\ lifecycle[n] # <<>> /\ Head(lifecycle[n]) = "close" /\ step[n] = "unlinking"
          /\ lifecycle'[n] = Tail(lifecycle[n]) /\ step'[n] = "idle" /\ owned'[n] = FALSE
          /\ closed'[n] \in {"done", "failed"} /\ closing'[n] = closing[n]
          /\ server'[n] = server[n] /\ path'[n] = path[n]
      BY <2>14 DEF EndpointReleased
    <3>. QED
      BY <1>1, <1>3, <3>1
  <2>. QED
    BY <2>1, <2>2, <2>3, <2>4, <2>5, <2>6, <2>7, <2>8, <2>9, <2>10, <2>11, <2>12, <2>13, <2>14
       DEF LifecycleStep
<1>. QED
  BY <1>1, <1>5, <1>6, <1>7, IdleAt DEF NodeInv

LEMMA NextNodeInv == ConnInv /\ NodeInv /\ [Next]_vars => NodeInv'
<1>. SUFFICES ASSUME ConnInv, NodeInv, [Next]_vars PROVE NodeInv'
  OBVIOUS
<1>1. CASE UNCHANGED vars
  <2>1. UNCHANGED nodeVars /\ \A n \in Nodes : SocketsOf(n)' = SocketsOf(n)
    BY <1>1 DEF vars, clientVars, servingVars, SocketsOf, ServerConns, ClientConns, ServerOf, ClientOf
  <2>2. NodeTypes' /\ \A n \in Nodes : Idle(n)
    BY <2>1 DEF NodeInv, NodeTypes, nodeVars, Idle
  <2>. QED
    BY <2>1, <2>2, IdleAt DEF NodeInv
<1>. QED
  BY <1>1, ConnStepsNodeInv, LifecycleNodeInv DEF Next

IpcInv == ConnInv /\ NodeInv

\* Connections and transports are in order in every state, whatever the chunks, errors,
\* deadlines and calls, in any order.
THEOREM IpcInvariance == Spec => []IpcInv
<1>1. Init => IpcInv
  BY InitConnInv, InitNodeInv DEF IpcInv
<1>2. IpcInv /\ [Next]_vars => IpcInv'
  BY NextConnInv, NextNodeInv DEF IpcInv
<1>. QED
  BY <1>1, <1>2, PTL DEF Spec

\* requestOnSocket and handleServerConnection: a handler is called at most once on a connection,
\* with the whole payload that was asked, and a request that resolves does so with the whole of
\* what the handler returned, for payloads and chunks of any size.
THEOREM ExchangesSound == Spec => []Sound
<1>1. IpcInv => Sound
  BY TypesOfParts, ConnInvWhole DEF IpcInv, NodeInv, ConnInv, Sound
<1>. QED
  BY <1>1, IpcInvariance, PTL

\* bindInternal and closeInternal: once binds and closes have settled a transport listens just
\* when it owns its endpoint, and a close that succeeded has left no socket and no listener.
THEOREM ClosedIsGone == Spec => []NothingLeftBehind
<1>1. IpcInv => NothingLeftBehind
  <2>. SUFFICES ASSUME NodeInv, NEW n \in Nodes
                PROVE  /\ lifecycle[n] = <<>> /\ closed[n] = "none" =>
                             /\ owned[n] <=> server[n] = "listening"
                             /\ path[n] = "ours" => owned[n]
                       /\ closed[n] = "done" =>
                             SocketsOf(n) = {} /\ server[n] = "none" /\ path[n] # "ours"
    BY DEF IpcInv, NothingLeftBehind
  <2>1. ChainAt(n) /\ HoldingsAt(n) /\ NodeTypes
    BY DEF NodeInv, NodeAt
  <2>2. lifecycle[n] = <<>> => step[n] = "idle"
    BY <2>1 DEF ChainAt, NodeTypes, BindSteps, CloseSteps
  <2>. QED
    BY <2>1, <2>2 DEF HoldingsAt, Bound, Unbound
<1>. QED
  BY <1>1, IpcInvariance, PTL

\* What QuietAfterClose says of one connection.
QuietAt(c) ==
    /\ ServerOf(c) \in Nodes /\ closing[ServerOf(c)] =>
          /\ calls'[c] = calls[c]
          /\ serverSocket[c] = "none" => serverSocket'[c] # "open"
    /\ ClientOf(c) \in Nodes /\ closing[ClientOf(c)] =>
          (clientSocket[c] = "none" => clientSocket'[c] = "none")

LEMMA QuietSteps ==
    ASSUME ConnInv, NEW x \in Conns, ConnStep(x) \/ Exchange(x), NEW c \in Conns
    PROVE  QuietAt(c)
<1>. USE DEF ConnInv, ConnTypes, QuietAt, Destroyed
<1>1. CASE RequestStarts(x) \/ Connects(x) \/ RequestWritten(x) \/ ResponseSettles(x)
           \/ RequestFails(x)
  BY <1>1 DEF RequestStarts, Connects, RequestWritten, ResponseSettles, RequestFails, servingVars
<1>2. CASE ResponseChunk(x)
  BY <1>2 DEF ResponseChunk, servingVars
<1>3. CASE RequestChunk(x)
  <2>1. /\ serverSocket[x] = "open" /\ UNCHANGED clientSocket
        /\ serverSocket' \in {serverSocket, [serverSocket EXCEPT ![x] = Destroyed(@)]}
    BY <1>3 DEF RequestChunk, clientVars
  <2>2. calls' = calls \/ (~closing[ServerOf(x)] /\ calls' = [calls EXCEPT ![x] = @ + 1])
    BY <1>3 DEF RequestChunk, Handles
  <2>. QED
    BY <2>1, <2>2
<1>4. CASE StrangerConnects(x) \/ Accept(x) \/ TrailingRequestData(x) \/ ResponseWritten(x)
           \/ ServingFails(x) \/ StrangerAnswers(x)
  BY <1>4 DEF StrangerConnects, Accept, TrailingRequestData, ResponseWritten, ServingFails,
     StrangerAnswers, clientVars
<1>5. ASSUME NEW response \in Responses, HandlerReturns(x, response) PROVE QuietAt(c)
  BY <1>5 DEF HandlerReturns, clientVars
<1>6. CASE ClientSocketCloses(x) \/ ServerSocketCloses(x)
  BY <1>6 DEF ClientSocketCloses, ServerSocketCloses, servingVars, clientVars
<1>. QED
  BY <1>1, <1>2, <1>3, <1>4, <1>5, <1>6 DEF ConnStep, Exchange

\* close sets closing before its turn in the chain: from then on no handler is called, no
\* connection accepted and none opened.
THEOREM QuietOnceClosing == Spec => QuietAfterClose
<1>1. ASSUME IpcInv, [Next]_vars, NEW c \in Conns PROVE QuietAt(c)
  <2>1. CASE UNCHANGED vars
    BY <2>1 DEF vars, clientVars, servingVars, QuietAt
  <2>2. ASSUME NEW n \in Nodes, LifecycleStep(n) \/ Bind(n) \/ Close(n), route' = route
        PROVE  QuietAt(c)
    BY <1>1, <2>2, NodeSteps DEF IpcInv, QuietAt, Destroyed
  <2>. QED
    BY <1>1, <2>1, <2>2, QuietSteps DEF Next, IpcInv
<1>2. IpcInv /\ [Next]_vars =>
        [\A c \in Conns :
          /\ ServerOf(c) \in Nodes /\ closing[ServerOf(c)] =>
                /\ calls'[c] = calls[c]
                /\ serverSocket[c] = "none" => serverSocket'[c] # "open"
          /\ ClientOf(c) \in Nodes /\ closing[ClientOf(c)] =>
                (clientSocket[c] = "none" => clientSocket'[c] = "none")]_vars
  BY <1>1 DEF QuietAt
<1>. QED
  BY <1>2, IpcInvariance, PTL DEF Spec, QuietAfterClose

-----------------------------------------------------------------------------
(* The file of an endpoint. *)

Holding   == {"checking", "reprobing", "unlinking", "restoring", "replacing"}
ListeningAt == {"publishing", "bound"}

\* PathTypeOK, in three parts.
ProcsOK ==
    /\ pc \in [Procs -> Cleaning \cup {"idle", "publishing", "bound", "relistening"}]
    /\ task \in [Procs -> {"bind", "close"}]
    /\ inode \in [Procs -> Sockets \cup {NoFile}]
    /\ expected \in [Procs -> [file : Sockets \cup {NoFile}, ctime : Nat]]
    /\ pathBinds \in 0 .. MaxPathBinds
FilesOK ==
    /\ endpoint \in Sockets \cup {NoFile, PlainFile}
    /\ quarantine \in [Procs -> Sockets \cup {NoFile}]
    /\ abandoned \subseteq Sockets
    /\ renames \in [Sockets -> Nat]
    /\ files \in Sockets
    /\ raced \in BOOLEAN
AtOnePlace ==
    \A p \in Procs : quarantine[p] # NoFile =>
          /\ quarantine[p] # endpoint /\ quarantine[p] \notin abandoned
          /\ \A q \in Procs \ {p} : quarantine[q] # quarantine[p]

\* Where a process is says whether it has a quarantine, and whether it listens; what is
\* given up does not come back.
InPlace ==
    /\ \A p \in Procs : quarantine[p] # NoFile <=> pc[p] \in Holding
    /\ \A p \in Procs : inode[p] # NoFile <=> pc[p] \in ListeningAt
    /\ endpoint \notin abandoned

\* Files are numbered as they appear.
Numbered ==
    /\ endpoint \in Sockets => endpoint <= files
    /\ \A p \in Procs : quarantine[p] <= files /\ inode[p] <= files
    /\ \A f \in abandoned : f <= files

\* A file that is not a socket stops every process before it touches anything.
PlainFileStays == endpoint = PlainFile => \A p \in Procs : pc[p] \in {"idle", "observing"}

\* What is about to be unlinked has no listener, and cannot get one.
OnlyStale == \A p \in Procs : pc[p] = "unlinking" => ~Live(quarantine[p])

\* Nobody came into the midst of a cleanup of a live listener.
OneListener == \A p, q \in Procs : inode[p] # NoFile /\ inode[q] # NoFile => p = q
Found ==
    \A p \in Procs : inode[p] # NoFile =>
        \/ endpoint = inode[p]
        \/ \E q \in Procs : quarantine[q] = inode[p] /\ pc[q] # "unlinking"
PathFree ==
    \A p \in Procs : pc[p] = "replacing" \/ Live(quarantine[p]) => endpoint = NoFile
Undisturbed == ~raced => OneListener /\ Found /\ PathFree

PathInv ==
    ProcsOK /\ FilesOK /\ AtOnePlace /\ InPlace /\ Numbered /\ PlainFileStays /\ OnlyStale
    /\ Undisturbed

LEMMA Kinds ==
    /\ NoFile \notin Sockets /\ PlainFile \notin Sockets /\ PlainFile # NoFile
    /\ \A f \in Sockets \cup {NoFile} : f \in Nat
    /\ NoFile = 0 /\ 1 \in Sockets
    /\ \A n \in Sockets : n < MaxFiles => n + 1 \in Sockets
BY SocketPathAssumption DEF NoFile, Sockets, PlainFile

LEMMA PathTypesOfParts == PathTypeOK <=> ProcsOK /\ FilesOK /\ AtOnePlace
BY DEF PathTypeOK, ProcsOK, FilesOK, AtOnePlace

LEMMA InitPathInv == PathInit => PathInv
<1> SUFFICES ASSUME PathInit PROVE PathInv
  OBVIOUS
<1> USE DEF PathInit
<1>1. ProcsOK
  BY SocketPathAssumption DEF ProcsOK, NoIdentity
<1>2. FilesOK
  BY Kinds DEF FilesOK
<1>3. AtOnePlace /\ InPlace
  BY Kinds DEF AtOnePlace, InPlace, Holding, ListeningAt
<1>4. Numbered
  <2>1. endpoint \in Sockets => endpoint <= files
    BY Kinds
  <2> QED
    BY <2>1, Kinds DEF Numbered
<1>5. PlainFileStays /\ OnlyStale
  BY DEF PlainFileStays, OnlyStale
<1>6. Undisturbed
  BY DEF Undisturbed, OneListener, Found, PathFree, Live
<1> QED
  BY <1>1, <1>2, <1>3, <1>4, <1>5, <1>6 DEF PathInv

\* A process that goes on, and leaves the files where they are.
LEMMA GoesOn ==
    ASSUME PathInv, NEW p \in Procs,
           NEW to \in Cleaning \cup {"idle", "publishing", "bound", "relistening"}, Goes(p, to),
           to \in Holding <=> pc[p] \in Holding,
           to \in ListeningAt <=> pc[p] \in ListeningAt,
           endpoint = PlainFile => to \in {"idle", "observing"},
           to = "unlinking" => ~Live(quarantine[p]),
           to = "replacing" => endpoint = NoFile,
           expected' = expected \/ (endpoint \in Sockets
                                    /\ expected' = [expected EXCEPT ![p] = Identity(endpoint)]),
           task' \in [Procs -> {"bind", "close"}], pathBinds' \in 0 .. MaxPathBinds,
           UNCHANGED <<inode, endpoint, quarantine, abandoned, renames, files, raced>>
    PROVE  PathInv'
<1>1. \A q \in Procs : pc'[q] = IF q = p THEN to ELSE pc[q]
  BY DEF Goes, PathInv, ProcsOK
<1>2. ProcsOK'
  <2>1. endpoint \in Sockets => Identity(endpoint) \in [file : Sockets \cup {NoFile}, ctime : Nat]
    BY DEF Identity, PathInv, FilesOK
  <2>2. expected' \in [Procs -> [file : Sockets \cup {NoFile}, ctime : Nat]]
    BY <2>1 DEF PathInv, ProcsOK
  <2> QED
    BY <2>2 DEF PathInv, ProcsOK, Goes
<1>3. FilesOK' /\ AtOnePlace'
  BY DEF PathInv, FilesOK, AtOnePlace
<1>4. InPlace'
  BY <1>1 DEF PathInv, InPlace
<1>5. Numbered'
  BY DEF PathInv, Numbered
<1>6. PlainFileStays' /\ OnlyStale'
  BY <1>1 DEF PathInv, PlainFileStays, OnlyStale, Live
<1>7. Undisturbed'
  <2>1. OneListener => OneListener'
    BY DEF OneListener
  <2>2. Found => Found'
    BY <1>1 DEF Found, Live
  <2>3. PathFree => PathFree'
    BY <1>1 DEF PathFree, Live
  <2> QED
    BY <2>1, <2>2, <2>3 DEF PathInv, Undisturbed
<1> QED
  BY <1>2, <1>3, <1>4, <1>5, <1>6, <1>7 DEF PathInv

\* A listener makes its file, which no other has been.
LEMMA ListensPathInv ==
    ASSUME PathInv, NEW p \in Procs, ListensAt(p), pc[p] \in {"idle", "relistening"},
           task' \in [Procs -> {"bind", "close"}], pathBinds' \in 0 .. MaxPathBinds,
           UNCHANGED <<expected, quarantine, abandoned, renames>>
    PROVE  PathInv'
<1>1. /\ \A q \in Procs : pc'[q] = IF q = p THEN "publishing" ELSE pc[q]
      /\ \A q \in Procs : inode'[q] = IF q = p THEN files + 1 ELSE inode[q]
      /\ endpoint = NoFile /\ endpoint' = files + 1 /\ files' = files + 1
      /\ raced' = (raced \/ Interferes(p))
  BY DEF ListensAt, Goes, PathInv, ProcsOK
<1>2. files + 1 \in Sockets /\ files \in Nat /\ files + 1 # PlainFile /\ files + 1 # NoFile
  BY Kinds DEF ListensAt, PathInv, FilesOK
<1>3. /\ \A q \in Procs : quarantine[q] # files + 1 /\ inode[q] # files + 1
      /\ files + 1 \notin abandoned
  <2>1. \A n \in Nat : n <= files => n # files + 1
    BY <1>2
  <2>2. /\ \A q \in Procs : quarantine[q] \in Nat /\ inode[q] \in Nat
        /\ abandoned \subseteq Nat
    BY Kinds DEF PathInv, ProcsOK, FilesOK
  <2> QED
    BY <2>1, <2>2 DEF PathInv, Numbered
<1>4. ProcsOK'
  BY <1>2 DEF PathInv, ProcsOK, ListensAt, Goes
<1>5. FilesOK'
  BY <1>1, <1>2 DEF PathInv, FilesOK
<1>6. AtOnePlace'
  BY <1>1, <1>3 DEF PathInv, AtOnePlace
<1>7. InPlace'
  BY <1>1, <1>2, <1>3 DEF PathInv, InPlace, Holding, ListeningAt
<1>8. Numbered'
  <2>1. \A n \in Nat : n <= files => n <= files + 1
    BY <1>2
  <2>2. /\ \A q \in Procs : quarantine[q] \in Nat /\ inode[q] \in Nat
        /\ abandoned \subseteq Nat
    BY Kinds DEF PathInv, ProcsOK, FilesOK
  <2>3. files + 1 <= files + 1
    BY <1>2
  <2> QED
    BY <1>1, <2>1, <2>2, <2>3 DEF PathInv, Numbered
<1>9. PlainFileStays'
  BY <1>1, <1>2 DEF PlainFileStays
<1>10. \A q \in Procs : Live(quarantine[q])' => Live(quarantine[q])
  BY <1>1, <1>3 DEF Live
<1>11. OnlyStale'
  BY <1>1, <1>10 DEF PathInv, OnlyStale
<1>12. ASSUME ~raced' PROVE (OneListener /\ Found /\ PathFree)'
  <2>1. /\ OneListener /\ Found /\ PathFree
        /\ \A q \in Procs \ {p} : ~Live(quarantine[q]) /\ pc[q] # "replacing"
    BY <1>1, <1>12 DEF PathInv, Undisturbed, Interferes
  <2>2. ~Live(quarantine[p])
    BY DEF Live, PathInv, InPlace, Holding
  <2>3. \A q \in Procs : inode[q] = NoFile
    BY <1>1, <2>1, <2>2 DEF Found, Live
  <2>4. OneListener'
    BY <1>1, <2>3 DEF OneListener
  <2>5. Found'
    BY <1>1, <2>3 DEF Found
  <2>6. PathFree'
    BY <1>1, <1>10, <2>1, <2>2 DEF PathFree
  <2> QED
    BY <2>4, <2>5, <2>6
<1> QED
  BY <1>4, <1>5, <1>6, <1>7, <1>8, <1>9, <1>11, <1>12 DEF PathInv, Undisturbed

\* The path of a listener that closes is free afterwards, whatever file was there.
LEMMA StopsPathInv ==
    ASSUME PathInv, NEW p \in Procs, StopsListening(p), pc[p] \in ListeningAt,
           NEW to \in {"idle", "verifying"}, Goes(p, to),
           task' \in [Procs -> {"bind", "close"}],
           UNCHANGED <<expected, pathBinds, quarantine, abandoned, renames, files, raced>>
    PROVE  PathInv'
<1>1. /\ \A q \in Procs : pc'[q] = IF q = p THEN to ELSE pc[q]
      /\ \A q \in Procs : inode'[q] = IF q = p THEN NoFile ELSE inode[q]
      /\ endpoint' = NoFile
  BY DEF StopsListening, Goes, PathInv, ProcsOK
<1>2. inode[p] # NoFile /\ quarantine[p] = NoFile
  BY DEF PathInv, InPlace, ListeningAt, Holding
<1>3. ProcsOK'
  BY DEF PathInv, ProcsOK, StopsListening, Goes, Cleaning
<1>4. FilesOK'
  BY <1>1 DEF PathInv, FilesOK
<1>5. AtOnePlace'
  BY <1>1 DEF PathInv, AtOnePlace
<1>6. InPlace'
  <2>1. NoFile \notin abandoned
    BY Kinds DEF PathInv, FilesOK
  <2> QED
    BY <1>1, <1>2, <2>1 DEF PathInv, InPlace, Holding, ListeningAt
<1>7. Numbered'
  BY <1>1, Kinds DEF PathInv, Numbered, FilesOK
<1>8. PlainFileStays'
  BY <1>1, Kinds DEF PlainFileStays
<1>9. \A q \in Procs : Live(quarantine[q])' => Live(quarantine[q])
  BY <1>1 DEF Live
<1>10. OnlyStale'
  BY <1>1, <1>9 DEF PathInv, OnlyStale
<1>11. ASSUME ~raced' PROVE (OneListener /\ Found /\ PathFree)'
  <2>1. OneListener /\ Found /\ PathFree
    BY <1>11 DEF PathInv, Undisturbed
  <2>2. \A q \in Procs : inode'[q] = NoFile
    BY <1>1, <1>2, <2>1 DEF OneListener
  <2>3. PathFree'
    BY <1>1 DEF PathFree
  <2> QED
    BY <2>2, <2>3 DEF OneListener, Found
<1> QED
  BY <1>3, <1>4, <1>5, <1>6, <1>7, <1>8, <1>10, <1>11 DEF PathInv, Undisturbed

\* An operation that is over leaves its quarantine behind; in an undisturbed run that is
\* not the file of a listener.
LEMMA EndsPathInv ==
    ASSUME PathInv, NEW p \in Procs, Ends(p),
           inode' = [inode EXCEPT ![p] = NoFile],
           raced' \in BOOLEAN,
           ~raced' => ~raced /\ ~Live(quarantine[p]),
           UNCHANGED <<task, expected, pathBinds, endpoint, renames, files>>
    PROVE  PathInv'
<1>1. /\ \A q \in Procs : pc'[q] = IF q = p THEN "idle" ELSE pc[q]
      /\ \A q \in Procs : inode'[q] = IF q = p THEN NoFile ELSE inode[q]
      /\ \A q \in Procs : quarantine'[q] = IF q = p THEN NoFile ELSE quarantine[q]
      /\ abandoned' = abandoned \cup ({quarantine[p]} \ {NoFile})
  BY DEF Ends, Goes, PathInv, ProcsOK, FilesOK
<1>2. quarantine[p] \in Sockets \cup {NoFile}
  BY DEF PathInv, FilesOK
<1>3. ProcsOK'
  BY DEF PathInv, ProcsOK, Ends, Goes
<1>4. FilesOK'
  BY <1>1, <1>2 DEF PathInv, FilesOK, Ends
<1>5. AtOnePlace'
  BY <1>1 DEF PathInv, AtOnePlace
<1>6. InPlace'
  BY <1>1 DEF PathInv, InPlace, AtOnePlace, Holding, ListeningAt
<1>7. Numbered'
  <2>1. NoFile <= files
    BY Kinds DEF PathInv, FilesOK
  <2> QED
    BY <1>1, <2>1 DEF PathInv, Numbered
<1>8. PlainFileStays'
  BY <1>1 DEF PathInv, PlainFileStays
<1>9. \A q \in Procs \ {p} : Live(quarantine[q])' => Live(quarantine[q])
  BY <1>1 DEF Live
<1>10. OnlyStale'
  BY <1>1, <1>9 DEF PathInv, OnlyStale
<1>11. ASSUME ~raced' PROVE (OneListener /\ Found /\ PathFree)'
  <2>1. OneListener /\ Found /\ PathFree /\ ~Live(quarantine[p])
    BY <1>11 DEF PathInv, Undisturbed
  <2>2. OneListener'
    BY <1>1, <2>1 DEF OneListener
  <2>3. Found'
    BY <1>1, <2>1 DEF Found, Live
  <2>4. PathFree'
    BY <1>1, <1>9, <2>1 DEF PathFree, Live
  <2> QED
    BY <2>2, <2>3, <2>4
<1> QED
  BY <1>3, <1>4, <1>5, <1>6, <1>7, <1>8, <1>10, <1>11 DEF PathInv, Undisturbed

\* What is at the path goes to the quarantine.
LEMMA MovesPathInv ==
    ASSUME PathInv, NEW p \in Procs, pc[p] = "moving", Moves(p), Goes(p, "checking"),
           UNCHANGED <<task, inode, expected, pathBinds, abandoned, files, raced>>
    PROVE  PathInv'
<1>1. /\ \A q \in Procs : pc'[q] = IF q = p THEN "checking" ELSE pc[q]
      /\ \A q \in Procs : quarantine'[q] = IF q = p THEN endpoint ELSE quarantine[q]
      /\ endpoint' = NoFile /\ endpoint # NoFile
  BY DEF Moves, Goes, PathInv, ProcsOK, FilesOK
<1>2. endpoint \in Sockets /\ quarantine[p] = NoFile
  BY <1>1 DEF PathInv, FilesOK, PlainFileStays, InPlace, Holding
<1>3. ProcsOK'
  BY DEF PathInv, ProcsOK, Goes, Cleaning
<1>4. FilesOK'
  <2>1. renames' \in [Sockets -> Nat]
    BY DEF Moves, PathInv, FilesOK
  <2> QED
    BY <1>1, <1>2, <2>1 DEF PathInv, FilesOK, Moves
<1>5. AtOnePlace'
  BY <1>1, <1>2 DEF PathInv, AtOnePlace, InPlace
<1>6. InPlace'
  <2>1. NoFile \notin abandoned
    BY Kinds DEF PathInv, FilesOK
  <2> QED
    BY <1>1, <1>2, <2>1 DEF PathInv, InPlace, Holding, ListeningAt
<1>7. Numbered'
  BY <1>1, <1>2, Kinds DEF PathInv, Numbered
<1>8. PlainFileStays' /\ OnlyStale'
  BY <1>1, Kinds DEF PathInv, PlainFileStays, OnlyStale, Live
<1>9. Undisturbed'
  <2>1. Found => Found'
    BY <1>1, <1>2 DEF Found
  <2>2. PathFree'
    BY <1>1 DEF PathFree
  <2> QED
    BY <2>1, <2>2 DEF PathInv, Undisturbed, OneListener
<1> QED
  BY <1>3, <1>4, <1>5, <1>6, <1>7, <1>8, <1>9 DEF PathInv

\* A rename whose deadline has passed may still take effect.
LEMMA CutOffMovePathInv ==
    ASSUME PathInv, NEW p \in Procs, pc[p] = "moving", endpoint # NoFile,
           abandoned' = abandoned \cup {endpoint}, endpoint' = NoFile, Goes(p, "idle"),
           raced' = (raced \/ Live(endpoint)),
           UNCHANGED <<task, inode, expected, pathBinds, quarantine, renames, files>>
    PROVE  PathInv'
<1>1. \A q \in Procs : pc'[q] = IF q = p THEN "idle" ELSE pc[q]
  BY DEF Goes, PathInv, ProcsOK
<1>2. endpoint \in Sockets /\ NoFile \notin abandoned'
  BY Kinds DEF PathInv, FilesOK, PlainFileStays
<1>3. ProcsOK'
  BY DEF PathInv, ProcsOK, Goes, Cleaning
<1>4. FilesOK' /\ AtOnePlace'
  BY <1>2 DEF PathInv, FilesOK, AtOnePlace
<1>5. InPlace'
  BY <1>1, <1>2 DEF PathInv, InPlace, Holding, ListeningAt
<1>6. Numbered'
  BY <1>2, Kinds DEF PathInv, Numbered
<1>7. PlainFileStays' /\ OnlyStale'
  BY <1>1, Kinds DEF PathInv, PlainFileStays, OnlyStale, Live
<1>8. ASSUME ~raced' PROVE (OneListener /\ Found /\ PathFree)'
  <2>1. OneListener /\ Found /\ ~Live(endpoint)
    BY <1>8 DEF PathInv, Undisturbed
  <2>2. quarantine[p] = NoFile
    BY DEF PathInv, InPlace, Holding
  <2>3. Found'
    BY <1>1, <2>1, <2>2 DEF Found, Live
  <2> QED
    BY <2>1, <2>3 DEF OneListener, PathFree
<1> QED
  BY <1>3, <1>4, <1>5, <1>6, <1>7, <1>8 DEF PathInv, Undisturbed

\* What is unlinked is the quarantine, which no listener has made.
LEMMA UnlinkPathInv ==
    ASSUME PathInv, NEW p \in Procs, pc[p] = "unlinking",
           NEW to \in {"relistening", "idle"}, Goes(p, to),
           quarantine' = [quarantine EXCEPT ![p] = NoFile],
           UNCHANGED <<task, inode, expected, pathBinds, endpoint, abandoned, renames, files, raced>>
    PROVE  PathInv'
<1>1. /\ \A q \in Procs : pc'[q] = IF q = p THEN to ELSE pc[q]
      /\ \A q \in Procs : quarantine'[q] = IF q = p THEN NoFile ELSE quarantine[q]
  BY DEF Goes, PathInv, ProcsOK, FilesOK
<1>2. ProcsOK' /\ FilesOK'
  BY <1>1 DEF PathInv, ProcsOK, FilesOK, Goes
<1>3. AtOnePlace'
  BY <1>1 DEF PathInv, AtOnePlace
<1>4. InPlace'
  BY <1>1 DEF PathInv, InPlace, Holding, ListeningAt
<1>5. Numbered'
  BY <1>1, Kinds DEF PathInv, Numbered, FilesOK
<1>6. PlainFileStays' /\ OnlyStale'
  BY <1>1 DEF PathInv, PlainFileStays, OnlyStale, Live
<1>7. Undisturbed'
  <2>1. ~Live(NoFile)'
    BY DEF Live
  <2>2. Found => Found'
    BY <1>1 DEF Found
  <2>3. PathFree => PathFree'
    BY <1>1, <2>1 DEF PathFree, Live
  <2> QED
    BY <1>1, <2>2, <2>3 DEF PathInv, Undisturbed, OneListener
<1> QED
  BY <1>2, <1>3, <1>4, <1>5, <1>6, <1>7 DEF PathInv

\* A restore renames onto whatever is at the path: in an undisturbed run nothing is.
LEMMA ReplacePathInv ==
    ASSUME PathInv, NEW p \in Procs, Replace(p)
    PROVE  PathInv'
<1>1. /\ \A q \in Procs : pc'[q] = IF q = p THEN "idle" ELSE pc[q]
      /\ \A q \in Procs : quarantine'[q] = IF q = p THEN NoFile ELSE quarantine[q]
      /\ endpoint' = quarantine[p] /\ pc[p] = "replacing"
      /\ raced' = (raced \/ Interferes(p))
      /\ UNCHANGED <<task, inode, expected, pathBinds, abandoned, files>>
  BY DEF Replace, Replaces, Goes, PathInv, ProcsOK, FilesOK
<1>2. quarantine[p] \in Sockets
  BY <1>1 DEF PathInv, InPlace, FilesOK, Holding
<1>3. ProcsOK'
  BY <1>1 DEF PathInv, ProcsOK, Goes, Replace
<1>4. FilesOK'
  <2>1. renames' \in [Sockets -> Nat]
    BY DEF Replace, Replaces, PathInv, FilesOK
  <2> QED
    BY <1>1, <1>2, <2>1 DEF PathInv, FilesOK, Replace, Replaces
<1>5. AtOnePlace'
  BY <1>1 DEF PathInv, AtOnePlace
<1>6. InPlace'
  BY <1>1, <1>2, Kinds DEF PathInv, InPlace, AtOnePlace, Holding, ListeningAt
<1>7. Numbered'
  BY <1>1, Kinds DEF PathInv, Numbered, FilesOK
<1>8. PlainFileStays' /\ OnlyStale'
  BY <1>1, <1>2, Kinds DEF PathInv, PlainFileStays, OnlyStale, Live
<1>9. ASSUME ~raced' PROVE (OneListener /\ Found /\ PathFree)'
  <2>1. /\ OneListener /\ Found /\ PathFree
        /\ \A q \in Procs \ {p} : ~Live(quarantine[q]) /\ pc[q] # "replacing"
    BY <1>1, <1>9 DEF PathInv, Undisturbed, Interferes
  <2>2. endpoint = NoFile
    BY <1>1, <2>1 DEF PathFree
  <2>3. Found'
    BY <1>1, <2>1, <2>2 DEF Found
  <2>4. ~Live(NoFile)'
    BY DEF Live
  <2>5. PathFree'
    BY <1>1, <2>1, <2>4 DEF PathFree, Live
  <2> QED
    BY <1>1, <2>1, <2>3, <2>5 DEF OneListener
<1> QED
  BY <1>3, <1>4, <1>5, <1>6, <1>7, <1>8, <1>9 DEF PathInv, Undisturbed

LEMMA NextPathInv == PathInv /\ [PathNext]_pathVars => PathInv'
<1> SUFFICES ASSUME PathInv, [PathNext]_pathVars PROVE PathInv'
  OBVIOUS
<1> USE DEF Holding, ListeningAt, Cleaning, fsVars
<1>1. /\ task \in [Procs -> {"bind", "close"}] /\ pathBinds \in 0 .. MaxPathBinds
      /\ inode \in [Procs -> Sockets \cup {NoFile}]
  BY DEF PathInv, ProcsOK
<1>2. \A p \in Procs : endpoint = PlainFile => pc[p] \in {"idle", "observing"}
  BY DEF PathInv, PlainFileStays
<1>3. PlainFile \notin Sockets /\ PlainFile # NoFile
  BY Kinds
<1>4. ASSUME NEW p \in Procs, BindPath(p) PROVE PathInv'
  <2>1. task' \in [Procs -> {"bind", "close"}] /\ pathBinds' \in 0 .. MaxPathBinds
    BY <1>1, <1>4, SocketPathAssumption DEF BindPath
  <2>2. CASE ListensAt(p)
    BY <1>4, <2>1, <2>2, ListensPathInv DEF BindPath
  <2>3. CASE endpoint # NoFile /\ Goes(p, "observing") /\ UNCHANGED <<inode, endpoint, files, raced>>
    BY <1>4, <2>1, <2>3, GoesOn DEF BindPath
  <2> QED
    BY <1>4, <2>2, <2>3 DEF BindPath
<1>5. ASSUME NEW p \in Procs, PublishPath(p) PROVE PathInv'
  <2>1. CASE endpoint \in Sockets
    <3>1. /\ Goes(p, "bound") /\ expected' = [expected EXCEPT ![p] = Identity(endpoint)]
          /\ UNCHANGED <<task, inode, pathBinds, endpoint, quarantine, abandoned, renames, files, raced>>
          /\ pc[p] = "publishing" /\ endpoint # PlainFile
      BY <1>3, <1>5, <2>1 DEF PublishPath
    <3> QED
      BY <1>1, <2>1, <3>1, GoesOn
  <2>2. CASE endpoint \notin Sockets
    <3>1. /\ StopsListening(p) /\ Goes(p, "idle") /\ pc[p] = "publishing"
          /\ UNCHANGED <<task, expected, pathBinds, quarantine, abandoned, renames, files, raced>>
      BY <1>5, <2>2 DEF PublishPath
    <3> QED
      BY <1>1, <3>1, StopsPathInv
  <2> QED
    BY <2>1, <2>2
<1>6. ASSUME NEW p \in Procs, Observe(p) PROVE PathInv'
  <2>1. CASE endpoint \in Sockets
    <3>1. /\ Goes(p, "probing") /\ expected' = [expected EXCEPT ![p] = Identity(endpoint)]
          /\ endpoint # PlainFile
      BY <1>3, <1>6, <2>1 DEF Observe
    <3> QED
      BY <1>1, <1>6, <2>1, <3>1, GoesOn DEF Observe
  <2>2. CASE endpoint \notin Sockets
    <3>1. Goes(p, "idle") /\ expected' = expected
      BY <1>6, <2>2 DEF Observe
    <3> QED
      BY <1>1, <1>6, <3>1, GoesOn DEF Observe
  <2> QED
    BY <2>1, <2>2
<1>7. ASSUME NEW p \in Procs, Probe(p) PROVE PathInv'
  BY <1>1, <1>2, <1>7, GoesOn DEF Probe
<1>8. ASSUME NEW p \in Procs, Relisten(p) PROVE PathInv'
  <2>1. CASE ListensAt(p)
    BY <1>1, <1>8, <2>1, ListensPathInv DEF Relisten
  <2>2. CASE Goes(p, "idle") /\ UNCHANGED <<inode, endpoint, files, raced>>
    BY <1>1, <1>8, <2>2, GoesOn DEF Relisten
  <2> QED
    BY <1>8, <2>1, <2>2 DEF Relisten
<1>9. ASSUME NEW p \in Procs, Verify(p) PROVE PathInv'
  <2>1. PICK to \in {"moving", "idle"} : Goes(p, to)
    BY <1>9 DEF Verify
  <2>2. endpoint = PlainFile => to = "idle"
    BY <1>2, <1>9 DEF Verify
  <2> QED
    BY <1>1, <1>9, <2>1, <2>2, GoesOn DEF Verify
<1>10. ASSUME NEW p \in Procs, Move(p) PROVE PathInv'
  <2>1. CASE Moves(p) /\ Goes(p, "checking")
    BY <1>10, <2>1, MovesPathInv DEF Move
  <2>2. CASE Goes(p, "idle") /\ UNCHANGED <<quarantine, renames, endpoint>>
    BY <1>1, <1>10, <2>2, GoesOn DEF Move
  <2> QED
    BY <1>10, <2>1, <2>2 DEF Move
<1>11. ASSUME NEW p \in Procs, Check(p) PROVE PathInv'
  <2>1. PICK to \in {"reprobing", "restoring"} : Goes(p, to)
    BY <1>11 DEF Check
  <2>2. endpoint # PlainFile
    BY <1>2, <1>11 DEF Check
  <2> QED
    BY <1>1, <1>11, <2>1, <2>2, GoesOn DEF Check
<1>12. ASSUME NEW p \in Procs, Reprobe(p) PROVE PathInv'
  <2>1. endpoint # PlainFile
    BY <1>2, <1>12 DEF Reprobe
  <2> QED
    BY <1>1, <1>12, <2>1, GoesOn DEF Reprobe
<1>13. ASSUME NEW p \in Procs, Restore(p) PROVE PathInv'
  <2>1. CASE endpoint = NoFile
    BY <1>1, <1>3, <1>13, <2>1, GoesOn DEF Restore
  <2>2. CASE endpoint # NoFile
    <3>1. /\ Ends(p) /\ pc[p] = "restoring"
          /\ UNCHANGED <<task, inode, expected, pathBinds, endpoint, renames, files, raced>>
      BY <1>13, <2>2 DEF Restore
    <3>2. inode[p] = NoFile
      BY <3>1 DEF PathInv, InPlace
    <3>3. inode' = [inode EXCEPT ![p] = NoFile]
      BY <1>1, <3>1, <3>2
    <3>4. raced' \in BOOLEAN /\ (~raced' => ~raced /\ ~Live(quarantine[p]))
      BY <2>2, <3>1 DEF PathInv, FilesOK, Undisturbed, PathFree
    <3> QED
      BY <3>1, <3>3, <3>4, EndsPathInv
  <2> QED
    BY <2>1, <2>2
<1>14. ASSUME NEW p \in Procs, CallFails(p) \/ CutOff(p) PROVE PathInv'
  <2>1. inode[p] = NoFile
    BY <1>14 DEF PathInv, InPlace, CallFails, CutOff
  <2>2. CASE Ends(p) /\ raced' = (raced \/ Live(quarantine[p])) /\ UNCHANGED <<endpoint, renames>>
    <3>1. raced' \in BOOLEAN /\ (~raced' => ~raced /\ ~Live(quarantine[p]))
      BY <2>2 DEF PathInv, FilesOK
    <3>2. inode' = [inode EXCEPT ![p] = NoFile]
      BY <1>1, <1>14, <2>1 DEF CallFails, CutOff
    <3>3. UNCHANGED <<task, expected, pathBinds, files>>
      BY <1>14 DEF CallFails, CutOff
    <3> QED
      BY <2>2, <3>1, <3>2, <3>3, EndsPathInv
  <2>3. CASE CallFails(p) /\ quarantine[p] # NoFile /\ Goes(p, "restoring")
             /\ UNCHANGED <<quarantine, abandoned, raced>>
    <3>1. pc[p] \in Holding /\ pc[p] \notin ListeningAt /\ endpoint # PlainFile
      BY <1>2, <2>3 DEF CallFails, PathInv, InPlace
    <3> QED
      BY <1>1, <2>3, <3>1, GoesOn DEF CallFails
  <2>4. CASE CutOff(p) /\ pc[p] = "moving" /\ endpoint # NoFile /\ abandoned' = abandoned \cup {endpoint}
             /\ endpoint' = NoFile /\ Goes(p, "idle") /\ raced' = (raced \/ Live(endpoint))
             /\ UNCHANGED quarantine
    BY <2>4, CutOffMovePathInv DEF CutOff
  <2>5. CASE CutOff(p) /\ pc[p] = "unlinking" /\ Goes(p, "idle")
             /\ quarantine' = [quarantine EXCEPT ![p] = NoFile]
             /\ UNCHANGED <<abandoned, endpoint, raced>>
    BY <2>5, UnlinkPathInv DEF CutOff
  <2> QED
    BY <1>14, <2>2, <2>3, <2>4, <2>5 DEF CallFails, CutOff
<1>15. ASSUME NEW p \in Procs, ClosePath(p) PROVE PathInv'
  <2>1. task' \in [Procs -> {"bind", "close"}]
    BY <1>1, <1>15 DEF ClosePath
  <2> QED
    BY <1>15, <2>1, StopsPathInv DEF ClosePath
<1>16. ASSUME NEW p \in Procs, Crash(p) PROVE PathInv'
  <2>1. raced' \in BOOLEAN /\ (~raced' => ~raced /\ ~Live(quarantine[p]))
    BY <1>16 DEF Crash, PathInv, FilesOK
  <2> QED
    BY <1>16, <2>1, EndsPathInv DEF Crash
<1>17. ASSUME NEW p \in Procs, Unlink(p) PROVE PathInv'
  <2>1. PICK to \in {"relistening", "idle"} : Goes(p, to)
    BY <1>17 DEF Unlink
  <2> QED
    BY <1>17, <2>1, UnlinkPathInv DEF Unlink
<1>18. CASE UNCHANGED pathVars
  BY <1>18 DEF pathVars, PathInv, ProcsOK, FilesOK, AtOnePlace, InPlace, Numbered, PlainFileStays,
               OnlyStale, Undisturbed, OneListener, Found, PathFree, Live
<1> QED
  BY <1>4, <1>5, <1>6, <1>7, <1>8, <1>9, <1>10, <1>11, <1>12, <1>13, <1>14, <1>15, <1>16, <1>17,
     <1>18, ReplacePathInv DEF PathNext, Step

\* The files of an endpoint are where the processes have them, at every moment.
THEOREM PathInvariance == PathSpec => []PathInv
<1> QED
  BY InitPathInv, NextPathInv, PTL DEF PathSpec

\* bindInternal, removeStalePosixEndpoint and unlinkOwnedSocket: every variable keeps its
\* type, and no file is at two places.
THEOREM PathTypesAlways == PathSpec => []PathTypeOK
<1>1. PathInv => PathTypeOK
  BY PathTypesOfParts DEF PathInv
<1> QED
  BY <1>1, PathInvariance, PTL

\* removeStalePosixEndpoint and restoreQuarantine: a listener whose bind has resolved is
\* found at its endpoint or on its way back there, whatever processes clean up the path,
\* unless a cleanup that failed or was late left it in its quarantine, or another file was
\* put there in its midst.
THEOREM ListenersComeBackAlways == PathSpec => []ListenersComeBack
<1>1. ASSUME PathInv PROVE ListenersComeBack
  <2> SUFFICES ASSUME ~raced, NEW p \in Procs, pc[p] = "bound"
               PROVE  \/ endpoint = inode[p]
                      \/ \E q \in Procs : quarantine[q] = inode[p] /\ pc[q] \in Cleaning \ {"unlinking"}
    BY DEF ListenersComeBack
  <2>1. inode[p] # NoFile
    BY <1>1 DEF PathInv, InPlace, ListeningAt
  <2>2. endpoint = inode[p] \/ \E q \in Procs : quarantine[q] = inode[p] /\ pc[q] # "unlinking"
    BY <1>1, <2>1 DEF PathInv, Undisturbed, Found
  <2>3. \A q \in Procs : quarantine[q] # NoFile => pc[q] \in Cleaning
    BY <1>1 DEF PathInv, InPlace, Holding, Cleaning
  <2> QED
    BY <2>1, <2>2, <2>3
<1> QED
  BY <1>1, PathInvariance, PTL

\* Where a file can go.
LEMMA WhereFilesGo ==
    ASSUME PathInv, NEW p \in Procs, Step(p), NEW f \in Sockets \cup {PlainFile},
           Exists(f), ~Exists(f)'
    PROVE  \/ pc[p] = "unlinking" /\ quarantine[p] = f
           \/ pc[p] = "replacing" /\ endpoint = f
           \/ pc[p] \in ListeningAt /\ inode' = [inode EXCEPT ![p] = NoFile] /\ endpoint = f
<1>1. f # NoFile
  BY Kinds
<1>2. quarantine \in [Procs -> Sockets \cup {NoFile}]
  BY DEF PathInv, FilesOK
<1>3. CASE BindPath(p) \/ Relisten(p) \/ Observe(p) \/ Probe(p) \/ Verify(p) \/ Check(p) \/ Reprobe(p)
  BY <1>1, <1>3
  DEF BindPath, Relisten, Observe, Probe, Verify, Check, Reprobe, ListensAt, Exists, fsVars
<1>4. CASE PublishPath(p) \/ ClosePath(p)
  BY <1>1, <1>4 DEF PublishPath, ClosePath, StopsListening, ListeningAt, Exists
<1>5. CASE Move(p)
  <2>1. CASE Moves(p)
    <3>1. quarantine[p] = NoFile
      BY <1>5 DEF Move, PathInv, InPlace, Holding
    <3>2. \A q \in Procs : quarantine'[q] = IF q = p THEN endpoint ELSE quarantine[q]
      BY <1>2, <2>1 DEF Moves
    <3>3. abandoned' = abandoned
      BY <1>5 DEF Move
    <3> QED
      BY <1>1, <3>1, <3>2, <3>3 DEF Exists
  <2>2. CASE UNCHANGED <<quarantine, endpoint>>
    BY <1>5, <2>2 DEF Move, Exists
  <2> QED
    BY <1>5, <2>1, <2>2 DEF Move
<1>6. CASE Unlink(p)
  <2>1. \A q \in Procs : quarantine'[q] = IF q = p THEN NoFile ELSE quarantine[q]
    BY <1>2, <1>6 DEF Unlink
  <2> QED
    BY <1>6, <2>1 DEF Unlink, Exists
<1>7. ASSUME Ends(p), endpoint' = endpoint PROVE FALSE
  <2>1. \A q \in Procs : quarantine'[q] = IF q = p THEN NoFile ELSE quarantine[q]
    BY <1>2, <1>7 DEF Ends
  <2> QED
    BY <1>1, <1>7, <2>1 DEF Ends, Exists
<1>8. CASE Restore(p)
  BY <1>7, <1>8 DEF Restore, Exists
<1>9. CASE Crash(p)
  BY <1>7, <1>9 DEF Crash
<1>10. CASE CallFails(p) \/ CutOff(p)
  <2>1. CASE abandoned' = abandoned \cup {endpoint} /\ quarantine' = quarantine
    BY <2>1 DEF Exists
  <2>2. CASE UNCHANGED <<endpoint, quarantine, abandoned>>
    BY <2>2 DEF Exists
  <2>3. CASE pc[p] = "unlinking" /\ quarantine' = [quarantine EXCEPT ![p] = NoFile]
             /\ UNCHANGED <<abandoned, endpoint>>
    <3>1. \A q \in Procs : quarantine'[q] = IF q = p THEN NoFile ELSE quarantine[q]
      BY <1>2, <2>3
    <3> QED
      BY <2>3, <3>1 DEF Exists
  <2> QED
    BY <1>7, <1>10, <2>1, <2>2, <2>3 DEF CallFails, CutOff
<1>11. CASE Replace(p)
  <2>1. \A q \in Procs : quarantine'[q] = IF q = p THEN NoFile ELSE quarantine[q]
    BY <1>2, <1>11 DEF Replace, Replaces
  <2> QED
    BY <1>11, <2>1 DEF Replace, Replaces, Exists
<1> QED
  BY <1>3, <1>4, <1>5, <1>6, <1>8, <1>9, <1>10, <1>11 DEF Step

\* unlinkOwnedSocket, restoreQuarantine and closeInternal: whatever races, no cleanup unlinks
\* the file of a live listener, nor one that is not a socket.
THEOREM OnlyStaleFilesGoAlways == PathSpec => OnlyStaleFilesGo
<1>1. ASSUME PathInv, [PathNext]_pathVars, NEW f \in Sockets \cup {PlainFile}, Exists(f), ~Exists(f)'
      PROVE  \/ ~Live(f) /\ f # PlainFile
             \/ \E p \in Procs : \/ pc[p] = "replacing" /\ endpoint = f
                                 \/ inode[p] # NoFile /\ inode'[p] = NoFile /\ endpoint = f
  <2>1. PICK p \in Procs : Step(p)
    BY <1>1 DEF PathNext, pathVars, fsVars, Exists
  <2>2. CASE pc[p] = "unlinking" /\ quarantine[p] = f
    BY <1>1, <2>2, Kinds DEF PathInv, OnlyStale, FilesOK
  <2>3. CASE pc[p] = "replacing" /\ endpoint = f
    BY <2>3
  <2>4. CASE pc[p] \in ListeningAt /\ inode' = [inode EXCEPT ![p] = NoFile] /\ endpoint = f
    BY <1>1, <2>4 DEF PathInv, ProcsOK, InPlace
  <2> QED
    BY <1>1, <2>1, <2>2, <2>3, <2>4, WhereFilesGo
<1>2. PathInv /\ [PathNext]_pathVars =>
        [\A f \in Sockets \cup {PlainFile} :
            Exists(f) /\ ~Exists(f)' =>
                \/ ~Live(f) /\ f # PlainFile
                \/ \E p \in Procs : \/ pc[p] = "replacing" /\ endpoint = f
                                    \/ inode[p] # NoFile /\ inode'[p] = NoFile /\ endpoint = f]_pathVars
  BY <1>1
<1> QED
  BY <1>2, PathInvariance, PTL DEF PathSpec, OnlyStaleFilesGo
=============================================================================
