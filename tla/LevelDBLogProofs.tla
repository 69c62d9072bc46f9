-------------------------- MODULE LevelDBLogProofs --------------------------
(***************************************************************************)
(* Proofs that the dashboard's parser reads from a log what LevelDB wrote  *)
(* whole, for any records and any length of the blocks.                    *)
(***************************************************************************)
EXTENDS LevelDBLog, SumProofs, SequenceTheorems

-----------------------------------------------------------------------------
(* The loops as what they are after each turn. *)

\* What RowLoop asks of its function, up to the m-th turn.
RowLoopDef(payload, m, g) ==
    g = [n \in 0 .. m |-> IF n = 0 THEN RowsRead(TRUE, 12, << >>)
                          ELSE ReadRow(payload, Count(payload), g[n - 1])]

LEMMA RowLoopExists ==
    ASSUME NEW payload
    PROVE  \A m \in Nat : \E g : RowLoopDef(payload, m, g)
<1> DEFINE C == {m \in Nat : \E g : RowLoopDef(payload, m, g)}
           start == RowsRead(TRUE, 12, << >>)
           step(st) == ReadRow(payload, Count(payload), st)
<1>1. 0 \in C
  <2>1. RowLoopDef(payload, 0, [n \in 0 .. 0 |-> start])
    BY DEF RowLoopDef
  <2> QED BY <2>1
<1>2. ASSUME NEW m \in Nat, m \in C PROVE m + 1 \in C
  <2>1. PICK g : RowLoopDef(payload, m, g)
    BY <1>2
  <2> HIDE DEF start, step
  <2>2. \A n \in 0 .. m : g[n] = IF n = 0 THEN start ELSE step(g[n - 1])
    BY <2>1 DEF RowLoopDef, start, step
  <2> DEFINE h == [n \in 0 .. (m + 1) |-> IF n = m + 1 THEN step(g[m]) ELSE g[n]]
  <2>3. ASSUME NEW n \in 0 .. (m + 1)
        PROVE  h[n] = IF n = 0 THEN start ELSE step(h[n - 1])
    <3>1. CASE n = m + 1
      <4>1. h[n - 1] = g[m] /\ n - 1 = m /\ n # 0
        BY <3>1
      <4> QED BY <3>1, <4>1
    <3>2. CASE n # m + 1
      <4>1. n \in 0 .. m /\ (n # 0 => n - 1 \in 0 .. (m + 1) /\ n - 1 # m + 1)
        BY <3>2
      <4>2. h[n] = g[n] /\ (n # 0 => h[n - 1] = g[n - 1])
        BY <3>2, <4>1
      <4> QED BY <2>2, <4>1, <4>2
    <3> QED BY <3>1, <3>2
  <2>4. h = [n \in 0 .. (m + 1) |-> h[n]]
    OBVIOUS
  <2> HIDE DEF h
  <2>5. RowLoopDef(payload, m + 1, h)
    BY <2>3, <2>4 DEF RowLoopDef, start, step
  <2> QED BY <2>5
<1> HIDE DEF C
<1>3. \A m \in Nat : m \in C
  BY <1>1, <1>2, NatSetInduction
<1> QED BY <1>3 DEF C

LEMMA RowLoopIs ==
    ASSUME NEW payload \in Seq(Nat)
    PROVE  /\ RowLoop(payload)[0] = RowsRead(TRUE, 12, << >>)
           /\ \A n \in 0 .. (Len(payload) - 1) :
                 RowLoop(payload)[n + 1] = ReadRow(payload, Count(payload), RowLoop(payload)[n])
<1>1. Len(payload) \in Nat
  OBVIOUS
<1>2. RowLoop(payload) = CHOOSE g : RowLoopDef(payload, Len(payload), g)
  BY DEF RowLoop, RowLoopDef
<1>3. RowLoopDef(payload, Len(payload), RowLoop(payload))
  BY <1>1, <1>2, RowLoopExists
<1> PICK g : g = RowLoop(payload)
  OBVIOUS
<1> DEFINE start == RowsRead(TRUE, 12, << >>)
           step(st) == ReadRow(payload, Count(payload), st)
<1>4. \A n \in 0 .. Len(payload) : g[n] = IF n = 0 THEN start ELSE step(g[n - 1])
  BY <1>3 DEF RowLoopDef
<1> HIDE DEF start, step
<1>5. ASSUME NEW n \in 0 .. (Len(payload) - 1)
      PROVE  g[n + 1] = step(g[n])
  <2>1. n + 1 \in 0 .. Len(payload) /\ n + 1 # 0 /\ (n + 1) - 1 = n
    BY <1>1
  <2> QED BY <1>4, <2>1
<1>6. g[0] = start
  BY <1>1, <1>4
<1> QED BY <1>5, <1>6 DEF start, step

\* What Loop asks of its function, up to the m-th turn.
LoopDef(bytes, m, g) ==
    g = [n \in 0 .. m |-> IF n = 0 THEN Reading(TRUE, 0, << >>, << >>)
                          ELSE ReadChunk(bytes, g[n - 1])]

LEMMA LoopExists ==
    ASSUME NEW bytes
    PROVE  \A m \in Nat : \E g : LoopDef(bytes, m, g)
<1> DEFINE C == {m \in Nat : \E g : LoopDef(bytes, m, g)}
           start == Reading(TRUE, 0, << >>, << >>)
           step(st) == ReadChunk(bytes, st)
<1>1. 0 \in C
  <2>1. LoopDef(bytes, 0, [n \in 0 .. 0 |-> start])
    BY DEF LoopDef
  <2> QED BY <2>1
<1>2. ASSUME NEW m \in Nat, m \in C PROVE m + 1 \in C
  <2>1. PICK g : LoopDef(bytes, m, g)
    BY <1>2
  <2> HIDE DEF start, step
  <2>2. \A n \in 0 .. m : g[n] = IF n = 0 THEN start ELSE step(g[n - 1])
    BY <2>1 DEF LoopDef, start, step
  <2> DEFINE h == [n \in 0 .. (m + 1) |-> IF n = m + 1 THEN step(g[m]) ELSE g[n]]
  <2>3. ASSUME NEW n \in 0 .. (m + 1)
        PROVE  h[n] = IF n = 0 THEN start ELSE step(h[n - 1])
    <3>1. CASE n = m + 1
      <4>1. h[n - 1] = g[m] /\ n - 1 = m /\ n # 0
        BY <3>1
      <4> QED BY <3>1, <4>1
    <3>2. CASE n # m + 1
      <4>1. n \in 0 .. m /\ (n # 0 => n - 1 \in 0 .. (m + 1) /\ n - 1 # m + 1)
        BY <3>2
      <4>2. h[n] = g[n] /\ (n # 0 => h[n - 1] = g[n - 1])
        BY <3>2, <4>1
      <4> QED BY <2>2, <4>1, <4>2
    <3> QED BY <3>1, <3>2
  <2>4. h = [n \in 0 .. (m + 1) |-> h[n]]
    OBVIOUS
  <2> HIDE DEF h
  <2>5. LoopDef(bytes, m + 1, h)
    BY <2>3, <2>4 DEF LoopDef, start, step
  <2> QED BY <2>5
<1> HIDE DEF C
<1>3. \A m \in Nat : m \in C
  BY <1>1, <1>2, NatSetInduction
<1> QED BY <1>3 DEF C

LEMMA TurnsType ==
    ASSUME NEW bytes \in Seq(Nat)
    PROVE  /\ Turns(bytes) \in Nat
           /\ \A n \in Nat : 4 * n <= Len(bytes) => n + 1 <= Turns(bytes)
<1>1. Len(bytes) \in Nat
  BY LenProperties
<1> QED BY <1>1 DEF Turns

LEMMA LoopIs ==
    ASSUME NEW bytes \in Seq(Nat)
    PROVE  /\ Loop(bytes)[0] = Reading(TRUE, 0, << >>, << >>)
           /\ \A n \in 0 .. (Turns(bytes) - 1) :
                 Loop(bytes)[n + 1] = ReadChunk(bytes, Loop(bytes)[n])
<1>1. Turns(bytes) \in Nat
  BY TurnsType
<1>2. Loop(bytes) = CHOOSE g : LoopDef(bytes, Turns(bytes), g)
  BY DEF Loop, LoopDef
<1>3. LoopDef(bytes, Turns(bytes), Loop(bytes))
  BY <1>1, <1>2, LoopExists
<1> PICK g : g = Loop(bytes)
  OBVIOUS
<1> DEFINE start == Reading(TRUE, 0, << >>, << >>)
           step(st) == ReadChunk(bytes, st)
<1>4. \A n \in 0 .. Turns(bytes) : g[n] = IF n = 0 THEN start ELSE step(g[n - 1])
  BY <1>3 DEF LoopDef
<1> HIDE DEF start, step
<1>5. ASSUME NEW n \in 0 .. (Turns(bytes) - 1)
      PROVE  g[n + 1] = step(g[n])
  <2>1. n + 1 \in 0 .. Turns(bytes) /\ n + 1 # 0 /\ (n + 1) - 1 = n
    BY <1>1
  <2> QED BY <1>4, <2>1
<1>6. g[0] = start
  BY <1>1, <1>4
<1> QED BY <1>5, <1>6 DEF start, step

\* A state that the loop does not change any more is its last.
LEMMA LoopStays ==
    ASSUME NEW bytes \in Seq(Nat), NEW n \in 0 .. Turns(bytes),
           ReadChunk(bytes, Loop(bytes)[n]) = Loop(bytes)[n]
    PROVE  Loop(bytes)[Turns(bytes)] = Loop(bytes)[n]
<1> DEFINE C == {k \in Nat : n + k <= Turns(bytes) => Loop(bytes)[n + k] = Loop(bytes)[n]}
<1>1. Turns(bytes) \in Nat
  BY TurnsType
<1>2. 0 \in C
  BY <1>1
<1>3. ASSUME NEW k \in Nat, k \in C PROVE k + 1 \in C
  <2> SUFFICES ASSUME n + (k + 1) <= Turns(bytes)
               PROVE  Loop(bytes)[n + (k + 1)] = Loop(bytes)[n]
    OBVIOUS
  <2>1. n + k <= Turns(bytes) /\ n + k \in 0 .. (Turns(bytes) - 1) /\ n + (k + 1) = (n + k) + 1
    BY <1>1
  <2>2. Loop(bytes)[n + k] = Loop(bytes)[n]
    BY <1>3, <2>1
  <2> QED BY <2>1, <2>2, LoopIs
<1> HIDE DEF C
<1>4. Turns(bytes) - n \in C
  <2>1. \A k \in Nat : k \in C
    BY <1>2, <1>3, NatSetInduction
  <2>2. Turns(bytes) - n \in Nat
    BY <1>1
  <2> QED BY <2>1, <2>2
<1>5. n + (Turns(bytes) - n) = Turns(bytes)
  BY <1>1
<1> QED BY <1>4, <1>5 DEF C

-----------------------------------------------------------------------------
(* Sequences put together. *)

\* What FlattenSeq asks of its function, up to the m-th sequence.
FlattenDef(seqs, m, g) ==
    g = [i \in 1 .. m |-> IF i = 1 THEN seqs[i] ELSE g[i - 1] \o seqs[i]]

LEMMA FlattenExists ==
    ASSUME NEW seqs
    PROVE  \A m \in Nat : \E g : FlattenDef(seqs, m, g)
<1> DEFINE C == {m \in Nat : \E g : FlattenDef(seqs, m, g)}
<1>1. 0 \in C
  <2>1. FlattenDef(seqs, 0, [i \in 1 .. 0 |-> i])
    BY DEF FlattenDef
  <2> QED BY <2>1
<1>2. ASSUME NEW m \in Nat, m \in C PROVE m + 1 \in C
  <2>1. PICK g : FlattenDef(seqs, m, g)
    BY <1>2
  <2>2. \A i \in 1 .. m : g[i] = IF i = 1 THEN seqs[i] ELSE g[i - 1] \o seqs[i]
    BY <2>1 DEF FlattenDef
  <2> DEFINE last == IF m = 0 THEN seqs[1] ELSE g[m] \o seqs[m + 1]
             h == [i \in 1 .. (m + 1) |-> IF i = m + 1 THEN last ELSE g[i]]
  <2>3. ASSUME NEW i \in 1 .. (m + 1)
        PROVE  h[i] = IF i = 1 THEN seqs[i] ELSE h[i - 1] \o seqs[i]
    <3>1. CASE i = m + 1
      <4>1. h[i] = last /\ i - 1 = m /\ (i = 1 <=> m = 0)
        BY <3>1
      <4>2. i # 1 => h[i - 1] = g[m]
        BY <3>1
      <4> QED BY <3>1, <4>1, <4>2
    <3>2. CASE i # m + 1
      <4>1. i \in 1 .. m /\ (i # 1 => i - 1 \in 1 .. (m + 1) /\ i - 1 # m + 1)
        BY <3>2
      <4>2. h[i] = g[i] /\ (i # 1 => h[i - 1] = g[i - 1])
        BY <3>2, <4>1
      <4> QED BY <2>2, <4>1, <4>2
    <3> QED BY <3>1, <3>2
  <2>4. h = [i \in 1 .. (m + 1) |-> h[i]]
    OBVIOUS
  <2> HIDE DEF h
  <2>5. FlattenDef(seqs, m + 1, h)
    BY <2>3, <2>4 DEF FlattenDef
  <2> QED BY <2>5
<1> HIDE DEF C
<1>3. \A m \in Nat : m \in C
  BY <1>1, <1>2, NatSetInduction
<1> QED BY <1>3 DEF C

\* p[i] is the first i sequences put together.
FlatPrefixes(p, seqs) ==
    /\ p[0] = << >> /\ p[Len(seqs)] = FlattenSeq(seqs)
    /\ \A i \in 0 .. (Len(seqs) - 1) : p[i + 1] = p[i] \o seqs[i + 1]

LEMMA FlattenIs ==
    ASSUME NEW seqs \in Seq(Seq(Nat)), Len(seqs) > 0
    PROVE  \E p : FlatPrefixes(p, seqs)
<1>1. Len(seqs) \in Nat
  OBVIOUS
<1> DEFINE f == CHOOSE g : FlattenDef(seqs, Len(seqs), g)
<1>2. FlattenSeq(seqs) = f[Len(seqs)]
  BY DEF FlattenSeq, FlattenDef
<1>3. FlattenDef(seqs, Len(seqs), f)
  BY <1>1, FlattenExists
<1> HIDE DEF f
<1>4. \A i \in 1 .. Len(seqs) : f[i] = IF i = 1 THEN seqs[i] ELSE f[i - 1] \o seqs[i]
  BY <1>3 DEF FlattenDef
<1> DEFINE p == [i \in 0 .. Len(seqs) |-> IF i = 0 THEN << >> ELSE f[i]]
<1>5. p[0] = << >> /\ p[Len(seqs)] = FlattenSeq(seqs)
  BY <1>1, <1>2
<1>6. ASSUME NEW i \in 0 .. (Len(seqs) - 1)
      PROVE  p[i + 1] = p[i] \o seqs[i + 1]
  <2>1. i + 1 \in 1 .. Len(seqs) /\ p[i + 1] = f[i + 1]
    BY <1>1
  <2>2. CASE i = 0
    <3>1. seqs[1] \in Seq(Nat) /\ p[i] = << >> /\ i + 1 = 1
      BY <1>1, <2>2
    <3>2. f[1] = seqs[1]
      BY <1>1, <1>4
    <3> QED BY <2>1, <2>2, <3>1, <3>2, ConcatEmptySeq
  <2>3. CASE i # 0
    <3>1. p[i] = f[i] /\ i + 1 # 1 /\ (i + 1) - 1 = i
      BY <1>1, <2>3
    <3> QED BY <1>4, <2>1, <3>1
  <2> QED BY <2>2, <2>3
<1> HIDE DEF p
<1>7. FlatPrefixes(p, seqs)
  BY <1>5, <1>6 DEF FlatPrefixes
<1> QED BY <1>7

-----------------------------------------------------------------------------
(* Bytes in their place. *)

LEMMA BytesAreNumbers == Bytes \subseteq Nat
BY DEF Bytes

Assoc(s, t, u) == (s \o t) \o u = s \o (t \o u)

LEMMA Associative ==
    ASSUME NEW s \in Seq(Nat), NEW t \in Seq(Nat), NEW u \in Seq(Nat)
    PROVE  Assoc(s, t, u)
BY ConcatAssociative, SMTT(30) DEF Assoc

LEMMA Lengths ==
    ASSUME NEW s \in Seq(Nat), NEW t \in Seq(Nat)
    PROVE  /\ s \o t \in Seq(Nat) /\ Len(s \o t) = Len(s) + Len(t)
           /\ Len(s) \in Nat /\ Len(t) \in Nat /\ Len(s \o t) \in Nat
<1>1. Len(s) \in Nat /\ Len(t) \in Nat
  BY LenProperties
<1>2. s \o t \in Seq(Nat) /\ Len(s \o t) = Len(s) + Len(t)
  BY ConcatProperties
<1> QED BY <1>1, <1>2

\* The bytes of the second of three sequences put together.
LEMMA Middle ==
    ASSUME NEW s \in Seq(Nat), NEW t \in Seq(Nat), NEW u \in Seq(Nat)
    PROVE  /\ s \o (t \o u) \in Seq(Nat)
           /\ Len(s) \in Nat /\ Len(t) \in Nat /\ Len(u) \in Nat
           /\ Len(s \o (t \o u)) = Len(s) + Len(t) + Len(u)
           /\ \A i \in 1 .. Len(s) : (s \o (t \o u))[i] = s[i]
           /\ \A j \in 1 .. Len(t) : (s \o (t \o u))[Len(s) + j] = t[j]
<1>0. Len(s) \in Nat /\ Len(t) \in Nat /\ Len(u) \in Nat
  BY LenProperties
<1> DEFINE w == t \o u
           z == s \o w
<1>1a. w \in Seq(Nat)
  BY ConcatProperties
<1>1. /\ w \in Seq(Nat) /\ Len(w) = Len(t) + Len(u)
      /\ \A i \in 1 .. Len(t) + Len(u) : w[i] = IF i <= Len(t) THEN t[i] ELSE u[i - Len(t)]
  BY ConcatProperties
<1> HIDE DEF w
<1>2. /\ z \in Seq(Nat) /\ Len(z) = Len(s) + Len(w)
      /\ \A i \in 1 .. Len(s) + Len(w) : z[i] = IF i <= Len(s) THEN s[i] ELSE w[i - Len(s)]
  BY <1>1a, ConcatProperties
<1> HIDE DEF z
<1>3. ASSUME NEW i \in 1 .. Len(s) PROVE z[i] = s[i]
  BY <1>0, <1>1, <1>2
<1>4. ASSUME NEW j \in 1 .. Len(t) PROVE z[Len(s) + j] = t[j]
  <2>1. /\ Len(s) + j \in 1 .. Len(s) + Len(w) /\ ~(Len(s) + j <= Len(s))
        /\ (Len(s) + j) - Len(s) = j /\ j \in 1 .. Len(t) + Len(u) /\ j <= Len(t)
    BY <1>0, <1>1
  <2>2. z[Len(s) + j] = w[j]
    BY <1>2, <2>1
  <2> QED BY <1>1, <2>1, <2>2
<1>5. Len(z) = Len(s) + Len(t) + Len(u)
  BY <1>0, <1>1, <1>2
<1> QED BY <1>0, <1>2, <1>3, <1>4, <1>5 DEF z, w

\* bytes are three sequences put together.
Made(bytes, s, t, u) ==
    /\ s \in Seq(Nat) /\ t \in Seq(Nat) /\ u \in Seq(Nat)
    /\ bytes = s \o (t \o u)

\* What that says of the bytes.
Parts(bytes, s, t, u) ==
    /\ bytes \in Seq(Nat) /\ Len(s) \in Nat /\ Len(t) \in Nat /\ Len(u) \in Nat
    /\ Len(bytes) = Len(s) + Len(t) + Len(u)
    /\ \A j \in 1 .. Len(t) : bytes[Len(s) + j] = t[j]

LEMMA MadeOf ==
    ASSUME NEW bytes, NEW s, NEW t, NEW u, Made(bytes, s, t, u)
    PROVE  Parts(bytes, s, t, u)
<1>1. s \in Seq(Nat) /\ t \in Seq(Nat) /\ u \in Seq(Nat)
  BY DEF Made
<1>2. Parts(s \o (t \o u), s, t, u)
  BY <1>1, Middle DEF Parts
<1> QED BY <1>2 DEF Made

\* A part of a sequence is what its bytes say.
LEMMA Cut ==
    ASSUME NEW bytes \in Seq(Nat), NEW a \in Nat, NEW s \in Seq(Nat), NEW n, n = Len(s),
           a + n <= Len(bytes),
           \A j \in 1 .. n : bytes[a + j] = s[j]
    PROVE  SubSeq(bytes, a + 1, a + n) = s
<1>1. n \in Nat /\ Len(bytes) \in Nat
  BY LenProperties
<1>2. \A i \in (a + 1) .. (a + n) : bytes[i] \in Nat
  BY <1>1, ElementOfSeq
<1> DEFINE t == SubSeq(bytes, a + 1, a + n)
<1>3. /\ t \in Seq(Nat)
      /\ Len(t) = IF a + 1 <= a + n THEN (a + n) - (a + 1) + 1 ELSE 0
      /\ \A i \in 1 .. (a + n) - (a + 1) + 1 : t[i] = bytes[(a + 1) + i - 1]
  <2>1. a + 1 \in Int /\ a + n \in Int
    BY <1>1
  <2> QED BY <1>2, <2>1, SubSeqProperties
<1> HIDE DEF t
<1>4. Len(t) = n
  BY <1>1, <1>3
<1>5. ASSUME NEW i \in 1 .. n PROVE t[i] = s[i]
  <2>1. i \in 1 .. (a + n) - (a + 1) + 1 /\ (a + 1) + i - 1 = a + i
    BY <1>1
  <2> QED BY <1>3, <2>1
<1>6. t = s
  BY <1>3, <1>4, <1>5, SeqEqual
<1> QED BY <1>6 DEF t

-----------------------------------------------------------------------------
(* A number is read as it was written. *)

\* What Numbers makes of a byte and the number after it.
NumberStep(bytes, left, rest) ==
    LET byte == Byte(bytes, Len(bytes) - left)
    IN  IF byte < 128 THEN [value |-> byte, next |-> Len(bytes) - left + 1]
        ELSE [value |-> (byte % 128) + 128 * rest.value, next |-> rest.next]

\* What Numbers asks of its function, up to the m-th byte from the end.
NumbersDef(bytes, m, g) ==
    g = [left \in 0 .. m |-> IF left = 0 THEN [value |-> 0, next |-> -1]
                             ELSE NumberStep(bytes, left, g[left - 1])]

LEMMA NumbersExist ==
    ASSUME NEW bytes
    PROVE  \A m \in Nat : \E g : NumbersDef(bytes, m, g)
<1> DEFINE C == {m \in Nat : \E g : NumbersDef(bytes, m, g)}
           start == [value |-> 0, next |-> -1]
           step(n, st) == NumberStep(bytes, n, st)
<1>1. 0 \in C
  <2>1. NumbersDef(bytes, 0, [n \in 0 .. 0 |-> start])
    BY DEF NumbersDef
  <2> QED BY <2>1
<1>2. ASSUME NEW m \in Nat, m \in C PROVE m + 1 \in C
  <2>1. PICK g : NumbersDef(bytes, m, g)
    BY <1>2
  <2> HIDE DEF start, step
  <2>2. \A n \in 0 .. m : g[n] = IF n = 0 THEN start ELSE step(n, g[n - 1])
    BY <2>1 DEF NumbersDef, start, step
  <2> DEFINE h == [n \in 0 .. (m + 1) |-> IF n = m + 1 THEN step(n, g[m]) ELSE g[n]]
  <2>3. ASSUME NEW n \in 0 .. (m + 1)
        PROVE  h[n] = IF n = 0 THEN start ELSE step(n, h[n - 1])
    <3>1. CASE n = m + 1
      <4>1. h[n - 1] = g[m] /\ n # 0
        BY <3>1
      <4> QED BY <3>1, <4>1
    <3>2. CASE n # m + 1
      <4>1. n \in 0 .. m /\ (n # 0 => n - 1 \in 0 .. (m + 1) /\ n - 1 # m + 1)
        BY <3>2
      <4>2. h[n] = g[n] /\ (n # 0 => h[n - 1] = g[n - 1])
        BY <3>2, <4>1
      <4> QED BY <2>2, <4>1, <4>2
    <3> QED BY <3>1, <3>2
  <2>4. h = [n \in 0 .. (m + 1) |-> h[n]]
    OBVIOUS
  <2> HIDE DEF h
  <2>5. NumbersDef(bytes, m + 1, h)
    BY <2>3, <2>4 DEF NumbersDef, start, step
  <2> QED BY <2>5
<1> HIDE DEF C
<1>3. \A m \in Nat : m \in C
  BY <1>1, <1>2, NatSetInduction
<1> QED BY <1>3 DEF C

LEMMA NumbersIs ==
    ASSUME NEW bytes \in Seq(Nat), NEW left \in 1 .. Len(bytes)
    PROVE  Numbers(bytes)[left] = NumberStep(bytes, left, Numbers(bytes)[left - 1])
<1>1. Len(bytes) \in Nat
  OBVIOUS
<1>2. Numbers(bytes) = CHOOSE g : NumbersDef(bytes, Len(bytes), g)
  BY DEF Numbers, NumbersDef, NumberStep
<1>3. NumbersDef(bytes, Len(bytes), Numbers(bytes))
  BY <1>1, <1>2, NumbersExist
<1> PICK g : g = Numbers(bytes)
  OBVIOUS
<1>4. \A n \in 0 .. Len(bytes) : g[n] = IF n = 0 THEN [value |-> 0, next |-> -1]
                                        ELSE NumberStep(bytes, n, g[n - 1])
  BY <1>3 DEF NumbersDef
<1>5. left \in 0 .. Len(bytes) /\ left # 0
  BY <1>1
<1> QED BY <1>4, <1>5

\* What PutUvarint asks of its function, up to the number m.
PutStep(n, rest) == IF n < 128 THEN <<n>> ELSE <<(n % 128) + 128>> \o rest

PutDef(m, g) == g = [n \in 0 .. m |-> PutStep(n, g[n \div 128])]

LEMMA PutExists == \A m \in Nat : \E g : PutDef(m, g)
<1> DEFINE C == {m \in Nat : \E g : PutDef(m, g)}
<1>1. 0 \in C
  <2>1. PutDef(0, [n \in 0 .. 0 |-> <<0>>])
    BY DEF PutDef, PutStep
  <2> QED BY <2>1
<1>2. ASSUME NEW m \in Nat, m \in C PROVE m + 1 \in C
  <2>1. PICK g : PutDef(m, g)
    BY <1>2
  <2>2. \A n \in 0 .. m : g[n] = PutStep(n, g[n \div 128])
    BY <2>1 DEF PutDef
  <2> DEFINE h == [n \in 0 .. (m + 1) |-> IF n = m + 1 THEN PutStep(n, g[n \div 128]) ELSE g[n]]
  <2>3. ASSUME NEW n \in 0 .. (m + 1)
        PROVE  h[n] = PutStep(n, h[n \div 128])
    <3>1. CASE n < 128
      <4>1. \A r, q : PutStep(n, r) = PutStep(n, q)
        BY <3>1 DEF PutStep
      <4>2. n # m + 1 => n \in 0 .. m
        OBVIOUS
      <4> QED BY <2>2, <4>1, <4>2
    <3>2. CASE n >= 128
      <4>1. n \div 128 \in 0 .. m
        BY <3>2
      <4>2. h[n \div 128] = g[n \div 128]
        BY <4>1
      <4>3. n # m + 1 => n \in 0 .. m
        OBVIOUS
      <4> QED BY <2>2, <4>2, <4>3
    <3> QED BY <3>1, <3>2
  <2>4. h = [n \in 0 .. (m + 1) |-> h[n]]
    OBVIOUS
  <2> HIDE DEF h
  <2>5. PutDef(m + 1, h)
    BY <2>3, <2>4 DEF PutDef
  <2> QED BY <2>5
<1> HIDE DEF C
<1>3. \A m \in Nat : m \in C
  BY <1>1, <1>2, NatSetInduction
<1> QED BY <1>3 DEF C

LEMMA MaxLengthNat == MaxLength \in Nat
BY SMT DEF MaxLength

LEMMA PutIs ==
    ASSUME NEW n \in 0 .. MaxLength
    PROVE  PutUvarint(n) = PutStep(n, PutUvarint(n \div 128))
<1> DEFINE f == CHOOSE g : PutDef(MaxLength, g)
<1>1. \A k : PutUvarint(k) = f[k]
  BY DEF PutUvarint, PutDef, PutStep
<1>2. PutDef(MaxLength, f)
  BY MaxLengthNat, PutExists
<1> HIDE DEF f
<1>3. f[n] = PutStep(n, f[n \div 128])
  BY <1>2 DEF PutDef
<1> QED BY <1>1, <1>3

\* The bytes of a number, and that it is what Numbers finds at their place.
Read128(n) ==
    /\ PutUvarint(n) \in Seq(Nat) /\ Len(PutUvarint(n)) >= 1
    /\ \A s, x \in Seq(Nat) :
           Numbers(s \o (PutUvarint(n) \o x))[Len(s \o (PutUvarint(n) \o x)) - Len(s)] =
               [value |-> n, next |-> Len(s) + Len(PutUvarint(n))]

\* The last byte of a number.
LEMMA ReadLast ==
    ASSUME NEW n \in 0 .. 127, NEW s \in Seq(Nat), NEW x \in Seq(Nat), NEW bytes,
           bytes = s \o (<<n>> \o x)
    PROVE  Numbers(bytes)[Len(bytes) - Len(s)] = [value |-> n, next |-> Len(s) + 1]
<1>1. <<n>> \in Seq(Nat) /\ Len(<<n>>) = 1 /\ <<n>>[1] = n
  OBVIOUS
<1>2. /\ bytes \in Seq(Nat) /\ Len(s) \in Nat /\ Len(x) \in Nat
      /\ Len(bytes) = Len(s) + 1 + Len(x) /\ bytes[Len(s) + 1] = n
  <2> PICK t : t = <<n>>
    OBVIOUS
  <2>1. t \in Seq(Nat) /\ Len(t) = 1 /\ t[1] = n /\ 1 \in 1 .. 1 /\ bytes = s \o (t \o x)
    BY <1>1
  <2> QED BY <2>1, Middle
<1> DEFINE left == Len(bytes) - Len(s)
<1>3. /\ left \in 1 .. Len(bytes) /\ Len(bytes) - left = Len(s)
  BY <1>2
<1> HIDE DEF left
<1>4. Byte(bytes, Len(bytes) - left) = n
  BY <1>2, <1>3 DEF Byte
<1>5. Numbers(bytes)[left] = [value |-> n, next |-> Len(s) + 1]
  <2>1. Numbers(bytes)[left] = NumberStep(bytes, left, Numbers(bytes)[left - 1])
    BY <1>2, <1>3, NumbersIs
  <2>2. NumberStep(bytes, left, Numbers(bytes)[left - 1]) =
            [value |-> n, next |-> Len(bytes) - left + 1]
    <3>1. n < 128
      OBVIOUS
    <3> QED BY <1>4, <3>1 DEF NumberStep
  <2> QED BY <1>3, <2>1, <2>2
<1> QED BY <1>5 DEF left

\* A byte before the last, and the number after it.
LEMMA ReadMore ==
    ASSUME NEW n \in 0 .. MaxLength, n >= 128, Read128(n \div 128)
    PROVE  Read128(n)
<1> DEFINE q == n \div 128
           r == n % 128
           c == <<r + 128>>
           w == PutUvarint(q)
<1>1. q \in Nat /\ r \in 0 .. 127 /\ n = r + 128 * q /\ (r + 128) % 128 = r
  OBVIOUS
<1>2. w \in Seq(Nat) /\ Len(w) \in Nat /\ Len(w) >= 1
  BY LenProperties DEF Read128
<1>3. PutUvarint(n) = c \o w
  BY PutIs DEF PutStep
<1>4. c \in Seq(Nat) /\ Len(c) = 1 /\ c[1] = r + 128
  BY <1>1
<1>5. \A s, x \in Seq(Nat) :
          Numbers(s \o (w \o x))[Len(s \o (w \o x)) - Len(s)] =
              [value |-> q, next |-> Len(s) + Len(w)]
  BY DEF Read128
<1> HIDE DEF q, r, c, w
<1>6. c \o w \in Seq(Nat) /\ Len(c \o w) = 1 + Len(w)
  <2>1. c \in Seq(Nat) /\ w \in Seq(Nat)
    BY <1>2, <1>4
  <2>2. c \o w \in Seq(Nat) /\ Len(c \o w) = Len(c) + Len(w)
    BY <2>1, Lengths
  <2> QED BY <1>4, <2>2
<1>7. ASSUME NEW s \in Seq(Nat), NEW x \in Seq(Nat), NEW bytes, bytes = s \o ((c \o w) \o x)
      PROVE  Numbers(bytes)[Len(bytes) - Len(s)] = [value |-> n, next |-> Len(s) + Len(c \o w)]
  <2> DEFINE u == s \o c
  <2>1. u \in Seq(Nat) /\ Len(u) = Len(s) + 1 /\ Len(s) \in Nat
    <3>1. u \in Seq(Nat) /\ Len(u) = Len(s) + Len(c) /\ Len(s) \in Nat
      <4>1. c \in Seq(Nat)
        BY <1>4
      <4> QED BY <4>1, Lengths
    <3> HIDE DEF u
    <3> QED BY <1>4, <3>1
  <2>2. w \o x \in Seq(Nat)
    BY <1>2, ConcatProperties
  <2>3. bytes = s \o (c \o (w \o x)) /\ bytes = u \o (w \o x)
    <3>1. Assoc(c, w, x)
      BY <1>2, <1>4, Associative
    <3>2. Assoc(s, c, w \o x)
      BY <1>4, <2>2, Associative
    <3> QED BY <1>7, <3>1, <3>2 DEF Assoc
  <2> HIDE DEF u
  <2>4. /\ bytes \in Seq(Nat) /\ Len(bytes) \in Nat /\ Len(bytes) >= Len(s) + 1
        /\ bytes[Len(s) + 1] = r + 128
    <3>1. /\ bytes \in Seq(Nat) /\ Len(bytes) = Len(s) + Len(c) + Len(w \o x)
          /\ Len(w \o x) \in Nat
          /\ \A j \in 1 .. Len(c) : bytes[Len(s) + j] = c[j]
      <4> PICK y : y = w \o x
        OBVIOUS
      <4>1. c \in Seq(Nat) /\ y \in Seq(Nat) /\ bytes = s \o (c \o y)
        BY <1>4, <2>2, <2>3
      <4> QED BY <4>1, Middle
    <3>2. 1 \in 1 .. Len(c)
      BY <1>4
    <3> QED BY <1>4, <2>1, <3>1, <3>2
  <2>5. Numbers(bytes)[Len(bytes) - Len(u)] = [value |-> q, next |-> Len(u) + Len(w)]
    BY <1>5, <2>1, <2>3
  <2> DEFINE left == Len(bytes) - Len(s)
  <2>6. left \in 1 .. Len(bytes) /\ Len(bytes) - left = Len(s) /\ Len(bytes) - Len(u) = left - 1
    BY <2>1, <2>4
  <2> HIDE DEF left
  <2>7. Byte(bytes, Len(bytes) - left) = r + 128
    BY <2>4, <2>6 DEF Byte
  <2>8. Numbers(bytes)[left] = NumberStep(bytes, left, Numbers(bytes)[left - 1])
    BY <2>4, <2>6, NumbersIs
  <2>9. Numbers(bytes)[left - 1] = [value |-> q, next |-> Len(s) + Len(c \o w)]
    <3>1. Len(u) + Len(w) = Len(s) + Len(c \o w)
      BY <1>2, <1>6, <2>1
    <3> QED BY <2>5, <2>6, <3>1
  <2>10. ~(r + 128 < 128) /\ ((r + 128) % 128) + 128 * q = n
    BY <1>1
  <2>11. Numbers(bytes)[left] = [value |-> n, next |-> Len(s) + Len(c \o w)]
    BY <2>7, <2>8, <2>9, <2>10 DEF NumberStep
  <2> QED BY <2>11 DEF left
<1>8. /\ PutUvarint(n) \in Seq(Nat) /\ Len(PutUvarint(n)) >= 1
  BY <1>2, <1>3, <1>6
<1>9. PICK p : p = PutUvarint(n)
  OBVIOUS
<1>10. \A s, x \in Seq(Nat) : Numbers(s \o (p \o x))[Len(s \o (p \o x)) - Len(s)] =
                                [value |-> n, next |-> Len(s) + Len(p)]
  BY <1>3, <1>7, <1>9
<1> QED BY <1>8, <1>9, <1>10 DEF Read128

LEMMA NumberRead ==
    ASSUME NEW n \in 0 .. MaxLength
    PROVE  Read128(n)
<1>0. MaxLength \in Nat
  BY MaxLengthNat
<1> DEFINE C == {m \in Nat : \A k \in 0 .. m : k <= MaxLength => Read128(k)}
<1>1. ASSUME NEW k \in 0 .. 127, k <= MaxLength PROVE Read128(k)
  <2>1. PutUvarint(k) = <<k>>
    <3>1. k \in 0 .. MaxLength /\ k < 128
      BY <1>0, <1>1
    <3> QED BY <3>1, PutIs DEF PutStep
  <2>2. <<k>> \in Seq(Nat) /\ Len(<<k>>) = 1
    OBVIOUS
  <2>3. \A s, x \in Seq(Nat) : Numbers(s \o (<<k>> \o x))[Len(s \o (<<k>> \o x)) - Len(s)] =
                                   [value |-> k, next |-> Len(s) + 1]
    BY ReadLast
  <2> PICK p : p = PutUvarint(k)
    OBVIOUS
  <2>4. p \in Seq(Nat) /\ Len(p) = 1
    BY <2>1, <2>2
  <2>5. \A s, x \in Seq(Nat) : Numbers(s \o (p \o x))[Len(s \o (p \o x)) - Len(s)] =
                                   [value |-> k, next |-> Len(s) + 1]
    BY <2>1, <2>3
  <2>6. \A s, x \in Seq(Nat) : Numbers(s \o (p \o x))[Len(s \o (p \o x)) - Len(s)] =
                                   [value |-> k, next |-> Len(s) + Len(p)]
    BY <2>4, <2>5
  <2>7. Len(p) >= 1
    BY <2>4
  <2> QED BY <2>4, <2>6, <2>7 DEF Read128
<1>2. 0 \in C
  BY <1>0, <1>1
<1>3. ASSUME NEW m \in Nat, m \in C PROVE m + 1 \in C
  <2>1. ASSUME NEW k \in 0 .. (m + 1), k <= MaxLength PROVE Read128(k)
    <3>1. CASE k <= 127
      BY <1>1, <2>1, <3>1
    <3>2. CASE k >= 128
      <4>1. k \div 128 \in 0 .. m /\ k \div 128 <= MaxLength /\ k \in 0 .. MaxLength
        BY <1>0, <2>1, <3>2
      <4>2. Read128(k \div 128)
        BY <1>3, <4>1
      <4> QED BY <3>2, <4>1, <4>2, ReadMore
    <3> QED BY <3>1, <3>2
  <2> QED BY <2>1
<1> HIDE DEF C
<1>4. n \in C
  BY <1>0, <1>2, <1>3, NatSetInduction
<1> QED BY <1>4 DEF C

\* A number has 7 bits in every byte: one that is a length has at most 5.
LEMMA MoreBits ==
    ASSUME NEW n \in 0 .. MaxLength, NEW w \in Nat,
           n >= 128 => PutUvarint(n \div 128) \in Seq(Nat) /\ Len(PutUvarint(n \div 128)) <= w
    PROVE  Len(PutUvarint(n)) <= w + 1
<1>1. CASE n < 128
  <2>1. PutUvarint(n) = <<n>> /\ Len(<<n>>) = 1
    BY <1>1, PutIs DEF PutStep
  <2> QED BY <2>1
<1>2. CASE n >= 128
  <2> DEFINE q == PutUvarint(n \div 128)
             c == <<(n % 128) + 128>>
  <2>1. PutUvarint(n) = c \o q
    <3>1. PutUvarint(n) = PutStep(n, q)
      BY PutIs
    <3>2. ~(n < 128)
      BY <1>2
    <3> QED BY <3>1, <3>2 DEF PutStep
  <2>2. c \in Seq(Nat) /\ Len(c) = 1 /\ q \in Seq(Nat) /\ Len(q) <= w /\ Len(q) \in Nat
    BY <1>2, LenProperties
  <2> HIDE DEF c, q
  <2>3. Len(c \o q) = Len(c) + Len(q)
    BY <2>2, ConcatProperties
  <2> QED BY <2>1, <2>2, <2>3
<1> QED BY <1>1, <1>2

\* Numbers up to m have w bytes at most.
Bits(m, w) == \A k \in Nat : k <= m => Len(PutUvarint(k)) <= w

LEMMA BitsOfMore ==
    ASSUME NEW m \in Nat, NEW w \in Nat, Bits(m, w),
           NEW m2 \in Nat, m2 <= MaxLength, m2 < 128 * (m + 1), NEW w2, w2 = w + 1
    PROVE  Bits(m2, w2)
<1> SUFFICES ASSUME NEW k \in Nat, k <= m2 PROVE Len(PutUvarint(k)) <= w + 1
  BY DEF Bits
<1>1. k \in 0 .. MaxLength /\ k < 128 * (m + 1)
  BY MaxLengthNat
<1>2. CASE k < 128
  BY <1>1, <1>2, MoreBits
<1>3. CASE k >= 128
  <2>1. k \div 128 \in Nat /\ k \div 128 <= m /\ k \div 128 \in 0 .. MaxLength
    BY <1>1, MaxLengthNat
  <2>2. PutUvarint(k \div 128) \in Seq(Nat)
    BY <2>1, NumberRead DEF Read128
  <2>3. Len(PutUvarint(k \div 128)) <= w
    BY <2>1 DEF Bits
  <2> QED BY <1>1, <2>2, <2>3, MoreBits
<1> QED BY <1>2, <1>3

LEMMA MaxLengthIs ==
    /\ MaxLength \in Nat /\ MaxLength < 128 * (268435455 + 1)
    /\ 268435455 <= MaxLength /\ 2097151 <= MaxLength /\ 16383 <= MaxLength /\ 127 <= MaxLength
BY SMT DEF MaxLength

LEMMA FiveBytes ==
    ASSUME NEW n \in 0 .. MaxLength
    PROVE  Len(PutUvarint(n)) <= 5
<1>1. /\ MaxLength \in Nat /\ MaxLength < 128 * (268435455 + 1)
      /\ 268435455 <= MaxLength /\ 2097151 <= MaxLength /\ 16383 <= MaxLength /\ 127 <= MaxLength
  BY MaxLengthIs, SMT
<1>2. Bits(127, 1)
  <2>1. ASSUME NEW k \in Nat, k <= 127 PROVE Len(PutUvarint(k)) <= 1
    <3>1. k \in 0 .. MaxLength /\ ~(k >= 128)
      BY <1>1, <2>1, SMT
    <3>2. Len(PutUvarint(k)) <= 0 + 1
      BY <3>1, MoreBits
    <3> QED BY <3>2
  <2> QED BY <2>1 DEF Bits
<1>3. Bits(16383, 2)
  BY <1>1, <1>2, BitsOfMore, SMT
<1>4. Bits(2097151, 3)
  BY <1>1, <1>3, BitsOfMore, SMT
<1>5. Bits(268435455, 4)
  BY <1>1, <1>4, BitsOfMore, SMT
<1>6. Bits(MaxLength, 5)
  BY <1>1, <1>5, BitsOfMore, SMT
<1> QED BY <1>6, MaxLengthNat, SMT DEF Bits

\* A length is read as it was written, wherever it stands.
LEMMA UvarintRead ==
    ASSUME NEW n \in 0 .. MaxLength, NEW s \in Seq(Nat), NEW x \in Seq(Nat), NEW bytes,
           bytes = s \o (PutUvarint(n) \o x)
    PROVE  Uvarint(bytes, Len(s)) = [value |-> n, next |-> Len(s) + Len(PutUvarint(n))]
<1>1. /\ PutUvarint(n) \in Seq(Nat) /\ Len(PutUvarint(n)) \in Nat
      /\ Numbers(bytes)[Len(bytes) - Len(s)] =
             [value |-> n, next |-> Len(s) + Len(PutUvarint(n))]
  BY NumberRead, LenProperties DEF Read128
<1> DEFINE number == Numbers(bytes)[Len(bytes) - Len(s)]
<1>2. number.next - Len(s) < 10
  <2>1. number.next = Len(s) + Len(PutUvarint(n))
    BY <1>1
  <2>2. Len(s) \in Nat
    BY LenProperties
  <2> HIDE DEF number
  <2> QED BY <1>1, <2>1, <2>2, FiveBytes
<1>3. Uvarint(bytes, Len(s)) = number
  <2> HIDE DEF number
  <2> QED BY <1>2 DEF Uvarint, number
<1> QED BY <1>1, <1>3

-----------------------------------------------------------------------------
(* A row is read as it was written. *)

Rows == [key : Seq(Nat), value : Seq(Nat)]

NumberIs(bytes, pos, value, next) == Uvarint(bytes, pos) = [value |-> value, next |-> next]

StringIs(bytes, pos, string, next) ==
    ReadVarString(bytes, pos) = [string |-> string, next |-> next]

\* A string is read when its length is.
LEMMA StringRead ==
    ASSUME NEW u, NEW v, NEW x, NEW bytes, Made(bytes, u, v, x),
           NEW pos, NumberIs(bytes, pos, Len(v), Len(u))
    PROVE  StringIs(bytes, pos, v, Len(u) + Len(v))
<1>1. /\ bytes \in Seq(Nat) /\ Len(u) \in Nat /\ Len(v) \in Nat /\ Len(x) \in Nat
      /\ Len(bytes) = Len(u) + Len(v) + Len(x) /\ v \in Seq(Nat)
      /\ \A j \in 1 .. Len(v) : bytes[Len(u) + j] = v[j]
  <2>1. Parts(bytes, u, v, x)
    BY MadeOf
  <2> QED BY <2>1 DEF Parts, Made
<1>2. Len(u) # -1 /\ ~(Len(u) + Len(v) > Len(bytes)) /\ Len(u) + Len(v) <= Len(bytes)
  BY <1>1
<1>3. SubSeq(bytes, Len(u) + 1, Len(u) + Len(v)) = v
  BY <1>1, <1>2, Cut
<1> DEFINE length == Uvarint(bytes, pos)
<1>4. length.next = Len(u) /\ length.value = Len(v)
  BY DEF NumberIs
<1> HIDE DEF length
<1>5. ReadVarString(bytes, pos) =
          IF length.next = -1 \/ length.next + length.value > Len(bytes)
          THEN [string |-> << >>, next |-> -1]
          ELSE [string |-> SubSeq(bytes, length.next + 1, length.next + length.value),
                next |-> length.next + length.value]
  BY DEF ReadVarString, StringAfter, length
<1> QED BY <1>2, <1>3, <1>4, <1>5 DEF StringIs

\* A string that is wholly there is read.
LEMMA VarStringRead ==
    ASSUME NEW v \in Seq(Nat), Len(v) <= MaxLength, NEW s \in Seq(Nat), NEW x \in Seq(Nat),
           NEW bytes, bytes = s \o (VarString(v) \o x)
    PROVE  /\ VarString(v) \in Seq(Nat) /\ Len(VarString(v)) >= 1
           /\ ReadVarString(bytes, Len(s)) =
                  [string |-> v, next |-> Len(s) + Len(VarString(v))]
<1>1. Len(v) \in 0 .. MaxLength /\ Len(v) \in Nat
  <2>1. Len(v) \in Nat
    BY LenProperties
  <2> QED BY <2>1, MaxLengthNat
<1> PICK p : p = PutUvarint(Len(v))
  OBVIOUS
<1> PICK y : y = v \o x
  OBVIOUS
<1> PICK u : u = s \o p
  OBVIOUS
<1> PICK w : w = VarString(v)
  OBVIOUS
<1>2. p \in Seq(Nat) /\ Len(p) \in Nat /\ Len(p) >= 1
  BY <1>1, NumberRead, LenProperties DEF Read128
<1>3. y \in Seq(Nat)
  BY Lengths
<1>4. u \in Seq(Nat) /\ Len(u) = Len(s) + Len(p) /\ Len(s) \in Nat
  BY <1>2, Lengths
<1>5. w = p \o v
  BY DEF VarString
<1>6. w \in Seq(Nat) /\ Len(w) = Len(p) + Len(v)
  BY <1>2, <1>5, Lengths
<1>7. bytes = s \o (p \o y)
  <2>1. Assoc(p, v, x)
    BY <1>2, Associative
  <2> QED BY <1>5, <2>1 DEF Assoc
<1>8. bytes = u \o (v \o x)
  <2>1. s \in Seq(Nat) /\ p \in Seq(Nat) /\ y \in Seq(Nat)
    BY <1>2, <1>3
  <2>2. Assoc(s, p, y)
    BY <2>1, Associative
  <2> QED BY <1>7, <2>2 DEF Assoc
<1>9. NumberIs(bytes, Len(s), Len(v), Len(u))
  <2> PICK n : n = Len(v)
    OBVIOUS
  <2>1. n \in 0 .. MaxLength /\ bytes = s \o (PutUvarint(n) \o y)
    BY <1>1, <1>7
  <2>2. Uvarint(bytes, Len(s)) = [value |-> n, next |-> Len(s) + Len(PutUvarint(n))]
    BY <1>3, <2>1, UvarintRead
  <2>3. PutUvarint(n) = p
    OBVIOUS
  <2> QED BY <1>4, <2>2, <2>3 DEF NumberIs
<1>10. StringIs(bytes, Len(s), v, Len(u) + Len(v))
  <2>1. Made(bytes, u, v, x)
    BY <1>4, <1>8 DEF Made
  <2> QED BY <1>9, <2>1, StringRead
<1>11. Len(u) + Len(v) = Len(s) + Len(w) /\ Len(w) >= 1
  BY <1>1, <1>2, <1>4, <1>6
<1> QED BY <1>6, <1>10, <1>11 DEF StringIs

\* The type of a batch.
LEMMA BatchType ==
    ASSUME NEW b \in Batches
    PROVE  /\ b \in Seq(Range(b)) /\ Len(b) \in Nat \ {0} /\ DOMAIN b = 1 .. Len(b)
           /\ Len(b) <= MaxLength
           /\ \A i \in 1 .. Len(b) :
                  /\ b[i].put \in BOOLEAN
                  /\ b[i].key \in Seq(Nat) /\ Len(b[i].key) <= MaxLength
                  /\ b[i].put => b[i].value \in Seq(Nat) /\ Len(b[i].value) <= MaxLength
<1>1. /\ b \in Seq(Range(b)) /\ Len(b) \in 1 .. MaxLength
      /\ \A i \in DOMAIN b : /\ b[i].put \in BOOLEAN /\ IsString(b[i].key)
                             /\ b[i].put => IsString(b[i].value)
  BY BatchesAssumption
<1> PICK S : S = Range(b)
  OBVIOUS
<1>2. b \in Seq(S)
  BY <1>1
<1>3. DOMAIN b = 1 .. Len(b)
  BY <1>2, LenProperties
<1>4. Len(b) \in Nat \ {0} /\ Len(b) <= MaxLength
  BY <1>1, MaxLengthNat
<1>5. ASSUME NEW v, IsString(v) PROVE v \in Seq(Nat) /\ Len(v) <= MaxLength
  BY <1>5, BytesAreNumbers, SeqMonotonic DEF IsString
<1> QED BY <1>1, <1>3, <1>4, <1>5

LEMMA RowsOfType ==
    ASSUME NEW b \in Batches
    PROVE  /\ RowsOf(b) \in Seq(Rows) /\ Len(RowsOf(b)) = Len(b) /\ Len(b) \in Nat \ {0}
           /\ DOMAIN b = 1 .. Len(b)
<1>1. Len(b) \in Nat \ {0} /\ DOMAIN b = 1 .. Len(b)
  BY BatchType
<1>2. ASSUME NEW i \in 1 .. Len(b)
      PROVE  [key |-> b[i].key, value |-> IF b[i].put THEN b[i].value ELSE << >>] \in Rows
  <2>1. b[i].key \in Seq(Nat) /\ (b[i].put => b[i].value \in Seq(Nat)) /\ << >> \in Seq(Nat)
    BY BatchType
  <2> QED BY <2>1 DEF Rows
<1> QED BY <1>1, <1>2 DEF RowsOf

LEMMA VarStringType ==
    ASSUME NEW v \in Seq(Nat), Len(v) <= MaxLength
    PROVE  VarString(v) \in Seq(Nat) /\ Len(VarString(v)) \in Nat /\ Len(VarString(v)) >= 1
<1>1. << >> \in Seq(Nat)
  OBVIOUS
<1> QED BY <1>1, VarStringRead, LenProperties

\* A row: its kind, and its strings.
LEMMA EncodedIs ==
    ASSUME NEW b \in Batches, NEW i \in 1 .. Len(b)
    PROVE  /\ Encoded(b[i]) \in Seq(Nat) /\ Len(Encoded(b[i])) \in Nat
           /\ Len(Encoded(b[i])) >= 2
           /\ b[i].put \in BOOLEAN
           /\ b[i].put => Encoded(b[i]) = <<1>> \o (VarString(b[i].key) \o VarString(b[i].value))
           /\ ~b[i].put => Encoded(b[i]) = <<0>> \o VarString(b[i].key)
<1>1. /\ b[i].put \in BOOLEAN /\ VarString(b[i].key) \in Seq(Nat)
      /\ Len(VarString(b[i].key)) \in Nat /\ Len(VarString(b[i].key)) >= 1
      /\ b[i].put => VarString(b[i].value) \in Seq(Nat)
  BY BatchType, VarStringType
<1> DEFINE key == VarString(b[i].key)
           value == VarString(b[i].value)
<1>2. /\ b[i].put => Encoded(b[i]) = <<1>> \o (key \o value)
      /\ ~b[i].put => Encoded(b[i]) = <<0>> \o key
  BY DEF Encoded
<1>3. key \in Seq(Nat) /\ Len(key) \in Nat /\ Len(key) >= 1 /\ (b[i].put => value \in Seq(Nat))
  BY <1>1
<1> HIDE DEF key, value
<1>4. ASSUME NEW k \in Nat, NEW r \in Seq(Nat), Len(r) >= 1
      PROVE  <<k>> \o r \in Seq(Nat) /\ Len(<<k>> \o r) \in Nat /\ Len(<<k>> \o r) >= 2
  <2>1. <<k>> \in Seq(Nat) /\ Len(<<k>>) = 1 /\ Len(r) \in Nat
    BY LenProperties
  <2> PICK c : c = <<k>>
    OBVIOUS
  <2>2. c \o r \in Seq(Nat) /\ Len(c \o r) = 1 + Len(r)
    BY <2>1, ConcatProperties
  <2> QED BY <1>4, <2>1, <2>2
<1>5. b[i].put => key \o value \in Seq(Nat) /\ Len(key \o value) >= 1
  <2>1. b[i].put => Len(value) \in Nat /\ Len(key \o value) = Len(key) + Len(value)
    BY <1>3, ConcatProperties, LenProperties
  <2> QED BY <1>3, <2>1, ConcatProperties
<1> QED BY <1>1, <1>2, <1>3, <1>4, <1>5 DEF key, value

\* A row with a key and a value comes next.
RowGiven(bytes, count, st, key, next, value, end) ==
    /\ st.ok /\ Len(st.rows) # count /\ ~(st.pos >= Len(bytes))
    /\ ReadVarString(bytes, st.pos + 1) = [string |-> key, next |-> next]
    /\ IF Byte(bytes, st.pos) = 1
       THEN ReadVarString(bytes, next) = [string |-> value, next |-> end]
       ELSE value = << >> /\ end = next
    /\ next # -1 /\ end # -1

RowTaken(st, key, value, end) ==
    RowsRead(TRUE, end, Append(st.rows, [key |-> key, value |-> value]))

LEMMA RowStep ==
    ASSUME NEW bytes, NEW count, NEW st, NEW key, NEW next, NEW value, NEW end,
           RowGiven(bytes, count, st, key, next, value, end)
    PROVE  ReadRow(bytes, count, st) = RowTaken(st, key, value, end)
<1> DEFINE k == ReadVarString(bytes, st.pos + 1)
           val == IF k.next # -1 /\ Byte(bytes, st.pos) = 1 THEN ReadVarString(bytes, k.next)
                  ELSE [string |-> << >>, next |-> k.next]
<1>1. ReadRow(bytes, count, st) =
          IF val.next = -1 THEN RowsRead(FALSE, st.pos, << >>)
          ELSE RowsRead(TRUE, val.next, Append(st.rows, [key |-> k.string, value |-> val.string]))
  <2> HIDE DEF k
  <2>1. ReadRow(bytes, count, st) =
          IF ~st.ok \/ Len(st.rows) = count \/ st.pos >= Len(bytes) THEN st
          ELSE IF val.next = -1 THEN RowsRead(FALSE, st.pos, << >>)
          ELSE RowsRead(TRUE, val.next, Append(st.rows, [key |-> k.string, value |-> val.string]))
    BY DEF ReadRow, k, RowGiven
  <2> HIDE DEF val
  <2> QED BY <2>1 DEF RowGiven
<1>2. k.string = key /\ k.next = next
  BY DEF RowGiven
<1>3. val = [string |-> value, next |-> end]
  <2> HIDE DEF k
  <2> QED BY <1>2 DEF RowGiven
<1>4. val.string = value /\ val.next = end
  BY <1>3
<1> HIDE DEF val, k
<1> QED BY <1>1, <1>2, <1>4 DEF RowGiven, RowTaken

\* A row that is wholly there is read.
LEMMA RowRead ==
    ASSUME NEW b \in Batches, NEW n \in 0 .. (Len(b) - 1),
           NEW s \in Seq(Nat), NEW x \in Seq(Nat)
    PROVE  ReadRow(s \o (Encoded(b[n + 1]) \o x), Len(b),
                   RowsRead(TRUE, Len(s), SubSeq(RowsOf(b), 1, n)))
               = RowsRead(TRUE, Len(s) + Len(Encoded(b[n + 1])), SubSeq(RowsOf(b), 1, n + 1))
<1>1. Len(b) \in Nat /\ n + 1 \in 1 .. Len(b) /\ n \in 0 .. Len(b)
  BY BatchType
<1> DEFINE e == Encoded(b[n + 1])
           bytes == s \o (e \o x)
           key == b[n + 1].key
           v == IF b[n + 1].put THEN b[n + 1].value ELSE << >>
           row == [key |-> key, value |-> v]
           rows == RowsOf(b)
           put == b[n + 1].put
           kind == <<IF put THEN 1 ELSE 0>>
           k == VarString(key)
           w == IF put THEN VarString(v) ELSE << >>
<1>2. /\ put \in BOOLEAN /\ key \in Seq(Nat) /\ Len(key) <= MaxLength
      /\ v \in Seq(Nat) /\ (put => Len(v) <= MaxLength)
  <2>1. << >> \in Seq(Nat)
    OBVIOUS
  <2> QED BY <1>1, <2>1, BatchType
<1>3. /\ e \in Seq(Nat) /\ Len(e) \in Nat /\ Len(e) >= 2
      /\ k \in Seq(Nat) /\ Len(k) \in Nat /\ Len(k) >= 1 /\ w \in Seq(Nat) /\ Len(w) \in Nat
  <2>1. << >> \in Seq(Nat) /\ Len(<< >>) \in Nat
    OBVIOUS
  <2>2. put => w \in Seq(Nat) /\ Len(w) \in Nat
    BY <1>2, VarStringType
  <2> QED BY <1>1, <1>2, <2>1, <2>2, EncodedIs, VarStringType
<1>4. kind \in Seq(Nat) /\ Len(kind) = 1 /\ kind[1] = IF put THEN 1 ELSE 0
  OBVIOUS
<1>5. e = kind \o (k \o w)
  <2>1. put => e = kind \o (k \o w)
    BY <1>1, EncodedIs
  <2>2. ~put => e = kind \o k /\ w = << >>
    BY <1>1, EncodedIs
  <2>3. k \o << >> = k
    BY <1>3, ConcatEmptySeq
  <2> QED BY <1>2, <2>1, <2>2, <2>3
<1>6. rows \in Seq(Rows) /\ Len(rows) = Len(b) /\ rows[n + 1] = row
  BY <1>1, RowsOfType DEF RowsOf
<1>7. /\ SubSeq(rows, 1, n) \in Seq(Rows) /\ Len(SubSeq(rows, 1, n)) = n
      /\ SubSeq(rows, 1, n + 1) = Append(SubSeq(rows, 1, n), row)
  <2> HIDE DEF rows
  <2>1. /\ SubSeq(rows, 1, n) \in Seq(Rows)
        /\ Len(SubSeq(rows, 1, n)) = IF 1 <= n THEN n - 1 + 1 ELSE 0
    <3>1. \A i \in 1 .. n : rows[i] \in Rows
      BY <1>1, <1>6, ElementOfSeq
    <3> QED BY <1>1, <3>1, SubSeqProperties
  <2>2. SubSeq(rows, 1, n + 1) = SubSeq(rows, 1, (n + 1) - 1) \o <<rows[n + 1]>>
    <3>1. 1 \in 1 .. Len(rows) /\ n + 1 \in 1 .. Len(rows)
      BY <1>1, <1>6
    <3> QED BY <1>6, <3>1, SubSeqRecursiveSecond
  <2>3. (n + 1) - 1 = n /\ row \in Rows
    BY <1>1, <1>2 DEF Rows
  <2> HIDE DEF row
  <2> PICK r : r = SubSeq(rows, 1, n)
    OBVIOUS
  <2>4. Len(r) = n
    <3>1. (IF 1 <= n THEN n - 1 + 1 ELSE 0) = n
      BY <1>1
    <3> QED BY <2>1, <3>1
  <2>5. Append(r, row) = r \o <<row>>
    <3>1. r \in Seq(Rows)
      BY <2>1
    <3> QED BY <2>3, <3>1, AppendIsConcat
  <2> QED BY <1>6, <2>1, <2>2, <2>3, <2>4, <2>5
<1> DEFINE s1 == s \o kind
           s2 == s1 \o k
<1>8. \A y \in Seq(Nat) : ReadVarString(s1 \o (k \o y), Len(s1)) =
                              [string |-> key, next |-> Len(s1) + Len(k)]
  <2>1. s1 \in Seq(Nat)
    BY <1>4, ConcatProperties
  <2> HIDE DEF s1, key
  <2> QED BY <1>2, <2>1, VarStringRead
<1>9. put => ReadVarString(s2 \o (w \o x), Len(s2)) = [string |-> v, next |-> Len(s2) + Len(w)]
  <2>1. s2 \in Seq(Nat)
    <3>1. s1 \in Seq(Nat)
      BY <1>4, ConcatProperties
    <3> HIDE DEF s1, k
    <3> QED BY <1>3, <3>1, ConcatProperties
  <2> HIDE DEF s2, v
  <2> QED BY <1>2, <2>1, VarStringRead
<1>10. ~put => v = << >> /\ w = << >>
  OBVIOUS
<1> HIDE DEF e, key, v, rows, put, kind, k, w
<1>11. /\ s1 \in Seq(Nat) /\ Len(s1) = Len(s) + 1 /\ Len(s) \in Nat
       /\ Len(e) = 1 + Len(k) + Len(w)
  <2> PICK y : y = k \o w
    OBVIOUS
  <2>1. y \in Seq(Nat) /\ Len(y) = Len(k) + Len(w)
    BY <1>3, Lengths
  <2>2. Len(kind \o y) = Len(kind) + Len(y)
    BY <1>4, <2>1, Lengths
  <2>3. s1 \in Seq(Nat) /\ Len(s1) = Len(s) + Len(kind) /\ Len(s) \in Nat
    BY <1>4, Lengths
  <2> HIDE DEF s1
  <2> QED BY <1>3, <1>4, <1>5, <2>1, <2>2, <2>3
<1>12. w \o x \in Seq(Nat) /\ k \o (w \o x) \in Seq(Nat)
  BY <1>3, ConcatProperties
<1>13. bytes = s \o (kind \o (k \o (w \o x)))
  <2> PICK y : y = k \o w
    OBVIOUS
  <2>1. y \in Seq(Nat)
    BY <1>3, Lengths
  <2>2. Assoc(kind, y, x)
    BY <1>4, <2>1, Associative
  <2>3. k \in Seq(Nat) /\ w \in Seq(Nat)
    BY <1>3
  <2>4. Assoc(k, w, x)
    BY <2>3, Associative
  <2> QED BY <1>5, <2>2, <2>4 DEF Assoc
<1>14. bytes = s1 \o (k \o (w \o x))
  <2> PICK y : y = k \o (w \o x)
    OBVIOUS
  <2>1. Assoc(s, kind, y)
    BY <1>4, <1>12, Associative
  <2> QED BY <1>13, <2>1 DEF Assoc
<1>15. /\ bytes \in Seq(Nat) /\ Byte(bytes, Len(s)) = IF put THEN 1 ELSE 0
       /\ Len(bytes) \in Nat /\ Len(bytes) > Len(s)
  <2> PICK y : y = k \o (w \o x)
    OBVIOUS
  <2>1. y \in Seq(Nat) /\ bytes = s \o (kind \o y)
    BY <1>12, <1>13
  <2> HIDE DEF bytes
  <2>2. /\ s \o (kind \o y) \in Seq(Nat) /\ Len(y) \in Nat
        /\ Len(s \o (kind \o y)) = Len(s) + Len(kind) + Len(y)
        /\ \A j \in 1 .. Len(kind) : (s \o (kind \o y))[Len(s) + j] = kind[j]
    <3>1. /\ kind \in Seq(Nat) /\ y \in Seq(Nat) /\ s \in Seq(Nat)
      BY <1>4, <2>1
    <3> QED BY ONLY <3>1, Middle
  <2>3. bytes[Len(s) + 1] = kind[1]
    <3>1. 1 \in 1 .. Len(kind)
      BY <1>4
    <3> QED BY <2>1, <2>2, <3>1
  <2>4. Len(bytes) = Len(s) + 1 + Len(y)
    BY <1>4, <2>1, <2>2
  <2>5. Byte(bytes, Len(s)) = IF put THEN 1 ELSE 0
    BY <1>4, <2>3 DEF Byte
  <2>6. Len(bytes) \in Nat /\ Len(bytes) > Len(s)
    BY <1>11, <2>2, <2>4
  <2> QED BY <2>1, <2>2, <2>5, <2>6
<1>16. s2 \in Seq(Nat) /\ Len(s2) = Len(s1) + Len(k) /\ bytes = s2 \o (w \o x)
  <2> HIDE DEF s1, bytes
  <2> PICK y : y = w \o x
    OBVIOUS
  <2>1. s1 \in Seq(Nat) /\ k \in Seq(Nat) /\ y \in Seq(Nat)
    BY <1>3, <1>11, <1>12
  <2>2. Assoc(s1, k, y)
    BY <2>1, Associative
  <2>3. s1 \o k \in Seq(Nat) /\ Len(s1 \o k) = Len(s1) + Len(k)
    BY <2>1, Lengths
  <2> QED BY <1>14, <2>2, <2>3 DEF Assoc
<1> HIDE DEF s1, s2, bytes
<1> DEFINE st == RowsRead(TRUE, Len(s), SubSeq(rows, 1, n))
           nx == Len(s2)
           end == Len(s) + Len(e)
<1>17. /\ st.ok = TRUE /\ st.pos = Len(s) /\ st.rows = SubSeq(rows, 1, n)
       /\ n # Len(b) /\ ~(Len(s) >= Len(bytes))
  BY <1>1, <1>11, <1>15 DEF RowsRead
<1>18. Len(s1) = Len(s) + 1 /\ nx # -1 /\ end # -1 /\ end = nx + Len(w)
  <2>1. Len(k) \in Nat /\ Len(w) \in Nat /\ Len(s) \in Nat /\ nx = Len(s) + 1 + Len(k)
        /\ Len(s1) = Len(s) + 1 /\ end = Len(s) + (1 + Len(k) + Len(w))
    BY <1>3, <1>11, <1>16
  <2> HIDE DEF nx, end
  <2> QED BY <2>1
<1>19. ReadVarString(bytes, Len(s) + 1) = [string |-> key, next |-> nx]
  BY <1>8, <1>12, <1>14, <1>16, <1>18
<1>20. IF Byte(bytes, Len(s)) = 1 THEN ReadVarString(bytes, nx) = [string |-> v, next |-> end]
       ELSE v = << >> /\ end = nx
  <2>1. ~put => end = nx
    <3>1. nx \in Nat
      BY <1>3, <1>11, <1>16
    <3>2. w = << >> => Len(w) = 0
      OBVIOUS
    <3> HIDE DEF nx, end
    <3> QED BY <1>10, <1>18, <3>1, <3>2
  <2>2. end = Len(s2) + Len(w)
    BY <1>18
  <2>3. put => ReadVarString(bytes, nx) = [string |-> v, next |-> end]
    BY <1>9, <1>16, <2>2
  <2>4. (Byte(bytes, Len(s)) = 1) <=> put
    BY <1>2, <1>15
  <2> HIDE DEF nx, end
  <2> QED BY <1>10, <2>1, <2>3, <2>4
<1>21. ReadRow(bytes, Len(b), st) = RowsRead(TRUE, end, Append(st.rows, row))
  <2>1. RowGiven(bytes, Len(b), st, key, nx, v, end)
    <3> HIDE DEF st, nx, end
    <3> QED BY <1>7, <1>17, <1>18, <1>19, <1>20 DEF RowGiven
  <2> HIDE DEF st, nx, end
  <2>2. ReadRow(bytes, Len(b), st) = RowTaken(st, key, v, end)
    BY <2>1, RowStep
  <2> QED BY <2>2 DEF RowTaken
<1> HIDE DEF st
<1> QED BY <1>7, <1>17, <1>21 DEF bytes, e, rows, st

-----------------------------------------------------------------------------
(* A batch is read as it was written. *)

\* What precedes the rows of a batch.
Head12(b) == Zeros(8) \o Uint32(Len(b))

LEMMA Uint32Is ==
    ASSUME NEW n \in 0 .. MaxLength
    PROVE  /\ Uint32(n) \in Seq(Nat) /\ Len(Uint32(n)) = 4
           /\ Uint32(n)[1] + 256 * Uint32(n)[2] + 65536 * (Uint32(n)[3] + 256 * Uint32(n)[4]) = n
<1>1. /\ n \in Nat /\ n % 256 \in Nat /\ (n \div 256) % 256 \in Nat
      /\ (n \div 65536) % 256 \in Nat /\ n \div 16777216 \in Nat
  BY MaxLengthNat, SMT
<1>2. /\ Uint32(n) \in Seq(Nat) /\ Len(Uint32(n)) = 4
      /\ Uint32(n)[1] = n % 256 /\ Uint32(n)[2] = (n \div 256) % 256
      /\ Uint32(n)[3] = (n \div 65536) % 256 /\ Uint32(n)[4] = n \div 16777216
  BY <1>1, SMT DEF Uint32
<1>3. n = (n % 256) + 256 * (n \div 256)
  BY <1>1, SMT
<1>4. n \div 256 = ((n \div 256) % 256) + 256 * (n \div 65536)
  BY <1>1, SMT
<1>5. n \div 65536 = ((n \div 65536) % 256) + 256 * (n \div 16777216)
  BY <1>1, SMT
<1> PICK q : q = n \div 256
  OBVIOUS
<1> PICK r : r = n \div 65536
  OBVIOUS
<1>6. (n % 256) + 256 * (q % 256) + 65536 * ((r % 256) + 256 * (n \div 16777216)) = n
  BY <1>1, <1>3, <1>4, <1>5, SMT
<1> QED BY <1>2, <1>6, SMT

LEMMA HeadIs ==
    ASSUME NEW b \in Batches
    PROVE  /\ Head12(b) \in Seq(Nat) /\ Len(Head12(b)) = 12
           /\ \A i \in 1 .. 4 : Head12(b)[8 + i] = Uint32(Len(b))[i]
<1> DEFINE z == Zeros(8)
           c == Uint32(Len(b))
<1>1. z \in Seq(Nat) /\ Len(z) = 8
  BY DEF Zeros
<1>2. c \in Seq(Nat) /\ Len(c) = 4
  <2>1. Len(b) \in 0 .. MaxLength
    BY BatchType, MaxLengthNat
  <2> QED BY <2>1, Uint32Is
<1>3. Head12(b) = z \o c
  BY DEF Head12
<1> HIDE DEF z, c
<1>4. /\ z \o c \in Seq(Nat) /\ Len(z \o c) = Len(z) + Len(c)
      /\ \A i \in 1 .. Len(z) + Len(c) : (z \o c)[i] = IF i <= Len(z) THEN z[i] ELSE c[i - Len(z)]
  BY <1>1, <1>2, ConcatProperties
<1>5. \A i \in 1 .. 4 : (z \o c)[8 + i] = c[i]
  <2> PICK h : h = z \o c
    OBVIOUS
  <2>1. \A i \in 1 .. 12 : h[i] = IF i <= 8 THEN z[i] ELSE c[i - 8]
    <3>1. \A i \in 1 .. Len(z) + Len(c) : h[i] = IF i <= Len(z) THEN z[i] ELSE c[i - Len(z)]
      BY <1>4
    <3>2. Len(z) + Len(c) = 12 /\ Len(z) = 8
      BY <1>1, <1>2
    <3> QED BY <3>1, <3>2
  <2>2. ASSUME NEW i \in 1 .. 4 PROVE h[8 + i] = c[i]
    <3>1. 8 + i \in 1 .. 12 /\ ~(8 + i <= 8) /\ (8 + i) - 8 = i
      OBVIOUS
    <3> QED BY <2>1, <3>1
  <2> QED BY <2>2
<1>6. z \o c \in Seq(Nat) /\ Len(z \o c) = 12
  <2>1. Len(z) + Len(c) = 12
    BY <1>1, <1>2
  <2> QED BY <1>4, <2>1
<1>7. Uint32(Len(b)) = c
  BY DEF c
<1> QED BY <1>3, <1>5, <1>6, <1>7

\* The count is what the head says.
LEMMA CountIs ==
    ASSUME NEW b \in Batches, NEW t \in Seq(Nat)
    PROVE  Count(Head12(b) \o t) = Len(b)
<1> DEFINE h == Head12(b)
           z == h \o t
           c == Uint32(Len(b))
<1>1. h \in Seq(Nat) /\ Len(h) = 12 /\ \A i \in 1 .. 4 : h[8 + i] = c[i]
  BY HeadIs
<1>2. Len(t) \in Nat
  BY LenProperties
<1>3. c[1] + 256 * c[2] + 65536 * (c[3] + 256 * c[4]) = Len(b)
  <2> PICK n : n = Len(b)
    OBVIOUS
  <2>1. n \in 0 .. MaxLength
    BY BatchType, MaxLengthNat
  <2>2. Uint32(n)[1] + 256 * Uint32(n)[2] + 65536 * (Uint32(n)[3] + 256 * Uint32(n)[4]) = n
    BY <2>1, Uint32Is
  <2> QED BY <2>2
<1> HIDE DEF h, c
<1>4. \A i \in 1 .. Len(h) + Len(t) : z[i] = IF i <= Len(h) THEN h[i] ELSE t[i - Len(h)]
  BY <1>1, ConcatProperties
<1> HIDE DEF z
<1>5. ASSUME NEW i \in 1 .. 4 PROVE z[8 + i] = c[i]
  <2>1. 8 + i \in 1 .. Len(h) + Len(t) /\ 8 + i <= Len(h)
    BY <1>1, <1>2
  <2> QED BY <1>1, <1>4, <2>1
<1>6. z[9] = c[1] /\ z[10] = c[2] /\ z[11] = c[3] /\ z[12] = c[4]
  <2>1. /\ 1 \in 1 .. 4 /\ 2 \in 1 .. 4 /\ 3 \in 1 .. 4 /\ 4 \in 1 .. 4
        /\ 8 + 1 = 9 /\ 8 + 2 = 10 /\ 8 + 3 = 11 /\ 8 + 4 = 12
    OBVIOUS
  <2> QED BY <1>5, <2>1
<1>7. 8 + 1 = 9 /\ (8 + 1) + 1 = 10 /\ 10 + 1 = 11 /\ (10 + 1) + 1 = 12
  OBVIOUS
<1>8. Uint16(z, 8) = c[1] + 256 * c[2] /\ Uint16(z, 10) = c[3] + 256 * c[4]
  BY <1>6, <1>7 DEF Uint16, Byte
<1>9. Count(z) = Len(b)
  BY <1>3, <1>8 DEF Count
<1> QED BY <1>9 DEF z, h

\* parseBatch gives the rows of a batch that LevelDB wrote.
THEOREM BatchRead ==
    ASSUME NEW b \in Batches
    PROVE  /\ EncodedBatch(b) \in Seq(Nat) /\ Len(EncodedBatch(b)) >= 12
           /\ ParseBatch(EncodedBatch(b)) = RowsOf(b)
<1> DEFINE enc == [i \in DOMAIN b |-> Encoded(b[i])]
           head == Head12(b)
           rows == RowsOf(b)
<1>1. /\ Len(b) \in Nat \ {0} /\ DOMAIN b = 1 .. Len(b)
  BY BatchType
<1>2. /\ enc \in Seq(Seq(Nat)) /\ Len(enc) = Len(b)
      /\ \A i \in 1 .. Len(b) : enc[i] = Encoded(b[i])
  <2>1. \A i \in 1 .. Len(b) : Encoded(b[i]) \in Seq(Nat)
    BY EncodedIs
  <2> QED BY <1>1, <2>1
<1>3. EncodedBatch(b) = head \o FlattenSeq(enc)
  BY DEF EncodedBatch, Head12
<1> HIDE DEF enc
<1>4. PICK p : FlatPrefixes(p, enc)
  <2>1. Len(enc) > 0
    BY <1>1, <1>2
  <2> QED BY <1>2, <2>1, FlattenIs
<1>5. head \in Seq(Nat) /\ Len(head) = 12
  BY HeadIs
<1>6. rows \in Seq(Rows) /\ Len(rows) = Len(b)
  BY RowsOfType
<1>7. \A t \in Seq(Nat) : Count(head \o t) = Len(b)
  BY CountIs
<1> HIDE DEF head, rows
<1> DEFINE Given(n, x) == RowLoop(head \o (p[n] \o x))[n] =
                              RowsRead(TRUE, 12 + Len(p[n]), SubSeq(rows, 1, n))
           AllGiven(n) == /\ p[n] \in Seq(Nat) /\ Len(p[n]) >= n
                          /\ \A x \in Seq(Nat) : Given(n, x)
           C == {n \in Nat : n <= Len(b) => AllGiven(n)}
<1>8. 0 \in C
  <2>1. << >> \in Seq(Nat) /\ Len(<< >>) = 0
    OBVIOUS
  <2>2. SubSeq(rows, 1, 0) = << >>
    BY SubSeqEmpty
  <2>3. ASSUME NEW x \in Seq(Nat) PROVE Given(0, x)
    <3>1. p[0] = << >>
      BY <1>4 DEF FlatPrefixes
    <3>2. head \o (p[0] \o x) \in Seq(Nat)
      BY <1>5, <2>1, <3>1, ConcatProperties
    <3>3. RowLoop(head \o (p[0] \o x))[0] = RowsRead(TRUE, 12, << >>)
      BY <3>2, RowLoopIs
    <3>4. 12 + Len(p[0]) = 12
      BY <2>1, <3>1
    <3> QED BY <2>2, <3>3, <3>4
  <2> HIDE DEF Given
  <2>4. AllGiven(0)
    BY <1>4, <2>1, <2>3 DEF FlatPrefixes
  <2> HIDE DEF AllGiven
  <2> QED BY <2>4
<1>9. ASSUME NEW n \in Nat, n \in C PROVE n + 1 \in C
  <2> HIDE DEF AllGiven
  <2> SUFFICES ASSUME n + 1 <= Len(b) PROVE AllGiven(n + 1)
    OBVIOUS
  <2>1. n <= Len(b) /\ n \in 0 .. (Len(b) - 1) /\ n + 1 \in 1 .. Len(b)
    BY <1>1
  <2>0. AllGiven(n)
    BY <1>9, <2>1
  <2> HIDE DEF Given
  <2>2. p[n] \in Seq(Nat) /\ Len(p[n]) >= n /\ \A x \in Seq(Nat) : Given(n, x)
    BY <2>0 DEF AllGiven
  <2> HIDE DEF C
  <2> DEFINE e == Encoded(b[n + 1])
  <2>3. p[n + 1] = p[n] \o e
    <3>1. n \in 0 .. (Len(enc) - 1)
      BY <1>2, <2>1
    <3>2. p[n + 1] = p[n] \o enc[n + 1]
      BY <1>4, <3>1 DEF FlatPrefixes
    <3> QED BY <1>2, <2>1, <3>2
  <2>4. e \in Seq(Nat) /\ Len(e) \in Nat /\ Len(e) >= 2
    BY <2>1, EncodedIs
  <2>5. Len(p[n]) \in Nat
    BY <2>2, LenProperties
  <2> HIDE DEF e, Given
  <2>6. p[n + 1] \in Seq(Nat) /\ Len(p[n + 1]) = Len(p[n]) + Len(e)
    BY <2>2, <2>3, <2>4, ConcatProperties
  <2>7. Len(p[n + 1]) >= n + 1
    BY <2>2, <2>4, <2>5, <2>6
  <2>8. ASSUME NEW x \in Seq(Nat) PROVE Given(n + 1, x)
    <3> DEFINE bytes == head \o (p[n + 1] \o x)
               s == head \o p[n]
    <3>1. bytes = head \o (p[n] \o (e \o x)) /\ e \o x \in Seq(Nat) /\ p[n] \o (e \o x) \in Seq(Nat)
      <4> PICK q : q = p[n]
        OBVIOUS
      <4>1. q \in Seq(Nat) /\ e \in Seq(Nat)
        BY <2>2, <2>4
      <4>2. Assoc(q, e, x)
        BY <4>1, Associative
      <4>3. e \o x \in Seq(Nat) /\ q \o (e \o x) \in Seq(Nat)
        BY <4>1, ConcatProperties
      <4> QED BY <2>3, <4>2, <4>3 DEF Assoc
    <3>2. bytes = s \o (e \o x) /\ s \in Seq(Nat) /\ Len(s) = 12 + Len(p[n])
      <4>1. s \in Seq(Nat) /\ Len(s) = Len(head) + Len(p[n])
        BY <1>5, <2>2, ConcatProperties
      <4>2. head \o (p[n] \o (e \o x)) = s \o (e \o x)
        <5> PICK q : q = p[n]
          OBVIOUS
        <5> PICK w : w = e \o x
          OBVIOUS
        <5>1. q \in Seq(Nat) /\ w \in Seq(Nat)
          BY <2>2, <3>1
        <5>2. Assoc(head, q, w)
          BY <1>5, <5>1, Associative
        <5> QED BY <5>2 DEF Assoc
      <4> QED BY <1>5, <3>1, <4>1, <4>2
    <3>3. bytes \in Seq(Nat) /\ Len(bytes) = 12 + Len(p[n]) + Len(e) + Len(x) /\ Len(x) \in Nat
      <4>1. s \o (e \o x) \in Seq(Nat) /\ Len(s \o (e \o x)) = Len(s) + Len(e) + Len(x)
        <5>1. s \in Seq(Nat) /\ e \in Seq(Nat)
          BY <2>4, <3>2
        <5> HIDE DEF s
        <5> QED BY <5>1, Middle
      <4> QED BY <3>2, <4>1, LenProperties
    <3>4. RowLoop(bytes)[n] = RowsRead(TRUE, Len(s), SubSeq(rows, 1, n))
      <4>1. Given(n, e \o x)
        BY <2>2, <3>1
      <4> QED BY <3>1, <3>2, <4>1 DEF Given
    <3>5. RowLoop(bytes)[n + 1] = ReadRow(bytes, Len(b), RowLoop(bytes)[n])
      <4>1. n \in 0 .. (Len(bytes) - 1)
        BY <2>2, <2>4, <2>5, <3>3
      <4>2. Count(bytes) = Len(b)
        BY <1>7, <3>1
      <4> HIDE DEF bytes
      <4> QED BY <3>3, <4>1, <4>2, RowLoopIs
    <3>6. ReadRow(s \o (e \o x), Len(b), RowsRead(TRUE, Len(s), SubSeq(rows, 1, n))) =
              RowsRead(TRUE, Len(s) + Len(e), SubSeq(rows, 1, n + 1))
      <4> HIDE DEF s
      <4> QED BY <2>1, <3>2, RowRead DEF e, rows
    <3>7. Len(s) + Len(e) = 12 + Len(p[n + 1])
      BY <2>4, <2>5, <2>6, <3>2
    <3> HIDE DEF s
    <3>8. RowLoop(bytes)[n + 1] = RowsRead(TRUE, 12 + Len(p[n + 1]), SubSeq(rows, 1, n + 1))
      BY <3>2, <3>4, <3>5, <3>6, <3>7
    <3> QED BY <3>8 DEF Given
  <2> QED BY <2>6, <2>7, <2>8 DEF AllGiven
<1> HIDE DEF C, AllGiven
<1>10. Len(b) \in C
  BY <1>1, <1>8, <1>9, NatSetInduction
<1> DEFINE t == FlattenSeq(enc)
           bytes == head \o t
<1>11. t \in Seq(Nat) /\ Len(t) >= Len(b) /\ Given(Len(b), << >>) /\ p[Len(b)] = t
  <2> HIDE DEF Given
  <2>1. AllGiven(Len(b))
    BY <1>1, <1>10 DEF C
  <2>2. p[Len(b)] = t
    BY <1>2, <1>4 DEF FlatPrefixes
  <2>3. << >> \in Seq(Nat)
    OBVIOUS
  <2> QED BY <2>1, <2>2, <2>3 DEF AllGiven
<1> HIDE DEF t
<1>12. /\ bytes \in Seq(Nat) /\ Len(bytes) = 12 + Len(t) /\ Len(t) \in Nat
       /\ t \o << >> = t
  <2>1. head \in Seq(Nat) /\ t \in Seq(Nat) /\ Len(head) = 12
    BY <1>5, <1>11
  <2> HIDE DEF Given
  <2>2. bytes \in Seq(Nat) /\ Len(bytes) = Len(head) + Len(t)
    BY <2>1, ConcatProperties
  <2> QED BY <2>1, <2>2, ConcatEmptySeq, LenProperties
<1> DEFINE st == RowsRead(TRUE, 12 + Len(t), SubSeq(rows, 1, Len(b)))
<1>13. RowLoop(bytes)[Len(b)] = st
  BY <1>11, <1>12
<1>14. st.rows = rows /\ Len(st.rows) = Len(b)
  <2>1. SubSeq(rows, 1, Len(b)) = rows
    BY <1>6, SubSeqFull
  <2> QED BY <1>6, <2>1 DEF RowsRead
<1> HIDE DEF st, Given
<1>15. Count(bytes) = Len(b)
  BY <1>7, <1>11
<1> HIDE DEF bytes
<1>16. Least(Count(bytes), Len(bytes)) = Len(b)
  <2>1. Len(b) \in Nat /\ Len(t) \in Nat /\ Len(t) >= Len(b) /\ Len(bytes) = 12 + Len(t)
    BY <1>1, <1>11, <1>12
  <2>2. Len(b) <= Len(bytes)
    BY <2>1
  <2>3. Len(b) < Len(bytes) \/ Len(b) = Len(bytes)
    BY <2>1, <2>2
  <2> QED BY <1>15, <2>3 DEF Least
<1>17. ~(Len(bytes) < 12) /\ Len(bytes) >= 12
  BY <1>12
<1> QED BY <1>3, <1>12, <1>13, <1>14, <1>16, <1>17 DEF ParseBatch, bytes, t, rows

-----------------------------------------------------------------------------
(* Blocks. *)

LEMMA BlockNat == BlockBytes \in Nat /\ BlockBytes >= 8
BY BlockAssumption

\* What is left of the block at an offset, and where the block ends.
Left(offset) == BlockBytes - (offset % BlockBytes)

LEMMA DivMod ==
    ASSUME NEW m \in Nat, NEW k \in Nat, k > 0
    PROVE  /\ m \div k \in Nat /\ m % k \in Nat /\ m % k < k
           /\ m = k * (m \div k) + (m % k)
OBVIOUS

LEMMA BlockEndIs ==
    ASSUME NEW offset \in Nat
    PROVE  /\ Left(offset) \in Nat /\ Left(offset) \in 1 .. BlockBytes
           /\ (offset \div BlockBytes + 1) * BlockBytes = offset + Left(offset)
<1> PICK k : k = BlockBytes
  OBVIOUS
<1>1. k \in Nat /\ k > 0
  BY BlockNat
<1> DEFINE q == offset \div k
           r == offset % k
<1>2. q \in Nat /\ r \in Nat /\ r < k /\ offset = k * q + r
  BY <1>1, DivMod
<1> HIDE DEF q, r
<1>3. (q + 1) * k = k * q + k
  BY <1>1, <1>2
<1>4. k * q \in Nat
  BY <1>1, <1>2
<1> PICK p : p = k * q
  OBVIOUS
<1>5. (q + 1) * k = offset + (k - r) /\ k - r \in Nat /\ k - r \in 1 .. k
  <2>1. offset = p + r /\ p \in Nat /\ (q + 1) * k = p + k
    BY <1>2, <1>3, <1>4
  <2> QED BY <1>1, <1>2, <2>1
<1> QED BY <1>5 DEF Left, q, r

\* Where a block starts, all of it is left.
LEMMA NextBlock ==
    ASSUME NEW offset \in Nat
    PROVE  Left(offset + Left(offset)) = BlockBytes
<1> PICK k : k = BlockBytes
  OBVIOUS
<1>1. k \in Nat /\ k > 0
  BY BlockNat
<1> DEFINE m == offset + Left(offset)
           c == offset \div k + 1
           q == m \div k
           r == m % k
<1>2. m \in Nat /\ c * k = m
  BY BlockEndIs
<1>3. c \in Nat
  BY <1>1, DivMod
<1> HIDE DEF m, c
<1>4. q \in Nat /\ r \in Nat /\ r < k /\ m = k * q + r
  BY <1>1, <1>2, DivMod
<1> HIDE DEF q, r
<1>5. r = 0
  <2>1. k * (c - q) = r
    BY <1>1, <1>2, <1>3, <1>4
  <2>2. c - q <= 0 \/ c - q >= 1
    BY <1>3, <1>4
  <2>3. CASE c - q <= 0
    <3>1. k * (c - q) <= 0
      BY <1>1, <1>3, <1>4, <2>3
    <3> QED BY <1>4, <2>1, <3>1
  <2>4. CASE c - q >= 1
    <3>1. k * (c - q) >= k
      BY <1>1, <1>3, <1>4, <2>4
    <3> QED BY <1>1, <1>4, <2>1, <3>1
  <2> QED BY <2>2, <2>3, <2>4
<1> QED BY <1>1, <1>5 DEF Left, m, r

LEMMA LeastIs ==
    ASSUME NEW m \in Nat, NEW n \in Nat
    PROVE  /\ Least(m, n) \in Nat /\ Least(m, n) <= m /\ Least(m, n) <= n
           /\ m <= n => Least(m, n) = m
           /\ n <= m => Least(m, n) = n
BY DEF Least

LEMMA BlockEndType ==
    ASSUME NEW bytes \in Seq(Nat), NEW offset \in Nat
    PROVE  BlockEnd(bytes, offset) = Least(offset + Left(offset), Len(bytes))
BY BlockEndIs DEF BlockEnd

-----------------------------------------------------------------------------
(* One turn. *)

\* A state of the loop, and a state that ends it.
Good(offset, fragment, rows) == Reading(TRUE, offset, fragment, rows)
Bad(offset) == Reading(FALSE, offset, << >>, << >>)

\* The state after a chunk.
ChunkTaken(offset, fragment, rows, recType, payload) ==
    Good(offset + 7 + Len(payload), Fragment(fragment, recType, payload),
            rows \o Completed(fragment, recType, payload))

\* A header that is wholly there.
Header(bytes, offset, length, recType) ==
    /\ offset + 7 <= Len(bytes) /\ 7 <= Left(offset)
    /\ bytes[offset + 5] = length % 256 /\ bytes[offset + 6] = length \div 256
    /\ bytes[offset + 7] = recType

\* What a turn is, at an offset in the file.
Turn(bytes, offset, fragment, rows, blockEnd, length, recType) ==
    LET start == offset + 7
        payload == SubSeq(bytes, start + 1, start + length)
    IN  IF start > blockEnd \/ (length = 0 /\ recType = 0)
        THEN Good(blockEnd, fragment, rows)
        ELSE IF start + length > Len(bytes)
        THEN Bad(offset)
        ELSE Good(Least(start + length, blockEnd), Fragment(fragment, recType, payload),
                  rows \o Completed(fragment, recType, payload))

LEMMA TurnIs ==
    ASSUME NEW bytes \in Seq(Nat), NEW offset \in Nat, offset < Len(bytes),
           NEW fragment, NEW rows
    PROVE  ReadChunk(bytes, Good(offset, fragment, rows)) =
             Turn(bytes, offset, fragment, rows, BlockEnd(bytes, offset),
                  Uint16(bytes, offset + 4), Byte(bytes, offset + 6))
<1> DEFINE st == Good(offset, fragment, rows)
<1>1. /\ st.ok = TRUE /\ st.offset = offset /\ st.fragment = fragment /\ st.rows = rows
  BY DEF Good, Bad, Reading
<1>2. ~(offset >= Len(bytes))
  BY LenProperties
<1> HIDE DEF st
<1>3. ~(~st.ok \/ st.offset >= Len(bytes))
  BY <1>1, <1>2
<1> SUFFICES ReadChunk(bytes, st) =
             Turn(bytes, st.offset, st.fragment, st.rows, BlockEnd(bytes, st.offset),
                  Uint16(bytes, st.offset + 4), Byte(bytes, st.offset + 6))
  BY <1>1 DEF st
<1> QED BY <1>3 DEF ReadChunk, Turn, Good, Bad

\* No header fits, in the block or in the file.
NoHeader(bytes, offset, end) ==
    /\ offset < Len(bytes) /\ end = Least(offset + Left(offset), Len(bytes))
    /\ offset + 7 > end

\* The turn ends the block then.
LEMMA BlockEnds ==
    ASSUME NEW bytes \in Seq(Nat), NEW offset \in Nat, NEW fragment, NEW rows, NEW end,
           NoHeader(bytes, offset, end)
    PROVE  ReadChunk(bytes, Good(offset, fragment, rows)) =
               Good(end, fragment, rows)
<1>1. offset < Len(bytes) /\ BlockEnd(bytes, offset) = end /\ offset + 7 > BlockEnd(bytes, offset)
  BY BlockEndType DEF NoHeader
<1> QED BY <1>1, TurnIs DEF Turn

LEMMA HeaderRead ==
    ASSUME NEW bytes \in Seq(Nat), NEW offset \in Nat, NEW length \in Nat,
           NEW recType \in 1 .. 4, Header(bytes, offset, length, recType)
    PROVE  /\ Uint16(bytes, offset + 4) = length /\ Byte(bytes, offset + 6) = recType
           /\ ~(offset + 7 > BlockEnd(bytes, offset)) /\ offset < Len(bytes)
<1>1. Len(bytes) \in Nat /\ Left(offset) \in Nat
  BY LenProperties, BlockEndIs
<1>2. /\ offset + 7 <= Len(bytes) /\ 7 <= Left(offset)
      /\ bytes[offset + 5] = length % 256 /\ bytes[offset + 6] = length \div 256
      /\ bytes[offset + 7] = recType
  BY DEF Header
<1>3. (offset + 4) + 1 = offset + 5 /\ ((offset + 4) + 1) + 1 = offset + 6 /\ (offset + 6) + 1 = offset + 7
  OBVIOUS
<1>4. Byte(bytes, offset + 6) = recType
  BY <1>2, <1>3 DEF Byte
<1>5. Uint16(bytes, offset + 4) = (length % 256) + 256 * (length \div 256)
  <2>1. Byte(bytes, offset + 4) = length % 256
    BY <1>2, <1>3 DEF Byte
  <2>2. Byte(bytes, (offset + 4) + 1) = length \div 256
    BY <1>2, <1>3 DEF Byte
  <2> QED BY <2>1, <2>2 DEF Uint16
<1>6. (length % 256) + 256 * (length \div 256) = length
  OBVIOUS
<1>7. ~(offset + 7 > Least(offset + Left(offset), Len(bytes)))
  <2>1. offset + 7 <= offset + Left(offset) /\ offset + 7 <= Len(bytes)
    BY <1>1, <1>2
  <2>2. \/ Least(offset + Left(offset), Len(bytes)) = offset + Left(offset)
        \/ Least(offset + Left(offset), Len(bytes)) = Len(bytes)
    BY DEF Least
  <2> QED BY <1>1, <2>1, <2>2
<1>8. offset < Len(bytes)
  BY <1>1, <1>2
<1> QED BY <1>4, <1>5, <1>6, <1>7, <1>8, BlockEndType

\* A chunk that is wholly there, in the file and in the block, is read.
ChunkThere(bytes, offset, recType, payload) ==
    /\ Header(bytes, offset, Len(payload), recType)
    /\ offset + 7 + Len(payload) <= Len(bytes) /\ 7 + Len(payload) <= Left(offset)
    /\ \A j \in 1 .. Len(payload) : bytes[offset + 7 + j] = payload[j]

LEMMA ChunkRead ==
    ASSUME NEW bytes \in Seq(Nat), NEW offset \in Nat, NEW fragment, NEW rows,
           NEW recType \in 1 .. 4, NEW payload \in Seq(Nat),
           ChunkThere(bytes, offset, recType, payload)
    PROVE  ReadChunk(bytes, Good(offset, fragment, rows)) =
               ChunkTaken(offset, fragment, rows, recType, payload)
<1> PICK n : n = Len(payload)
  OBVIOUS
<1>0. /\ Header(bytes, offset, n, recType)
      /\ offset + 7 + n <= Len(bytes) /\ 7 + n <= Left(offset)
      /\ \A j \in 1 .. n : bytes[offset + 7 + j] = payload[j]
  BY DEF ChunkThere
<1>1. n \in Nat /\ Len(bytes) \in Nat /\ Left(offset) \in Nat
  BY LenProperties, BlockEndIs
<1>2. /\ Uint16(bytes, offset + 4) = n /\ Byte(bytes, offset + 6) = recType
      /\ ~(offset + 7 > BlockEnd(bytes, offset)) /\ offset < Len(bytes)
  BY <1>0, <1>1, HeaderRead
<1>3. SubSeq(bytes, (offset + 7) + 1, (offset + 7) + n) = payload
  <2>1. offset + 7 \in Nat /\ (offset + 7) + n <= Len(bytes)
    BY <1>0, <1>1
  <2>2. \A j \in 1 .. n : bytes[(offset + 7) + j] = payload[j]
    BY <1>0
  <2> QED BY <2>1, <2>2, Cut
<1>4. ~(n = 0 /\ recType = 0) /\ ~((offset + 7) + n > Len(bytes))
  BY <1>0, <1>1
<1>5. Least((offset + 7) + n, BlockEnd(bytes, offset)) = offset + 7 + n
  <2>1. (offset + 7) + n <= Least(offset + Left(offset), Len(bytes))
    BY <1>0, <1>1 DEF Least
  <2>2. Least(offset + Left(offset), Len(bytes)) \in Nat
    BY <1>1 DEF Least
  <2> QED BY <1>1, <2>1, <2>2, BlockEndType, LeastIs
<1>6. ReadChunk(bytes, Good(offset, fragment, rows)) =
          Good(Least((offset + 7) + n, BlockEnd(bytes, offset)),
                  Fragment(fragment, recType, SubSeq(bytes, (offset + 7) + 1, (offset + 7) + n)),
                  rows \o Completed(fragment, recType,
                                    SubSeq(bytes, (offset + 7) + 1, (offset + 7) + n)))
  <2>1. ReadChunk(bytes, Good(offset, fragment, rows)) =
            Turn(bytes, offset, fragment, rows, BlockEnd(bytes, offset), n, recType)
    BY <1>2, TurnIs
  <2> QED BY <1>2, <1>4, <2>1 DEF Turn
<1> QED BY <1>3, <1>5, <1>6 DEF ChunkTaken

\* A chunk that ends after the file is an error.
ChunkEndsLater(bytes, offset, length, recType) ==
    Header(bytes, offset, length, recType) /\ offset + 7 + length > Len(bytes)

LEMMA ChunkCut ==
    ASSUME NEW bytes \in Seq(Nat), NEW offset \in Nat, NEW fragment, NEW rows,
           NEW recType \in 1 .. 4, NEW length \in Nat,
           ChunkEndsLater(bytes, offset, length, recType)
    PROVE  ReadChunk(bytes, Good(offset, fragment, rows)) =
               Bad(offset)
<1>1. /\ Uint16(bytes, offset + 4) = length /\ Byte(bytes, offset + 6) = recType
      /\ ~(offset + 7 > BlockEnd(bytes, offset)) /\ offset < Len(bytes)
  BY HeaderRead DEF ChunkEndsLater
<1>2. ~(length = 0 /\ recType = 0) /\ (offset + 7) + length > Len(bytes)
  BY LenProperties DEF ChunkEndsLater
<1> QED BY <1>1, <1>2, TurnIs DEF Turn

-----------------------------------------------------------------------------
(* Turn after turn. *)

\* The bytes up to the offset are read when a turn begins.
At(bytes, offset, fragment, rows) ==
    \E n \in Nat : 4 * n <= offset /\ Loop(bytes)[n] = Good(offset, fragment, rows)

\* The last turn read a chunk, or there was none.
Past(bytes, offset, fragment, rows) ==
    \E n \in Nat : /\ 4 * n <= offset /\ (offset # 0 => 4 * n + 3 <= offset)
                   /\ Loop(bytes)[n] = Good(offset, fragment, rows)

\* The bytes of s are read like this, whatever comes after them.
Reaches(s, fragment, rows) == \A x \in Seq(Nat) : Past(s \o x, Len(s), fragment, rows)

LEMMA PastIsAt ==
    ASSUME NEW bytes, NEW offset, NEW fragment, NEW rows, Past(bytes, offset, fragment, rows)
    PROVE  At(bytes, offset, fragment, rows)
BY DEF Past, At

LEMMA NextTurn ==
    ASSUME NEW bytes \in Seq(Nat), NEW offset \in Nat, offset < Len(bytes),
           NEW fragment, NEW rows, NEW n \in Nat, 4 * n <= offset,
           Loop(bytes)[n] = Good(offset, fragment, rows)
    PROVE  /\ n + 1 \in 0 .. Turns(bytes)
           /\ Loop(bytes)[n + 1] = ReadChunk(bytes, Good(offset, fragment, rows))
<1>1. Len(bytes) \in Nat /\ Turns(bytes) \in Nat /\ n + 1 <= Turns(bytes)
  BY LenProperties, TurnsType
<1>2. n \in 0 .. (Turns(bytes) - 1) /\ n + 1 \in 0 .. Turns(bytes)
  BY <1>1
<1>3. Loop(bytes)[n + 1] = ReadChunk(bytes, Loop(bytes)[n])
  BY <1>2, LoopIs
<1> QED BY <1>2, <1>3

\* A turn reads a chunk.
LEMMA AtMoves ==
    ASSUME NEW bytes \in Seq(Nat), NEW offset \in Nat, offset < Len(bytes),
           NEW fragment, NEW rows, At(bytes, offset, fragment, rows),
           NEW offset2 \in Nat, offset + 7 <= offset2, NEW fragment2, NEW rows2,
           ReadChunk(bytes, Good(offset, fragment, rows)) =
               Good(offset2, fragment2, rows2)
    PROVE  Past(bytes, offset2, fragment2, rows2)
<1>1. PICK n \in Nat : 4 * n <= offset /\ Loop(bytes)[n] = Good(offset, fragment, rows)
  BY DEF At
<1>2. Loop(bytes)[n + 1] = Good(offset2, fragment2, rows2)
  BY <1>1, NextTurn
<1>3. n + 1 \in Nat /\ 4 * (n + 1) <= offset2 /\ 4 * (n + 1) + 3 <= offset2
  BY <1>1
<1> QED BY <1>2, <1>3 DEF Past

\* A turn after a chunk skips the rest of the block.
LEMMA AtSkips ==
    ASSUME NEW bytes \in Seq(Nat), NEW offset \in Nat, 0 < offset, offset < Len(bytes),
           NEW fragment, NEW rows, Past(bytes, offset, fragment, rows),
           NEW offset2 \in Nat, offset < offset2,
           ReadChunk(bytes, Good(offset, fragment, rows)) = Good(offset2, fragment, rows)
    PROVE  At(bytes, offset2, fragment, rows)
<1>1. PICK n \in Nat : 4 * n + 3 <= offset /\ Loop(bytes)[n] = Good(offset, fragment, rows)
  BY DEF Past
<1>2. 4 * n <= offset
  BY <1>1
<1>3. Loop(bytes)[n + 1] = Good(offset2, fragment, rows)
  BY <1>1, <1>2, NextTurn
<1>4. n + 1 \in Nat /\ 4 * (n + 1) <= offset2
  BY <1>1
<1> QED BY <1>3, <1>4 DEF At

\* The loop ends with a state like this.
Final(bytes, st) == ~st.ok \/ st.offset >= Len(bytes)

LEMMA FinalStays ==
    ASSUME NEW bytes \in Seq(Nat), NEW n \in 0 .. Turns(bytes), NEW st,
           Loop(bytes)[n] = st, Final(bytes, st)
    PROVE  ParseLevelDBLog(bytes) = st
<1>1. ReadChunk(bytes, st) = st
  BY DEF ReadChunk, Final
<1>2. Loop(bytes)[Turns(bytes)] = st
  BY <1>1, LoopStays
<1> QED BY <1>2 DEF ParseLevelDBLog

LEMMA AtStops ==
    ASSUME NEW bytes \in Seq(Nat), NEW offset \in Nat, offset < Len(bytes),
           NEW fragment, NEW rows, At(bytes, offset, fragment, rows), NEW st,
           ReadChunk(bytes, Good(offset, fragment, rows)) = st, Final(bytes, st)
    PROVE  ParseLevelDBLog(bytes) = st
<1>1. PICK n \in Nat : 4 * n <= offset /\ Loop(bytes)[n] = Good(offset, fragment, rows)
  BY DEF At
<1>2. n + 1 \in 0 .. Turns(bytes) /\ Loop(bytes)[n + 1] = st
  BY <1>1, NextTurn
<1> QED BY <1>2, FinalStays

LEMMA AtEnd ==
    ASSUME NEW bytes \in Seq(Nat), NEW fragment, NEW rows,
           At(bytes, Len(bytes), fragment, rows)
    PROVE  ParseLevelDBLog(bytes) = Good(Len(bytes), fragment, rows)
<1> DEFINE st == Good(Len(bytes), fragment, rows)
<1>1. PICK n \in Nat : 4 * n <= Len(bytes) /\ Loop(bytes)[n] = st
  BY DEF At
<1>2. Final(bytes, st)
  <2>1. st.offset = Len(bytes) /\ Len(bytes) >= Len(bytes)
    BY LenProperties DEF Good, Bad, Reading
  <2> HIDE DEF st
  <2> QED BY <2>1 DEF Final
<1> HIDE DEF st
<1>3. n \in 0 .. Turns(bytes)
  <2>1. Turns(bytes) \in Nat /\ n + 1 <= Turns(bytes)
    BY <1>1, TurnsType
  <2> QED BY <2>1
<1>4. ParseLevelDBLog(bytes) = st
  BY <1>1, <1>2, <1>3, FinalStays
<1> QED BY <1>4 DEF st

-----------------------------------------------------------------------------
(* What is written. *)

LEMMA PaddingIs ==
    ASSUME data \in Seq(Nat)
    PROVE  /\ Padding \in Seq(Nat) /\ Len(Padding) \in Nat
           /\ \/ Len(Padding) = 0
              \/ Len(Padding) = Left(Len(data)) /\ Len(Padding) \in 1 .. 6
           /\ Len(data) + Len(Padding) \in Nat
           /\ Left(Len(data) + Len(Padding)) >= 7
<1>1. Len(data) \in Nat
  BY LenProperties
<1> DEFINE left == Left(Len(data))
<1>2. left \in Nat /\ left \in 1 .. BlockBytes
  BY <1>1, BlockEndIs
<1>3. Left(Len(data) + left) = BlockBytes
  BY <1>1, NextBlock
<1>4. Padding = IF left < 7 THEN Zeros(left) ELSE << >>
  BY DEF Padding, Left
<1>5. Zeros(left) \in Seq(Nat) /\ Len(Zeros(left)) = left
  BY <1>2 DEF Zeros
<1>6. << >> \in Seq(Nat) /\ Len(<< >>) = 0
  OBVIOUS
<1> HIDE DEF left
<1>7. CASE left < 7
  <2>1. Padding \in Seq(Nat) /\ Len(Padding) = left /\ left \in 1 .. 6
    BY <1>2, <1>4, <1>5, <1>7
  <2> QED BY <1>1, <1>2, <1>3, <2>1, BlockNat DEF left
<1>8. CASE ~(left < 7)
  <2>1. Padding \in Seq(Nat) /\ Len(Padding) = 0
    BY <1>4, <1>6, <1>8
  <2>2. Len(data) + 0 = Len(data) /\ left >= 7
    BY <1>1, <1>2, <1>8
  <2> QED BY <1>1, <2>1, <2>2 DEF left
<1> QED BY <1>7, <1>8

\* Where the next chunk starts, what it holds and its type.
ChunkStart == Len(data) + Len(Padding)

ChunkPayload == SubSeq(pending, 1, Least(Left(ChunkStart) - 7, Len(pending)))

ChunkType ==
    IF chunks = 0 THEN IF Len(ChunkPayload) = Len(pending) THEN 1 ELSE 2
                  ELSE IF Len(ChunkPayload) = Len(pending) THEN 4 ELSE 3

Rest == SubSeq(pending, Len(Chunk) - 6, Len(pending))

LEMMA PayloadIs ==
    ASSUME data \in Seq(Nat), pending \in Seq(Nat)
    PROVE  /\ ChunkPayload \in Seq(Nat) /\ Len(ChunkPayload) \in 0 .. Len(pending)
           /\ Len(ChunkPayload) = Least(Left(ChunkStart) - 7, Len(pending))
           /\ 7 + Len(ChunkPayload) <= Left(ChunkStart)
           /\ ChunkPayload \o SubSeq(pending, Len(ChunkPayload) + 1, Len(pending)) = pending
<1>1. Len(pending) \in Nat /\ Left(ChunkStart) \in Nat /\ Left(ChunkStart) >= 7
  BY PaddingIs, LenProperties, BlockEndIs DEF ChunkStart
<1> DEFINE n == Least(Left(ChunkStart) - 7, Len(pending))
<1>2. n \in 0 .. Len(pending) /\ 7 + n <= Left(ChunkStart) /\ n \in Nat
  BY <1>1 DEF Least
<1> HIDE DEF n
<1>3. ChunkPayload = SubSeq(pending, 1, n)
  BY DEF ChunkPayload, n
<1>4. ChunkPayload \in Seq(Nat) /\ Len(ChunkPayload) = n
  <2>1. \A i \in 1 .. n : pending[i] \in Nat
    BY <1>1, <1>2, ElementOfSeq
  <2>2. /\ SubSeq(pending, 1, n) \in Seq(Nat)
        /\ Len(SubSeq(pending, 1, n)) = IF 1 <= n THEN n - 1 + 1 ELSE 0
    BY <1>2, <2>1, SubSeqProperties
  <2>3. Len(SubSeq(pending, 1, n)) = n
    BY <1>2, <2>2
  <2> QED BY <1>3, <2>2, <2>3
<1>5. SubSeq(pending, 1, n) \o SubSeq(pending, n + 1, Len(pending)) = pending
  <2>1. 1 \in 1 .. (Len(pending) + 1) /\ n \in (1 - 1) .. Len(pending) /\ Len(pending) \in n .. Len(pending)
    BY <1>1, <1>2
  <2>2. SubSeq(pending, 1, n) \o SubSeq(pending, n + 1, Len(pending)) = SubSeq(pending, 1, Len(pending))
    BY <2>1, ConcatAdjacentSubSeq
  <2> QED BY <2>2, SubSeqFull
<1> QED BY <1>2, <1>3, <1>4, <1>5 DEF n

\* A header and a payload.
ChunkBytes(n, t, u) == <<255, 255, 255, 255, n % 256, n \div 256, t>> \o u

IsChunk(c, n, t, u) ==
    /\ c \in Seq(Nat) /\ Len(c) = 7 + Len(u)
    /\ c[5] = n % 256 /\ c[6] = n \div 256 /\ c[7] = t
    /\ \A j \in 1 .. Len(u) : c[7 + j] = u[j]

LEMMA SevenBytes ==
    ASSUME NEW n \in Nat, NEW t \in Nat, NEW u \in Seq(Nat), NEW c, c = ChunkBytes(n, t, u)
    PROVE  IsChunk(c, n, t, u)
<1> PICK l : l = n % 256
  OBVIOUS
<1> PICK h : h = n \div 256
  OBVIOUS
<1>1. l \in Nat /\ h \in Nat /\ Len(u) \in Nat
  BY LenProperties
<1> DEFINE s == <<255, 255, 255, 255, l, h, t>>
           d == s \o u
<1>2. s \in Seq(Nat) /\ Len(s) = 7 /\ s[5] = l /\ s[6] = h /\ s[7] = t
  BY <1>1
<1> HIDE DEF s
<1>3. /\ d \in Seq(Nat) /\ Len(d) = Len(s) + Len(u)
      /\ \A i \in 1 .. Len(s) + Len(u) : d[i] = IF i <= Len(s) THEN s[i] ELSE u[i - Len(s)]
  <2>1. s \in Seq(Nat)
    BY <1>2
  <2> QED BY <2>1, ConcatProperties
<1> HIDE DEF d
<1>4. ASSUME NEW i \in 1 .. 7 PROVE d[i] = s[i]
  <2>1. i \in 1 .. Len(s) + Len(u) /\ i <= Len(s)
    BY <1>1, <1>2
  <2> QED BY <1>3, <2>1
<1>5. d[5] = l /\ d[6] = h /\ d[7] = t
  <2>1. 5 \in 1 .. 7 /\ 6 \in 1 .. 7 /\ 7 \in 1 .. 7
    OBVIOUS
  <2> QED BY <1>2, <1>4, <2>1
<1>6. ASSUME NEW j \in 1 .. Len(u) PROVE d[7 + j] = u[j]
  <2>1. 7 + j \in 1 .. Len(s) + Len(u) /\ ~(7 + j <= Len(s)) /\ (7 + j) - Len(s) = j
    BY <1>1, <1>2
  <2> QED BY <1>3, <2>1
<1>7. d \in Seq(Nat) /\ Len(d) = 7 + Len(u)
  BY <1>2, <1>3
<1>8. c = d
  BY DEF ChunkBytes, d, s
<1> QED BY <1>5, <1>6, <1>7, <1>8 DEF IsChunk

\* The next chunk, byte by byte.
LEMMA ChunkIs ==
    ASSUME data \in Seq(Nat), pending \in Seq(Nat), pending # << >>
    PROVE  /\ ChunkType \in 1 .. 4
           /\ Chunk \in Seq(Nat) /\ Len(Chunk) = 7 + Len(ChunkPayload)
           /\ Chunk[5] = Len(ChunkPayload) % 256 /\ Chunk[6] = Len(ChunkPayload) \div 256
           /\ Chunk[7] = ChunkType
           /\ \A j \in 1 .. Len(ChunkPayload) : Chunk[7 + j] = ChunkPayload[j]
           /\ Rest \in Seq(Nat) /\ ChunkPayload \o Rest = pending
           /\ Rest = << >> <=> Len(ChunkPayload) = Len(pending)
           /\ Rest = << >> => ChunkPayload = pending
<1> DEFINE n == Len(ChunkPayload)
<1>1. /\ ChunkPayload \in Seq(Nat) /\ n \in 0 .. Len(pending) /\ n \in Nat
      /\ n = Least(Left(ChunkStart) - 7, Len(pending))
      /\ ChunkPayload \o SubSeq(pending, n + 1, Len(pending)) = pending
      /\ Len(pending) \in Nat
  BY PayloadIs, LenProperties
<1>2. ChunkType \in 1 .. 4
  BY DEF ChunkType
<1>3. Chunk = ChunkBytes(n, ChunkType, ChunkPayload)
  <2> DEFINE N == Least(BlockBytes - ((Len(data) + Len(Padding)) % BlockBytes) - 7, Len(pending))
             type == IF chunks = 0 THEN IF N = Len(pending) THEN 1 ELSE 2
                                   ELSE IF N = Len(pending) THEN 4 ELSE 3
  <2>1. Chunk = <<255, 255, 255, 255, N % 256, N \div 256, type>> \o SubSeq(pending, 1, N)
    BY DEF Chunk
  <2>2. N = Least(Left(ChunkStart) - 7, Len(pending))
    BY DEF ChunkStart, Left
  <2> HIDE DEF N, type, n
  <2>3. N = n /\ SubSeq(pending, 1, N) = ChunkPayload
    BY <1>1, <2>2 DEF ChunkPayload
  <2>4. type = ChunkType
    BY <2>3 DEF ChunkType, type, n
  <2>5. Chunk = ChunkBytes(N, type, SubSeq(pending, 1, N))
    BY <2>1 DEF ChunkBytes
  <2> QED BY <2>3, <2>4, <2>5
<1> HIDE DEF n
<1>4. /\ Chunk \in Seq(Nat) /\ Len(Chunk) = 7 + Len(ChunkPayload)
      /\ Chunk[5] = n % 256 /\ Chunk[6] = n \div 256 /\ Chunk[7] = ChunkType
      /\ \A j \in 1 .. Len(ChunkPayload) : Chunk[7 + j] = ChunkPayload[j]
  <2> PICK u : u = ChunkPayload
    OBVIOUS
  <2> PICK k : k = ChunkType
    OBVIOUS
  <2> PICK c : c = Chunk
    OBVIOUS
  <2>1. n \in Nat /\ k \in Nat /\ u \in Seq(Nat) /\ c = ChunkBytes(n, k, u)
    BY <1>1, <1>2, <1>3
  <2>2. IsChunk(c, n, k, u)
    BY <2>1, SevenBytes
  <2> QED BY <2>2 DEF IsChunk
<1>5. Rest = SubSeq(pending, n + 1, Len(pending))
  <2>1. Len(Chunk) - 6 = n + 1
    BY <1>1, <1>4 DEF n
  <2> QED BY <2>1 DEF Rest
<1>6. Rest \in Seq(Nat) /\ Len(Rest) = Len(pending) - n
  <2>1. ASSUME NEW i \in (n + 1) .. Len(pending) PROVE pending[i] \in Nat
    <3>1. n \in Nat /\ Len(pending) \in Nat
      BY <1>1
    <3>2. i \in 1 .. Len(pending)
      BY <3>1
    <3> QED BY <3>2, ElementOfSeq
  <2>2. /\ Rest \in Seq(Nat)
        /\ Len(Rest) = IF n + 1 <= Len(pending) THEN Len(pending) - (n + 1) + 1 ELSE 0
    BY <1>1, <1>5, <2>1, SubSeqProperties
  <2>3. n \in 0 .. Len(pending) /\ Len(pending) \in Nat
    BY <1>1
  <2>4. (IF n + 1 <= Len(pending) THEN Len(pending) - (n + 1) + 1 ELSE 0) = Len(pending) - n
    BY <2>3
  <2> QED BY <2>2, <2>4
<1>7. Rest = << >> <=> n = Len(pending)
  BY <1>1, <1>6, EmptySeq
<1>8. ChunkPayload \o Rest = pending
  BY <1>1, <1>5
<1>9. Rest = << >> => ChunkPayload = pending
  BY <1>1, <1>8, ConcatEmptySeq
<1> QED BY <1>2, <1>4, <1>6, <1>7, <1>8, <1>9 DEF n

-----------------------------------------------------------------------------
(* Reading what is written. *)

LEMMA ShortPadding ==
    ASSUME NEW m \in Nat, NEW left \in 1 .. 6, NEW k, k = m + left
    PROVE  k \in Nat /\ m < k /\ m + 7 > k
OBVIOUS

\* The end of a block is skipped.
LEMMA AfterPadding ==
    ASSUME data \in Seq(Nat), NEW bytes \in Seq(Nat), ChunkStart <= Len(bytes),
           NEW fragment, NEW rows, Past(bytes, Len(data), fragment, rows)
    PROVE  At(bytes, ChunkStart, fragment, rows)
<1>1. /\ Len(data) \in Nat /\ Len(bytes) \in Nat /\ Len(Padding) \in Nat
      /\ Left(Len(data)) \in Nat
  BY PaddingIs, LenProperties, BlockEndIs
<1>2. CASE Len(Padding) = 0
  <2>1. ChunkStart = Len(data)
    BY <1>1, <1>2 DEF ChunkStart
  <2> QED BY <2>1, PastIsAt
<1>3. CASE Len(Padding) = Left(Len(data)) /\ Len(Padding) \in 1 .. 6
  <2>1. /\ ChunkStart = Len(data) + Left(Len(data)) /\ ChunkStart \in Nat
        /\ Len(data) < ChunkStart /\ Len(data) < Len(bytes) /\ Len(data) + 7 > ChunkStart
    <3>1. ChunkStart = Len(data) + Left(Len(data)) /\ Left(Len(data)) \in 1 .. 6
      BY <1>3 DEF ChunkStart
    <3>2. ChunkStart \in Nat /\ Len(data) < ChunkStart /\ Len(data) + 7 > ChunkStart
      BY <1>1, <3>1, ShortPadding
    <3> QED BY <1>1, <3>1, <3>2
  <2>2. Least(Len(data) + Left(Len(data)), Len(bytes)) = ChunkStart
    BY <1>1, <2>1 DEF Least
  <2>3. ReadChunk(bytes, Good(Len(data), fragment, rows)) =
            Good(ChunkStart, fragment, rows)
    <3>1. NoHeader(bytes, Len(data), ChunkStart)
      BY <2>1, <2>2 DEF NoHeader
    <3>2. Len(data) \in Nat
      BY <1>1
    <3> QED BY <3>1, <3>2, BlockEnds
  <2>4. Len(data) # 0
    <3>1. Left(0) = BlockBytes /\ BlockBytes >= 8
      BY BlockNat DEF Left
    <3> QED BY <1>3, <3>1
  <2> QED BY <1>1, <2>1, <2>3, <2>4, AtSkips
<1> QED BY <1>2, <1>3, PaddingIs

LEMMA HeaderThere ==
    ASSUME data \in Seq(Nat), pending \in Seq(Nat), pending # << >>,
           NEW bytes \in Seq(Nat), ChunkStart + 7 <= Len(bytes),
           \A j \in 1 .. 7 : bytes[ChunkStart + j] = Chunk[j]
    PROVE  Header(bytes, ChunkStart, Len(ChunkPayload), ChunkType)
<1>1. /\ Chunk[5] = Len(ChunkPayload) % 256 /\ Chunk[6] = Len(ChunkPayload) \div 256
      /\ Chunk[7] = ChunkType
  BY ChunkIs
<1>2. 5 \in 1 .. 7 /\ 6 \in 1 .. 7 /\ 7 \in 1 .. 7
  OBVIOUS
<1>3. /\ bytes[ChunkStart + 5] = Chunk[5] /\ bytes[ChunkStart + 6] = Chunk[6]
      /\ bytes[ChunkStart + 7] = Chunk[7]
  BY <1>2
<1>4. Left(ChunkStart) \in Nat /\ Left(ChunkStart) >= 7
  BY PaddingIs, BlockEndIs DEF ChunkStart
<1>5. 7 <= Left(ChunkStart)
  BY <1>4
<1> QED BY <1>1, <1>3, <1>5 DEF Header

\* Concatenation under a name, which the provers do not look into unless told.
Joined(s, t) == s \o t

SameGrouped(s, t, u, v) ==
    /\ ((s \o t) \o u) \o v = (s \o t) \o (u \o v)
    /\ (s \o t) \o (u \o v) = s \o (t \o (u \o v))

LEMMA Regrouped ==
    ASSUME NEW s \in Seq(Nat), NEW t \in Seq(Nat), NEW u \in Seq(Nat), NEW v \in Seq(Nat)
    PROVE  SameGrouped(s, t, u, v)
<1>1. \A x, y \in Seq(Nat) : Joined(x, y) \in Seq(Nat)
  BY ConcatProperties DEF Joined
<1>2. \A x, y, z \in Seq(Nat) : Joined(Joined(x, y), z) = Joined(x, Joined(y, z))
  BY Associative DEF Joined, Assoc
<1>3. /\ Joined(Joined(Joined(s, t), u), v) = Joined(Joined(s, t), Joined(u, v))
      /\ Joined(Joined(s, t), Joined(u, v)) = Joined(s, Joined(t, Joined(u, v)))
  BY <1>1, <1>2
<1> QED BY <1>3 DEF SameGrouped, Joined

\* A chunk that is appended is read, and nothing else.
LEMMA ChunkAppended ==
    ASSUME data \in Seq(Nat), pending \in Seq(Nat), pending # << >>,
           NEW fragment, NEW rows, Reaches(data, fragment, rows)
    PROVE  /\ data \o Padding \o Chunk \in Seq(Nat)
           /\ Reaches(data \o Padding \o Chunk, Fragment(fragment, ChunkType, ChunkPayload),
                      rows \o Completed(fragment, ChunkType, ChunkPayload))
<1>d. PICK d : d = data
  OBVIOUS
<1>p. PICK p : p = Padding
  OBVIOUS
<1>c. PICK c : c = Chunk
  OBVIOUS
<1>m. PICK m : m = ChunkStart
  OBVIOUS
<1>u. PICK u : u = ChunkPayload
  OBVIOUS
<1> DEFINE new == (d \o p) \o c
<1>1. /\ d \in Seq(Nat) /\ p \in Seq(Nat) /\ c \in Seq(Nat) /\ u \in Seq(Nat)
  BY <1>d, <1>p, <1>c, <1>m, <1>u, PaddingIs, ChunkIs, PayloadIs
<1>2. Len(d) \in Nat /\ Len(p) \in Nat /\ Len(c) \in Nat /\ Len(u) \in Nat
  BY <1>1, LenProperties
<1>3. /\ m = Len(d) + Len(p) /\ m \in Nat /\ Len(c) = 7 + Len(u) /\ 7 + Len(u) <= Left(m)
      /\ ChunkType \in 1 .. 4
  BY <1>d, <1>p, <1>c, <1>m, <1>u, <1>2, ChunkIs, PayloadIs DEF ChunkStart
<1>8. \A j \in 1 .. Len(u) : c[7 + j] = u[j]
  BY <1>d, <1>p, <1>c, <1>m, <1>u, ChunkIs
<1>4. d \o p \in Seq(Nat) /\ Len(d \o p) = m
  BY <1>1, <1>3, ConcatProperties
<1>5. new \in Seq(Nat) /\ Len(new) = m + Len(c)
  BY <1>1, <1>4, ConcatProperties
<1>6. ASSUME NEW x \in Seq(Nat)
      PROVE  Past(new \o x, Len(new), Fragment(fragment, ChunkType, u),
                  rows \o Completed(fragment, ChunkType, u))
  <2> DEFINE bytes == (d \o p) \o (c \o x)
  <2>2. c \o x \in Seq(Nat) /\ p \o (c \o x) \in Seq(Nat) /\ Len(x) \in Nat
    BY <1>1, ConcatProperties, LenProperties
  <2>1. new \o x = bytes /\ bytes = d \o (p \o (c \o x))
    <3>1. d \in Seq(Nat)
      BY <1>1
    <3>2. p \in Seq(Nat)
      BY <1>1
    <3>3. c \in Seq(Nat)
      BY <1>1
    <3>4. SameGrouped(d, p, c, x)
      BY <3>1, <3>2, <3>3, Regrouped
    <3> QED BY <3>4 DEF SameGrouped
  <2>3. bytes = d \o (p \o (c \o x))
    BY <2>1
  <2>4. /\ bytes \in Seq(Nat) /\ Len(bytes) = m + Len(c) + Len(x)
        /\ \A j \in 1 .. Len(c) : bytes[m + j] = c[j]
    <3> PICK s : s = d \o p
      OBVIOUS
    <3>1. s \in Seq(Nat) /\ Len(s) = m /\ c \in Seq(Nat)
      BY <1>1, <1>4
    <3>2. /\ s \o (c \o x) \in Seq(Nat)
          /\ Len(s \o (c \o x)) = Len(s) + Len(c) + Len(x)
          /\ \A j \in 1 .. Len(c) : (s \o (c \o x))[Len(s) + j] = c[j]
      <4>1. s \in Seq(Nat) /\ c \in Seq(Nat)
        BY <3>1
      <4> QED BY <4>1, Middle
    <3> QED BY <3>1, <3>2
  <2>5. Past(bytes, Len(d), fragment, rows)
    BY <1>d, <1>p, <1>c, <1>m, <1>u, <2>2, <2>3 DEF Reaches
  <2> HIDE DEF bytes
  <2>6. Len(bytes) \in Nat /\ m <= Len(bytes) /\ m + 7 <= Len(bytes) /\ m + 7 + Len(u) <= Len(bytes)
    <3>1. Len(bytes) = m + Len(c) + Len(x) /\ Len(c) = 7 + Len(u) /\ Len(x) \in Nat
      BY <1>3, <2>2, <2>4
    <3>2. m \in Nat /\ Len(u) \in Nat
      BY <1>2, <1>3
    <3> QED BY <3>1, <3>2
  <2>7. At(bytes, m, fragment, rows)
    BY <1>d, <1>p, <1>c, <1>m, <1>u, <2>4, <2>5, <2>6, AfterPadding
  <2>8. ASSUME NEW j \in 1 .. 7 PROVE bytes[m + j] = c[j]
    <3>1. j \in 1 .. Len(c)
      BY <1>2, <1>3
    <3> QED BY <2>4, <3>1
  <2>9. Header(bytes, m, Len(u), ChunkType)
    BY <1>d, <1>p, <1>c, <1>m, <1>u, <2>4, <2>6, <2>8, HeaderThere
  <2>10. ASSUME NEW j \in 1 .. Len(u) PROVE bytes[m + 7 + j] = u[j]
    <3>1. 7 + j \in 1 .. Len(c) /\ m + 7 + j = m + (7 + j)
      BY <1>2, <1>3
    <3>2. bytes[m + (7 + j)] = c[7 + j]
      BY <2>4, <3>1
    <3> QED BY <1>8, <3>1, <3>2
  <2>11. ReadChunk(bytes, Good(m, fragment, rows)) =
             ChunkTaken(m, fragment, rows, ChunkType, u)
    <3>1. ChunkThere(bytes, m, ChunkType, u)
      BY <1>3, <2>6, <2>9, <2>10 DEF ChunkThere
    <3>2. bytes \in Seq(Nat) /\ m \in Nat /\ ChunkType \in 1 .. 4 /\ u \in Seq(Nat)
      BY <1>1, <1>3, <2>4
    <3>3. bytes \in Seq(Nat)
      BY <3>2
    <3>4. m \in Nat
      BY <3>2
    <3>5. ChunkType \in 1 .. 4
      BY <3>2
    <3>6. u \in Seq(Nat)
      BY <3>2
    <3> QED BY <3>1, <3>3, <3>4, <3>5, <3>6, ChunkRead
  <2> HIDE DEF new
  <2>12. /\ m + 7 + Len(u) = Len(new) /\ Len(new) \in Nat /\ m + 7 <= Len(new) /\ m < Len(bytes)
    <3>1. Len(new) = m + Len(c) /\ Len(c) = 7 + Len(u) /\ m \in Nat /\ Len(u) \in Nat
      BY <1>2, <1>3, <1>5
    <3>2. Len(bytes) \in Nat /\ m + 7 <= Len(bytes)
      BY <2>6
    <3> QED BY <3>1, <3>2
  <2> DEFINE f2 == Fragment(fragment, ChunkType, u)
             r2 == rows \o Completed(fragment, ChunkType, u)
  <2>13. ReadChunk(bytes, Good(m, fragment, rows)) = Good(Len(new), f2, r2)
    BY <2>11, <2>12 DEF ChunkTaken
  <2> HIDE DEF f2, r2
  <2>14. Past(bytes, Len(new), f2, r2)
    BY <1>3, <2>4, <2>7, <2>12, <2>13, AtMoves
  <2> QED BY <2>1, <2>14 DEF f2, r2
<1> HIDE DEF new
<1>7. data \o Padding \o Chunk = new
  BY <1>d, <1>p, <1>c, <1>m, <1>u DEF new
<1> QED BY <1>u, <1>5, <1>6, <1>7 DEF Reaches

LEMMA ShortTail ==
    ASSUME NEW m \in Nat, NEW left \in 1 .. 6, NEW k \in Nat, 1 <= k, ~(m + left < m + k)
    PROVE  Least(m + left, m + k) = m + k /\ m < m + k /\ m + 7 > m + k
BY DEF Least

\* A part of a chunk, and of what precedes it, adds no row.
Torn(k) == data \o SubSeq(Padding \o Chunk, 1, k)

LEMMA TornChunk ==
    ASSUME data \in Seq(Nat), pending \in Seq(Nat), pending # << >>,
           NEW fragment, NEW rows, Reaches(data, fragment, rows),
           NEW k \in Nat, 1 <= k, k < Len(Padding \o Chunk),
           NEW bytes, bytes = Torn(k)
    PROVE  /\ bytes \in Seq(Nat)
           /\ ParseLevelDBLog(bytes).ok => ParseLevelDBLog(bytes).rows = rows
<1>d. PICK d : d = data
  OBVIOUS
<1>p. PICK p : p = Padding
  OBVIOUS
<1>c. PICK c : c = Chunk
  OBVIOUS
<1>m. PICK m : m = ChunkStart
  OBVIOUS
<1>u. PICK u : u = ChunkPayload
  OBVIOUS
<1> DEFINE whole == p \o c
           part == SubSeq(whole, 1, k)
<1>1. /\ d \in Seq(Nat) /\ p \in Seq(Nat) /\ c \in Seq(Nat) /\ u \in Seq(Nat)
  BY <1>d, <1>p, <1>c, <1>m, <1>u, PaddingIs, ChunkIs, PayloadIs
<1>2. Len(d) \in Nat /\ Len(p) \in Nat /\ Len(c) \in Nat /\ Len(u) \in Nat
  BY <1>1, LenProperties
<1>3. /\ m = Len(d) + Len(p) /\ m \in Nat /\ Len(c) = 7 + Len(u) /\ ChunkType \in 1 .. 4
      /\ Left(m) \in Nat /\ Left(m) >= 7
  BY <1>d, <1>p, <1>c, <1>m, <1>u, <1>2, ChunkIs, PaddingIs, BlockEndIs DEF ChunkStart
<1>4. /\ whole \in Seq(Nat) /\ Len(whole) = Len(p) + Len(c)
      /\ \A i \in 1 .. Len(p) + Len(c) : whole[i] = IF i <= Len(p) THEN p[i] ELSE c[i - Len(p)]
  BY <1>1, ConcatProperties
<1>5. k < Len(p) + Len(c)
  BY <1>p, <1>c, <1>4
<1> HIDE DEF whole
<1>6. /\ part \in Seq(Nat) /\ Len(part) = k
      /\ \A i \in 1 .. k : part[i] = whole[i]
  <2>1. ASSUME NEW i \in 1 .. k PROVE whole[i] \in Nat
    <3>1. i \in 1 .. Len(whole)
      BY <1>2, <1>4, <1>5
    <3> QED BY <1>4, <3>1, ElementOfSeq
  <2>2. /\ part \in Seq(Nat) /\ Len(part) = IF 1 <= k THEN k - 1 + 1 ELSE 0
        /\ \A i \in 1 .. k - 1 + 1 : part[i] = whole[1 + i - 1]
    BY <2>1, SubSeqProperties
  <2>3. k - 1 + 1 = k /\ \A i \in 1 .. k : 1 + i - 1 = i
    OBVIOUS
  <2> QED BY <2>2, <2>3
<1> HIDE DEF part
<1>7. /\ bytes \in Seq(Nat) /\ Len(bytes) = Len(d) + k
      /\ \A i \in 1 .. Len(d) + k : bytes[i] = IF i <= Len(d) THEN d[i] ELSE part[i - Len(d)]
  <2>0. d \in Seq(Nat) /\ part \in Seq(Nat) /\ bytes = d \o part
    BY <1>d, <1>p, <1>c, <1>m, <1>u, <1>1, <1>6 DEF part, whole, Torn
  <2>1. /\ bytes \in Seq(Nat) /\ Len(bytes) = Len(d) + Len(part)
        /\ \A i \in 1 .. Len(d) + Len(part) :
               bytes[i] = IF i <= Len(d) THEN d[i] ELSE part[i - Len(d)]
    <3>1. /\ d \o part \in Seq(Nat) /\ Len(d \o part) = Len(d) + Len(part)
          /\ \A i \in 1 .. Len(d) + Len(part) :
                 (d \o part)[i] = IF i <= Len(d) THEN d[i] ELSE part[i - Len(d)]
      BY <2>0, ConcatProperties
    <3> QED BY <2>0, <3>1
  <2> QED BY <1>6, <2>1
<1>8. Past(bytes, Len(d), fragment, rows)
  <2>1. part \in Seq(Nat) /\ bytes = d \o part
    BY <1>d, <1>p, <1>c, <1>m, <1>u, <1>6 DEF part, whole, Torn
  <2> QED BY <1>d, <2>1 DEF Reaches
<1>12. Len(bytes) = Len(d) + k /\ Len(bytes) \in Nat /\ bytes \in Seq(Nat)
  BY <1>2, <1>7
<1> DEFINE Result(st) == st.ok => st.rows = rows
<1>9. ASSUME m < Len(bytes) PROVE Result(ParseLevelDBLog(bytes))
  <2>1. At(bytes, m, fragment, rows)
    <3>1. m <= Len(bytes)
      BY <1>3, <1>9, <1>12
    <3> QED BY <1>d, <1>p, <1>c, <1>m, <1>u, <1>8, <1>12, <3>1, AfterPadding
  <2>2. CASE Len(bytes) < m + 7
    <3>1. Least(m + Left(m), Len(bytes)) = Len(bytes)
      BY <1>3, <1>12, <2>2 DEF Least
    <3> DEFINE st == Good(Len(bytes), fragment, rows)
    <3>2. ReadChunk(bytes, Good(m, fragment, rows)) = st
      <4>1. NoHeader(bytes, m, Len(bytes))
        BY <1>9, <2>2, <3>1 DEF NoHeader
      <4>2. m \in Nat /\ bytes \in Seq(Nat)
        BY <1>3, <1>12
      <4>3. PICK end : end = Len(bytes)
        OBVIOUS
      <4>4. NoHeader(bytes, m, end)
        BY <4>1, <4>3
      <4>5. ReadChunk(bytes, Good(m, fragment, rows)) = Good(end, fragment, rows)
        BY <4>2, <4>4, BlockEnds
      <4> QED BY <4>3, <4>5
    <3>3. Final(bytes, st) /\ Result(st)
      <4>1. st.offset = Len(bytes) /\ Len(bytes) >= Len(bytes) /\ st.rows = rows
        BY <1>12 DEF Good, Bad, Reading
      <4> HIDE DEF st
      <4> QED BY <4>1 DEF Final
    <3> HIDE DEF st, Result
    <3>4. ParseLevelDBLog(bytes) = st
      BY <1>3, <1>12, <1>9, <2>1, <3>2, <3>3, AtStops
    <3> QED BY <3>3, <3>4
  <2>3. CASE Len(bytes) >= m + 7
    <3>1. ASSUME NEW j \in 1 .. 7 PROVE bytes[m + j] = c[j]
      <4>1. /\ m + j \in 1 .. Len(d) + k /\ ~(m + j <= Len(d))
            /\ (m + j) - Len(d) = Len(p) + j /\ Len(p) + j \in 1 .. k
        <5>1. m = Len(d) + Len(p) /\ Len(d) + k >= m + 7
          BY <1>3, <1>12, <2>3
        <5> QED BY <1>2, <5>1
      <4>2. /\ Len(p) + j \in 1 .. Len(p) + Len(c) /\ ~(Len(p) + j <= Len(p))
            /\ (Len(p) + j) - Len(p) = j
        BY <1>2, <1>5, <4>1
      <4>3. bytes[m + j] = part[Len(p) + j]
        BY <1>7, <4>1
      <4>4. part[Len(p) + j] = whole[Len(p) + j]
        BY <1>6, <4>1
      <4>5. whole[Len(p) + j] = c[j]
        BY <1>4, <4>2
      <4> QED BY <4>3, <4>4, <4>5
    <3>2. m + 7 <= Len(bytes)
      BY <1>3, <1>12, <2>3
    <3>3. Header(bytes, m, Len(u), ChunkType)
      BY <1>d, <1>p, <1>c, <1>m, <1>u, <1>12, <3>1, <3>2, HeaderThere
    <3>4. m + 7 + Len(u) > Len(bytes)
      BY <1>2, <1>3, <1>5, <1>12
    <3> DEFINE st == Bad(m)
    <3>5. ReadChunk(bytes, Good(m, fragment, rows)) = st
      <4>1. ChunkEndsLater(bytes, m, Len(u), ChunkType)
        BY <3>3, <3>4 DEF ChunkEndsLater
      <4>2. m \in Nat /\ Len(u) \in Nat /\ ChunkType \in 1 .. 4
        BY <1>2, <1>3
      <4>3. bytes \in Seq(Nat)
        BY <1>12
      <4> QED BY <4>1, <4>2, <4>3, ChunkCut
    <3>6. Final(bytes, st) /\ Result(st)
      <4>1. st.ok = FALSE
        BY DEF Good, Bad, Reading
      <4> HIDE DEF st
      <4> QED BY <4>1 DEF Final
    <3> HIDE DEF st, Result
    <3>7. ParseLevelDBLog(bytes) = st
      BY <1>3, <1>12, <1>9, <2>1, <3>5, <3>6, AtStops
    <3> QED BY <3>6, <3>7
  <2> QED BY <1>3, <1>12, <2>2, <2>3
<1>10. ASSUME ~(m < Len(bytes)) PROVE Result(ParseLevelDBLog(bytes))
  <2>1. /\ Len(p) = Left(Len(d)) /\ Len(p) \in 1 .. 6
    <3>1. Len(p) # 0
      BY <1>2, <1>3, <1>10, <1>12
    <3> QED BY <1>d, <1>p, <1>c, <1>m, <1>u, <3>1, PaddingIs
  <2>2. /\ Least(Len(d) + Left(Len(d)), Len(bytes)) = Len(bytes)
        /\ Len(d) < Len(bytes) /\ Len(d) + 7 > Len(bytes)
    <3>1. Len(d) \in Nat /\ Left(Len(d)) \in 1 .. 6 /\ ~(Len(d) + Left(Len(d)) < Len(d) + k)
      BY <1>2, <1>3, <1>10, <1>12, <2>1
    <3>2. /\ Least(Len(d) + Left(Len(d)), Len(d) + k) = Len(d) + k
          /\ Len(d) < Len(d) + k /\ Len(d) + 7 > Len(d) + k
      BY <3>1, ShortTail
    <3> QED BY <1>12, <3>2
  <2> DEFINE st == Good(Len(bytes), fragment, rows)
  <2>3. ReadChunk(bytes, Good(Len(d), fragment, rows)) = st
    <3>1. NoHeader(bytes, Len(d), Len(bytes))
      BY <2>2 DEF NoHeader
    <3>2. Len(d) \in Nat /\ bytes \in Seq(Nat)
      BY <1>2, <1>12
    <3>3. PICK end : end = Len(bytes)
      OBVIOUS
    <3>4. PICK l : l = Len(d)
      OBVIOUS
    <3>5. NoHeader(bytes, l, end) /\ l \in Nat
      BY <3>1, <3>2, <3>3, <3>4
    <3>6. ReadChunk(bytes, Good(l, fragment, rows)) = Good(end, fragment, rows)
      BY <3>2, <3>5, BlockEnds
    <3> QED BY <3>3, <3>4, <3>6
  <2>4. Final(bytes, st) /\ Result(st)
    <3>1. st.offset = Len(bytes) /\ Len(bytes) >= Len(bytes) /\ st.rows = rows
      BY <1>12 DEF Good, Bad, Reading
    <3> HIDE DEF st
    <3> QED BY <3>1 DEF Final
  <2> HIDE DEF st, Result
  <2>5. ParseLevelDBLog(bytes) = st
    BY <1>2, <1>12, <1>8, <2>2, <2>3, <2>4, AtStops, PastIsAt
  <2> QED BY <2>4, <2>5
<1>11. Result(ParseLevelDBLog(bytes))
  <2> HIDE DEF Result
  <2> QED BY <1>9, <1>10
<1> QED BY <1>11, <1>12

-----------------------------------------------------------------------------
(* The invariant. *)

BatchRows == UNION {Range(RowsOf(b)) : b \in Batches}

LogType ==
    /\ data \in Seq(Nat)
    /\ batch = << >> \/ batch \in Batches
    /\ chunks \in Nat
    /\ written \in Seq(BatchRows)
    /\ torn \in BOOLEAN

\* The fragment that is read and what is pending make up the record under way.
InStep(fragment) ==
    /\ fragment \in Seq(Nat)
    /\ Reaches(data, fragment, written)
    /\ batch = << >> => fragment = << >>
    /\ batch # << >> => /\ pending \in Seq(Nat) /\ pending # << >>
                        /\ fragment \o pending = EncodedBatch(batch)
                        /\ chunks = 0 => fragment = << >>

WholeRead == ~torn => \E fragment : InStep(fragment)

TornRead == torn => ReadsWhatIsWhole

LogInv == LogType /\ WholeRead /\ TornRead

LEMMA RowsOfBatch ==
    ASSUME NEW b \in Batches
    PROVE  RowsOf(b) \in Seq(BatchRows) /\ b # << >>
<1>1. RowsOf(b) \in Seq(Rows) /\ Len(b) \in Nat \ {0}
  BY RowsOfType
<1>2. RowsOf(b) \in Seq(Range(RowsOf(b)))
  BY <1>1, SeqOfRange
<1>3. Range(RowsOf(b)) \subseteq BatchRows
  BY DEF BatchRows
<1>4. RowsOf(b) \in Seq(BatchRows)
  BY <1>2, <1>3, SeqMonotonic
<1>5. b # << >>
  BY <1>1, EmptySeq
<1> QED BY <1>4, <1>5

LEMMA LogInit == Init => LogInv
<1> SUFFICES ASSUME Init PROVE LogInv
  OBVIOUS
<1>1. data = << >> /\ batch = << >> /\ chunks = 0 /\ written = << >> /\ torn = FALSE
  BY DEF Init
<1>2. LogType
  <2>1. << >> \in Seq(Nat) /\ << >> \in Seq(BatchRows)
    BY EmptySeq
  <2> QED BY <1>1, <2>1 DEF LogType
<1>3. InStep(<< >>)
  <2>1. ASSUME NEW x \in Seq(Nat) PROVE Past(<< >> \o x, Len(<< >>), << >>, << >>)
    <3>1. << >> \o x = x
      BY ConcatEmptySeq
    <3>2. Loop(x)[0] = Good(0, << >>, << >>)
      BY LoopIs DEF Good
    <3>3. Len(<< >>) = 0
      OBVIOUS
    <3>4. Past(x, 0, << >>, << >>)
      BY <3>2 DEF Past
    <3> QED BY <3>1, <3>3, <3>4
  <2>2. << >> \in Seq(Nat) /\ Reaches(<< >>, << >>, << >>)
    BY <2>1 DEF Reaches
  <2> QED BY <1>1, <2>2 DEF InStep
<1> QED BY <1>1, <1>2, <1>3 DEF LogInv, WholeRead, TornRead

LEMMA LogBegin ==
    ASSUME LogInv, NEW b \in Batches, Begin(b)
    PROVE  LogInv'
<1>1. /\ batch = << >> /\ ~torn /\ batch' = b /\ pending' = EncodedBatch(b) /\ chunks' = 0
      /\ data' = data /\ written' = written /\ torn' = torn
  BY DEF Begin
<1>2. LogType'
  BY <1>1 DEF LogInv, LogType
<1>3. PICK fragment : InStep(fragment)
  BY <1>1 DEF LogInv, WholeRead
<1>4. fragment = << >> /\ fragment \in Seq(Nat) /\ Reaches(data, fragment, written)
  BY <1>1, <1>3 DEF InStep
<1>5. EncodedBatch(b) \in Seq(Nat) /\ EncodedBatch(b) # << >>
  <2>1. EncodedBatch(b) \in Seq(Nat) /\ Len(EncodedBatch(b)) >= 12
    BY BatchRead
  <2>2. Len(<< >>) = 0
    OBVIOUS
  <2> QED BY <2>1, <2>2
<1>6. << >> \o EncodedBatch(b) = EncodedBatch(b)
  BY <1>5, ConcatEmptySeq
<1>7. b # << >>
  BY RowsOfBatch
<1>8. InStep(fragment)'
  BY <1>1, <1>4, <1>5, <1>6, <1>7 DEF InStep
<1>9. WholeRead' /\ TornRead'
  BY <1>1, <1>8 DEF WholeRead, TornRead
<1> QED BY <1>2, <1>9 DEF LogInv

\* What a chunk of each type does.
LEMMA TypesOfChunk ==
    ASSUME NEW f, NEW u
    PROVE  /\ Fragment(f, 1, u) = f /\ Completed(f, 1, u) = ParseBatch(u)
           /\ Fragment(f, 2, u) = u /\ Completed(f, 2, u) = << >>
           /\ Fragment(f, 3, u) = f \o u /\ Completed(f, 3, u) = << >>
           /\ Fragment(f, 4, u) = << >> /\ Completed(f, 4, u) = ParseBatch(f \o u)
BY DEF Fragment, Completed

LEMMA LogWrite ==
    ASSUME LogInv, WriteChunk
    PROVE  LogInv'
<1>1. /\ batch # << >> /\ ~torn /\ data' = data \o Padding \o Chunk /\ pending' = Rest
      /\ torn' = torn
      /\ Rest = << >> => written' = written \o RowsOf(batch) /\ batch' = << >> /\ chunks' = 0
      /\ Rest # << >> => chunks' = chunks + 1 /\ written' = written /\ batch' = batch
  BY DEF WriteChunk, Rest
<1>2. /\ data \in Seq(Nat) /\ batch \in Batches /\ chunks \in Nat /\ written \in Seq(BatchRows)
      /\ torn \in BOOLEAN
  BY <1>1 DEF LogInv, LogType
<1>3. PICK fragment : InStep(fragment)
  BY <1>1 DEF LogInv, WholeRead
<1>4. /\ fragment \in Seq(Nat) /\ Reaches(data, fragment, written)
      /\ pending \in Seq(Nat) /\ pending # << >>
      /\ fragment \o pending = EncodedBatch(batch)
      /\ chunks = 0 => fragment = << >>
  BY <1>1, <1>3 DEF InStep
<1> DEFINE f2 == Fragment(fragment, ChunkType, ChunkPayload)
           more == Completed(fragment, ChunkType, ChunkPayload)
<1>5. data' \in Seq(Nat) /\ Reaches(data', f2, written \o more)
  BY <1>1, <1>2, <1>4, ChunkAppended
<1>6. /\ Rest \in Seq(Nat) /\ ChunkPayload \in Seq(Nat) /\ ChunkPayload \o Rest = pending
      /\ Rest = << >> <=> Len(ChunkPayload) = Len(pending)
      /\ Rest = << >> => ChunkPayload = pending
  BY <1>2, <1>4, ChunkIs, PayloadIs
<1>7. ParseBatch(EncodedBatch(batch)) = RowsOf(batch) /\ RowsOf(batch) \in Seq(BatchRows)
  BY <1>2, BatchRead, RowsOfBatch
<1>8. CASE Rest = << >>
  <2>1. f2 = << >> /\ more = RowsOf(batch)
    <3>1. CASE chunks = 0
      <4>1. ChunkType = 1 /\ fragment = << >> /\ ChunkPayload = pending
        BY <1>4, <1>6, <1>8, <3>1 DEF ChunkType
      <4>2. << >> \o pending = pending
        BY <1>4, ConcatEmptySeq
      <4> QED BY <1>4, <1>7, <4>1, <4>2, TypesOfChunk
    <3>2. CASE chunks # 0
      <4>1. ChunkType = 4 /\ ChunkPayload = pending
        BY <1>6, <1>8, <3>2 DEF ChunkType
      <4>2. f2 = << >> /\ more = ParseBatch(fragment \o ChunkPayload)
        BY <4>1, TypesOfChunk
      <4> QED BY <1>4, <1>7, <4>1, <4>2
    <3> QED BY <3>1, <3>2
  <2> HIDE DEF f2, more
  <2>2. written' \in Seq(BatchRows)
    BY <1>1, <1>2, <1>7, <1>8, ConcatProperties
  <2>3. LogType'
    BY <1>1, <1>2, <1>5, <1>8, <2>2 DEF LogType
  <2>4. Reaches(data', << >>, written')
    BY <1>1, <1>5, <1>8, <2>1
  <2>5. << >> \in Seq(Nat)
    OBVIOUS
  <2>6. InStep(<< >>)'
    BY <1>1, <1>8, <2>4, <2>5 DEF InStep
  <2>7. WholeRead' /\ TornRead'
    BY <1>1, <2>6 DEF WholeRead, TornRead
  <2> QED BY <2>3, <2>7 DEF LogInv
<1>9. CASE Rest # << >>
  <2>1. f2 \in Seq(Nat) /\ f2 \o Rest = EncodedBatch(batch) /\ more = << >>
    <3>1. CASE chunks = 0
      <4>1. ChunkType = 2 /\ fragment = << >>
        BY <1>4, <1>6, <1>9, <3>1 DEF ChunkType
      <4>2. << >> \o pending = pending
        BY <1>4, ConcatEmptySeq
      <4>3. f2 = ChunkPayload /\ more = << >>
        BY <4>1, TypesOfChunk
      <4> QED BY <1>4, <1>6, <4>1, <4>2, <4>3
    <3>2. CASE chunks # 0
      <4>1. ChunkType = 3
        BY <1>6, <1>9, <3>2 DEF ChunkType
      <4>2. f2 = fragment \o ChunkPayload /\ more = << >>
        BY <4>1, TypesOfChunk
      <4>3. f2 \in Seq(Nat)
        BY <1>4, <1>6, <4>2, ConcatProperties
      <4>4. Assoc(fragment, ChunkPayload, Rest)
        BY <1>4, <1>6, Associative
      <4> QED BY <1>4, <1>6, <4>2, <4>3, <4>4 DEF Assoc
    <3> QED BY <3>1, <3>2
  <2> HIDE DEF f2, more
  <2>2. LogType'
    BY <1>1, <1>2, <1>5, <1>9 DEF LogType
  <2>3. Reaches(data', f2, written')
    <3>1. written \o << >> = written
      BY <1>2, ConcatEmptySeq
    <3> QED BY <1>1, <1>5, <1>9, <2>1, <3>1
  <2>4. chunks' # 0
    BY <1>1, <1>2, <1>9
  <2>5. PICK g : g = f2
    OBVIOUS
  <2>6. /\ g \in Seq(Nat) /\ g \o Rest = EncodedBatch(batch) /\ Reaches(data', g, written')
        /\ pending' = Rest /\ Rest \in Seq(Nat) /\ batch' = batch
    BY <1>1, <1>6, <1>9, <2>1, <2>3, <2>5
  <2>7. InStep(g)'
    BY <1>1, <1>9, <2>4, <2>6 DEF InStep
  <2>8. WholeRead' /\ TornRead'
    BY <1>1, <2>7 DEF WholeRead, TornRead
  <2> QED BY <2>2, <2>8 DEF LogInv
<1> QED BY <1>8, <1>9

LEMMA LogTear ==
    ASSUME LogInv, NEW k \in 1 .. 2 * BlockBytes, Tear(k)
    PROVE  LogInv'
<1>1. /\ batch # << >> /\ ~torn /\ k < Len(Padding \o Chunk) /\ data' = Torn(k) /\ torn' = TRUE
      /\ batch' = batch /\ chunks' = chunks /\ written' = written
  BY DEF Tear, Torn
<1>2. data \in Seq(Nat) /\ batch \in Batches /\ chunks \in Nat /\ written \in Seq(BatchRows)
  BY <1>1 DEF LogInv, LogType
<1>3. PICK fragment : InStep(fragment)
  BY <1>1 DEF LogInv, WholeRead
<1>4. Reaches(data, fragment, written) /\ pending \in Seq(Nat) /\ pending # << >>
  BY <1>1, <1>3 DEF InStep
<1>5. k \in Nat /\ 1 <= k
  BY BlockNat
<1>6. PICK bytes : bytes = Torn(k)
  OBVIOUS
<1>7. /\ bytes \in Seq(Nat)
      /\ ParseLevelDBLog(bytes).ok => ParseLevelDBLog(bytes).rows = written
  BY <1>1, <1>2, <1>4, <1>5, <1>6, TornChunk
<1>8. data' \in Seq(Nat) /\ ReadsWhatIsWhole'
  BY <1>1, <1>6, <1>7 DEF ReadsWhatIsWhole, Read
<1>9. LogType'
  BY <1>1, <1>2, <1>8 DEF LogType
<1> QED BY <1>1, <1>8, <1>9 DEF LogInv, WholeRead, TornRead

\* The bytes of the records that are whole are read, whatever was written and wherever
\* the file ends: the invariant of the log.
THEOREM LogAlways == Spec => []LogInv
<1>1. Init => LogInv
  BY LogInit
<1>2. LogInv /\ [Next]_vars => LogInv'
  <2> SUFFICES ASSUME LogInv, [Next]_vars PROVE LogInv'
    OBVIOUS
  <2>1. CASE UNCHANGED vars
    BY <2>1 DEF vars, LogInv, LogType, WholeRead, InStep, TornRead, ReadsWhatIsWhole, Read
  <2>2. ASSUME NEW b \in Batches, Begin(b) PROVE LogInv'
    BY <2>2, LogBegin
  <2>3. CASE WriteChunk
    BY <2>3, LogWrite
  <2>4. ASSUME NEW k \in 1 .. 2 * BlockBytes, Tear(k) PROVE LogInv'
    BY <2>4, LogTear
  <2> QED BY <2>1, <2>2, <2>3, <2>4 DEF Next
<1> QED BY <1>1, <1>2, PTL DEF Spec

\* Between two writes all of the file is read.
LEMMA AllRead ==
    ASSUME LogInv, ~torn
    PROVE  Read.ok /\ Read.rows = written
<1>1. PICK fragment : InStep(fragment)
  BY DEF LogInv, WholeRead
<1>2. data \in Seq(Nat) /\ Reaches(data, fragment, written)
  BY <1>1 DEF LogInv, LogType, InStep
<1>3. At(data, Len(data), fragment, written)
  <2>1. << >> \in Seq(Nat) /\ data \o << >> = data
    BY <1>2, ConcatEmptySeq
  <2>2. Past(data \o << >>, Len(data), fragment, written)
    BY <1>2, <2>1 DEF Reaches
  <2> QED BY <2>1, <2>2, PastIsAt
<1>4. Read = Good(Len(data), fragment, written)
  BY <1>2, <1>3, AtEnd DEF Read
<1> QED BY <1>4 DEF Good, Reading

\* A reading that succeeds gives the rows of the whole records, in their order.
THEOREM WholeRecordsRead == Spec => []ReadsWhatIsWhole
<1>1. LogInv => ReadsWhatIsWhole
  BY AllRead DEF LogInv, TornRead, LogType, ReadsWhatIsWhole
<1> QED BY <1>1, LogAlways, PTL

\* Reading fails only when the file ends within a chunk.
THEOREM AlwaysReadable == Spec => []ReadableBetweenWrites
<1>1. LogInv => ReadableBetweenWrites
  BY AllRead DEF ReadableBetweenWrites
<1> QED BY <1>1, LogAlways, PTL

=============================================================================
