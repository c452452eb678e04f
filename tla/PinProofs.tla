----------------------------- MODULE PinProofs -----------------------------
(***************************************************************************)
(* `Pin` for every chunk capacity, every set of values and every number of *)
(* heap blocks: its length field counts what it holds, only the last chunk *)
(* may have room, and no step moves a value.                                *)
(***************************************************************************)
EXTENDS Pin, SequenceTheorems, TLAPS

IInv == TypeOK /\ LenIsCount

-----------------------------------------------------------------------------
\* What the last chunk and the chunks below it are, when there is one.
LEMMA TopProperties ==
  ASSUME TypeOK, chunks # <<>>
  PROVE  /\ Len(chunks) \in Nat \ {0}
         /\ Top \in Chunk
         /\ Top = chunks[Len(chunks)]
         /\ ChunkLen \in Nat
         /\ ChunkLen = Len(Top.vals)
<1>1. chunks \in Seq(Chunk) /\ Len(chunks) \in Nat \ {0}
  BY DEF TypeOK
<1>2. Top \in Chunk
  BY <1>1, ElementOfSeq DEF Top
<1>3. Top.vals \in Seq(Values) /\ Len(Top.vals) \in Nat
  BY <1>2 DEF Chunk
<1>4. QED
  BY <1>1, <1>2, <1>3 DEF Top, ChunkLen

\* Popping the last chunk keeps every other one as it is.
LEMMA BelowProperties ==
  ASSUME TypeOK, chunks # <<>>
  PROVE  /\ Below \in Seq(Chunk)
         /\ Len(Below) = Len(chunks) - 1
         /\ \A k \in 1..Len(chunks) - 1 : Below[k] = chunks[k]
<1>1. chunks \in Seq(Chunk) /\ Len(chunks) \in Nat \ {0}
  BY DEF TypeOK
<1> DEFINE n == Len(chunks) - 1
<1>2. n \in Nat /\ n <= Len(chunks)
  BY <1>1
<1>3. \A i \in 1..n : chunks[i] \in Chunk
  BY <1>1, <1>2, ElementOfSeq
<1>4. Below = SubSeq(chunks, 1, n)
  BY DEF Below
<1> HIDE DEF n
<1>5. /\ Below \in Seq(Chunk)
      /\ Len(Below) = n
      /\ \A i \in 1..n : Below[i] = chunks[i]
  BY <1>2, <1>3, <1>4, SubSeqProperties
<1>6. QED
  BY <1>5 DEF n

\* Rewriting the values of the last chunk keeps every other one as it is.
LEMMA WithTopProperties ==
  ASSUME TypeOK, chunks # <<>>, NEW vals \in Seq(Values)
  PROVE  /\ WithTop(vals) \in Seq(Chunk)
         /\ Len(WithTop(vals)) = Len(chunks)
         /\ \A k \in 1..Len(chunks) - 1 : WithTop(vals)[k] = chunks[k]
         /\ WithTop(vals)[Len(chunks)] = [buf |-> Top.buf, vals |-> vals]
<1>1. chunks \in Seq(Chunk) /\ Len(chunks) \in Nat \ {0}
  BY DEF TypeOK
<1>2. Top \in Chunk /\ Top = chunks[Len(chunks)]
  BY TopProperties
<1>3. [buf |-> Top.buf, vals |-> vals] \in Chunk
  BY <1>2 DEF Chunk
<1>4. QED
  BY <1>1, <1>3, ExceptSeq DEF WithTop

\* A prefix of a list of values.
LEMMA PrefixProperties ==
  ASSUME NEW s \in Seq(Values), NEW n \in 0..Len(s)
  PROVE  /\ SubSeq(s, 1, n) \in Seq(Values)
         /\ Len(SubSeq(s, 1, n)) = n
         /\ \A j \in 1..n : SubSeq(s, 1, n)[j] = s[j]
<1>1. \A j \in 1..n : s[j] \in Values
  BY ElementOfSeq
<1>2. QED
  BY <1>1, SubSeqProperties

\* One more chunk, or one less, in the count of what the chunks hold.
LEMMA ChunkProduct ==
  ASSUME NEW n \in Nat, NEW c \in Nat
  PROVE  n * c = (n - 1) * c + c /\ n * c \in Nat
OBVIOUS

-----------------------------------------------------------------------------
LEMMA InitIInv == New => IInv
BY EmptySeq DEF New, IInv, TypeOK, LenIsCount, FullBelowTop, WithinCapacity, OwnBuffers,
  Count, Idle, Ops, Calls

\* A push opens a chunk exactly when the last one is full.
LEMMA PushIInv ==
  ASSUME IInv, NEW d \in Values, Push(d)
  PROVE  IInv'
<1> USE ChunkAssumption
<1>0. TypeOK /\ LenIsCount /\ len \in Nat /\ chunks \in Seq(Chunk) /\ Len(chunks) \in Nat
  BY DEF IInv, TypeOK
<1>1. CASE HasRoom
  <2>0. chunks # <<>> /\ ChunkLen # CHUNK
    BY <1>1 DEF HasRoom
  <2>1. Top \in Chunk /\ Top.vals \in Seq(Values) /\ ChunkLen = Len(Top.vals) /\ Len(Top.vals) \in Nat
    BY <1>0, <2>0, TopProperties DEF Chunk
  <2> DEFINE vals == Append(Top.vals, d)
  <2>2. vals \in Seq(Values) /\ Len(vals) = Len(Top.vals) + 1
    BY <2>1, AppendProperties
  <2>3. chunks' = WithTop(vals) /\ len' = len + 1 /\ op' = op /\ call' = <<"push", d>>
        /\ answer' = <<Top.buf, Len(Top.vals) + 1>>
    BY <1>1 DEF Push
  <2> HIDE DEF vals
  <2>4. /\ chunks' \in Seq(Chunk)
        /\ Len(chunks') = Len(chunks)
        /\ \A k \in 1..Len(chunks) - 1 : chunks'[k] = chunks[k]
        /\ chunks'[Len(chunks)] = [buf |-> Top.buf, vals |-> vals]
    BY <1>0, <2>0, <2>2, <2>3, WithTopProperties
  <2>5. TypeOK'
    BY <1>0, <2>1, <2>3, <2>4 DEF TypeOK, Chunk, Calls
  <2>6. FullBelowTop' /\ WithinCapacity' /\ OwnBuffers'
    <3>1. Len(Top.vals) < CHUNK /\ Top = chunks[Len(chunks)]
      BY <1>0, <2>0, <2>1 DEF LenIsCount, WithinCapacity, Top
    <3>2. FullBelowTop'
      BY <1>0, <2>4 DEF LenIsCount, FullBelowTop
    <3>3. WithinCapacity'
      <4>1. Len(vals) <= CHUNK
        BY <2>1, <2>2, <3>1
      <4>2. chunks'[Len(chunks)].vals = vals
        BY <2>4
      <4>3. QED
        BY <1>0, <2>4, <4>1, <4>2 DEF LenIsCount, WithinCapacity
    <3>4. OwnBuffers'
      BY <1>0, <2>4, <3>1 DEF LenIsCount, OwnBuffers
    <3>5. QED
      BY <3>2, <3>3, <3>4
  <2>7. (len = Count(chunks))'
    <3> DEFINE base == (Len(chunks) - 1) * CHUNK
    <3>1. Len(chunks) \in Nat \ {0} /\ chunks' # <<>>
      BY <1>0, <2>0, <2>4
    <3>2. base \in Nat
      BY <3>1
    <3>3. len = base + Len(Top.vals)
      BY <1>0, <2>0 DEF LenIsCount, Count, Top
    <3>4. Count(chunks') = base + Len(vals)
      BY <2>4, <3>1 DEF Count
    <3> HIDE DEF base
    <3>5. len' = base + Len(vals)
      BY <2>1, <2>2, <2>3, <3>2, <3>3
    <3>6. QED
      BY <3>4, <3>5
  <2>8. QED
    BY <2>5, <2>6, <2>7 DEF IInv, LenIsCount
<1>2. CASE ~HasRoom
  <2>1. PICK b \in Free : chunks' = Append(chunks, [buf |-> b, vals |-> <<d>>])
                          /\ answer' = <<b, 1>> /\ len' = len + 1 /\ op' = op
                          /\ call' = <<"push", d>>
    BY <1>2 DEF Push
  <2>2. [buf |-> b, vals |-> <<d>>] \in Chunk /\ b \in Buffers
    BY <2>1 DEF Free, Chunk
  <2>3. /\ chunks' \in Seq(Chunk)
        /\ Len(chunks') = Len(chunks) + 1
        /\ \A k \in 1..Len(chunks) : chunks'[k] = chunks[k]
        /\ chunks'[Len(chunks) + 1] = [buf |-> b, vals |-> <<d>>]
    BY <1>0, <2>1, <2>2, AppendProperties
  <2>4. TypeOK'
    BY <1>0, <2>1, <2>2, <2>3 DEF TypeOK, Calls
  <2>5. \A k \in 1..Len(chunks) : chunks[k].buf # b
    BY <1>0, <2>1 DEF Free
  <2>6. \A k \in 1..Len(chunks) : Len(chunks[k].vals) = CHUNK
    BY <1>0, <1>2 DEF LenIsCount, FullBelowTop, HasRoom, ChunkLen, Top
  <2>7. len = Len(chunks) * CHUNK
    <3>1. CASE chunks = <<>>
      BY <1>0, <3>1 DEF LenIsCount, Count
    <3>2. CASE chunks # <<>>
      <4>1. Len(chunks) \in Nat \ {0}
        BY <1>0, <3>2
      <4>2. Len(chunks[Len(chunks)].vals) = CHUNK
        BY <4>1, <2>6
      <4>3. len = (Len(chunks) - 1) * CHUNK + CHUNK
        BY <1>0, <3>2, <4>2 DEF LenIsCount, Count
      <4>4. QED
        BY <4>1, <4>3, ChunkProduct
    <3>3. QED
      BY <3>1, <3>2
  <2>8. FullBelowTop' /\ WithinCapacity' /\ OwnBuffers'
    <3>1. FullBelowTop'
      BY <1>0, <2>3, <2>6 DEF FullBelowTop
    <3>2. WithinCapacity'
      <4>1. Len(<<d>>) <= CHUNK /\ chunks'[Len(chunks) + 1].vals = <<d>>
        BY <2>3
      <4>2. \A k \in 1..Len(chunks) : Len(chunks'[k].vals) = CHUNK
        BY <2>3, <2>6
      <4>3. ASSUME NEW k \in 1..Len(chunks) + 1
            PROVE  Len(chunks'[k].vals) <= CHUNK
        <5>1. CASE k = Len(chunks) + 1
          BY <4>1, <5>1
        <5>2. CASE k \in 1..Len(chunks)
          BY <4>2, <5>2
        <5>3. QED
          BY <1>0, <5>1, <5>2
      <4>4. QED
        BY <2>3, <4>3 DEF WithinCapacity
    <3>3. OwnBuffers'
      BY <1>0, <2>3, <2>5 DEF LenIsCount, OwnBuffers
    <3>4. QED
      BY <3>1, <3>2, <3>3
  <2>9. (len = Count(chunks))'
    <3>1. chunks' # <<>> /\ Len(chunks'[Len(chunks')].vals) = 1
      BY <1>0, <2>3
    <3>2. Count(chunks') = Len(chunks) * CHUNK + 1
      BY <1>0, <2>3, <3>1 DEF Count
    <3>3. QED
      BY <2>1, <2>7, <3>2
  <2>10. QED
    BY <2>4, <2>8, <2>9 DEF IInv, LenIsCount
<1>3. QED
  BY <1>1, <1>2

-----------------------------------------------------------------------------
\* A chunk popped whole takes exactly its values out of the count.
LEMMA BelowShape ==
  ASSUME IInv, chunks # <<>>, chunks' = Below
  PROVE  /\ chunks' \in Seq(Chunk)
         /\ FullBelowTop' /\ WithinCapacity' /\ OwnBuffers'
         /\ Count(chunks') = len - ChunkLen
<1> USE ChunkAssumption
<1>1. TypeOK /\ LenIsCount /\ len \in Nat /\ len = Count(chunks)
  BY DEF IInv, TypeOK, LenIsCount
<1>2. Len(chunks) \in Nat \ {0} /\ ChunkLen \in Nat /\ ChunkLen = Len(chunks[Len(chunks)].vals)
  BY <1>1, TopProperties
<1>3. /\ chunks' \in Seq(Chunk)
      /\ Len(chunks') = Len(chunks) - 1
      /\ \A k \in 1..Len(chunks) - 1 : chunks'[k] = chunks[k]
  BY <1>1, BelowProperties
<1>4. FullBelowTop'
  BY <1>1, <1>2, <1>3 DEF LenIsCount, FullBelowTop
<1>5. WithinCapacity'
  BY <1>1, <1>2, <1>3 DEF LenIsCount, WithinCapacity
<1>6. OwnBuffers'
  BY <1>1, <1>2, <1>3 DEF LenIsCount, OwnBuffers
<1>7. Count(chunks') = len - ChunkLen
  <2> DEFINE base == (Len(chunks) - 1) * CHUNK
  <2>1. len = base + ChunkLen /\ base \in Nat
    BY <1>1, <1>2 DEF Count
  <2>2. Count(chunks') = base
    <3>1. CASE Len(chunks) = 1
      BY <1>3, <3>1 DEF Count
    <3>2. CASE Len(chunks) # 1
      <4>1. Len(chunks) - 1 \in Nat \ {0} /\ chunks' # <<>>
        BY <1>2, <1>3, <3>2
      <4>2. Len(chunks'[Len(chunks')].vals) = CHUNK
        BY <1>1, <1>3, <4>1 DEF LenIsCount, FullBelowTop
      <4>3. Count(chunks') = (Len(chunks) - 1 - 1) * CHUNK + CHUNK
        BY <1>3, <4>1, <4>2 DEF Count
      <4>4. QED
        BY <4>1, <4>3, ChunkProduct
    <3>3. QED
      BY <3>1, <3>2
  <2> HIDE DEF base
  <2>3. QED
    BY <1>1, <1>2, <2>1, <2>2
<1>8. QED
  BY <1>3, <1>4, <1>5, <1>6, <1>7

\* The last chunk cut to m of its values takes the others out of the count.
LEMMA CutShape ==
  ASSUME IInv, chunks # <<>>, NEW m \in 0..ChunkLen,
         chunks' = WithTop(SubSeq(Top.vals, 1, m))
  PROVE  /\ chunks' \in Seq(Chunk)
         /\ FullBelowTop' /\ WithinCapacity' /\ OwnBuffers'
         /\ Count(chunks') = len - ChunkLen + m
<1> USE ChunkAssumption
<1>1. TypeOK /\ LenIsCount /\ len \in Nat /\ len = Count(chunks)
  BY DEF IInv, TypeOK, LenIsCount
<1>2. /\ Len(chunks) \in Nat \ {0} /\ ChunkLen \in Nat /\ ChunkLen = Len(Top.vals)
      /\ Top = chunks[Len(chunks)] /\ Top.vals \in Seq(Values)
  BY <1>1, TopProperties DEF Chunk
<1> DEFINE vals == SubSeq(Top.vals, 1, m)
<1>3. vals \in Seq(Values) /\ Len(vals) = m
  BY <1>2, PrefixProperties
<1> HIDE DEF vals
<1>4. /\ chunks' \in Seq(Chunk)
      /\ Len(chunks') = Len(chunks)
      /\ \A k \in 1..Len(chunks) - 1 : chunks'[k] = chunks[k]
      /\ chunks'[Len(chunks)] = [buf |-> Top.buf, vals |-> vals]
  BY <1>1, <1>3, WithTopProperties DEF vals
<1>5. chunks'[Len(chunks)].vals = vals /\ chunks'[Len(chunks)].buf = Top.buf
  BY <1>4
<1>6. FullBelowTop'
  BY <1>1, <1>4 DEF LenIsCount, FullBelowTop
<1>7. WithinCapacity'
  <2>1. m <= CHUNK
    BY <1>1, <1>2 DEF LenIsCount, WithinCapacity
  <2>2. ASSUME NEW k \in 1..Len(chunks)
        PROVE  Len(chunks'[k].vals) <= CHUNK
    <3>1. CASE k = Len(chunks)
      BY <1>3, <1>5, <2>1, <3>1
    <3>2. CASE k \in 1..Len(chunks) - 1
      BY <1>1, <1>4, <3>2 DEF LenIsCount, WithinCapacity
    <3>3. QED
      BY <1>2, <3>1, <3>2
  <2>3. QED
    BY <1>4, <2>2 DEF WithinCapacity
<1>8. OwnBuffers'
  BY <1>1, <1>2, <1>4, <1>5 DEF LenIsCount, OwnBuffers
<1>9. Count(chunks') = len - ChunkLen + m
  <2> DEFINE base == (Len(chunks) - 1) * CHUNK
  <2>1. len = base + ChunkLen /\ base \in Nat
    BY <1>1, <1>2 DEF Count
  <2>2. Count(chunks') = base + m
    BY <1>2, <1>3, <1>4, <1>5 DEF Count
  <2>3. m \in Nat /\ ChunkLen \in Nat
    BY <1>2
  <2> HIDE DEF base
  <2>4. len - ChunkLen + m = base + m
    BY <2>1, <2>3
  <2>5. QED
    BY <2>2, <2>4
<1>10. QED
  BY <1>4, <1>6, <1>7, <1>8, <1>9

\* The operations that only start or end, and the step that does nothing.
LEMMA UntouchedIInv ==
  ASSUME IInv, UNCHANGED <<chunks, len>>, op' \in Ops, call' \in Calls,
         answer' \in Values \union (Buffers \X Nat) \union {None}
  PROVE  IInv'
BY DEF IInv, TypeOK, LenIsCount, FullBelowTop, WithinCapacity, OwnBuffers

LEMMA StepIInv ==
  ASSUME IInv, Step
  PROVE  IInv'
<1>1. /\ TypeOK /\ len \in Nat /\ len = Count(chunks) /\ op \in Ops /\ call \in Calls
      /\ answer \in Values \union (Buffers \X Nat) \union {None}
  BY DEF IInv, TypeOK, LenIsCount
<1>2. Idle \in Ops /\ [kind |-> "take_last"] \in Ops
  BY DEF Idle, Ops
<1>3. CASE DropChunk
  <2>1. len > op.to /\ op.to \in Nat /\ len >= op.to + ChunkLen
        /\ chunks' = Below /\ len' = len - ChunkLen /\ op' = op /\ call' = call
        /\ answer' = answer
    BY <1>1, <1>3 DEF DropChunk, Truncating, Ops
  <2>2. chunks # <<>>
    BY <1>1, <2>1 DEF Count
  <2>3. ChunkLen \in Nat
    BY <1>1, <2>2, TopProperties
  <2>4. chunks' \in Seq(Chunk) /\ FullBelowTop' /\ WithinCapacity' /\ OwnBuffers'
        /\ Count(chunks') = len - ChunkLen
    BY <2>1, <2>2, BelowShape
  <2>5. len' \in Nat /\ len' = Count(chunks')
    BY <1>1, <2>1, <2>3, <2>4
  <2>6. QED
    BY <1>1, <2>1, <2>4, <2>5 DEF IInv, TypeOK, LenIsCount
<1>4. CASE CutChunk
  <2>1. len > op.to /\ op.to \in Nat /\ len < op.to + ChunkLen
        /\ chunks' = WithTop(SubSeq(Top.vals, 1, ChunkLen + op.to - len))
        /\ len' = op.to /\ op' = op /\ call' = call /\ answer' = answer
    BY <1>1, <1>4 DEF CutChunk, Truncating, Ops
  <2>2. chunks # <<>>
    BY <1>1, <2>1 DEF Count
  <2>3. ChunkLen \in Nat
    BY <1>1, <2>2, TopProperties
  <2> DEFINE m == ChunkLen + op.to - len
  <2>4. m \in 0..ChunkLen /\ len - ChunkLen + m = op.to
    BY <1>1, <2>1, <2>3
  <2>5. chunks' = WithTop(SubSeq(Top.vals, 1, m))
    BY <2>1
  <2> HIDE DEF m
  <2>6. chunks' \in Seq(Chunk) /\ FullBelowTop' /\ WithinCapacity' /\ OwnBuffers'
        /\ Count(chunks') = len - ChunkLen + m
    BY <2>2, <2>4, <2>5, CutShape
  <2>7. QED
    BY <1>1, <2>1, <2>4, <2>6 DEF IInv, TypeOK, LenIsCount
<1>5. CASE Truncated
  BY <1>1, <1>2, <1>5, UntouchedIInv DEF Truncated
<1>6. CASE DropEmpty
  <2>1. chunks # <<>> /\ Top.vals = <<>> /\ chunks' = Below /\ len' = len /\ op' = op
        /\ call' = call /\ answer' = answer
    BY <1>6 DEF DropEmpty
  <2>2. ChunkLen = 0
    BY <1>1, <2>1, TopProperties
  <2>3. chunks' \in Seq(Chunk) /\ FullBelowTop' /\ WithinCapacity' /\ OwnBuffers'
        /\ Count(chunks') = len - ChunkLen
    BY <2>1, BelowShape
  <2>4. len' \in Nat /\ len' = Count(chunks')
    BY <1>1, <2>1, <2>2, <2>3
  <2>5. QED
    BY <1>1, <2>1, <2>3, <2>4 DEF IInv, TypeOK, LenIsCount
<1>7. CASE PopValue
  <2>1. chunks # <<>> /\ Top.vals # <<>> /\ len' = len - 1 /\ op' = Idle /\ call' = call
        /\ chunks' = WithTop(SubSeq(Top.vals, 1, ChunkLen - 1))
        /\ answer' = Top.vals[ChunkLen]
    BY <1>7 DEF PopValue
  <2>2. Top.vals \in Seq(Values) /\ ChunkLen = Len(Top.vals) /\ ChunkLen \in Nat \ {0}
    BY <1>1, <2>1, TopProperties DEF Chunk
  <2>3. answer' \in Values
    BY <2>1, <2>2, ElementOfSeq
  <2> DEFINE m == ChunkLen - 1
  <2>4. m \in 0..ChunkLen /\ len - ChunkLen + m = len - 1
    BY <1>1, <2>2
  <2>5. chunks' = WithTop(SubSeq(Top.vals, 1, m))
    BY <2>1
  <2> HIDE DEF m
  <2>6. chunks' \in Seq(Chunk) /\ FullBelowTop' /\ WithinCapacity' /\ OwnBuffers'
        /\ Count(chunks') = len - ChunkLen + m
    BY <2>1, <2>4, <2>5, CutShape
  <2>7. len >= ChunkLen
    <3> DEFINE base == (Len(chunks) - 1) * CHUNK
    <3>1. Len(chunks) \in Nat \ {0} /\ ChunkLen = Len(chunks[Len(chunks)].vals)
      BY <1>1, <2>1, TopProperties
    <3>2. base \in Nat
      BY <3>1, ChunkAssumption, ChunkProduct
    <3>3. len = base + ChunkLen
      BY <1>1, <2>1, <3>1 DEF Count
    <3> HIDE DEF base
    <3>4. QED
      BY <2>2, <3>2, <3>3
  <2>8. len' \in Nat /\ len' = Count(chunks')
    BY <1>1, <2>1, <2>2, <2>4, <2>6, <2>7
  <2>9. QED
    BY <1>1, <1>2, <2>1, <2>3, <2>6, <2>8 DEF IInv, TypeOK, LenIsCount
<1>8. CASE NothingToTake
  BY <1>1, <1>2, <1>8, UntouchedIInv DEF NothingToTake
<1>9. QED
  BY <1>3, <1>4, <1>5, <1>6, <1>7, <1>8 DEF Step

LEMMA NextIInv == IInv /\ [Next]_vars => IInv'
<1> SUFFICES ASSUME IInv, [Next]_vars PROVE IInv'
  OBVIOUS
<1>1. /\ op \in Ops /\ call \in Calls /\ len \in Nat
      /\ answer \in Values \union (Buffers \X Nat) \union {None}
  BY DEF IInv, TypeOK
<1>2. ASSUME NEW d \in Values, Push(d) PROVE IInv'
  BY <1>2, PushIInv
<1>3. ASSUME NEW n \in 0..MaxLen, Truncate(n) PROVE IInv'
  <2>1. [kind |-> "truncate", to |-> n] \in Ops /\ <<"truncate", n>> \in Calls
    BY MaxLenAssumption DEF Ops, Calls
  <2>2. QED
    BY <1>1, <1>3, <2>1, UntouchedIInv DEF Truncate
<1>4. ASSUME NEW n \in 0..MaxLen, TakeAt(n) PROVE IInv'
  <2>1. /\ [kind |-> "take_at", to |-> n + 1] \in Ops
        /\ <<"take_at", n>> \in Calls
    BY MaxLenAssumption DEF Ops, Calls
  <2>2. QED
    BY <1>1, <1>4, <2>1, UntouchedIInv DEF TakeAt
<1>5. CASE TakeLast
  <2>1. [kind |-> "take_last"] \in Ops /\ <<"take_last">> \in Calls
    BY DEF Ops, Calls
  <2>2. QED
    BY <1>1, <1>5, <2>1, UntouchedIInv DEF TakeLast
<1>6. CASE Step
  BY <1>6, StepIInv
<1>7. CASE Renew
  <2>1. New'
    BY <1>7 DEF Renew, New, Idle
  <2>2. QED
    BY <2>1, EmptySeq DEF New, IInv, TypeOK, LenIsCount, FullBelowTop, WithinCapacity,
      OwnBuffers, Count, Idle, Ops, Calls
<1>8. CASE UNCHANGED vars
  BY <1>1, <1>8, UntouchedIInv DEF vars
<1>9. QED
  BY <1>2, <1>3, <1>4, <1>5, <1>6, <1>7, <1>8 DEF Next

-----------------------------------------------------------------------------
\* `len` counts the values held and never wraps, whatever the order of pushes, truncations
\* and takes: the store's fields are well typed in every reachable state.
THEOREM PinTypeOK == Spec => []TypeOK
<1>1. IInv => TypeOK
  BY DEF IInv
<1>2. QED
  BY <1>1, InitIInv, NextIInv, PTL DEF Spec

\* Every chunk below the last is full, no two chunks share a heap block and `len` is the
\* number of values in them.
THEOREM PinLenIsCount == Spec => []LenIsCount
<1>1. IInv => LenIsCount
  BY DEF IInv
<1>2. QED
  BY <1>1, InitIInv, NextIInv, PTL DEF Spec

-----------------------------------------------------------------------------
\* The body of the action property, for the proof action by action.
InPlace ==
  \A k \in DOMAIN chunks \intersect DOMAIN chunks' :
    /\ chunks'[k].buf = chunks[k].buf
    /\ \A j \in DOMAIN chunks[k].vals \intersect DOMAIN chunks'[k].vals :
         chunks'[k].vals[j] = chunks[k].vals[j]

LEMMA BelowInPlace ==
  ASSUME TypeOK, chunks # <<>>, chunks' = Below
  PROVE  InPlace
<1>1. chunks \in Seq(Chunk) /\ Len(chunks) \in Nat \ {0}
  BY DEF TypeOK
<1>2. chunks' \in Seq(Chunk) /\ Len(chunks') = Len(chunks) - 1
      /\ \A k \in 1..Len(chunks) - 1 : chunks'[k] = chunks[k]
  BY BelowProperties
<1>3. QED
  BY <1>1, <1>2 DEF InPlace

\* A step that rewrites only the values of the last chunk, agreeing with them where both
\* are defined.
LEMMA WithTopInPlace ==
  ASSUME TypeOK, chunks # <<>>, NEW vals \in Seq(Values), chunks' = WithTop(vals),
         \A j \in DOMAIN Top.vals \intersect DOMAIN vals : vals[j] = Top.vals[j]
  PROVE  InPlace
<1>1. chunks \in Seq(Chunk) /\ Len(chunks) \in Nat \ {0} /\ Top = chunks[Len(chunks)]
  BY TopProperties DEF TypeOK
<1>2. /\ chunks' \in Seq(Chunk)
      /\ Len(chunks') = Len(chunks)
      /\ \A k \in 1..Len(chunks) - 1 : chunks'[k] = chunks[k]
      /\ chunks'[Len(chunks)] = [buf |-> Top.buf, vals |-> vals]
  BY WithTopProperties
<1>3. chunks'[Len(chunks)].buf = Top.buf /\ chunks'[Len(chunks)].vals = vals
  BY <1>2
<1>4. DOMAIN chunks = 1..Len(chunks) /\ DOMAIN chunks' = 1..Len(chunks)
  BY <1>1, <1>2
<1>5. ASSUME NEW k \in 1..Len(chunks)
      PROVE  /\ chunks'[k].buf = chunks[k].buf
             /\ \A j \in DOMAIN chunks[k].vals \intersect DOMAIN chunks'[k].vals :
                  chunks'[k].vals[j] = chunks[k].vals[j]
  <2>1. CASE k = Len(chunks)
    BY <1>1, <1>3, <2>1
  <2>2. CASE k \in 1..Len(chunks) - 1
    BY <1>2, <2>2
  <2>3. QED
    BY <1>1, <2>1, <2>2
<1>6. QED
  BY <1>4, <1>5 DEF InPlace

LEMMA CutInPlace ==
  ASSUME TypeOK, chunks # <<>>, NEW m \in 0..ChunkLen,
         chunks' = WithTop(SubSeq(Top.vals, 1, m))
  PROVE  InPlace
<1>1. Top.vals \in Seq(Values) /\ ChunkLen = Len(Top.vals)
  BY TopProperties DEF Chunk
<1>2. /\ SubSeq(Top.vals, 1, m) \in Seq(Values)
      /\ Len(SubSeq(Top.vals, 1, m)) = m
      /\ \A j \in 1..m : SubSeq(Top.vals, 1, m)[j] = Top.vals[j]
  BY <1>1, PrefixProperties
<1>3. DOMAIN SubSeq(Top.vals, 1, m) = 1..m
  BY <1>2
<1>4. QED
  BY <1>2, <1>3, WithTopInPlace

LEMMA PushInPlace ==
  ASSUME IInv, NEW d \in Values, Push(d)
  PROVE  InPlace
<1>1. TypeOK /\ chunks \in Seq(Chunk) /\ Len(chunks) \in Nat
  BY DEF IInv, TypeOK
<1>2. CASE HasRoom
  <2>1. chunks # <<>>
    BY <1>2 DEF HasRoom
  <2>2. Top.vals \in Seq(Values)
    BY <1>1, <2>1, TopProperties DEF Chunk
  <2>3. /\ Append(Top.vals, d) \in Seq(Values)
        /\ \A j \in 1..Len(Top.vals) : Append(Top.vals, d)[j] = Top.vals[j]
        /\ DOMAIN Top.vals = 1..Len(Top.vals)
    BY <2>2, AppendProperties
  <2>4. chunks' = WithTop(Append(Top.vals, d))
    BY <1>2 DEF Push
  <2>5. QED
    BY <1>1, <2>1, <2>3, <2>4, WithTopInPlace
<1>3. CASE ~HasRoom
  <2>1. PICK b \in Free : chunks' = Append(chunks, [buf |-> b, vals |-> <<d>>])
    BY <1>3 DEF Push
  <2>2. [buf |-> b, vals |-> <<d>>] \in Chunk
    BY <2>1 DEF Free, Chunk
  <2>3. Len(chunks') = Len(chunks) + 1 /\ \A k \in 1..Len(chunks) : chunks'[k] = chunks[k]
    BY <1>1, <2>1, <2>2, AppendProperties
  <2>4. DOMAIN chunks = 1..Len(chunks)
    BY <1>1
  <2>5. QED
    BY <2>3, <2>4 DEF InPlace
<1>4. QED
  BY <1>2, <1>3

LEMMA NextInPlace == IInv /\ [Next]_vars => InPlace \/ UNCHANGED vars
<1> SUFFICES ASSUME IInv, [Next]_vars, ~UNCHANGED vars PROVE InPlace
  OBVIOUS
<1>1. TypeOK /\ LenIsCount /\ len \in Nat /\ op \in Ops /\ len = Count(chunks)
  BY DEF IInv, TypeOK, LenIsCount
<1>2. ASSUME chunks' = chunks PROVE InPlace
  BY <1>2 DEF InPlace
<1>3. ASSUME NEW d \in Values, Push(d) PROVE InPlace
  BY <1>3, PushInPlace
<1>4. CASE DropChunk
  <2>1. chunks # <<>> /\ chunks' = Below
    BY <1>1, <1>4 DEF DropChunk, Truncating, Ops, Count
  <2>2. QED
    BY <1>1, <2>1, BelowInPlace
<1>5. CASE CutChunk
  <2>1. len > op.to /\ op.to \in Nat /\ len < op.to + ChunkLen
        /\ chunks' = WithTop(SubSeq(Top.vals, 1, ChunkLen + op.to - len))
    BY <1>1, <1>5 DEF CutChunk, Truncating, Ops
  <2>2. chunks # <<>>
    BY <1>1, <2>1 DEF Count
  <2>3. ChunkLen \in Nat
    BY <1>1, <2>2, TopProperties
  <2>4. ChunkLen + op.to - len \in 0..ChunkLen
    BY <1>1, <2>1, <2>3
  <2>5. QED
    BY <1>1, <2>1, <2>2, <2>4, CutInPlace
<1>6. CASE DropEmpty
  BY <1>1, <1>6, BelowInPlace DEF DropEmpty
<1>7. CASE PopValue
  <2>1. chunks # <<>> /\ Top.vals # <<>>
        /\ chunks' = WithTop(SubSeq(Top.vals, 1, ChunkLen - 1))
    BY <1>7 DEF PopValue
  <2>2. ChunkLen - 1 \in 0..ChunkLen
    BY <1>1, <2>1, TopProperties DEF Chunk
  <2>3. QED
    BY <1>1, <2>1, <2>2, CutInPlace
<1>8. CASE Renew
  <2>1. DOMAIN chunks' = {}
    BY <1>8 DEF Renew
  <2>2. QED
    BY <2>1 DEF InPlace
<1>9. QED
  BY <1>2, <1>3, <1>4, <1>5, <1>6, <1>7, <1>8
     DEF Next, Step, Truncate, TakeAt, TakeLast, Truncated, NothingToTake, vars

\* No step of the store moves or rewrites a value that it goes on holding: the raw pointers
\* that the frames carry stay good until the value is dropped.
THEOREM PinNeverMoves == Spec => NeverMoves
<1>1. InPlace \/ UNCHANGED vars =>
        [\A k \in DOMAIN chunks \intersect DOMAIN chunks' :
           /\ chunks'[k].buf = chunks[k].buf
           /\ \A j \in DOMAIN chunks[k].vals \intersect DOMAIN chunks'[k].vals :
                chunks'[k].vals[j] = chunks[k].vals[j]]_vars
  BY DEF InPlace
<1>2. QED
  BY <1>1, InitIInv, NextIInv, NextInPlace, PTL DEF Spec, NeverMoves
-----------------------------------------------------------------------------
(* The refinement. *)

LEMMA ProductGrows ==
  ASSUME NEW c \in Nat, NEW a \in Nat, NEW b \in Nat, a < b
  PROVE  a * c + c <= b * c
<1>1. b - a - 1 \in Nat /\ b = a + 1 + (b - a - 1)
  OBVIOUS
<1>2. b * c = a * c + c + (b - a - 1) * c
  BY <1>1
<1>3. (b - a - 1) * c \in Nat
  BY <1>1, ChunkProduct
<1>4. a * c \in Nat /\ b * c \in Nat
  BY ChunkProduct
<1> QED BY <1>2, <1>3, <1>4

\* The `i`-th of the values that lie in chunks of `c`.
LEMMA Division ==
  ASSUME NEW c \in Nat \ {0}, NEW q \in Nat, NEW r \in Nat, r < c
  PROVE  (q * c + r) \div c = q /\ (q * c + r) % c = r
<1> DEFINE x == q * c + r
           d == x \div c
           m == x % c
<1>1. x \in Nat /\ q * c \in Nat
  BY ChunkProduct
<1>2. d \in Nat /\ m \in Nat /\ m < c /\ x = c * d + m
  BY <1>1
<1>3. c * d = d * c /\ d * c \in Nat
  BY <1>2, ChunkProduct
<1>4. x = d * c + m
  BY <1>2, <1>3
<1>5. x = q * c + r
  OBVIOUS
<1> HIDE DEF x, d, m
<1>6. ~(d < q)
  BY <1>1, <1>2, <1>3, <1>4, <1>5, ProductGrows
<1>7. ~(q < d)
  BY <1>1, <1>2, <1>3, <1>4, <1>5, ProductGrows
<1>8. d = q
  BY <1>2, <1>6, <1>7
<1>9. m = r
  BY <1>1, <1>2, <1>3, <1>4, <1>5, <1>8
<1> QED BY <1>8, <1>9 DEF d, m, x

Spot == [val : Values, at : Buffers \X (1..CHUNK)]

\* Every index below `len` is that of a value in some chunk.
LEMMA SpotOf ==
  ASSUME IInv, NEW i \in 1..len
  PROVE  /\ ((i - 1) \div CHUNK) + 1 \in 1..Len(chunks)
         /\ ((i - 1) % CHUNK) + 1 \in 1..Len(chunks[((i - 1) \div CHUNK) + 1].vals)
         /\ ((i - 1) % CHUNK) + 1 \in 1..CHUNK
<1> DEFINE k == ((i - 1) \div CHUNK) + 1
           j == ((i - 1) % CHUNK) + 1
           n == Len(chunks)
<1>1. TypeOK /\ LenIsCount /\ len \in Nat /\ len = Count(chunks) /\ chunks \in Seq(Chunk)
  BY DEF IInv, TypeOK, LenIsCount
<1>2. chunks # <<>>
  BY <1>1 DEF Count
<1>3. n \in Nat \ {0} /\ ChunkLen \in Nat /\ ChunkLen = Len(chunks[n].vals)
  BY <1>1, <1>2, TopProperties
<1>4. CHUNK \in Nat \ {0} /\ i - 1 \in Nat
  BY ChunkAssumption
<1>5. /\ k - 1 \in Nat /\ j - 1 \in Nat /\ k \in Nat /\ j \in Nat /\ j - 1 < CHUNK
      /\ i - 1 = CHUNK * (k - 1) + (j - 1)
  BY <1>4
<1>6. CHUNK * (k - 1) = (k - 1) * CHUNK /\ (k - 1) * CHUNK \in Nat
  BY <1>4, <1>5, ChunkProduct
<1> DEFINE base == (n - 1) * CHUNK
           mine == (k - 1) * CHUNK
<1>7. base \in Nat /\ mine \in Nat
  BY <1>3, <1>4, <1>6, ChunkProduct
<1>8. len = base + ChunkLen
  BY <1>1, <1>2, <1>3 DEF Count
<1>9. i - 1 = mine + (j - 1)
  BY <1>5, <1>6
<1>10. ChunkLen <= CHUNK
  BY <1>1, <1>3 DEF LenIsCount, WithinCapacity
<1>11. n - 1 < k - 1 => base + CHUNK <= mine
  BY <1>3, <1>4, <1>5, ProductGrows
<1>12. k - 1 = n - 1 => mine = base
  OBVIOUS
<1> HIDE DEF base, mine, k, j, n
<1>13. k <= n
  <2> SUFFICES ASSUME n < k PROVE FALSE
    BY <1>3, <1>5
  <2>1. n - 1 < k - 1
    BY <1>3, <1>5
  <2>2. base + CHUNK <= mine
    BY <1>11, <2>1
  <2> QED BY <1>3, <1>4, <1>5, <1>7, <1>8, <1>9, <1>10, <2>2
<1>14. k \in 1..n /\ j \in 1..CHUNK
  BY <1>3, <1>4, <1>5, <1>13
<1>15. j \in 1..Len(chunks[k].vals)
  <2>1. CASE k < n
    <3>1. k \in 1..n - 1
      BY <1>3, <1>14, <2>1
    <3>2. Len(chunks[k].vals) = CHUNK
      BY <1>1, <3>1 DEF LenIsCount, FullBelowTop, n
    <3> QED BY <1>14, <3>2
  <2>2. CASE k = n
    <3>1. mine = base
      BY <1>12, <2>2
    <3>2. j \in Nat /\ j >= 1 /\ j <= ChunkLen
      BY <1>3, <1>5, <1>7, <1>8, <1>9, <1>14, <3>1
    <3> QED BY <1>3, <2>2, <3>2
  <2> QED BY <1>3, <1>5, <1>13, <2>1, <2>2
<1> QED BY <1>14, <1>15 DEF k, j, n

LEMMA FlatProperties ==
  ASSUME IInv
  PROVE  /\ Flat \in Seq(Spot) /\ Len(Flat) = len /\ len \in Nat
<1>1. len \in Nat /\ chunks \in Seq(Chunk)
  BY DEF IInv, TypeOK
<1>2. ASSUME NEW i \in 1..len PROVE Flat[i] \in Spot
  <2> DEFINE k == ((i - 1) \div CHUNK) + 1
             j == ((i - 1) % CHUNK) + 1
  <2>1. k \in 1..Len(chunks) /\ j \in 1..Len(chunks[k].vals) /\ j \in 1..CHUNK
    BY SpotOf
  <2>2. Flat[i] = [val |-> chunks[k].vals[j], at |-> <<chunks[k].buf, j>>]
    BY DEF Flat
  <2> HIDE DEF k, j
  <2>3. chunks[k] \in Chunk
    BY <1>1, <2>1, ElementOfSeq
  <2>4. chunks[k].vals \in Seq(Values) /\ chunks[k].buf \in Buffers
    BY <2>3 DEF Chunk
  <2>5. chunks[k].vals[j] \in Values
    BY <2>1, <2>4, ElementOfSeq
  <2> QED BY <2>1, <2>2, <2>4, <2>5 DEF Spot
<1>3. DOMAIN Flat = 1..len
  BY DEF Flat
<1>4. Flat = [i \in 1..len |-> Flat[i]]
  BY DEF Flat
<1> QED BY <1>1, <1>2, <1>3, <1>4, IsASeq

\* The last value.
LEMMA FlatLast ==
  ASSUME IInv, chunks # <<>>, Top.vals # <<>>
  PROVE  len > 0 /\ Flat[len] = [val |-> Top.vals[ChunkLen], at |-> <<Top.buf, ChunkLen>>]
<1> DEFINE n == Len(chunks)
           base == (n - 1) * CHUNK
<1>1. TypeOK /\ LenIsCount /\ len \in Nat /\ len = Count(chunks) /\ CHUNK \in Nat \ {0}
  BY ChunkAssumption DEF IInv, TypeOK, LenIsCount
<1>2. /\ n \in Nat \ {0} /\ ChunkLen \in Nat /\ ChunkLen = Len(Top.vals) /\ Top = chunks[n]
      /\ Top.vals \in Seq(Values)
  BY <1>1, TopProperties DEF Chunk
<1>3. ChunkLen > 0
  BY <1>2, EmptySeq
<1>4. ChunkLen <= CHUNK
  BY <1>1, <1>2 DEF LenIsCount, WithinCapacity
<1>5. len = base + ChunkLen
  BY <1>1, <1>2 DEF Count
<1>6. base \in Nat
  BY <1>1, <1>2, ChunkProduct
<1>7. ChunkLen - 1 \in Nat /\ ChunkLen - 1 < CHUNK /\ n - 1 \in Nat
  BY <1>1, <1>2, <1>3, <1>4
<1>8. (base + (ChunkLen - 1)) \div CHUNK = n - 1 /\ (base + (ChunkLen - 1)) % CHUNK = ChunkLen - 1
  BY <1>1, <1>7, Division
<1> HIDE DEF base, n
<1>9. len - 1 = base + (ChunkLen - 1) /\ len > 0 /\ len \in 1..len
  BY <1>1, <1>2, <1>3, <1>5, <1>6
<1>10. ((len - 1) \div CHUNK) + 1 = n /\ ((len - 1) % CHUNK) + 1 = ChunkLen
  BY <1>2, <1>8, <1>9
<1> QED BY <1>2, <1>9, <1>10 DEF Flat

\* These facts as one predicate, to be used of the state before a step and after it.
FlatOK ==
  /\ Flat \in Seq(Spot) /\ Len(Flat) = len /\ len \in Nat /\ chunks \in Seq(Chunk)
  /\ \A i \in 1..len :
       /\ ((i - 1) \div CHUNK) + 1 \in 1..Len(chunks)
       /\ ((i - 1) % CHUNK) + 1 \in 1..Len(chunks[((i - 1) \div CHUNK) + 1].vals)
  /\ chunks # <<>> /\ Top.vals # <<>> =>
       len > 0 /\ Flat[len] = [val |-> Top.vals[ChunkLen], at |-> <<Top.buf, ChunkLen>>]

LEMMA AlwaysFlatOK == IInv => FlatOK
<1> SUFFICES ASSUME IInv PROVE FlatOK
  OBVIOUS
<1>1. chunks \in Seq(Chunk)
  BY DEF IInv, TypeOK
<1> QED BY <1>1, SpotOf, FlatProperties, FlatLast DEF FlatOK

\* Where nothing moves, the values held before and after are the same.
LEMMA FlatKept ==
  ASSUME FlatOK, FlatOK', InPlace, NEW i \in 1..len, i <= len'
  PROVE  Flat'[i] = Flat[i]
<1> DEFINE k == ((i - 1) \div CHUNK) + 1
           j == ((i - 1) % CHUNK) + 1
<1>1. k \in 1..Len(chunks) /\ j \in 1..Len(chunks[k].vals)
  BY DEF FlatOK
<1>2. i \in 1..len'
  BY DEF FlatOK
<1>3. k \in 1..Len(chunks') /\ j \in 1..Len(chunks'[k].vals)
  BY <1>2 DEF FlatOK
<1>4. Flat[i] = [val |-> chunks[k].vals[j], at |-> <<chunks[k].buf, j>>]
  BY DEF Flat
<1>5. Flat'[i] = [val |-> chunks'[k].vals[j], at |-> <<chunks'[k].buf, j>>]
  BY <1>2 DEF Flat
<1> HIDE DEF k, j
<1>6. chunks \in Seq(Chunk) /\ chunks' \in Seq(Chunk)
  BY DEF FlatOK
<1>7. chunks[k].vals \in Seq(Values) /\ chunks'[k].vals \in Seq(Values)
  <2>1. chunks[k] \in Chunk /\ chunks'[k] \in Chunk
    BY <1>1, <1>3, <1>6, ElementOfSeq
  <2> QED BY <2>1 DEF Chunk
<1>8. /\ DOMAIN chunks = 1..Len(chunks) /\ DOMAIN chunks' = 1..Len(chunks')
      /\ DOMAIN chunks[k].vals = 1..Len(chunks[k].vals)
      /\ DOMAIN chunks'[k].vals = 1..Len(chunks'[k].vals)
  BY <1>6, <1>7, LenProperties
<1> QED BY <1>1, <1>3, <1>4, <1>5, <1>8 DEF InPlace

\* What is taken out at an index is still there.
RefInv == op.kind = "take_at" => op.to \in 1..len

LEMMA RefNext == IInv /\ RefInv /\ [Next]_vars => RefInv'
<1> SUFFICES ASSUME IInv, RefInv, [Next]_vars PROVE RefInv'
  OBVIOUS
<1>1. TypeOK /\ len \in Nat /\ op \in Ops /\ len = Count(chunks)
  BY DEF IInv, TypeOK, LenIsCount
<1>2. ASSUME NEW d \in Values, Push(d) PROVE RefInv'
  BY <1>1, <1>2 DEF Push, RefInv, Idle
<1>3. ASSUME NEW n \in 0..MaxLen, Truncate(n) \/ TakeAt(n) PROVE RefInv'
  BY <1>1, <1>3, MaxLenAssumption DEF Truncate, TakeAt, RefInv, Idle
<1>4. CASE DropChunk
  <2>1. chunks # <<>> /\ ChunkLen \in Nat
    BY <1>1, <1>4, TopProperties DEF DropChunk, Truncating, Ops, Count
  <2> QED BY <1>1, <1>4, <2>1 DEF DropChunk, RefInv, Truncating, Ops
<1>5. CASE CutChunk
  BY <1>1, <1>5 DEF CutChunk, RefInv
<1>6. CASE Truncated \/ DropEmpty \/ PopValue \/ NothingToTake \/ TakeLast \/ Renew \/ UNCHANGED vars
  BY <1>6 DEF Truncated, DropEmpty, PopValue, NothingToTake, TakeLast, Renew, vars, RefInv, Idle
<1> QED BY <1>2, <1>3, <1>4, <1>5, <1>6 DEF Next, Step

\* What the caller sees is a prefix of what is held.
ItemsOK ==
  /\ Kept \in 0..len /\ Items \in Seq(Spot) /\ Len(Items) = Kept
  /\ \A i \in 1..Kept : Items[i] = Flat[i]

LEMMA AlwaysItemsOK == IInv /\ RefInv => ItemsOK
<1> SUFFICES ASSUME IInv, RefInv PROVE ItemsOK
  OBVIOUS
<1>1. len \in Nat /\ op \in Ops /\ Flat \in Seq(Spot) /\ Len(Flat) = len
  BY FlatProperties DEF IInv, TypeOK
<1>2. op.kind = "truncate" => op.to \in Nat
  BY <1>1 DEF Ops
<1>3. Kept \in 0..len
  BY <1>1, <1>2 DEF Kept, RefInv, Max0
<1>4. \A i \in 1..Kept : Flat[i] \in Spot
  BY <1>1, <1>3, ElementOfSeq
<1>5. /\ SubSeq(Flat, 1, Kept) \in Seq(Spot)
      /\ Len(SubSeq(Flat, 1, Kept)) = IF 1 <= Kept THEN Kept - 1 + 1 ELSE 0
      /\ \A i \in 1..(Kept - 1 + 1) : SubSeq(Flat, 1, Kept)[i] = Flat[1 + i - 1]
  BY <1>1, <1>3, <1>4, SubSeqProperties
<1>6. Kept - 1 + 1 = Kept /\ (~(1 <= Kept) => Kept = 0) /\ \A i \in 1..Kept : 1 + i - 1 = i
  BY <1>1, <1>3
<1> QED BY <1>3, <1>5, <1>6 DEF ItemsOK, Items

LEMMA ItemsSame ==
  ASSUME FlatOK, FlatOK', ItemsOK, ItemsOK', InPlace, Kept' = Kept
  PROVE  Items' = Items
<1>1. len \in Nat /\ len' \in Nat /\ Kept \in Nat /\ Kept <= len /\ Kept <= len'
  BY DEF FlatOK, ItemsOK
<1>2. \A i \in 1..Kept : Flat'[i] = Flat[i]
  BY <1>1, FlatKept
<1>3. /\ Items \in Seq(Spot) /\ Items' \in Seq(Spot) /\ Len(Items') = Len(Items) /\ Len(Items) = Kept
      /\ \A i \in 1..Kept : Items'[i] = Items[i]
  BY <1>2 DEF ItemsOK
<1> QED BY <1>3, SeqEqual

\* A prefix of what the caller sees.
LEMMA ItemsCut ==
  ASSUME FlatOK, FlatOK', ItemsOK, ItemsOK', InPlace, Kept' \in 0..Kept
  PROVE  Items' = SubSeq(Items, 1, Kept')
<1>1. len \in Nat /\ len' \in Nat /\ Kept \in Nat /\ Kept' \in Nat /\ Kept' <= Kept /\ Kept <= len /\ Kept' <= len'
  BY DEF FlatOK, ItemsOK
<1>2. \A i \in 1..Kept' : Flat'[i] = Flat[i]
  BY <1>1, FlatKept
<1>3. /\ Items \in Seq(Spot) /\ Items' \in Seq(Spot) /\ Len(Items') = Kept' /\ Len(Items) = Kept
      /\ \A i \in 1..Kept' : Items'[i] = Items[i]
  BY <1>1, <1>2 DEF ItemsOK
<1> DEFINE n == Kept'
<1>4. n \in Nat /\ n <= Len(Items)
  BY <1>1, <1>3
<1>5. \A i \in 1..n : Items[i] \in Spot
  BY <1>1, <1>3, <1>4, ElementOfSeq
<1> HIDE DEF n
<1>6. /\ SubSeq(Items, 1, n) \in Seq(Spot)
      /\ Len(SubSeq(Items, 1, n)) = IF 1 <= n THEN n - 1 + 1 ELSE 0
      /\ \A i \in 1..(n - 1 + 1) : SubSeq(Items, 1, n)[i] = Items[1 + i - 1]
  BY <1>4, <1>5, SubSeqProperties
<1>7. Len(SubSeq(Items, 1, n)) = n /\ \A i \in 1..n : SubSeq(Items, 1, n)[i] = Items[i]
  BY <1>4, <1>6
<1>8. Len(Items') = n /\ \A i \in 1..n : Items'[i] = Items[i]
  BY <1>3 DEF n
<1>9. Items' = SubSeq(Items, 1, n)
  BY <1>3, <1>6, <1>7, <1>8, SeqEqual
<1> QED BY <1>9 DEF n

\* All of it, before and after a step.
Here == IInv /\ RefInv /\ FlatOK /\ ItemsOK

LEMMA HereAlways == IInv /\ RefInv => Here
BY AlwaysFlatOK, AlwaysItemsOK DEF Here

LEMMA HereTypes ==
  ASSUME Here
  PROVE  /\ len \in Nat /\ Kept \in Nat /\ Kept <= len /\ op \in Ops
         /\ Items \in Seq(Spot) /\ Len(Items) = Kept
         /\ op = Idle => Kept = len
         /\ op.kind \in {"truncate", "take_at"} => op.to \in Nat
BY DEF Here, IInv, TypeOK, FlatOK, ItemsOK, Kept, Idle, Ops

LEMMA PushSimulates ==
  ASSUME Here, Here', NEW d \in Values, Push(d)
  PROVE  Stack!Push(d)
<1>0. /\ op = Idle /\ op' = Idle /\ len' = len + 1 /\ call' = <<"push", d>> /\ CHUNK \in Nat \ {0}
  BY ChunkAssumption DEF Push
<1>1. InPlace
  BY PushInPlace DEF Here
<1>2. /\ TypeOK /\ LenIsCount /\ chunks \in Seq(Chunk) /\ len \in Nat /\ len' \in Nat
      /\ Len(chunks) \in Nat
  BY LenProperties DEF Here, IInv, TypeOK
<1>3. Kept = len /\ Kept' = len'
  BY <1>0 DEF Kept, Idle
<1>4. Answer' = answer'
  BY <1>0 DEF Answer, Idle
<1>5. \A i \in 1..len : Items'[i] = Items[i]
  <2>1. \A i \in 1..len : i \in 1..len'
    BY <1>0, <1>2
  <2>2. \A i \in 1..len : Items'[i] = Flat'[i] /\ Items[i] = Flat[i]
    BY <1>3, <2>1 DEF Here, ItemsOK
  <2>3. \A i \in 1..len : Flat'[i] = Flat[i]
    BY <1>0, <1>1, <1>2, FlatKept DEF Here
  <2> QED BY <2>2, <2>3
<1>6. \A i \in 1..len : \E k \in 1..Len(chunks) : \E j \in 1..Len(chunks[k].vals) :
        Items[i].at = <<chunks[k].buf, j>>
  <2> SUFFICES ASSUME NEW i \in 1..len
               PROVE  \E k \in 1..Len(chunks) : \E j \in 1..Len(chunks[k].vals) :
                        Items[i].at = <<chunks[k].buf, j>>
    OBVIOUS
  <2> DEFINE k == ((i - 1) \div CHUNK) + 1
             j == ((i - 1) % CHUNK) + 1
  <2>1. k \in 1..Len(chunks) /\ j \in 1..Len(chunks[k].vals)
    BY DEF Here, FlatOK
  <2>2. Flat[i] = [val |-> chunks[k].vals[j], at |-> <<chunks[k].buf, j>>]
    BY DEF Flat
  <2>3. Items[i] = Flat[i]
    BY <1>3 DEF Here, ItemsOK
  <2> HIDE DEF k, j
  <2>4. Items[i].at = <<chunks[k].buf, j>>
    BY <2>2, <2>3
  <2> QED BY <2>1, <2>4
<1>7. /\ Items'[len'] = [val |-> d, at |-> answer']
      /\ answer' \in Buffers \X (1..CHUNK)
      /\ \A i \in 1..len : Items[i].at # answer'
  <2>0. Items'[len'] = Flat'[len']
    BY <1>0, <1>2, <1>3 DEF Here, ItemsOK
  <2>1. CASE HasRoom
    <3>1. chunks # <<>> /\ ChunkLen # CHUNK
      BY <2>1 DEF HasRoom
    <3>2. /\ Top \in Chunk /\ Top.vals \in Seq(Values) /\ Top.buf \in Buffers
          /\ ChunkLen = Len(Top.vals) /\ ChunkLen \in Nat
          /\ Top = chunks[Len(chunks)] /\ Len(chunks) \in Nat \ {0}
      BY <1>2, <3>1, TopProperties DEF Chunk
    <3> DEFINE vals == Append(Top.vals, d)
    <3>3. /\ vals \in Seq(Values) /\ Len(vals) = ChunkLen + 1 /\ vals[ChunkLen + 1] = d
          /\ vals # <<>>
      BY <3>2, AppendProperties
    <3>4. chunks' = WithTop(vals) /\ answer' = <<Top.buf, ChunkLen + 1>>
      BY <2>1, <3>2 DEF Push
    <3> HIDE DEF vals
    <3>5. Len(chunks') = Len(chunks) /\ chunks'[Len(chunks)] = [buf |-> Top.buf, vals |-> vals]
      BY <1>2, <3>1, <3>3, <3>4, WithTopProperties
    <3>6. chunks' # <<>> /\ Top' = [buf |-> Top.buf, vals |-> vals]
      BY <3>2, <3>5, EmptySeq DEF Top
    <3>7. Top'.vals = vals /\ Top'.buf = Top.buf /\ ChunkLen' = ChunkLen + 1
      BY <3>3, <3>6 DEF ChunkLen
    <3>8. Flat'[len'] = [val |-> Top'.vals[ChunkLen'], at |-> <<Top'.buf, ChunkLen'>>]
      BY <3>3, <3>6, <3>7 DEF Here, FlatOK
    <3>9. ChunkLen + 1 \in 1..CHUNK
      BY <1>0, <1>2, <3>1, <3>2 DEF LenIsCount, WithinCapacity
    <3>10. \A i \in 1..len : Items[i].at # <<Top.buf, ChunkLen + 1>>
      <4> SUFFICES ASSUME NEW k \in 1..Len(chunks), NEW j \in 1..Len(chunks[k].vals),
                          <<chunks[k].buf, j>> = <<Top.buf, ChunkLen + 1>>
                   PROVE  FALSE
        BY <1>6
      <4>1. chunks[k].buf = Top.buf /\ j = ChunkLen + 1
        OBVIOUS
      <4>2. k = Len(chunks)
        BY <1>2, <3>2, <4>1 DEF LenIsCount, OwnBuffers
      <4> QED BY <3>2, <4>1, <4>2
    <3> QED BY <2>0, <3>2, <3>3, <3>4, <3>7, <3>8, <3>9, <3>10
  <2>2. CASE ~HasRoom
    <3>1. PICK b \in Free : chunks' = Append(chunks, [buf |-> b, vals |-> <<d>>]) /\ answer' = <<b, 1>>
      BY <2>2 DEF Push
    <3>2. b \in Buffers /\ \A k \in 1..Len(chunks) : chunks[k].buf # b
      BY <1>2, <3>1, LenProperties DEF Free
    <3> DEFINE c == [buf |-> b, vals |-> <<d>>]
    <3>3. c \in Chunk /\ c.buf = b /\ c.vals = <<d>>
      BY <3>2 DEF Chunk
    <3> HIDE DEF c
    <3>4. /\ Len(chunks') = Len(chunks) + 1 /\ chunks'[Len(chunks) + 1] = c /\ chunks' # <<>>
      BY <1>2, <3>1, <3>3, AppendProperties DEF c
    <3>5. Top' = c
      BY <3>4 DEF Top
    <3>6. Top'.vals = <<d>> /\ Top'.buf = b /\ ChunkLen' = 1
      BY <3>3, <3>4, <3>5 DEF ChunkLen
    <3>7. Flat'[len'] = [val |-> Top'.vals[ChunkLen'], at |-> <<Top'.buf, ChunkLen'>>]
      BY <3>4, <3>6 DEF Here, FlatOK
    <3>8. Flat'[len'] = [val |-> d, at |-> <<b, 1>>]
      BY <3>6, <3>7
    <3>9. \A i \in 1..len : Items[i].at # <<b, 1>>
      BY <1>6, <3>2
    <3> QED BY <1>0, <2>0, <3>1, <3>2, <3>8, <3>9
  <2> QED BY <2>1, <2>2
<1>8. /\ Items \in Seq(Spot) /\ Len(Items) = len /\ Items' \in Seq(Spot) /\ Len(Items') = len + 1
  BY <1>0, <1>3 DEF Here, ItemsOK
<1>9. Items' = Append(Items, [val |-> d, at |-> answer'])
  <2>1. [val |-> d, at |-> answer'] \in Spot
    BY <1>7 DEF Spot
  <2> DEFINE t == Append(Items, [val |-> d, at |-> answer'])
  <2>2. /\ t \in Seq(Spot) /\ Len(t) = len + 1 /\ \A i \in 1..len : t[i] = Items[i]
        /\ t[len + 1] = [val |-> d, at |-> answer']
    BY <1>8, <2>1, AppendProperties
  <2> HIDE DEF t
  <2>3. \A i \in 1..(len + 1) : Items'[i] = t[i]
    <3>1. \A i \in 1..(len + 1) : i \in 1..len \/ i = len + 1
      BY <1>2
    <3> QED BY <1>0, <1>5, <1>7, <2>2, <3>1
  <2>4. Items' = t
    BY <1>8, <2>2, <2>3, SeqEqual
  <2> QED BY <2>4 DEF t
<1>10. answer' \in (Buffers \X (1..CHUNK)) \ Stack!Used
  <2>1. DOMAIN Items = 1..len
    BY <1>8, LenProperties
  <2> QED BY <1>7, <2>1 DEF Stack!Used
<1> QED BY <1>0, <1>4, <1>9, <1>10 DEF Stack!Push

LEMMA TruncateSimulates ==
  ASSUME Here, Here', NEW n \in 0..MaxLen, Truncate(n)
  PROVE  Stack!Truncate(n)
<1>0. /\ op = Idle /\ op' = [kind |-> "truncate", to |-> n] /\ len' = len /\ chunks' = chunks
      /\ call' = <<"truncate", n>> /\ n \in Nat
  BY MaxLenAssumption DEF Truncate
<1>1. InPlace
  BY <1>0 DEF InPlace
<1>2. len \in Nat /\ Kept = len /\ Len(Items) = len
  BY <1>0, HereTypes
<1>3. Kept' = IF n < len THEN n ELSE len
  BY <1>0 DEF Kept
<1>4. Answer' = None
  BY <1>0 DEF Answer
<1>5. CASE n < len
  <2>1. Kept' = n /\ Kept' \in 0..Kept
    BY <1>0, <1>2, <1>3, <1>5
  <2>2. Items' = SubSeq(Items, 1, n)
    BY <1>1, <2>1, ItemsCut DEF Here
  <2> QED BY <1>0, <1>2, <1>4, <1>5, <2>2 DEF Stack!Truncate
<1>6. CASE ~(n < len)
  <2>1. Items' = Items
    BY <1>1, <1>2, <1>3, <1>6, ItemsSame DEF Here
  <2> QED BY <1>0, <1>2, <1>4, <1>6, <2>1 DEF Stack!Truncate
<1> QED BY <1>5, <1>6

LEMMA TakeAtSimulates ==
  ASSUME Here, Here', NEW n \in 0..MaxLen, TakeAt(n)
  PROVE  Stack!TakeAt(n)
<1>0. op = Idle /\ len' = len /\ chunks' = chunks /\ call' = <<"take_at", n>> /\ n \in Nat
  BY MaxLenAssumption DEF TakeAt
<1>1. InPlace
  BY <1>0 DEF InPlace
<1>2. len \in Nat /\ Kept = len /\ Len(Items) = len
  BY <1>0, HereTypes
<1>3. CASE n >= len
  <2>1. answer' = None /\ op' = Idle
    BY <1>0, <1>2, <1>3 DEF TakeAt
  <2>2. Kept' = len /\ Answer' = None
    BY <1>0, <2>1 DEF Kept, Answer, Idle
  <2>3. Items' = Items
    BY <1>1, <1>2, <2>2, ItemsSame DEF Here
  <2> QED BY <1>0, <1>2, <1>3, <2>2, <2>3 DEF Stack!TakeAt
<1>4. CASE n < len
  <2>1. op' = [kind |-> "take_at", to |-> n + 1]
    BY <1>0, <1>2, <1>4 DEF TakeAt
  <2>2. Kept' = n /\ Answer' = Flat'[n + 1].val
    BY <1>0, <2>1 DEF Kept, Answer
  <2>3. n + 1 \in 1..len /\ Kept' \in 0..Kept
    BY <1>0, <1>2, <1>4, <2>2
  <2>4. Items' = SubSeq(Items, 1, n)
    BY <1>1, <2>2, <2>3, ItemsCut DEF Here
  <2>5. Flat'[n + 1] = Flat[n + 1] /\ Items[n + 1] = Flat[n + 1]
    BY <1>0, <1>1, <1>2, <2>3, FlatKept DEF Here, ItemsOK
  <2> QED BY <1>0, <1>2, <1>4, <2>2, <2>4, <2>5 DEF Stack!TakeAt
<1> QED BY <1>0, <1>2, <1>3, <1>4

LEMMA TakeLastSimulates ==
  ASSUME Here, Here', TakeLast
  PROVE  Stack!TakeLast
<1>0. /\ op = Idle /\ op' = [kind |-> "take_last"] /\ len' = len /\ chunks' = chunks
      /\ call' = <<"take_last">>
  BY DEF TakeLast
<1>1. InPlace
  BY <1>0 DEF InPlace
<1>2. len \in Nat /\ Kept = len /\ Len(Items) = len /\ Items \in Seq(Spot)
  BY <1>0, HereTypes
<1>3. Kept' = Max0(len - 1) /\ Answer' = IF len = 0 THEN None ELSE Flat'[len].val
  BY <1>0 DEF Kept, Answer
<1>4. CASE len = 0
  <2>1. Items = <<>>
    BY <1>2, <1>4, EmptySeq
  <2>2. Items' = Items
    BY <1>1, <1>2, <1>3, <1>4, ItemsSame DEF Here, Max0
  <2> QED BY <1>0, <1>3, <1>4, <2>1, <2>2 DEF Stack!TakeLast
<1>5. CASE len > 0
  <2>1. Kept' = len - 1 /\ Kept' \in 0..Kept /\ len \in 1..len /\ Items # <<>>
    BY <1>2, <1>3, <1>5, EmptySeq DEF Max0
  <2>2. Items' = SubSeq(Items, 1, len - 1)
    BY <1>1, <2>1, ItemsCut DEF Here
  <2>3. Flat'[len] = Flat[len] /\ Items[len] = Flat[len]
    BY <1>0, <1>1, <1>2, <2>1, FlatKept DEF Here, ItemsOK
  <2> QED BY <1>0, <1>2, <1>3, <1>5, <2>1, <2>2, <2>3 DEF Stack!TakeLast
<1> QED BY <1>2, <1>4, <1>5

LEMMA StepInPlace ==
  ASSUME Here, Step
  PROVE  InPlace
<1>1. InPlace \/ UNCHANGED vars
  BY NextInPlace DEF Here, Next
<1>2. ASSUME UNCHANGED vars PROVE InPlace
  BY <1>2 DEF vars, InPlace
<1> QED BY <1>1, <1>2

\* The iterations of the loops show the caller nothing.
LEMMA CutsSimulate ==
  ASSUME Here, Here', DropChunk \/ CutChunk
  PROVE  Items' = Items /\ Answer' = Answer /\ call' = call
<1>1. op' = op /\ call' = call /\ op.kind \in {"truncate", "take_at"} /\ len > op.to
  BY DEF DropChunk, CutChunk, Truncating
<1>2. len \in Nat /\ len' \in Nat /\ op.to \in Nat /\ TypeOK /\ len = Count(chunks)
  BY <1>1 DEF Here, FlatOK, IInv, TypeOK, Ops, LenIsCount
<1>3. chunks # <<>> /\ ChunkLen \in Nat
  <2>1. chunks # <<>>
    BY <1>1, <1>2 DEF Count
  <2> QED BY <1>2, <2>1, TopProperties
<1>4. len' >= op.to
  BY <1>2, <1>3 DEF DropChunk, CutChunk
<1>5. InPlace
  BY StepInPlace DEF Step
<1>6. Kept' = Kept
  BY <1>1, <1>2, <1>4 DEF Kept
<1>7. Items' = Items
  BY <1>5, <1>6, ItemsSame DEF Here
<1>8. Answer' = Answer
  <2>1. CASE op.kind = "truncate"
    BY <1>1, <2>1 DEF Answer
  <2>2. CASE op.kind = "take_at"
    <3>1. op.to \in 1..len /\ op.to <= len'
      BY <1>4, <2>2 DEF Here, RefInv
    <3>2. Flat'[op.to] = Flat[op.to]
      BY <1>5, <3>1, FlatKept DEF Here
    <3> QED BY <1>1, <2>2, <3>2 DEF Answer
  <2> QED BY <1>1, <2>1, <2>2
<1> QED BY <1>1, <1>7, <1>8

\* What is above the index is gone: the value asked for is the last one.
LEMMA TruncatedSimulates ==
  ASSUME Here, Here', Truncated
  PROVE  Items' = Items /\ Answer' = Answer /\ call' = call
<1>1. /\ len' = len /\ call' = call /\ chunks' = chunks /\ len <= op.to
      /\ op.kind \in {"truncate", "take_at"}
  BY DEF Truncated, Truncating
<1>2. len \in Nat /\ op.to \in Nat
  BY <1>1, HereTypes
<1>3. InPlace
  BY StepInPlace DEF Step
<1>4. CASE op.kind = "truncate"
  <2>1. op' = Idle /\ answer' = None
    BY <1>4 DEF Truncated
  <2>2. Kept' = Kept /\ Answer' = Answer
    BY <1>1, <1>2, <1>4, <2>1 DEF Kept, Answer, Idle
  <2> QED BY <1>1, <1>3, <2>2, ItemsSame DEF Here
<1>5. CASE op.kind = "take_at"
  <2>1. op' = [kind |-> "take_last"]
    BY <1>5 DEF Truncated
  <2>2. len = op.to /\ len > 0 /\ len \in 1..len
    BY <1>1, <1>2, <1>5 DEF Here, RefInv
  <2>3. Kept' = Kept
    BY <1>1, <1>2, <1>5, <2>1, <2>2 DEF Kept, Max0
  <2>4. Flat'[len] = Flat[len]
    BY <1>1, <1>2, <1>3, <2>2, FlatKept DEF Here
  <2>5. Answer' = Answer
    BY <1>1, <1>5, <2>1, <2>2, <2>4 DEF Answer
  <2> QED BY <1>1, <1>3, <2>3, <2>5, ItemsSame DEF Here
<1> QED BY <1>1, <1>4, <1>5

\* The pop leaves what was already promised, and answers it.
LEMMA PopsSimulate ==
  ASSUME Here, Here', DropEmpty \/ PopValue \/ NothingToTake
  PROVE  Items' = Items /\ Answer' = Answer /\ call' = call
<1>1. op.kind = "take_last" /\ call' = call
  BY DEF DropEmpty, PopValue, NothingToTake
<1>2. len \in Nat /\ len' \in Nat /\ TypeOK /\ len = Count(chunks)
  BY DEF Here, FlatOK, IInv, TypeOK, LenIsCount
<1>3. InPlace
  BY StepInPlace DEF Step
<1>4. CASE DropEmpty
  <2>1. len' = len /\ op' = op
    BY <1>4 DEF DropEmpty
  <2>2. Kept' = Kept
    BY <1>1, <2>1 DEF Kept
  <2>3. len > 0 => Flat'[len] = Flat[len]
    BY <1>2, <1>3, <2>1, FlatKept DEF Here
  <2>4. Answer' = Answer
    BY <1>1, <1>2, <2>1, <2>3 DEF Answer
  <2> QED BY <1>1, <1>3, <2>2, <2>4, ItemsSame DEF Here
<1>5. CASE PopValue
  <2>1. /\ chunks # <<>> /\ Top.vals # <<>> /\ len' = len - 1 /\ op' = Idle
        /\ answer' = Top.vals[ChunkLen]
    BY <1>5 DEF PopValue
  <2>2. len > 0 /\ Flat[len] = [val |-> Top.vals[ChunkLen], at |-> <<Top.buf, ChunkLen>>]
    BY <2>1 DEF Here, FlatOK
  <2>3. Kept' = Kept
    BY <1>1, <1>2, <2>1, <2>2 DEF Kept, Idle, Max0
  <2>4. Answer' = Answer
    BY <1>1, <2>1, <2>2 DEF Answer, Idle
  <2> QED BY <1>1, <1>3, <2>3, <2>4, ItemsSame DEF Here
<1>6. CASE NothingToTake
  <2>1. chunks = <<>> /\ len' = len /\ op' = Idle /\ answer' = None
    BY <1>6 DEF NothingToTake
  <2>2. len = 0
    BY <1>2, <2>1 DEF Count
  <2>3. Kept' = Kept /\ Answer' = Answer
    BY <1>1, <2>1, <2>2 DEF Kept, Answer, Idle, Max0
  <2> QED BY <1>1, <1>3, <2>3, ItemsSame DEF Here
<1> QED BY <1>4, <1>5, <1>6

LEMMA StepSimulates ==
  ASSUME Here, Here', Step
  PROVE  UNCHANGED Stack!vars
BY CutsSimulate, TruncatedSimulates, PopsSimulate DEF Step, Stack!vars

\* Nothing is held, and nothing is running.
LEMMA NewIsNew ==
  ASSUME Here, New
  PROVE  Stack!New
<1>1. op = Idle /\ len = 0 /\ call = <<"new">> /\ answer = None
  BY DEF New
<1>2. Kept = 0 /\ Answer = None
  BY <1>1 DEF Kept, Answer, Idle
<1>3. Items = <<>>
  BY <1>2, HereTypes, EmptySeq
<1> QED BY <1>1, <1>2, <1>3 DEF Stack!New

LEMMA RenewSimulates ==
  ASSUME Here, Here', Renew
  PROVE  Stack!Renew
<1>1. op' = Idle /\ len' = 0 /\ call' = <<"new">> /\ answer' = None
  BY DEF Renew
<1>2. Kept' = 0 /\ Answer' = None
  BY <1>1 DEF Kept, Answer, Idle
<1>3. Items' \in Seq(Spot) /\ Len(Items') = 0
  BY <1>2 DEF Here, ItemsOK
<1>4. Items' = <<>>
  BY <1>3, EmptySeq
<1> QED BY <1>1, <1>2, <1>4 DEF Stack!Renew

LEMMA StutterSimulates ==
  ASSUME Here, Here', UNCHANGED vars
  PROVE  UNCHANGED Stack!vars
<1>1. chunks' = chunks /\ len' = len /\ op' = op /\ call' = call /\ answer' = answer
  BY DEF vars
<1>2. InPlace
  BY <1>1 DEF InPlace
<1>3. Kept' = Kept
  BY <1>1 DEF Kept
<1>4. Flat' = Flat
  BY <1>1 DEF Flat
<1>5. Answer' = Answer
  BY <1>1, <1>4 DEF Answer
<1> QED BY <1>1, <1>2, <1>3, <1>5, ItemsSame DEF Here, Stack!vars

\* Every step of the store is one of the plain stack, or shows nothing.
LEMMA NextSimulates == Here /\ Here' /\ [Next]_vars => [Stack!Next]_(Stack!vars)
<1> SUFFICES ASSUME Here, Here', [Next]_vars PROVE Stack!Next \/ UNCHANGED Stack!vars
  OBVIOUS
<1>1. ASSUME NEW d \in Values, Push(d) PROVE Stack!Next
  BY <1>1, PushSimulates DEF Stack!Next
<1>2. ASSUME NEW n \in 0..MaxLen, Truncate(n) \/ TakeAt(n) PROVE Stack!Next
  BY <1>2, TruncateSimulates, TakeAtSimulates DEF Stack!Next
<1>3. CASE TakeLast
  BY <1>3, TakeLastSimulates DEF Stack!Next
<1>4. CASE Renew
  BY <1>4, RenewSimulates DEF Stack!Next
<1>5. CASE Step
  BY <1>5, StepSimulates
<1>6. CASE UNCHANGED vars
  BY <1>6, StutterSimulates
<1> QED BY <1>1, <1>2, <1>3, <1>4, <1>5, <1>6 DEF Next

LEMMA NewRefInv == New => RefInv
BY DEF New, RefInv, Idle

\* The chunked store is the plain stack of addressed values that the emitted code counts
\* on: values keep their address and leave last in, first out, and `take_at` hands back the
\* value at its index, however the chunks fall and however far the loops have got.
THEOREM PinImplements == Spec => Implements
<1>1. Here /\ New => Stack!New
  BY NewIsNew
<1>2. QED
  BY <1>1, InitIInv, NextIInv, NewRefInv, RefNext, HereAlways, NextSimulates, PTL
     DEF Spec, Implements, Stack!Spec
=============================================================================
