-------------------------------- MODULE Pin --------------------------------
(***************************************************************************)
(* `Pin` of defs/src/lib.rs: address-stable storage for the values a call  *)
(* site lends its callee.  Values live in chunks of fixed capacity.  The    *)
(* loops of `truncate` and `take_last` run one iteration a step, because a  *)
(* destructor of the user's runs inside each of them.                       *)
(***************************************************************************)
EXTENDS Integers, Sequences

CONSTANTS Values,   \* what may be lent
          Buffers,  \* heap blocks the allocator can hand out
          CHUNK,    \* values per chunk (64 in the code)
          MaxLen,   \* bound of the model: values held at once
          None      \* the `None` of the code, and the answer of `truncate`

ASSUME ChunkAssumption == CHUNK \in Nat \ {0}
ASSUME MaxLenAssumption == MaxLen \in Nat
ASSUME NoneAssumption == None \notin Values

VARIABLES chunks,   \* Vec<Vec<D>>: each chunk with the heap block it lives in
          len,      \* the `len` field
          op,       \* what is left to do of the operation that is running
          call,     \* the last operation called, with its argument
          answer    \* what the last operation returned

vars == <<chunks, len, op, call, answer>>

Top == chunks[Len(chunks)]
Below == SubSeq(chunks, 1, Len(chunks) - 1)
ChunkLen == IF chunks = <<>> THEN 0 ELSE Len(Top.vals)
WithTop(vals) == [chunks EXCEPT ![Len(chunks)] = [buf |-> Top.buf, vals |-> vals]]
Free == Buffers \ {chunks[k].buf : k \in DOMAIN chunks}

HasRoom == chunks # <<>> /\ ChunkLen # CHUNK

Chunk == [buf : Buffers, vals : Seq(Values)]

Idle == [kind |-> "idle"]
Running == op # Idle
Ops == [kind : {"idle", "take_last"}] \union [kind : {"truncate", "take_at"}, to : Nat]
Calls ==
  ({"push"} \X Values) \union ({"truncate", "take_at"} \X Nat)
    \union {<<"take_last">>, <<"new">>}

\* The types of the fields; `len` is unsigned, so no operation takes it below zero.
TypeOK ==
  /\ chunks \in Seq(Chunk)
  /\ len \in Nat
  /\ op \in Ops
  /\ call \in Calls
  /\ answer \in Values \union (Buffers \X Nat) \union {None}

New ==
  /\ chunks = <<>>
  /\ len = 0
  /\ op = Idle
  /\ call = <<"new">>
  /\ answer = None
-----------------------------------------------------------------------------
(* A full chunk regrown in place of being left where it is, as a plain Vec does. *)
PushMutant(d) ==
  /\ op = Idle /\ len < MaxLen
  /\ \E b \in Free :
       LET into == IF chunks = <<>>
                     THEN <<[buf |-> b, vals |-> <<d>>]>>
                   ELSE IF Len(Top.vals) % CHUNK = 0
                     THEN Append(Below, [buf |-> b, vals |-> Append(Top.vals, d)])
                   ELSE WithTop(Append(Top.vals, d))
       IN /\ chunks' = into
          /\ answer' = <<into[Len(into)].buf, Len(into[Len(into)].vals)>>
  /\ len' = len + 1
  /\ call' = <<"push", d>>
  /\ UNCHANGED op

\* A chunk is opened when there is none or the last one is full; the value goes into
\* the last chunk and its address is returned.
Push(d) ==
  /\ op = Idle /\ len < MaxLen
  /\ \/ /\ HasRoom
        /\ chunks' = WithTop(Append(Top.vals, d))
        /\ answer' = <<Top.buf, Len(Top.vals) + 1>>
     \/ /\ ~HasRoom
        /\ \E b \in Free :
             /\ chunks' = Append(chunks, [buf |-> b, vals |-> <<d>>])
             /\ answer' = <<b, 1>>
  /\ len' = len + 1
  /\ call' = <<"push", d>>
  /\ UNCHANGED op

Truncate(mark) ==
  /\ op = Idle
  /\ op' = [kind |-> "truncate", to |-> mark]
  /\ call' = <<"truncate", mark>>
  /\ UNCHANGED <<chunks, len, answer>>

(* What lies on top is taken, whatever was pushed above the value asked for. *)
TakeAtMutant(at) ==
  /\ op = Idle
  /\ call' = <<"take_at", at>>
  /\ op' = [kind |-> "take_last"]
  /\ UNCHANGED <<chunks, len, answer>>

TakeAt(at) ==
  /\ op = Idle
  /\ call' = <<"take_at", at>>
  /\ \/ /\ at >= len
        /\ answer' = None
        /\ UNCHANGED op
     \/ /\ at < len
        /\ op' = [kind |-> "take_at", to |-> at + 1]
        /\ UNCHANGED answer
  /\ UNCHANGED <<chunks, len>>

TakeLast ==
  /\ op = Idle
  /\ op' = [kind |-> "take_last"]
  /\ call' = <<"take_last">>
  /\ UNCHANGED <<chunks, len, answer>>
-----------------------------------------------------------------------------
Truncating == op.kind \in {"truncate", "take_at"}

(* The length is cut by the capacity of the chunk, not by what it held. *)
DropChunkMutant ==
  /\ Truncating /\ len > op.to
  /\ len >= op.to + ChunkLen
  /\ chunks' = Below
  /\ len' = len - CHUNK
  /\ UNCHANGED <<op, call, answer>>

(* An empty chunk on top is not popped, so nothing below it is ever reached. *)
DropChunkStuckMutant ==
  /\ Truncating /\ len > op.to
  /\ len >= op.to + ChunkLen
  /\ chunks' = IF ChunkLen = 0 THEN chunks ELSE Below
  /\ len' = len - ChunkLen
  /\ UNCHANGED <<op, call, answer>>

\* Nothing in the last chunk is still live: it goes whole.
DropChunk ==
  /\ Truncating /\ len > op.to
  /\ len >= op.to + ChunkLen
  /\ chunks' = Below
  /\ len' = len - ChunkLen
  /\ UNCHANGED <<op, call, answer>>

(* One value too many survives in the chunk that is cut. *)
CutChunkMutant ==
  /\ Truncating /\ len > op.to
  /\ len < op.to + ChunkLen
  /\ chunks' = WithTop(SubSeq(Top.vals, 1, ChunkLen + op.to - len + 1))
  /\ len' = op.to
  /\ UNCHANGED <<op, call, answer>>

\* Part of the last chunk is live: the rest of it goes.
CutChunk ==
  /\ Truncating /\ len > op.to
  /\ len < op.to + ChunkLen
  /\ chunks' = WithTop(SubSeq(Top.vals, 1, ChunkLen + op.to - len))
  /\ len' = op.to
  /\ UNCHANGED <<op, call, answer>>

\* `truncate` returns, to its caller or to the rest of `take_at`.
Truncated ==
  /\ Truncating /\ len <= op.to
  /\ \/ /\ op.kind = "truncate"
        /\ op' = Idle
        /\ answer' = None
     \/ /\ op.kind = "take_at"
        /\ op' = [kind |-> "take_last"]
        /\ UNCHANGED answer
  /\ UNCHANGED <<chunks, len, call>>

\* `take_last` drops the empty chunks on top, then pops a value if there is one.
DropEmpty ==
  /\ op.kind = "take_last"
  /\ chunks # <<>> /\ Top.vals = <<>>
  /\ chunks' = Below
  /\ UNCHANGED <<len, op, call, answer>>

PopValue ==
  /\ op.kind = "take_last"
  /\ chunks # <<>> /\ Top.vals # <<>>
  /\ chunks' = WithTop(SubSeq(Top.vals, 1, ChunkLen - 1))
  /\ len' = len - 1
  /\ answer' = Top.vals[ChunkLen]
  /\ op' = Idle
  /\ UNCHANGED call

NothingToTake ==
  /\ op.kind = "take_last"
  /\ chunks = <<>>
  /\ answer' = None
  /\ op' = Idle
  /\ UNCHANGED <<chunks, len, call>>

\* The machine that owns the store returns (or unwinds), and the next one starts with
\* `Pin::new()`.  An unwind may come from a destructor inside a running operation.
Renew ==
  /\ chunks' = <<>>
  /\ len' = 0
  /\ op' = Idle
  /\ call' = <<"new">>
  /\ answer' = None

Step == DropChunk \/ CutChunk \/ Truncated \/ DropEmpty \/ PopValue \/ NothingToTake

Next ==
  \/ \E d \in Values : Push(d)
  \/ \E n \in 0..MaxLen : Truncate(n) \/ TakeAt(n)
  \/ TakeLast
  \/ Step
  \/ Renew

\* The code is sequential: an operation that has started goes on running.
Spec == New /\ [][Next]_vars /\ WF_vars(Step)
-----------------------------------------------------------------------------
Max0(n) == IF n > 0 THEN n ELSE 0

\* How many values a list of chunks holds when only the last may have room.
Count(cs) ==
  IF cs = <<>> THEN 0 ELSE (Len(cs) - 1) * CHUNK + Len(cs[Len(cs)].vals)

FullBelowTop == \A k \in 1..Len(chunks) - 1 : Len(chunks[k].vals) = CHUNK
WithinCapacity == \A k \in 1..Len(chunks) : Len(chunks[k].vals) <= CHUNK
OwnBuffers == \A k, l \in 1..Len(chunks) : k # l => chunks[k].buf # chunks[l].buf

\* Every chunk below the last is full, each in a heap block of its own, and `len` is the
\* number of values held: it is what `take_at` indexes and `truncate` subtracts from, in
\* unsigned arithmetic that must not wrap.
LenIsCount == FullBelowTop /\ WithinCapacity /\ OwnBuffers /\ len = Count(chunks)

\* A value that is held before and after a step of the store is at the same address and is
\* the same value: raw pointers into the store stay good across later pushes and drops.
NeverMoves ==
  [][\A k \in DOMAIN chunks \intersect DOMAIN chunks' :
       /\ chunks'[k].buf = chunks[k].buf
       /\ \A j \in DOMAIN chunks[k].vals \intersect DOMAIN chunks'[k].vals :
            chunks'[k].vals[j] = chunks[k].vals[j]]_vars

\* The pops, one or many, that an operation starts come to an end (no loop over a chunk
\* that is never removed).
OperationsEnd == Running ~> ~Running

-----------------------------------------------------------------------------
\* The values held, in order, with their addresses.
Flat ==
  [i \in 1..len |->
     LET c == chunks[((i - 1) \div CHUNK) + 1]
         j == ((i - 1) % CHUNK) + 1
     IN [val |-> c.vals[j], at |-> <<c.buf, j>>]]

\* What the caller will see once the running operation is over: `truncate` and `take_at`
\* take effect when they are called, whatever they still have to drop.
Kept ==
  IF op.kind = "truncate" /\ op.to < len THEN op.to
  ELSE IF op.kind = "take_at" THEN op.to - 1
  ELSE IF op.kind = "take_last" THEN Max0(len - 1)
  ELSE len

Items == SubSeq(Flat, 1, Kept)

Answer ==
  IF op.kind = "truncate" THEN None
  ELSE IF op.kind = "take_at" THEN Flat[op.to].val
  ELSE IF op.kind = "take_last" THEN IF len = 0 THEN None ELSE Flat[len].val
  ELSE answer

\* The chunked store is the plain stack of addressed values.
Stack == INSTANCE PinStack
           WITH Addresses <- Buffers \X (1..CHUNK), Indices <- 0..MaxLen,
                items <- Items, answer <- Answer
Implements == Stack!Spec
=============================================================================
