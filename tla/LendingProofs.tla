--------------------------- MODULE LendingProofs ---------------------------
(***************************************************************************)
(* Nothing lent dangles, parked locals come back and slots are restored,   *)
(* for any argument lists, any number of frames, loops and values.         *)
(***************************************************************************)
EXTENDS Lending, SequenceTheorems, TLAPS

Frame == [act : Activation, call : Call]
Loop == [mark : 0..MaxBorn, held : Ids]

-----------------------------------------------------------------------------
(* Sequences. *)

LEMMA FrontAndLast ==
  ASSUME NEW X, NEW s \in Seq(X), s # <<>>
  PROVE  /\ Len(s) \in Nat /\ Len(s) > 0
         /\ Front(s) \in Seq(X) /\ Len(Front(s)) = Len(s) - 1
         /\ \A i \in 1..(Len(s) - 1) : Front(s)[i] = s[i]
         /\ Last(s) = s[Len(s)] /\ Last(s) \in X
<1> DEFINE n == Len(s) - 1
           f == SubSeq(s, 1, n)
<1>1. Len(s) \in Nat /\ Len(s) > 0 /\ n \in Nat
  BY LenProperties, EmptySeq
<1>2. \A i \in 1..Len(s) : s[i] \in X
  BY ElementOfSeq
<1>3. \A i \in 1..n : s[i] \in X
  BY <1>1, <1>2
<1> HIDE DEF n
<1>4. /\ f \in Seq(X)
      /\ Len(f) = IF 1 <= n THEN n - 1 + 1 ELSE 0
      /\ \A i \in 1..(n - 1 + 1) : f[i] = s[1 + i - 1]
  BY <1>1, <1>3, SubSeqProperties
<1> HIDE DEF f
<1>5. Len(f) = n /\ \A i \in 1..n : f[i] = s[i]
  BY <1>1, <1>4
<1>6. Front(s) = f
  BY DEF Front, f, n
<1>7. Last(s) = s[Len(s)] /\ Last(s) \in X
  BY <1>1, <1>2 DEF Last
<1> QED BY <1>1, <1>4, <1>5, <1>6, <1>7 DEF n

\* A store that is cut keeps what is below the mark, and nothing is put into it.
LEMMA Cut ==
  ASSUME NEW X, NEW s \in Seq(X), NEW m \in Nat
  PROVE  /\ Truncated(s, m) \in Seq(X)
         /\ Len(Truncated(s, m)) \in Nat
         /\ Len(Truncated(s, m)) = IF m < Len(s) THEN m ELSE Len(s)
         /\ \A i \in 1..Len(Truncated(s, m)) : Truncated(s, m)[i] = s[i]
<1>1. Len(s) \in Nat
  BY LenProperties
<1>2. CASE m < Len(s)
  <2>1. \A i \in 1..m : s[i] \in X
    BY <1>1, <1>2, ElementOfSeq
  <2>2. /\ SubSeq(s, 1, m) \in Seq(X)
        /\ Len(SubSeq(s, 1, m)) = IF 1 <= m THEN m - 1 + 1 ELSE 0
        /\ \A i \in 1..(m - 1 + 1) : SubSeq(s, 1, m)[i] = s[1 + i - 1]
    BY <2>1, SubSeqProperties
  <2> QED BY <1>2, <2>2 DEF Truncated
<1>3. CASE ~(m < Len(s))
  BY <1>1, <1>3 DEF Truncated
<1> QED BY <1>2, <1>3

LEMMA CutSize ==
  ASSUME NEW X, NEW s \in Seq(X), NEW m \in Nat, NEW n \in Nat, Len(s) <= n
  PROVE  Truncated(s, m) \in Seq(X) /\ Len(Truncated(s, m)) <= n
<1>1. Len(s) \in Nat
  BY LenProperties
<1> QED BY <1>1, Cut

LEMMA Lengthened ==
  ASSUME NEW X, NEW s \in Seq(X), NEW x \in X
  PROVE  /\ Append(s, x) \in Seq(X)
         /\ Len(Append(s, x)) = Len(s) + 1 /\ Len(s) \in Nat
         /\ \A i \in 1..Len(s) : Append(s, x)[i] = s[i]
         /\ Append(s, x)[Len(s) + 1] = x
BY AppendProperties, LenProperties
-----------------------------------------------------------------------------
(* Types. *)

\* A call is there while its arguments are evaluated and while it is resumed, then with its
\* frame; and there are no more values in a store than have been stored.
TypeInv ==
  /\ TypeOK
  /\ mode \in {"args", "resuming"} => site \in Call
  /\ mode = "resuming" => frames # <<>>
  /\ Len(shared) <= born /\ Len(own) <= born

LEMMA Sizes ==
  ASSUME TypeInv
  PROVE  /\ Len(shared) \in 0..MaxBorn /\ Len(own) \in 0..MaxBorn
         /\ MaxBorn \in Nat /\ born \in Nat
         /\ cur.loops \in Seq(Loop) /\ cur.ptrs \subseteq Ids /\ cur.place \in Places
         /\ Len(cur.loops) \in Nat
         /\ cur = [ptrs |-> cur.ptrs, loops |-> cur.loops, place |-> cur.place]
         /\ \A l \in DOMAIN cur.loops : cur.loops[l] \in Loop
         /\ Held(cur) \subseteq Ids
<1>1. MaxBorn \in Nat
  BY BoundsAssumption
<1>2. shared \in Seq(Ids) /\ own \in Seq(Ids) /\ born \in 0..MaxBorn
  BY DEF TypeInv, TypeOK
<1>3. Len(shared) \in Nat /\ Len(own) \in Nat
  BY <1>2, LenProperties
<1>4. Len(shared) \in 0..MaxBorn /\ Len(own) \in 0..MaxBorn
  BY <1>1, <1>2, <1>3 DEF TypeInv
<1>5. /\ cur.loops \in Seq(Loop) /\ cur.ptrs \subseteq Ids /\ cur.place \in Places
      /\ cur = [ptrs |-> cur.ptrs, loops |-> cur.loops, place |-> cur.place]
  BY DEF TypeInv, TypeOK, Activation, Loop
<1>6. Len(cur.loops) \in Nat /\ \A l \in DOMAIN cur.loops : cur.loops[l] \in Loop
  BY <1>5, LenProperties, ElementOfSeq
<1>7. \A l \in DOMAIN cur.loops : cur.loops[l].held \in Ids
  BY <1>6 DEF Loop
<1> QED BY <1>1, <1>2, <1>4, <1>5, <1>6, <1>7 DEF Held

\* An activation that starts has the context slot's place and what it was given.
LEMMA Started ==
  ASSUME slot \in Places, NEW ptrs \in SUBSET Ids
  PROVE  Start(ptrs) \in Activation
<1>1. <<>> \in Seq(Loop)
  BY EmptySeq
<1> QED BY <1>1 DEF Start, Activation, Loop

LEMMA TearDownType ==
  ASSUME TypeInv
  PROVE  TornDown(cur) \in Seq(Ids) /\ Len(TornDown(cur)) <= born
<1>1. shared \in Seq(Ids) /\ Len(shared) <= born /\ born \in Nat
  BY Sizes DEF TypeInv, TypeOK
<1>2. CASE cur.loops = <<>>
  BY <1>1, <1>2, LenProperties DEF TornDown
<1>3. CASE cur.loops # <<>>
  <2>1. Len(cur.loops) > 0
    BY <1>3, Sizes, EmptySeq
  <2>2. 1 \in DOMAIN cur.loops
    BY <2>1, Sizes, LenProperties
  <2>3. cur.loops[1].mark \in Nat
    BY <2>2, Sizes DEF Loop
  <2>4. TornDown(cur) = Truncated(shared, cur.loops[1].mark)
    BY <1>3 DEF TornDown
  <2> QED BY <1>1, <2>3, <2>4, CutSize
<1> QED BY <1>2, <1>3

LEMMA TypeInit == Init => TypeInv
<1> SUFFICES ASSUME Init PROVE TypeInv
  OBVIOUS
<1>1. /\ <<>> \in Seq(Loop) /\ <<>> \in Seq(Frame) /\ <<>> \in Seq(Ids) /\ <<>> \in Seq(Ids \union {None})
      /\ Len(<<>>) = 0
  BY EmptySeq
<1>2. cur \in Activation
  BY <1>1, PlacesAssumption DEF Init, Activation, Loop
<1> QED BY <1>1, <1>2, PlacesAssumption, BoundsAssumption DEF Init, TypeInv, TypeOK, Frame

LEMMA TypeNext == TypeInv /\ [Next]_vars => TypeInv'
<1> SUFFICES ASSUME TypeInv, [Next]_vars PROVE TypeInv'
  OBVIOUS
<1>0. /\ raw \in BOOLEAN /\ lapses \subseteq Lapses
      /\ mode \in {"run", "args", "value", "resuming", "unwinding", "over"}
      /\ cur \in Activation /\ site \in Call \union {None}
      /\ frames \in Seq(Frame) /\ shared \in Seq(Ids) /\ own \in Seq(Ids)
      /\ slot \in Places /\ back \in [asked : Seq(Ids), got : Seq(Ids \union {None})]
      /\ born \in 0..MaxBorn /\ MaxBorn \in Nat
  BY Sizes DEF TypeInv, TypeOK, Frame
<1>s. /\ Len(shared) \in 0..MaxBorn /\ Len(own) \in 0..MaxBorn
      /\ Len(shared) <= born /\ Len(own) <= born
  BY Sizes DEF TypeInv
<1>n. /\ born \in Nat /\ shared \in Seq(Ids) /\ own \in Seq(Ids)
      /\ Len(shared) <= born /\ Len(own) <= born
  BY Sizes DEF TypeInv, TypeOK
<1>e. <<>> \in Seq(Loop) /\ <<>> \in Seq(Frame) /\ <<>> \in Seq(Ids) /\ Len(<<>>) = 0
  BY EmptySeq
<1>b. /\ \A x \in Ids : Append(shared, x) \in Seq(Ids) /\ Len(Append(shared, x)) = Len(shared) + 1
      /\ \A x \in Ids : Append(own, x) \in Seq(Ids) /\ Len(Append(own, x)) = Len(own) + 1
      /\ born < MaxBorn => born + 1 \in Ids
  BY <1>0, Lengthened DEF Ids
<1>c. mode = "args" => /\ site.lends \in Sites /\ site.pushed \in Seq(Ids) /\ site.saved \in Places \union {None}
                       /\ site.parked \in Seq([id : Ids, at : Nat]) /\ Len(site.pushed) \in Nat
  BY LenProperties DEF TypeInv, Call
<1>1. ASSUME NEW lends \in Sites, NEW exits \in BOOLEAN, BeginCall(lends, exits)
      PROVE TypeInv'
  <2>1. <<>> \in Seq(Ids) /\ <<>> \in Seq([id : Ids, at : Nat])
    BY EmptySeq
  <2>2. site' \in Call
    BY <1>1, <1>s, <2>1 DEF BeginCall, Call
  <2> QED BY <1>0, <1>1, <1>s, <2>2 DEF BeginCall, TypeInv, TypeOK, Frame, given
<1>2. ASSUME LendWhole PROVE TypeInv'
  <2>1. Append(site.pushed, born + 1) \in Seq(Ids)
    BY <1>2, <1>b, <1>c, Lengthened DEF LendWhole
  <2>2. site' \in Call
    BY <1>2, <2>1 DEF LendWhole, TypeInv, Call
  <2>a. born + 1 \in Ids
    BY <1>2, <1>b DEF LendWhole
  <2>3. shared' \in Seq(Ids) /\ own' \in Seq(Ids) /\ Len(shared') <= born + 1 /\ Len(own') <= born + 1
    <3>1. \/ shared' = Append(shared, born + 1) /\ own' = own
          \/ own' = Append(own, born + 1) /\ shared' = shared
      BY <1>2 DEF LendWhole
    <3>2. born \in Nat /\ Len(shared) \in Nat /\ Len(own) \in Nat
      BY <1>0, <1>s
    <3>3. Append(shared, born + 1) \in Seq(Ids) /\ Len(Append(shared, born + 1)) = Len(shared) + 1
      BY <1>b, <2>a
    <3>4. Append(own, born + 1) \in Seq(Ids) /\ Len(Append(own, born + 1)) = Len(own) + 1
      BY <1>b, <2>a
    <3>5. CASE shared' = Append(shared, born + 1) /\ own' = own
      <4>1. shared' \in Seq(Ids) /\ own' \in Seq(Ids)
        BY <1>0, <3>3, <3>5
      <4>2. Len(shared') = Len(shared) + 1 /\ Len(own') = Len(own)
        BY <3>3, <3>5
      <4> QED BY <1>s, <3>2, <4>1, <4>2
    <3>6. CASE own' = Append(own, born + 1) /\ shared' = shared
      <4>1. shared' \in Seq(Ids) /\ own' \in Seq(Ids)
        BY <1>0, <3>4, <3>6
      <4>2. Len(shared') = Len(shared) /\ Len(own') = Len(own) + 1
        BY <3>4, <3>6
      <4> QED BY <1>s, <3>2, <4>1, <4>2
    <3> QED BY <3>1, <3>5, <3>6
  <2> QED BY <1>0, <1>2, <1>b, <2>2, <2>3 DEF LendWhole, TypeInv, TypeOK, Frame, given, Ids
<1>3. ASSUME LendPlace PROVE TypeInv'
  <2>1. Append(site.pushed, born + 1) \in Seq(Ids)
    BY <1>3, <1>b, <1>c, Lengthened DEF LendPlace
  <2>2. [id |-> born + 1, at |-> Len(site.pushed)] \in [id : Ids, at : Nat]
    BY <1>3, <1>b, <1>c DEF LendPlace
  <2>3. Append(site.parked, [id |-> born + 1, at |-> Len(site.pushed)]) \in Seq([id : Ids, at : Nat])
    BY <1>3, <1>c, <2>2, Lengthened DEF LendPlace
  <2>4. site' \in Call
    BY <1>3, <2>1, <2>3 DEF LendPlace, TypeInv, Call
  <2>5. shared' \in Seq(Ids) /\ Len(shared') <= born + 1
    BY <1>0, <1>3, <1>b, <1>s DEF LendPlace
  <2> QED BY <1>0, <1>3, <1>b, <1>s, <2>4, <2>5 DEF LendPlace, TypeInv, TypeOK, Frame, given, Ids
<1>4. ASSUME LeaveArgs PROVE TypeInv'
  <2>1. cur' \in Activation
    BY <1>0, <1>4, Started DEF LeaveArgs
  <2>2. slot' \in Places
    BY <1>0, <1>4, <1>c DEF LeaveArgs
  <2>3. shared' \in Seq(Ids) /\ Len(shared') <= born
    BY <1>4, TearDownType DEF LeaveArgs
  <2> QED BY <1>0, <1>4, <1>s, <2>1, <2>2, <2>3 DEF LeaveArgs, TypeInv, TypeOK, Frame, given
<1>5. ASSUME Park PROVE TypeInv'
  <2>1. [act |-> cur, call |-> site] \in Frame
    BY <1>0, <1>5 DEF Park, TypeInv, Frame
  <2>2. frames' \in Seq(Frame)
    BY <1>0, <1>5, <2>1, Lengthened DEF Park
  <2>3. ToSet(site.pushed) \subseteq Ids
    BY <1>5, <1>c, ElementOfSeq DEF Park, ToSet
  <2>4. cur' \in Activation
    BY <1>0, <1>5, <2>3, Sizes, Started DEF Park
  <2> QED BY <1>0, <1>5, <1>s, <2>2, <2>4 DEF Park, TypeInv, TypeOK, Frame, given
<1>6. ASSUME TailCall PROVE TypeInv'
  <2>1. cur' \in Activation
    BY <1>0, <1>6, Sizes, Started DEF TailCall
  <2> QED BY <1>0, <1>6, <1>s, <2>1 DEF TailCall, TypeInv, TypeOK, Frame, given
<1>7. ASSUME NEW place \in Places, Swap(place) PROVE TypeInv'
  <2>1. site' \in Call
    BY <1>0, <1>7 DEF Swap, TypeInv, Call
  <2> QED BY <1>0, <1>7, <1>s, <2>1 DEF Swap, TypeInv, TypeOK, Frame, given
<1>8. ASSUME EnterLoop PROVE TypeInv'
  <2>1. [mark |-> Len(shared), held |-> born + 1] \in Loop
    BY <1>8, <1>b, <1>s DEF EnterLoop, Loop
  <2>2. Append(cur.loops, [mark |-> Len(shared), held |-> born + 1]) \in Seq(Loop)
    BY <2>1, Sizes, Lengthened
  <2>3. cur' \in Activation
    BY <1>0, <1>8, <2>2 DEF EnterLoop, Activation, Loop
  <2> QED BY <1>0, <1>8, <1>b, <1>s, <2>3 DEF EnterLoop, TypeInv, TypeOK, Frame, given
<1>9. ASSUME LeaveLoop PROVE TypeInv'
  <2>1. Last(cur.loops) \in Loop /\ Front(cur.loops) \in Seq(Loop)
    BY <1>9, Sizes, FrontAndLast DEF LeaveLoop
  <2>2. cur' \in Activation
    BY <1>0, <1>9, <2>1 DEF LeaveLoop, Activation, Loop
  <2>3. Last(cur.loops).mark \in Nat
    BY <2>1 DEF Loop
  <2>4. shared' \in Seq(Ids) /\ Len(shared') <= born
    BY <1>9, <1>n, <2>3, CutSize DEF LeaveLoop
  <2> QED BY <1>0, <1>9, <1>s, <2>2, <2>4 DEF LeaveLoop, TypeInv, TypeOK, Frame, given
<1>10. ASSUME Finish PROVE TypeInv'
  <2>1. cur' \in Activation
    BY <1>0, <1>10, Started DEF Finish
  <2>2. shared' \in Seq(Ids) /\ Len(shared') <= born
    BY <1>10, TearDownType DEF Finish
  <2> QED BY <1>0, <1>10, <1>s, <2>1, <2>2 DEF Finish, TypeInv, TypeOK, Frame, given
<1>11. ASSUME Resume PROVE TypeInv'
  <2>1. Popped \in Frame
    BY <1>0, <1>11, FrontAndLast DEF Resume, Popped
  <2>2. Popped.call \in Call
    BY <2>1 DEF Frame
  <2>3. Popped.call.parked \in Seq([id : Ids, at : Nat])
    BY <2>2 DEF Call
  <2>4. [k \in DOMAIN Popped.call.parked |-> Popped.call.parked[k].id] \in Seq(Ids)
    <3>1. Len(Popped.call.parked) \in Nat /\ DOMAIN Popped.call.parked = 1..Len(Popped.call.parked)
      BY <2>3, LenProperties
    <3>2. \A k \in 1..Len(Popped.call.parked) : Popped.call.parked[k] \in [id : Ids, at : Nat]
      BY <2>3, ElementOfSeq
    <3>3. \A k \in 1..Len(Popped.call.parked) : Popped.call.parked[k].id \in Ids
      BY <3>2
    <3> QED BY <3>1, <3>3, IsASeq
  <2>5. back' \in [asked : Seq(Ids), got : Seq(Ids \union {None})]
    BY <1>11, <2>4, EmptySeq DEF Resume
  <2> QED BY <1>0, <1>11, <1>s, <2>2, <2>5 DEF Resume, TypeInv, TypeOK, Frame, given
<1>12. ASSUME TakeBack PROVE TypeInv'
  <2>1. site \in Call /\ site.parked \in Seq([id : Ids, at : Nat]) /\ site.shared \in Nat
    BY <1>0, <1>12 DEF TakeBack, TypeInv, Call
  <2>2. Last(site.parked) \in [id : Ids, at : Nat] /\ Front(site.parked) \in Seq([id : Ids, at : Nat])
    BY <1>12, <2>1, FrontAndLast DEF TakeBack
  <2> DEFINE at == site.shared + Last(site.parked).at
  <2>3. at \in Nat
    BY <2>1, <2>2
  <2>4. site' \in Call
    BY <1>12, <2>1, <2>2 DEF TakeBack, Call
  <2>5. shared' = Truncated(shared, at)
    BY <1>12 DEF TakeBack, TakeAt
  <2>6. back' \in [asked : Seq(Ids), got : Seq(Ids \union {None})]
    <3> DEFINE found == IF at < Len(shared) THEN shared[at + 1] ELSE None
    <3>1. found \in Ids \union {None}
      BY <1>0, <2>3, ElementOfSeq, LenProperties
    <3>2. back' = [back EXCEPT !.got = <<found>> \o @]
      BY <1>12 DEF TakeBack, TakeAt
    <3> HIDE DEF found
    <3>3. <<found>> \in Seq(Ids \union {None})
      BY <3>1
    <3>4. <<found>> \o back.got \in Seq(Ids \union {None})
      BY <1>0, <3>3, ConcatProperties
    <3> QED BY <1>0, <3>2, <3>4
  <2> HIDE DEF at
  <2>7. shared' \in Seq(Ids) /\ Len(shared') <= born
    BY <1>n, <2>3, <2>5, CutSize
  <2> QED BY <1>0, <1>12, <1>s, <2>4, <2>6, <2>7 DEF TakeBack, TypeInv, TypeOK, Frame, given
<1>13. ASSUME Resumed PROVE TypeInv'
  <2>1. site \in Call /\ frames # <<>>
    BY <1>0, <1>13 DEF Resumed, TypeInv
  <2>2. /\ site.shared \in Nat /\ site.own \in Nat /\ site.saved \in Places \union {None}
    BY <2>1, <1>0 DEF Call
  <2>3. Popped \in Frame /\ Front(frames) \in Seq(Frame)
    BY <1>0, <2>1, FrontAndLast DEF Popped
  <2>4. Popped.act \in Activation
    BY <2>3 DEF Frame
  <2>5. /\ shared' \in Seq(Ids) /\ Len(shared') <= born
        /\ own' \in Seq(Ids) /\ Len(own') <= born
    <3>1. Truncated(shared, site.shared) \in Seq(Ids) /\ Len(Truncated(shared, site.shared)) <= born
      BY <1>n, <2>2, CutSize
    <3>2. Truncated(own, site.own) \in Seq(Ids) /\ Len(Truncated(own, site.own)) <= born
      BY <1>n, <2>2, CutSize
    <3> QED BY <1>0, <1>13, <1>s, <3>1, <3>2 DEF Resumed, Unpin
  <2>6. slot' \in Places
    BY <1>0, <1>13, <2>2 DEF Resumed, Restore
  <2> QED BY <1>0, <1>13, <2>3, <2>4, <2>5, <2>6 DEF Resumed, TypeInv, TypeOK, Frame, given
<1>14. ASSUME Return \/ DropStores PROVE TypeInv'
  BY <1>0, <1>14, <1>e DEF Return, DropStores, TypeInv, TypeOK, Frame, given
<1>15. ASSUME Panic PROVE TypeInv'
  <2>1. cur' \in Activation
    BY <1>0, <1>15, Started DEF Panic
  <2> QED BY <1>0, <1>15, <1>s, <2>1 DEF Panic, TypeInv, TypeOK, Frame, given
<1>16. ASSUME DropFrame PROVE TypeInv'
  <2>1. frames' \in Seq(Frame)
    BY <1>0, <1>16, HeadTailProperties DEF DropFrame
  <2> QED BY <1>0, <1>16, <1>s, <2>1 DEF DropFrame, TypeInv, TypeOK, Frame, given
<1>17. ASSUME NextItem \/ UNCHANGED vars PROVE TypeInv'
  BY <1>17 DEF NextItem, vars, given, TypeInv, TypeOK
<1>18. ASSUME BreakArgs PROVE TypeInv'
  <2>1. slot' \in Places
    BY <1>0, <1>18, <1>c DEF BreakArgs
  <2>2. cur' \in Activation /\ shared' \in Seq(Ids) /\ Len(shared') <= born
    <3>1. CASE UNCHANGED <<shared, cur>>
      BY <1>0, <1>n, <3>1
    <3>2. CASE /\ cur.loops # <<>>
               /\ shared' = Truncated(shared, Last(cur.loops).mark)
               /\ cur' = [cur EXCEPT !.loops = Front(@)]
      <4>1. Last(cur.loops) \in Loop /\ Front(cur.loops) \in Seq(Loop)
        BY <3>2, Sizes, FrontAndLast
      <4>2. cur' \in Activation
        BY <1>0, <3>2, <4>1 DEF Activation, Loop
      <4>3. Last(cur.loops).mark \in Nat
        BY <4>1 DEF Loop
      <4> QED BY <1>n, <3>2, <4>2, <4>3, CutSize
    <3> QED BY <1>18, <3>1, <3>2 DEF BreakArgs
  <2> QED BY <1>0, <1>18, <1>s, <2>1, <2>2 DEF BreakArgs, TypeInv, TypeOK, Frame, given
<1> QED BY <1>1, <1>2, <1>3, <1>4, <1>5, <1>6, <1>7, <1>8, <1>9, <1>10, <1>11, <1>12, <1>13, <1>14,
           <1>15, <1>16, <1>17, <1>18 DEF Next

\* The stores hold as many values as were stored, and frames and calls keep their form, for
\* any argument lists and bounds.
THEOREM LendingTypeOK == Spec => []TypeOK
<1>1. TypeInv => TypeOK
  BY DEF TypeInv
<1> QED BY <1>1, TypeInit, TypeNext, PTL DEF Spec
-----------------------------------------------------------------------------
(* Slots. *)

\* What the slot is after a call that leaves `e` in it has been resumed.
Back(call, e) == IF call.saved = None THEN e ELSE call.saved

\* Every frame gets its own place back, when the frames above it leave `e`, or what was theirs.
Linked(fs, e) ==
  \A k \in 1..Len(fs) :
    Back(fs[k].call, IF k < Len(fs) THEN fs[k + 1].act.place ELSE e) = fs[k].act.place

SlotInv ==
  /\ mode = "run" => slot = cur.place /\ Linked(frames, cur.place)
  /\ mode = "args" => /\ Back(site, slot) = cur.place /\ Linked(frames, cur.place)
                      /\ site.saved # None => raw
  /\ mode = "value" => Linked(frames, slot)
  /\ mode = "resuming" => Linked(frames, slot) /\ site.saved = Last(frames).call.saved

LEMMA LinkPushed ==
  ASSUME NEW fs \in Seq(Frame), NEW f \in Frame, NEW e,
         Linked(fs, f.act.place), Back(f.call, e) = f.act.place
  PROVE  Linked(Append(fs, f), e)
<1> DEFINE gs == Append(fs, f)
           n == Len(fs)
<1>1. /\ n \in Nat /\ Len(gs) = n + 1
      /\ \A i \in 1..n : gs[i] = fs[i]
      /\ gs[n + 1] = f
  BY Lengthened
<1> HIDE DEF gs
<1> SUFFICES ASSUME NEW k \in 1..(n + 1)
             PROVE  Back(gs[k].call, IF k < n + 1 THEN gs[k + 1].act.place ELSE e) = gs[k].act.place
  BY <1>1 DEF Linked, gs
<1>2. CASE k = n + 1
  BY <1>1, <1>2
<1>3. CASE k < n
  BY <1>1, <1>3 DEF Linked
<1>4. CASE k = n
  BY <1>1, <1>4 DEF Linked
<1> QED BY <1>1, <1>2, <1>3, <1>4

LEMMA LinkPopped ==
  ASSUME NEW fs \in Seq(Frame), fs # <<>>, NEW e, Linked(fs, e)
  PROVE  /\ Linked(Front(fs), Last(fs).act.place)
         /\ Back(Last(fs).call, e) = Last(fs).act.place
<1> DEFINE gs == Front(fs)
           n == Len(fs)
<1>1. /\ n \in Nat /\ n > 0 /\ Len(gs) = n - 1
      /\ \A i \in 1..(n - 1) : gs[i] = fs[i]
      /\ Last(fs) = fs[n]
  BY FrontAndLast
<1> HIDE DEF gs
<1>2. Back(Last(fs).call, e) = Last(fs).act.place
  BY <1>1 DEF Linked
<1>3. ASSUME NEW k \in 1..(n - 1)
      PROVE  Back(gs[k].call, IF k < n - 1 THEN gs[k + 1].act.place ELSE Last(fs).act.place)
               = gs[k].act.place
  <2>1. Back(fs[k].call, fs[k + 1].act.place) = fs[k].act.place
    BY <1>1 DEF Linked
  <2>2. gs[k] = fs[k] /\ (k < n - 1 => gs[k + 1] = fs[k + 1]) /\ (~(k < n - 1) => k + 1 = n)
    BY <1>1
  <2> QED BY <1>1, <2>1, <2>2
<1> QED BY <1>1, <1>2, <1>3 DEF Linked, gs

LEMMA SlotInit == Init => SlotInv
<1>1. Len(<<>>) = 0
  BY EmptySeq
<1> QED BY <1>1 DEF Init, SlotInv, Linked

LEMMA SlotNext == TypeInv /\ SlotInv /\ [Next]_vars => SlotInv'
<1> SUFFICES ASSUME TypeInv, SlotInv, [Next]_vars PROVE SlotInv'
  OBVIOUS
<1>0. /\ cur \in Activation /\ frames \in Seq(Frame)
      /\ mode \in {"args", "resuming"} => site \in Call
  BY DEF TypeInv, TypeOK, Frame
<1>1. ASSUME NEW lends \in Sites, NEW exits \in BOOLEAN, BeginCall(lends, exits)
      PROVE SlotInv'
  BY <1>1 DEF BeginCall, SlotInv, Back, given
<1>2. ASSUME LendWhole \/ LendPlace PROVE SlotInv'
  <2>1. site'.saved = site.saved
    BY <1>0, <1>2 DEF LendWhole, LendPlace, Call
  <2> QED BY <1>2, <2>1 DEF LendWhole, LendPlace, SlotInv, Back, given
<1>3. ASSUME LeaveArgs PROVE SlotInv'
  BY <1>3 DEF LeaveArgs, SlotInv, Back, given
<1>4. ASSUME Park PROVE SlotInv'
  <2> DEFINE f == [act |-> cur, call |-> site]
  <2>1. f \in Frame /\ f.act = cur /\ f.call = site
    BY <1>0, <1>4 DEF Park, Frame
  <2>2. Linked(frames, f.act.place) /\ Back(f.call, slot) = f.act.place
    BY <1>4, <2>1 DEF Park, SlotInv
  <2>3. frames' = Append(frames, f) /\ cur'.place = slot /\ slot' = slot /\ mode' = "run"
    BY <1>4 DEF Park, Start
  <2> HIDE DEF f
  <2>4. Linked(frames', slot)
    BY <1>0, <2>1, <2>2, <2>3, LinkPushed
  <2> QED BY <2>3, <2>4 DEF SlotInv
<1>5. ASSUME TailCall PROVE SlotInv'
  <2>1. slot = cur.place /\ Linked(frames, cur.place)
    BY <1>5 DEF TailCall, IsTail, SlotInv, Back
  <2> QED BY <1>5, <2>1 DEF TailCall, SlotInv, Start
<1>6. ASSUME NEW place \in Places, Swap(place) PROVE SlotInv'
  <2>1. slot \in Places /\ None \notin Places
    BY PlacesAssumption DEF TypeInv, TypeOK
  <2>2. site'.saved = slot
    BY <1>0, <1>6 DEF Swap, Call
  <2>3. slot = cur.place /\ Linked(frames, cur.place)
    BY <1>6 DEF Swap, SlotInv, Back
  <2> QED BY <1>6, <2>1, <2>2, <2>3 DEF Swap, SlotInv, Back, given
<1>7. ASSUME EnterLoop \/ LeaveLoop PROVE SlotInv'
  <2>1. cur'.place = cur.place
    BY <1>0, <1>7 DEF EnterLoop, LeaveLoop, Activation
  <2> QED BY <1>7, <2>1 DEF EnterLoop, LeaveLoop, SlotInv, given
<1>8. ASSUME Finish PROVE SlotInv'
  BY <1>8 DEF Finish, SlotInv
<1>9. ASSUME Resume PROVE SlotInv'
  BY <1>9 DEF Resume, SlotInv, Popped
<1>10. ASSUME TakeBack PROVE SlotInv'
  <2>1. site'.saved = site.saved
    BY <1>0, <1>10 DEF TakeBack, Call
  <2> QED BY <1>10, <2>1 DEF TakeBack, SlotInv
<1>11. ASSUME Resumed PROVE SlotInv'
  <2>1. frames # <<>> /\ Linked(frames, slot) /\ site.saved = Last(frames).call.saved
    BY <1>11 DEF Resumed, TypeInv, SlotInv
  <2>2. slot' = Last(frames).act.place /\ Linked(Front(frames), Last(frames).act.place)
    BY <1>0, <1>11, <2>1, LinkPopped DEF Resumed, Restore, Back
  <2>3. frames' = Front(frames)
    BY <1>11 DEF Resumed
  <2>4. \/ mode' = "run" /\ cur' = Last(frames).act
        \/ mode' = "value"
    BY <1>11 DEF Resumed, Popped
  <2> QED BY <2>2, <2>3, <2>4 DEF SlotInv
<1>12. ASSUME Return \/ DropStores \/ Panic \/ DropFrame PROVE SlotInv'
  BY <1>12 DEF Return, DropStores, Panic, DropFrame, SlotInv
<1>13. ASSUME NextItem \/ UNCHANGED vars PROVE SlotInv'
  BY <1>13 DEF NextItem, vars, given, SlotInv
<1>14. ASSUME BreakArgs PROVE SlotInv'
  <2>1. cur'.place = cur.place
    BY <1>0, <1>14 DEF BreakArgs, Activation
  <2>2. slot' = cur.place /\ Linked(frames, cur.place)
    BY <1>14 DEF BreakArgs, SlotInv, Back
  <2>3. mode' = "run" /\ frames' = frames
    BY <1>14 DEF BreakArgs
  <2> QED BY <2>1, <2>2, <2>3 DEF SlotInv
<1> QED BY <1>1, <1>2, <1>3, <1>4, <1>5, <1>6, <1>7, <1>8, <1>9, <1>10, <1>11, <1>12, <1>13, <1>14 DEF Next

\* Code that runs sees its own context place, whatever nested calls and abandoned argument
\* lists swapped in, for any depth.
THEOREM LendingSlotOwn == Spec => []SlotOwn
<1>1. SlotInv => SlotOwn
  BY DEF SlotInv, SlotOwn
<1> QED BY <1>1, TypeInit, TypeNext, SlotInit, SlotNext, PTL DEF Spec
-----------------------------------------------------------------------------
(* References. *)

Upto(s, m) == {s[i] : i \in 1..m}

\* What an activation entered with the stores at `a` and `b` needs of them: its references are
\* below those marks, and those it had when it entered a loop are below the loop's mark.
Level(act, S, a, O, b) ==
  /\ Held(act) \subseteq Upto(S, a) \union Upto(O, b)
  /\ \A l \in DOMAIN act.loops :
       /\ act.loops[l].mark <= a
       /\ act.ptrs \subseteq Upto(S, act.loops[l].mark) \union Upto(O, b)
       /\ \A j \in 1..(l - 1) :
            /\ act.loops[j].mark <= act.loops[l].mark
            /\ act.loops[j].held \in Upto(S, act.loops[l].mark) \union Upto(O, b)

\* Nothing the activation may release is below the call's marks.
Above(call, act, a, b) ==
  /\ call.shared <= a /\ call.own <= b
  /\ \A l \in DOMAIN act.loops : call.shared <= act.loops[l].mark

Stack(fs, S, O) ==
  \A k \in 1..Len(fs) :
    /\ fs[k].call.shared <= Len(S) /\ fs[k].call.own <= Len(O)
    /\ Level(fs[k].act, S, fs[k].call.shared, O, fs[k].call.own)
    /\ \A j \in 1..(k - 1) : Above(fs[j].call, fs[k].act, fs[k].call.shared, fs[k].call.own)

Current(fs, act, S, a, O, b) ==
  /\ a <= Len(S) /\ b <= Len(O)
  /\ Level(act, S, a, O, b)
  /\ \A j \in 1..Len(fs) : Above(fs[j].call, act, a, b)

Keeps(s, t, a) ==
  /\ a \in Nat /\ a <= Len(s) /\ a <= Len(t)
  /\ \A i \in 1..a : t[i] = s[i]

LEMMA KeepsAppend ==
  ASSUME NEW s \in Seq(Ids), NEW x \in Ids, NEW a \in Nat, a <= Len(s)
  PROVE  Keeps(s, Append(s, x), a)
BY Lengthened DEF Keeps

LEMMA KeepsCut ==
  ASSUME NEW s \in Seq(Ids), NEW m \in Nat, NEW a \in Nat, a <= Len(s), a <= m
  PROVE  Keeps(s, Truncated(s, m), a)
<1>1. /\ Len(s) \in Nat /\ Len(Truncated(s, m)) \in Nat
      /\ Len(Truncated(s, m)) = IF m < Len(s) THEN m ELSE Len(s)
      /\ \A i \in 1..Len(Truncated(s, m)) : Truncated(s, m)[i] = s[i]
  BY Cut, LenProperties
<1> QED BY <1>1 DEF Keeps

LEMMA KeepsUpto ==
  ASSUME NEW s, NEW t, NEW a, Keeps(s, t, a), NEW m \in Nat, m <= a
  PROVE  Upto(t, m) = Upto(s, m)
BY DEF Keeps, Upto

LEMMA UptoStored ==
  ASSUME NEW s \in Seq(Ids), NEW m \in Nat, m <= Len(s)
  PROVE  Upto(s, m) \subseteq ToSet(s) /\ Upto(s, Len(s)) = ToSet(s)
BY LenProperties DEF Upto, ToSet

LEMMA MarksAreNat ==
  ASSUME NEW act \in Activation
  PROVE  /\ act.loops \in Seq(Loop) /\ Len(act.loops) \in Nat
         /\ DOMAIN act.loops = 1..Len(act.loops)
         /\ \A l \in DOMAIN act.loops : act.loops[l].mark \in Nat
<1>1. act.loops \in Seq(Loop)
  BY DEF Activation, Loop
<1>2. \A l \in 1..Len(act.loops) : act.loops[l] \in Loop
  BY <1>1, ElementOfSeq
<1> QED BY <1>1, <1>2, LenProperties DEF Loop

\* Stores that agree below the marks serve as well,
LEMMA LevelKept ==
  ASSUME NEW act \in Activation, NEW S, NEW T, NEW O, NEW P, NEW a, NEW b,
         Level(act, S, a, O, b), Keeps(S, T, a), Keeps(O, P, b)
  PROVE  Level(act, T, a, P, b)
<1>1. Upto(T, a) = Upto(S, a) /\ Upto(P, b) = Upto(O, b)
  BY KeepsUpto DEF Keeps
<1>2. \A l \in DOMAIN act.loops : Upto(T, act.loops[l].mark) = Upto(S, act.loops[l].mark)
  BY MarksAreNat, KeepsUpto DEF Level
<1> QED BY <1>1, <1>2 DEF Level

\* and so do higher marks.
LEMMA LevelRaised ==
  ASSUME NEW act \in Activation, NEW S, NEW O, NEW a \in Nat, NEW b \in Nat,
         NEW c \in Nat, NEW d \in Nat, a <= c, b <= d, Level(act, S, a, O, b)
  PROVE  Level(act, S, c, O, d)
<1>1. Upto(S, a) \subseteq Upto(S, c) /\ Upto(O, b) \subseteq Upto(O, d)
  BY DEF Upto
<1>2. \A l \in DOMAIN act.loops : act.loops[l].mark <= c
  BY MarksAreNat DEF Level
<1> QED BY <1>1, <1>2 DEF Level

LEMMA AboveRaised ==
  ASSUME NEW act, NEW call \in Call, NEW a \in Nat, NEW b \in Nat,
         NEW c \in Nat, NEW d \in Nat, a <= c, b <= d, Above(call, act, a, b)
  PROVE  Above(call, act, c, d)
<1>1. call.shared \in Nat /\ call.own \in Nat
  BY BoundsAssumption DEF Call
<1> QED BY <1>1 DEF Above

\* An activation without references or loops asks nothing.
LEMMA LevelEmpty ==
  ASSUME NEW act \in Activation, act.loops = <<>>,
         NEW S \in Seq(Ids), NEW O \in Seq(Ids), act.ptrs \subseteq ToSet(S) \union ToSet(O)
  PROVE  /\ Level(act, S, Len(S), O, Len(O))
         /\ \A call \in Call : call.shared <= Len(S) /\ call.own <= Len(O)
                                 => Above(call, act, Len(S), Len(O))
<1>1. DOMAIN act.loops = {} /\ Held(act) = act.ptrs
  BY EmptySeq, LenProperties, MarksAreNat DEF Held
<1>2. ToSet(S) = Upto(S, Len(S)) /\ ToSet(O) = Upto(O, Len(O))
  BY UptoStored, LenProperties
<1> QED BY <1>1, <1>2 DEF Level, Above

LEMMA FrameParts ==
  ASSUME NEW fs \in Seq(Frame)
  PROVE  /\ Len(fs) \in Nat
         /\ \A k \in 1..Len(fs) :
              /\ fs[k] \in Frame /\ fs[k].act \in Activation /\ fs[k].call \in Call
              /\ fs[k].call.shared \in Nat /\ fs[k].call.own \in Nat
<1>1. \A k \in 1..Len(fs) : fs[k] \in Frame
  BY ElementOfSeq
<1>2. \A k \in 1..Len(fs) : fs[k].act \in Activation /\ fs[k].call \in Call
  BY <1>1 DEF Frame
<1>3. \A c \in Call : c.shared \in Nat /\ c.own \in Nat
  BY BoundsAssumption DEF Call
<1> QED BY <1>1, <1>2, <1>3, LenProperties

LEMMA StackKept ==
  ASSUME NEW fs \in Seq(Frame), NEW S, NEW T, NEW O, NEW P, Stack(fs, S, O),
         \A k \in 1..Len(fs) : Keeps(S, T, fs[k].call.shared) /\ Keeps(O, P, fs[k].call.own)
  PROVE  Stack(fs, T, P)
<1> SUFFICES ASSUME NEW k \in 1..Len(fs)
             PROVE  /\ fs[k].call.shared <= Len(T) /\ fs[k].call.own <= Len(P)
                    /\ Level(fs[k].act, T, fs[k].call.shared, P, fs[k].call.own)
                    /\ \A j \in 1..(k - 1) : Above(fs[j].call, fs[k].act, fs[k].call.shared, fs[k].call.own)
  BY DEF Stack
<1>1. Level(fs[k].act, T, fs[k].call.shared, P, fs[k].call.own)
  BY FrameParts, LevelKept DEF Stack
<1>2. fs[k].call.shared <= Len(T) /\ fs[k].call.own <= Len(P)
  BY DEF Keeps
<1> QED BY <1>1, <1>2 DEF Stack

LEMMA StackPushed ==
  ASSUME NEW fs \in Seq(Frame), NEW f \in Frame, NEW S, NEW O, Stack(fs, S, O),
         Current(fs, f.act, S, f.call.shared, O, f.call.own)
  PROVE  Stack(Append(fs, f), S, O)
<1> DEFINE gs == Append(fs, f)
           n == Len(fs)
<1>1. /\ n \in Nat /\ Len(gs) = n + 1
      /\ \A i \in 1..n : gs[i] = fs[i]
      /\ gs[n + 1] = f
  BY Lengthened
<1> HIDE DEF gs
<1> SUFFICES ASSUME NEW k \in 1..(n + 1)
             PROVE  /\ gs[k].call.shared <= Len(S) /\ gs[k].call.own <= Len(O)
                    /\ Level(gs[k].act, S, gs[k].call.shared, O, gs[k].call.own)
                    /\ \A j \in 1..(k - 1) : Above(gs[j].call, gs[k].act, gs[k].call.shared, gs[k].call.own)
  BY <1>1 DEF Stack, gs
<1>2. CASE k \in 1..n
  <2>1. gs[k] = fs[k] /\ \A j \in 1..(k - 1) : gs[j] = fs[j]
    BY <1>1, <1>2
  <2> QED BY <1>2, <2>1 DEF Stack
<1>3. CASE k = n + 1
  <2>1. gs[k] = f /\ \A j \in 1..(k - 1) : j \in 1..n /\ gs[j] = fs[j]
    BY <1>1, <1>3
  <2> QED BY <2>1 DEF Current
<1> QED BY <1>1, <1>2, <1>3

LEMMA StackPopped ==
  ASSUME NEW fs \in Seq(Frame), fs # <<>>, NEW S, NEW O, Stack(fs, S, O)
  PROVE  /\ Stack(Front(fs), S, O)
         /\ Current(Front(fs), Last(fs).act, S, Last(fs).call.shared, O, Last(fs).call.own)
<1> DEFINE gs == Front(fs)
           n == Len(fs)
<1>1. /\ n \in Nat /\ n > 0 /\ Len(gs) = n - 1
      /\ \A i \in 1..(n - 1) : gs[i] = fs[i]
      /\ Last(fs) = fs[n]
  BY FrontAndLast
<1> HIDE DEF gs
<1>2. Current(gs, fs[n].act, S, fs[n].call.shared, O, fs[n].call.own)
  BY <1>1 DEF Stack, Current
<1>3. Stack(gs, S, O)
  <2> SUFFICES ASSUME NEW k \in 1..(n - 1)
               PROVE  /\ gs[k].call.shared <= Len(S) /\ gs[k].call.own <= Len(O)
                      /\ Level(gs[k].act, S, gs[k].call.shared, O, gs[k].call.own)
                      /\ \A j \in 1..(k - 1) : Above(gs[j].call, gs[k].act, gs[k].call.shared, gs[k].call.own)
    BY <1>1 DEF Stack
  <2>1. gs[k] = fs[k] /\ k \in 1..n /\ \A j \in 1..(k - 1) : gs[j] = fs[j]
    BY <1>1
  <2> QED BY <2>1 DEF Stack
<1> QED BY <1>1, <1>2, <1>3 DEF gs

LEMMA StackCut ==
  ASSUME NEW fs \in Seq(Frame), NEW S \in Seq(Ids), NEW O \in Seq(Ids), Stack(fs, S, O),
         NEW m \in Nat, NEW n \in Nat,
         \A k \in 1..Len(fs) : fs[k].call.shared <= m /\ fs[k].call.own <= n
  PROVE  Stack(fs, Truncated(S, m), Truncated(O, n))
<1>1. \A k \in 1..Len(fs) : Keeps(S, Truncated(S, m), fs[k].call.shared)
  BY FrameParts, KeepsCut DEF Stack
<1>2. \A k \in 1..Len(fs) : Keeps(O, Truncated(O, n), fs[k].call.own)
  BY FrameParts, KeepsCut DEF Stack
<1> QED BY <1>1, <1>2, StackKept

LEMMA KeepsLess ==
  ASSUME NEW s \in Seq(Ids), NEW t \in Seq(Ids), NEW a, Keeps(s, t, a), NEW m \in Nat, m <= a
  PROVE  Keeps(s, t, m)
BY LenProperties DEF Keeps

LEMMA KeepsSame ==
  ASSUME NEW s \in Seq(Ids), NEW a \in Nat, a <= Len(s)
  PROVE  Keeps(s, s, a)
BY DEF Keeps

LEMMA StackCutShared ==
  ASSUME NEW fs \in Seq(Frame), NEW S \in Seq(Ids), NEW O \in Seq(Ids), Stack(fs, S, O),
         NEW m \in Nat, \A k \in 1..Len(fs) : fs[k].call.shared <= m
  PROVE  Stack(fs, Truncated(S, m), O)
<1>1. \A k \in 1..Len(fs) : Keeps(S, Truncated(S, m), fs[k].call.shared)
  BY FrameParts, KeepsCut DEF Stack
<1>2. \A k \in 1..Len(fs) : Keeps(O, O, fs[k].call.own)
  BY FrameParts, KeepsSame DEF Stack
<1> QED BY <1>1, <1>2, StackKept

LEMMA StackLengthened ==
  ASSUME NEW fs \in Seq(Frame), NEW S \in Seq(Ids), NEW O \in Seq(Ids), Stack(fs, S, O), NEW x \in Ids
  PROVE  Stack(fs, Append(S, x), O) /\ Stack(fs, S, Append(O, x))
<1>1. \A k \in 1..Len(fs) : /\ Keeps(S, Append(S, x), fs[k].call.shared)
                            /\ Keeps(O, Append(O, x), fs[k].call.own)
  BY FrameParts, KeepsAppend DEF Stack
<1>2. \A k \in 1..Len(fs) : /\ Keeps(S, S, fs[k].call.shared)
                            /\ Keeps(O, O, fs[k].call.own)
  BY FrameParts, KeepsSame DEF Stack
<1> QED BY <1>1, <1>2, StackKept

LEMMA StackStored ==
  ASSUME NEW fs \in Seq(Frame), NEW S \in Seq(Ids), NEW O \in Seq(Ids), Stack(fs, S, O)
  PROVE  \A k \in 1..Len(fs) : Held(fs[k].act) \subseteq ToSet(S) \union ToSet(O)
<1> SUFFICES ASSUME NEW k \in 1..Len(fs) PROVE Held(fs[k].act) \subseteq ToSet(S) \union ToSet(O)
  OBVIOUS
<1>1. Upto(S, fs[k].call.shared) \subseteq ToSet(S) /\ Upto(O, fs[k].call.own) \subseteq ToSet(O)
  BY FrameParts, UptoStored DEF Stack
<1> QED BY <1>1 DEF Stack, Level

LEMMA CurrentKept ==
  ASSUME NEW fs, NEW act \in Activation, NEW S, NEW T, NEW O, NEW P, NEW a, NEW b,
         Current(fs, act, S, a, O, b), Keeps(S, T, a), Keeps(O, P, b)
  PROVE  Current(fs, act, T, a, P, b)
BY LevelKept DEF Current, Keeps

LEMMA CurrentRaised ==
  ASSUME NEW fs \in Seq(Frame), NEW act \in Activation, NEW S \in Seq(Ids), NEW O \in Seq(Ids),
         NEW a \in Nat, NEW b \in Nat, Current(fs, act, S, a, O, b)
  PROVE  Current(fs, act, S, Len(S), O, Len(O))
<1>1. Len(S) \in Nat /\ Len(O) \in Nat /\ a <= Len(S) /\ b <= Len(O)
  BY LenProperties DEF Current
<1>2. Level(act, S, Len(S), O, Len(O))
  BY <1>1, LevelRaised DEF Current
<1>3. \A j \in 1..Len(fs) : Above(fs[j].call, act, Len(S), Len(O))
  BY <1>1, FrameParts, AboveRaised DEF Current
<1> QED BY <1>1, <1>2, <1>3 DEF Current

LEMMA CurrentEmpty ==
  ASSUME NEW fs \in Seq(Frame), NEW act \in Activation, NEW S \in Seq(Ids), NEW O \in Seq(Ids),
         Stack(fs, S, O), act.loops = <<>>, act.ptrs \subseteq ToSet(S) \union ToSet(O)
  PROVE  Current(fs, act, S, Len(S), O, Len(O))
<1>1. Len(S) \in Nat /\ Len(O) \in Nat
  BY LenProperties
<1>2. \A j \in 1..Len(fs) : Above(fs[j].call, act, Len(S), Len(O))
  BY FrameParts, LevelEmpty DEF Stack
<1> QED BY <1>1, <1>2, LevelEmpty DEF Current

LEMMA CurrentStored ==
  ASSUME NEW fs, NEW act, NEW S \in Seq(Ids), NEW O \in Seq(Ids),
         NEW a \in Nat, NEW b \in Nat, Current(fs, act, S, a, O, b)
  PROVE  Held(act) \subseteq ToSet(S) \union ToSet(O)
<1>1. Upto(S, a) \subseteq ToSet(S) /\ Upto(O, b) \subseteq ToSet(O)
  BY UptoStored DEF Current
<1> QED BY <1>1 DEF Current, Level

\* The collections of the running body's loops lie above everything its callers refer to.
LEMMA TornDownStack ==
  ASSUME TypeInv, Stack(frames, shared, own), NEW a \in Nat, NEW b \in Nat,
         Current(frames, cur, shared, a, own, b)
  PROVE  Stack(frames, TornDown(cur), own)
<1>1. /\ frames \in Seq(Frame) /\ shared \in Seq(Ids) /\ own \in Seq(Ids) /\ cur \in Activation
  BY DEF TypeInv, TypeOK, Frame
<1>2. CASE cur.loops = <<>>
  BY <1>2 DEF TornDown
<1>3. CASE cur.loops # <<>>
  <2>1. 1 \in DOMAIN cur.loops
    BY <1>1, <1>3, MarksAreNat, EmptySeq
  <2>2. \A k \in 1..Len(frames) : frames[k].call.shared <= cur.loops[1].mark
    BY <2>1 DEF Current, Above
  <2>3. cur.loops[1].mark \in Nat
    BY <1>1, <2>1, MarksAreNat
  <2> QED BY <1>1, <1>3, <2>2, <2>3, StackCutShared DEF TornDown
<1> QED BY <1>2, <1>3

LendInv ==
  /\ mode \in {"value", "resuming", "unwinding", "over"} => cur.ptrs = {} /\ cur.loops = <<>>
  /\ mode \in {"run", "value", "resuming"} =>
       Stack(frames, shared, own) /\ Current(frames, cur, shared, Len(shared), own, Len(own))
  /\ mode = "args" =>
       /\ Stack(frames, shared, own) /\ Current(frames, cur, shared, site.shared, own, site.own)
       /\ ToSet(site.pushed) \subseteq Stored
  /\ mode = "resuming" =>
       site.shared = Last(frames).call.shared /\ site.own = Last(frames).call.own
  /\ mode = "unwinding" => \A k \in DOMAIN frames : Held(frames[k].act) \subseteq Stored
  /\ mode = "over" => frames = <<>>

LEMMA LendInit == Init => LendInv
<1> SUFFICES ASSUME Init PROVE LendInv
  OBVIOUS
<1>1. TypeInv
  BY TypeInit
<1>2. /\ <<>> \in Seq(Frame) /\ <<>> \in Seq(Ids) /\ Len(<<>>) = 0
  BY EmptySeq
<1>3. cur \in Activation /\ cur.loops = <<>> /\ cur.ptrs = {} /\ mode = "run"
  BY <1>1 DEF Init, TypeInv, TypeOK
<1>4. Stack(frames, shared, own)
  BY <1>2 DEF Init, Stack
<1>5. Current(frames, cur, shared, Len(shared), own, Len(own))
  BY <1>2, <1>3, <1>4, CurrentEmpty DEF Init
<1> QED BY <1>3, <1>4, <1>5 DEF LendInv

\* A body that has nothing left of its own.
LEMMA EmptyCurrent ==
  ASSUME TypeInv', Stack(frames', shared', own'),
         cur'.loops = <<>>, cur'.ptrs \subseteq Stored'
  PROVE  Current(frames', cur', shared', Len(shared'), own', Len(own'))
<1>1. frames' \in Seq(Frame) /\ shared' \in Seq(Ids) /\ own' \in Seq(Ids) /\ cur' \in Activation
  BY DEF TypeInv, TypeOK, Frame
<1>2. cur'.ptrs \subseteq ToSet(shared') \union ToSet(own')
  BY DEF Stored
<1> HIDE DEF Stack, Current
<1> QED BY <1>1, <1>2, CurrentEmpty

LEMMA Added ==
  ASSUME NEW s \in Seq(Ids), NEW x \in Ids
  PROVE  ToSet(Append(s, x)) = ToSet(s) \union {x}
<1>1. /\ Len(s) \in Nat /\ DOMAIN s = 1..Len(s)
      /\ DOMAIN Append(s, x) = 1..(Len(s) + 1)
      /\ \A i \in 1..Len(s) : Append(s, x)[i] = s[i]
      /\ Append(s, x)[Len(s) + 1] = x
  BY Lengthened, LenProperties
<1> QED BY <1>1 DEF ToSet

\* The last frame's mark is the highest.
LEMMA TopMarks ==
  ASSUME NEW fs \in Seq(Frame), fs # <<>>, NEW S, NEW O, Stack(fs, S, O)
  PROVE  \A k \in 1..Len(fs) : /\ fs[k].call.shared <= Last(fs).call.shared
                               /\ fs[k].call.own <= Last(fs).call.own
<1>1. Len(fs) \in Nat /\ Len(fs) > 0 /\ Last(fs) = fs[Len(fs)]
  BY FrontAndLast
<1> SUFFICES ASSUME NEW k \in 1..Len(fs)
             PROVE  /\ fs[k].call.shared <= fs[Len(fs)].call.shared
                    /\ fs[k].call.own <= fs[Len(fs)].call.own
  BY <1>1
<1>2. CASE k = Len(fs)
  BY <1>2, FrameParts
<1>3. CASE k < Len(fs)
  <2>1. k \in 1..(Len(fs) - 1)
    BY <1>1, <1>3
  <2>2. Above(fs[k].call, fs[Len(fs)].act, fs[Len(fs)].call.shared, fs[Len(fs)].call.own)
    BY <1>1, <2>1 DEF Stack
  <2> QED BY <2>2 DEF Above
<1> QED BY <1>1, <1>2, <1>3

LEMMA LoopEntered == ASSUME TypeInv, LendInv, EnterLoop PROVE LendInv'
<1>0. /\ cur \in Activation /\ frames \in Seq(Frame) /\ shared \in Seq(Ids) /\ own \in Seq(Ids)
      /\ Len(shared) \in Nat /\ Len(own) \in Nat
  BY LenProperties DEF TypeInv, TypeOK, Frame
<1> DEFINE x == born + 1
           n == Len(shared)
           l == [mark |-> n, held |-> x]
           N == Len(cur.loops)
           T == Append(shared, x)
<1>1. x \in Ids
  BY Sizes DEF EnterLoop, Ids
<1>2. Stack(frames, shared, own) /\ Current(frames, cur, shared, n, own, Len(own))
  BY DEF EnterLoop, LendInv
<1>3. /\ shared' = T /\ own' = own /\ frames' = frames /\ mode' = "run"
      /\ cur' = [cur EXCEPT !.loops = Append(@, l)]
  BY DEF EnterLoop
<1>4. l \in Loop
  BY <1>0, <1>1, Sizes DEF Loop
<1>5. cur'.ptrs = cur.ptrs /\ cur'.loops = Append(cur.loops, l)
  BY <1>0, <1>3 DEF Activation
<1>6. /\ cur.loops \in Seq(Loop) /\ N \in Nat /\ DOMAIN cur.loops = 1..N
      /\ DOMAIN cur'.loops = 1..(N + 1)
      /\ \A k \in 1..N : cur'.loops[k] = cur.loops[k]
      /\ cur'.loops[N + 1] = l
  BY <1>0, <1>4, <1>5, MarksAreNat, Lengthened, LenProperties
<1>7. l.mark = n /\ l.held = x
  OBVIOUS
<1>8. Len(T) = n + 1 /\ Keeps(shared, T, n) /\ Keeps(own, own, Len(own)) /\ T[n + 1] = x
  BY <1>0, <1>1, Lengthened, KeepsAppend, KeepsSame
<1> HIDE DEF l, T, x
<1>9. Stack(frames, T, own)
  BY <1>0, <1>1, <1>2, StackLengthened DEF T
<1>10. Current(frames, cur, T, n, own, Len(own))
  BY <1>0, <1>2, <1>8, CurrentKept
<1>11. Level(cur, T, n, own, Len(own))
  BY <1>10 DEF Current
<1>12. Upto(T, n) \subseteq Upto(T, n + 1) /\ x \in Upto(T, n + 1)
  BY <1>0, <1>8 DEF Upto
<1>13. /\ cur.ptrs \subseteq Upto(T, n) \union Upto(own, Len(own))
       /\ \A k \in 1..N : cur.loops[k].held \in Upto(T, n) \union Upto(own, Len(own))
  BY <1>6, <1>11 DEF Level, Held
<1>14. Held(cur') \subseteq Upto(T, n + 1) \union Upto(own, Len(own))
  <2>1. \A k \in 1..(N + 1) : cur'.loops[k].held \in Upto(T, n + 1) \union Upto(own, Len(own))
    <3> SUFFICES ASSUME NEW k \in 1..(N + 1)
                 PROVE  cur'.loops[k].held \in Upto(T, n + 1) \union Upto(own, Len(own))
      OBVIOUS
    <3>1. CASE k = N + 1
      BY <1>6, <1>7, <1>12, <3>1
    <3>2. CASE k \in 1..N
      BY <1>6, <1>12, <1>13, <3>2
    <3> QED BY <1>6, <3>1, <3>2
  <2>2. cur'.ptrs \subseteq Upto(T, n + 1) \union Upto(own, Len(own))
    BY <1>5, <1>12, <1>13
  <2> QED BY <1>6, <2>1, <2>2 DEF Held
<1>15. ASSUME NEW k \in DOMAIN cur'.loops
       PROVE  /\ cur'.loops[k].mark <= n + 1
              /\ cur'.ptrs \subseteq Upto(T, cur'.loops[k].mark) \union Upto(own, Len(own))
              /\ \A j \in 1..(k - 1) :
                   /\ cur'.loops[j].mark <= cur'.loops[k].mark
                   /\ cur'.loops[j].held \in Upto(T, cur'.loops[k].mark) \union Upto(own, Len(own))
  <2>1. CASE k = N + 1
    <3>1. \A j \in 1..(k - 1) : j \in 1..N /\ cur'.loops[j] = cur.loops[j] /\ cur.loops[j].mark <= n
      BY <1>6, <1>11, <2>1 DEF Level
    <3> QED BY <1>0, <1>5, <1>6, <1>7, <1>13, <2>1, <3>1
  <2>2. CASE k \in 1..N
    <3>1. cur'.loops[k] = cur.loops[k] /\ \A j \in 1..(k - 1) : cur'.loops[j] = cur.loops[j]
      BY <1>6, <2>2
    <3>2. cur.loops[k].mark \in Nat /\ cur.loops[k].mark <= n
      BY <1>0, <1>6, <1>11, <2>2, MarksAreNat DEF Level
    <3> QED BY <1>0, <1>5, <1>6, <1>11, <2>2, <3>1, <3>2 DEF Level
  <2> QED BY <1>6, <2>1, <2>2
<1>16. Level(cur', T, n + 1, own, Len(own))
  BY <1>14, <1>15 DEF Level
<1>17. ASSUME NEW j \in 1..Len(frames) PROVE Above(frames[j].call, cur', n + 1, Len(own))
  <2>1. Above(frames[j].call, cur, n, Len(own)) /\ frames[j].call.shared \in Nat
    BY <1>0, <1>2, FrameParts DEF Current
  <2>2. ASSUME NEW k \in 1..(N + 1) PROVE frames[j].call.shared <= cur'.loops[k].mark
    <3>1. CASE k = N + 1
      BY <1>6, <1>7, <2>1, <3>1 DEF Above
    <3>2. CASE k \in 1..N
      BY <1>6, <2>1, <3>2 DEF Above
    <3> QED BY <1>6, <3>1, <3>2
  <2> QED BY <1>0, <1>6, <2>1, <2>2 DEF Above
<1>18. Current(frames', cur', shared', Len(shared'), own', Len(own'))
  <2>1. Current(frames, cur', T, n + 1, own, Len(own))
    <3>1. n + 1 <= Len(T) /\ Len(own) <= Len(own)
      BY <1>0, <1>8
    <3> QED BY <1>16, <1>17, <3>1 DEF Current
  <2> QED BY <1>3, <1>8, <2>1
<1>19. Stack(frames', shared', own')
  BY <1>3, <1>9
<1> QED BY <1>3, <1>18, <1>19 DEF LendInv

\* A body that runs on behind the loop it was in, whose collection is released.
LoopGone ==
  /\ mode' = "run" /\ cur.loops # <<>>
  /\ shared' = Truncated(shared, Last(cur.loops).mark)
  /\ cur' = [cur EXCEPT !.loops = Front(@)]
  /\ UNCHANGED <<lapses, frames, own, back>>

\* A body that goes on after its arguments were given up, still in the loop or behind it.
LEMMA Broken ==
  ASSUME BreakArgs
  PROVE  /\ mode = "args" /\ mode' = "run"
         /\ site.pushed # <<>> => "leave args" \in lapses
         /\ UNCHANGED <<lapses, frames, own, back>>
         /\ UNCHANGED <<shared, cur>> \/ LoopGone
BY DEF BreakArgs, LoopGone, given

LEMMA LeftLoop == LeaveLoop => mode = "run" /\ LoopGone
BY DEF LeaveLoop, LoopGone, given

LEMMA LoopLeft ==
  ASSUME TypeInv, Stack(frames, shared, own),
         Current(frames, cur, shared, Len(shared), own, Len(own)), LoopGone
  PROVE  LendInv'
<1>0. /\ cur \in Activation /\ frames \in Seq(Frame) /\ shared \in Seq(Ids) /\ own \in Seq(Ids)
      /\ Len(shared) \in Nat /\ Len(own) \in Nat
  BY LenProperties DEF TypeInv, TypeOK, Frame
<1> DEFINE n == Len(shared)
           N == Len(cur.loops)
           m == Last(cur.loops).mark
           T == Truncated(shared, m)
<1>2. Stack(frames, shared, own) /\ Current(frames, cur, shared, n, own, Len(own))
  OBVIOUS
<1>3. /\ shared' = T /\ own' = own /\ frames' = frames /\ mode' = "run"
      /\ cur' = [cur EXCEPT !.loops = Front(@)] /\ cur.loops # <<>>
  BY DEF LoopGone
<1>4. cur'.ptrs = cur.ptrs /\ cur'.loops = Front(cur.loops)
  BY <1>0, <1>3 DEF Activation
<1>5. /\ cur.loops \in Seq(Loop) /\ N \in Nat /\ N > 0 /\ DOMAIN cur.loops = 1..N
      /\ DOMAIN cur'.loops = 1..(N - 1)
      /\ \A k \in 1..(N - 1) : cur'.loops[k] = cur.loops[k]
      /\ m = cur.loops[N].mark /\ m \in Nat
  <2>1. cur.loops \in Seq(Loop) /\ N \in Nat /\ DOMAIN cur.loops = 1..N
    BY <1>0, MarksAreNat
  <2>2. /\ N > 0 /\ Front(cur.loops) \in Seq(Loop) /\ Len(Front(cur.loops)) = N - 1
        /\ \A k \in 1..(N - 1) : Front(cur.loops)[k] = cur.loops[k]
        /\ Last(cur.loops) = cur.loops[N]
    BY <1>3, <2>1, FrontAndLast
  <2>3. DOMAIN Front(cur.loops) = 1..(N - 1)
    BY <2>2, LenProperties
  <2>4. cur.loops[N].mark \in Nat
    BY <1>0, <2>1, <2>2, MarksAreNat
  <2> QED BY <1>4, <2>1, <2>2, <2>3, <2>4
<1> HIDE DEF m, T
<1>6. Level(cur, shared, n, own, Len(own)) /\ m <= n
  <2>1. Level(cur, shared, n, own, Len(own))
    BY <1>2 DEF Current
  <2>2. N \in DOMAIN cur.loops
    BY <1>5
  <2> QED BY <1>5, <2>1, <2>2 DEF Level
<1>7. Keeps(shared, T, m) /\ Len(T) = m
  <2>1. m \in Nat /\ m <= n /\ m <= m
    BY <1>5, <1>6
  <2>2. Keeps(shared, T, m)
    BY <1>0, <2>1, KeepsCut DEF T
  <2>3. Len(T) = IF m < n THEN m ELSE n
    BY <1>0, <2>1, Cut DEF T
  <2> QED BY <1>0, <2>1, <2>2, <2>3
<1>8. Stack(frames, T, own)
  <2>1. N \in DOMAIN cur.loops
    BY <1>5
  <2>2. \A k \in 1..Len(frames) : frames[k].call.shared <= cur.loops[N].mark
    BY <1>2, <2>1 DEF Current, Above
  <2> QED BY <1>0, <1>2, <1>5, <2>2, StackCutShared DEF T
<1>9. \A i \in Nat : i <= m => Upto(T, i) = Upto(shared, i)
  BY <1>7, KeepsUpto
<1>10. /\ cur.ptrs \subseteq Upto(T, m) \union Upto(own, Len(own))
       /\ \A k \in 1..(N - 1) : /\ cur.loops[k].held \in Upto(T, m) \union Upto(own, Len(own))
                                /\ cur.loops[k].mark <= m
  <2>1. /\ N \in DOMAIN cur.loops /\ Upto(T, m) = Upto(shared, m)
        /\ m \in Nat /\ m <= m
    BY <1>5, <1>9
  <2>2. /\ cur.ptrs \subseteq Upto(shared, cur.loops[N].mark) \union Upto(own, Len(own))
        /\ \A k \in 1..(N - 1) :
             /\ cur.loops[k].held \in Upto(shared, cur.loops[N].mark) \union Upto(own, Len(own))
             /\ cur.loops[k].mark <= cur.loops[N].mark
    BY <1>6, <2>1 DEF Level
  <2> QED BY <1>5, <2>1, <2>2
<1>11. Held(cur') \subseteq Upto(T, m) \union Upto(own, Len(own))
  BY <1>4, <1>5, <1>10 DEF Held
<1>12. ASSUME NEW k \in DOMAIN cur'.loops
       PROVE  /\ cur'.loops[k].mark <= m
              /\ cur'.ptrs \subseteq Upto(T, cur'.loops[k].mark) \union Upto(own, Len(own))
              /\ \A j \in 1..(k - 1) :
                   /\ cur'.loops[j].mark <= cur'.loops[k].mark
                   /\ cur'.loops[j].held \in Upto(T, cur'.loops[k].mark) \union Upto(own, Len(own))
  <2>1. k \in 1..(N - 1) /\ k \in DOMAIN cur.loops
    BY <1>5
  <2>2. cur'.loops[k] = cur.loops[k] /\ \A j \in 1..(k - 1) : cur'.loops[j] = cur.loops[j]
    BY <1>5, <2>1
  <2>3. cur.loops[k].mark \in Nat /\ cur.loops[k].mark <= m
    BY <1>0, <1>10, <2>1, MarksAreNat
  <2>4. Upto(T, cur.loops[k].mark) = Upto(shared, cur.loops[k].mark)
    BY <1>9, <2>3
  <2> QED BY <1>4, <1>6, <2>1, <2>2, <2>3, <2>4 DEF Level
<1>13. Level(cur', T, m, own, Len(own))
  BY <1>11, <1>12 DEF Level
<1>14. ASSUME NEW j \in 1..Len(frames) PROVE Above(frames[j].call, cur', m, Len(own))
  <2>1. Above(frames[j].call, cur, n, Len(own))
    BY <1>2 DEF Current
  <2>2. /\ N \in DOMAIN cur.loops
        /\ \A k \in DOMAIN cur'.loops : k \in DOMAIN cur.loops /\ cur'.loops[k] = cur.loops[k]
    <3>1. N \in Nat /\ N > 0 /\ DOMAIN cur.loops = 1..N /\ DOMAIN cur'.loops = 1..(N - 1)
      BY <1>5
    <3>2. \A k \in 1..(N - 1) : cur'.loops[k] = cur.loops[k]
      BY <1>5
    <3> HIDE DEF N
    <3> QED BY <3>1, <3>2
  <2>3. /\ frames[j].call.shared <= cur.loops[N].mark
        /\ \A k \in DOMAIN cur'.loops : frames[j].call.shared <= cur'.loops[k].mark
        /\ frames[j].call.own <= Len(own)
    BY <2>1, <2>2 DEF Above
  <2> QED BY <1>5, <2>3 DEF Above
<1>15. Current(frames', cur', shared', Len(shared'), own', Len(own'))
  <2>1. m <= Len(T) /\ Len(own) <= Len(own)
    BY <1>0, <1>5, <1>7
  <2>2. Current(frames, cur', T, m, own, Len(own))
    BY <1>13, <1>14, <2>1 DEF Current
  <2> QED BY <1>3, <1>7, <2>2
<1>16. Stack(frames', shared', own')
  BY <1>3, <1>8
<1> QED BY <1>3, <1>15, <1>16 DEF LendInv

LEMMA FrameResumed == ASSUME TypeInv, TypeInv', LendInv, Resumed PROVE LendInv'
<1>0. /\ frames \in Seq(Frame) /\ shared \in Seq(Ids) /\ own \in Seq(Ids)
      /\ frames # <<>> /\ site \in Call
  BY DEF TypeInv, TypeOK, Frame, Resumed
<1>p. /\ cur' \in Activation /\ frames' \in Seq(Frame) /\ shared' \in Seq(Ids) /\ own' \in Seq(Ids)
  BY DEF TypeInv, TypeOK, Frame
<1> DEFINE f == Last(frames)
           a == f.call.shared
           b == f.call.own
<1>1. /\ f \in Frame /\ f.act \in Activation /\ f.call \in Call
  <2>1. f \in Frame
    BY <1>0, FrontAndLast
  <2> QED BY <2>1 DEF Frame
<1>2. a \in Nat /\ b \in Nat
  BY <1>1, BoundsAssumption DEF Call
<1>3. /\ Stack(frames, shared, own) /\ site.shared = a /\ site.own = b
      /\ cur.ptrs = {} /\ cur.loops = <<>>
  BY DEF Resumed, LendInv
<1>4. /\ frames' = Front(frames)
      /\ shared' = IF HasMark(site) THEN Truncated(shared, a) ELSE shared
      /\ own' = IF HasOwnMark(site) THEN Truncated(own, b) ELSE own
      /\ \/ mode' = "run" /\ cur' = f.act
         \/ mode' = "value" /\ cur' = cur
  <2>1. /\ frames' = Front(frames)
        /\ shared' = IF HasMark(site) THEN Truncated(shared, site.shared) ELSE shared
        /\ own' = IF HasOwnMark(site) THEN Truncated(own, site.own) ELSE own
    BY DEF Resumed, Unpin
  <2>2. \/ mode' = "run" /\ cur' = f.act
        \/ mode' = "value" /\ cur' = cur
    BY Zenon DEF Resumed, Popped
  <2> QED BY <1>3, <2>1, <2>2
<1> HIDE DEF f, a, b
<1>5. a <= Len(shared) /\ b <= Len(own)
  <2>1. Len(frames) \in Nat /\ Len(frames) > 0 /\ Last(frames) = frames[Len(frames)]
    BY <1>0, FrontAndLast
  <2>2. Len(frames) \in 1..Len(frames) /\ f = frames[Len(frames)]
    BY <2>1 DEF f
  <2> QED BY <1>3, <2>2 DEF Stack, a, b
<1>6. Keeps(shared, shared', a) /\ Keeps(own, own', b)
  BY <1>0, <1>2, <1>4, <1>5, KeepsCut, KeepsSame
<1>7. /\ Stack(Front(frames), shared, own) /\ Current(Front(frames), f.act, shared, a, own, b)
  BY <1>0, <1>3, StackPopped DEF f, a, b
<1>8. Current(frames', f.act, shared', a, own', b)
  BY <1>1, <1>4, <1>6, <1>7, CurrentKept
<1>9. Stack(frames', shared', own')
  <2>1. \A k \in 1..Len(frames') : /\ frames'[k].call.shared \in Nat /\ frames'[k].call.own \in Nat
                                   /\ frames'[k].call.shared <= a /\ frames'[k].call.own <= b
    BY <1>4, <1>7, <1>p, FrameParts DEF Current, Above
  <2>2. \A k \in 1..Len(frames') : /\ Keeps(shared, shared', frames'[k].call.shared)
                                   /\ Keeps(own, own', frames'[k].call.own)
    BY <1>0, <1>2, <1>6, <1>p, <2>1, KeepsLess
  <2> QED BY <1>4, <1>7, <1>p, <2>2, StackKept
<1>10. CASE mode' = "run" /\ cur' = f.act
  <2>1. Current(frames', cur', shared', Len(shared'), own', Len(own'))
    BY <1>2, <1>8, <1>10, <1>p, CurrentRaised
  <2> QED BY <1>9, <1>10, <2>1 DEF LendInv
<1>11. CASE mode' = "value" /\ cur' = cur
  <2>1. Current(frames', cur', shared', Len(shared'), own', Len(own'))
    BY <1>3, <1>9, <1>11, EmptyCurrent
  <2> QED BY <1>3, <1>9, <1>11, <2>1 DEF LendInv
<1> QED BY <1>4, <1>10, <1>11

\* A body whose arguments are given up refers to nothing above its marks.
LEMMA ArgsCurrent ==
  ASSUME TypeInv, LendInv, mode = "args"
  PROVE  /\ Stack(frames, shared, own)
         /\ Current(frames, cur, shared, Len(shared), own, Len(own))
<1>1. /\ cur \in Activation /\ frames \in Seq(Frame) /\ shared \in Seq(Ids) /\ own \in Seq(Ids)
      /\ site \in Call
  BY DEF TypeInv, TypeOK, Frame
<1>2. site.shared \in Nat /\ site.own \in Nat
  BY <1>1, BoundsAssumption DEF Call
<1>3. Stack(frames, shared, own) /\ Current(frames, cur, shared, site.shared, own, site.own)
  BY DEF LendInv
<1> QED BY <1>1, <1>2, <1>3, CurrentRaised

LEMMA LendNext == TypeInv /\ LendInv /\ [Next]_vars => LendInv'
<1> SUFFICES ASSUME TypeInv, LendInv, [Next]_vars PROVE LendInv'
  OBVIOUS
<1>t. TypeInv'
  BY TypeNext
<1>0. /\ cur \in Activation /\ frames \in Seq(Frame) /\ shared \in Seq(Ids) /\ own \in Seq(Ids)
      /\ Len(shared) \in Nat /\ Len(own) \in Nat
      /\ mode \in {"args", "resuming"} => site \in Call
  BY LenProperties DEF TypeInv, TypeOK, Frame
<1>p. /\ cur' \in Activation /\ frames' \in Seq(Frame) /\ shared' \in Seq(Ids) /\ own' \in Seq(Ids)
  BY <1>t DEF TypeInv, TypeOK, Frame
<1>c. \A call \in Call : call.shared \in Nat /\ call.own \in Nat /\ call.pushed \in Seq(Ids)
  BY BoundsAssumption DEF Call
<1>b. born < MaxBorn => born + 1 \in Ids
  BY Sizes DEF Ids
<1>s. \A ptrs : Start(ptrs).loops = <<>> /\ Start(ptrs).ptrs = ptrs
  BY DEF Start
<1>1. ASSUME NEW lends \in Sites, NEW exits \in BOOLEAN, BeginCall(lends, exits)
      PROVE LendInv'
  <2>1. Stack(frames, shared, own) /\ Current(frames, cur, shared, Len(shared), own, Len(own))
    BY <1>1 DEF BeginCall, LendInv
  <2>2. site'.shared = Len(shared) /\ site'.own = Len(own) /\ site'.pushed = <<>> /\ mode' = "args"
    BY <1>1 DEF BeginCall
  <2>3. /\ frames' = frames /\ shared' = shared /\ own' = own /\ cur' = cur
    BY <1>1 DEF BeginCall
  <2>4. ToSet(<<>>) = {}
    BY EmptySeq DEF ToSet
  <2> QED BY <2>1, <2>2, <2>3, <2>4 DEF LendInv
<1>2. ASSUME LendWhole \/ LendPlace PROVE LendInv'
  <2>1. /\ Stack(frames, shared, own) /\ Current(frames, cur, shared, site.shared, own, site.own)
        /\ ToSet(site.pushed) \subseteq Stored /\ site \in Call
    BY <1>0, <1>2 DEF LendWhole, LendPlace, LendInv
  <2>2. /\ born + 1 \in Ids /\ frames' = frames /\ cur' = cur /\ mode' = "args"
        /\ site'.shared = site.shared /\ site'.own = site.own
        /\ site'.pushed = Append(site.pushed, born + 1)
    BY <1>2, <1>b, <2>1 DEF LendWhole, LendPlace, Call
  <2>3. /\ Keeps(shared, Append(shared, born + 1), site.shared) /\ Keeps(shared, shared, site.shared)
        /\ Keeps(own, Append(own, born + 1), site.own) /\ Keeps(own, own, site.own)
    BY <1>0, <1>c, <2>1, <2>2, KeepsAppend, KeepsSame DEF Current
  <2>4. \/ shared' = Append(shared, born + 1) /\ own' = own
        \/ own' = Append(own, born + 1) /\ shared' = shared
    BY <1>2 DEF LendWhole, LendPlace
  <2>5. Stack(frames, shared', own')
    BY <1>0, <2>1, <2>2, <2>4, StackLengthened
  <2>6. Keeps(shared, shared', site.shared) /\ Keeps(own, own', site.own)
    BY <2>3, <2>4
  <2>7. Current(frames, cur, shared', site.shared, own', site.own)
    BY <1>0, <2>1, <2>6, CurrentKept
  <2>8. \A s \in Seq(Ids) : ToSet(Append(s, born + 1)) = ToSet(s) \union {born + 1}
    BY <2>2, Added
  <2>9. ToSet(site'.pushed) \subseteq Stored'
    <3>1. ToSet(site'.pushed) = ToSet(site.pushed) \union {born + 1}
      BY <1>c, <2>1, <2>2, <2>8
    <3>2. Stored' = Stored \union {born + 1}
      BY <1>0, <2>4, <2>8 DEF Stored
    <3> QED BY <2>1, <3>1, <3>2
  <2> QED BY <2>2, <2>5, <2>7, <2>9 DEF LendInv
<1>3. ASSUME LeaveArgs \/ Finish PROVE LendInv'
  <2>1. Stack(frames, TornDown(cur), own)
    <3>1. CASE mode = "args"
      BY <1>0, <1>c, <3>1, TornDownStack DEF LendInv
    <3>2. CASE mode = "run"
      BY <1>0, <3>2, TornDownStack DEF LendInv
    <3> QED BY <1>3, <3>1, <3>2 DEF LeaveArgs, Finish
  <2>2. /\ frames' = frames /\ shared' = TornDown(cur) /\ own' = own /\ mode' = "value"
        /\ cur'.loops = <<>> /\ cur'.ptrs = {}
    BY <1>3, <1>s DEF LeaveArgs, Finish
  <2>3. Stack(frames', shared', own')
    BY <2>1, <2>2
  <2>4. Current(frames', cur', shared', Len(shared'), own', Len(own'))
    BY <1>t, <2>2, <2>3, EmptyCurrent
  <2> QED BY <2>2, <2>3, <2>4 DEF LendInv
<1>4. ASSUME Park PROVE LendInv'
  <2> DEFINE f == [act |-> cur, call |-> site]
  <2>1. /\ Stack(frames, shared, own) /\ Current(frames, cur, shared, site.shared, own, site.own)
        /\ ToSet(site.pushed) \subseteq Stored /\ site \in Call
    BY <1>0, <1>4 DEF Park, LendInv
  <2>2. f \in Frame /\ f.act = cur /\ f.call = site
    BY <1>0, <2>1 DEF Frame
  <2>3. /\ frames' = Append(frames, f) /\ shared' = shared /\ own' = own /\ mode' = "run"
        /\ cur'.loops = <<>> /\ cur'.ptrs = Held(cur) \union ToSet(site.pushed)
    BY <1>4, <1>s DEF Park
  <2> HIDE DEF f
  <2>4. Stack(frames', shared', own')
    BY <1>0, <2>1, <2>2, <2>3, StackPushed
  <2>5. cur'.ptrs \subseteq Stored'
    <3>1. Held(cur) \subseteq Stored
      BY <1>0, <1>c, <2>1, CurrentStored DEF Stored
    <3> QED BY <2>1, <2>3, <3>1 DEF Stored
  <2>6. Current(frames', cur', shared', Len(shared'), own', Len(own'))
    BY <1>t, <2>3, <2>4, <2>5, EmptyCurrent
  <2> QED BY <2>3, <2>4, <2>6 DEF LendInv
<1>5. ASSUME TailCall PROVE LendInv'
  <2>1. /\ Stack(frames, shared, own) /\ Current(frames, cur, shared, site.shared, own, site.own)
        /\ site \in Call
    BY <1>0, <1>5 DEF TailCall, LendInv
  <2>2. /\ frames' = frames /\ shared' = shared /\ own' = own /\ mode' = "run"
        /\ cur'.loops = <<>> /\ cur'.ptrs = Held(cur)
    BY <1>5, <1>s DEF TailCall
  <2>3. cur'.ptrs \subseteq Stored'
    <3>1. Held(cur) \subseteq Stored
      BY <1>0, <1>c, <2>1, CurrentStored DEF Stored
    <3> QED BY <2>2, <3>1 DEF Stored
  <2>4. Stack(frames', shared', own')
    BY <2>1, <2>2
  <2>5. Current(frames', cur', shared', Len(shared'), own', Len(own'))
    BY <1>t, <2>2, <2>3, <2>4, EmptyCurrent
  <2> QED BY <2>2, <2>4, <2>5 DEF LendInv
<1>6. ASSUME NEW place \in Places, Swap(place) PROVE LendInv'
  <2>1. /\ site'.shared = site.shared /\ site'.own = site.own /\ site'.pushed = site.pushed
        /\ mode' = mode /\ mode = "args"
        /\ frames' = frames /\ shared' = shared /\ own' = own /\ cur' = cur
    BY <1>0, <1>6 DEF Swap, Call
  <2> QED BY <2>1 DEF LendInv, Stored
<1>7. ASSUME EnterLoop PROVE LendInv'
  BY <1>7, LoopEntered
<1>8. ASSUME LeaveLoop PROVE LendInv'
  <2>1. Stack(frames, shared, own) /\ Current(frames, cur, shared, Len(shared), own, Len(own))
    BY <1>8, LeftLoop DEF LendInv
  <2> QED BY <1>8, <2>1, LeftLoop, LoopLeft
<1>9. ASSUME Resume PROVE LendInv'
  <2>1. /\ site' = Last(frames).call /\ mode' = "resuming" /\ mode = "value"
        /\ frames' = frames /\ shared' = shared /\ own' = own /\ cur' = cur
    BY <1>9 DEF Resume, Popped
  <2> QED BY <2>1 DEF LendInv
<1>10. ASSUME TakeBack PROVE LendInv'
  <2>1. /\ Stack(frames, shared, own) /\ site \in Call /\ frames # <<>>
        /\ site.shared = Last(frames).call.shared /\ site.own = Last(frames).call.own
        /\ cur.ptrs = {} /\ cur.loops = <<>>
    BY <1>0, <1>10 DEF TakeBack, LendInv, TypeInv
  <2> DEFINE at == site.shared + Last(site.parked).at
  <2>2. /\ frames' = frames /\ shared' = Truncated(shared, at) /\ own' = own /\ mode' = "resuming"
        /\ cur' = cur /\ site' = [site EXCEPT !.parked = Front(@)]
    BY <1>10 DEF TakeBack, TakeAt
  <2>3. site'.shared = site.shared /\ site'.own = site.own
    BY <2>1, <2>2 DEF Call
  <2>4. at \in Nat /\ site.shared <= at
    <3>1. site.parked \in Seq([id : Ids, at : Nat]) /\ site.parked # <<>> /\ site.shared \in Nat
      BY <1>10, <1>c, <2>1 DEF TakeBack, Call
    <3>2. Last(site.parked) \in [id : Ids, at : Nat]
      BY <3>1, FrontAndLast
    <3>3. Last(site.parked).at \in Nat
      BY <3>2
    <3> QED BY <3>1, <3>3
  <2> HIDE DEF at
  <2>5. \A k \in 1..Len(frames) : frames[k].call.shared <= at
    BY <1>0, <1>c, <2>1, <2>4, TopMarks, FrameParts
  <2>6. Stack(frames', shared', own')
    BY <1>0, <2>1, <2>2, <2>4, <2>5, StackCutShared
  <2>7. Current(frames', cur', shared', Len(shared'), own', Len(own'))
    BY <1>t, <2>1, <2>2, <2>6, EmptyCurrent
  <2> QED BY <2>1, <2>2, <2>3, <2>6, <2>7 DEF LendInv
<1>11. ASSUME Resumed PROVE LendInv'
  BY <1>t, <1>11, FrameResumed
<1>12. ASSUME Return \/ DropStores PROVE LendInv'
  <2>1. frames' = <<>> /\ cur' = cur /\ mode' = "over" /\ cur.ptrs = {} /\ cur.loops = <<>>
    BY <1>12 DEF Return, DropStores, LendInv
  <2> QED BY <2>1 DEF LendInv
<1>13. ASSUME Panic PROVE LendInv'
  <2>1. /\ frames' = frames /\ shared' = shared /\ own' = own /\ mode' = "unwinding"
        /\ cur'.loops = <<>> /\ cur'.ptrs = {} /\ Stack(frames, shared, own)
    BY <1>13, <1>s DEF Panic, LendInv
  <2>2. \A k \in 1..Len(frames) : Held(frames[k].act) \subseteq Stored
    BY <1>0, <2>1, StackStored DEF Stored
  <2>3. DOMAIN frames = 1..Len(frames)
    BY <1>0, LenProperties
  <2> QED BY <2>1, <2>2, <2>3 DEF LendInv, Stored
<1>14. ASSUME DropFrame PROVE LendInv'
  <2>1. /\ frames # <<>> /\ frames' = Tail(frames) /\ shared' = shared /\ own' = own /\ cur' = cur
        /\ mode' = "unwinding" /\ mode = "unwinding"
    BY <1>14 DEF DropFrame
  <2>2. /\ Len(frames) \in Nat /\ DOMAIN frames = 1..Len(frames)
        /\ DOMAIN Tail(frames) = 1..(Len(frames) - 1)
        /\ \A k \in 1..(Len(frames) - 1) : Tail(frames)[k] = frames[k + 1]
    BY <1>0, <2>1, HeadTailProperties, LenProperties
  <2>3. \A k \in DOMAIN frames' : Held(frames'[k].act) \subseteq Stored
    BY <2>1, <2>2 DEF LendInv
  <2> QED BY <2>1, <2>3 DEF LendInv, Stored
<1>15. ASSUME NextItem \/ UNCHANGED vars PROVE LendInv'
  BY <1>15 DEF NextItem, vars, given, LendInv, Stored
<1>16. ASSUME BreakArgs PROVE LendInv'
  <2>1. /\ mode = "args" /\ mode' = "run" /\ frames' = frames /\ own' = own
        /\ UNCHANGED <<shared, cur>> \/ LoopGone
    BY <1>16, Broken
  <2>2. Stack(frames, shared, own) /\ Current(frames, cur, shared, Len(shared), own, Len(own))
    BY <2>1, ArgsCurrent
  <2>3. CASE UNCHANGED <<shared, cur>>
    BY <2>1, <2>2, <2>3 DEF LendInv
  <2>4. CASE LoopGone
    BY <2>2, <2>4, LoopLeft
  <2> QED BY <2>1, <2>3, <2>4
<1> QED BY <1>1, <1>2, <1>3, <1>4, <1>5, <1>6, <1>7, <1>8, <1>9, <1>10, <1>11, <1>12, <1>13, <1>14,
           <1>15, <1>16 DEF Next

\* No stored value is gone while a body that may still use it runs, waits or is being dropped,
\* for any argument lists, any depth and any nesting of loops.
THEOREM LendingPointersLive == Spec => []PointersLive
<1>1. TypeInv /\ LendInv => PointersLive
  <2> SUFFICES ASSUME TypeInv, LendInv PROVE PointersLive
    OBVIOUS
  <2>0. /\ cur \in Activation /\ frames \in Seq(Frame) /\ shared \in Seq(Ids) /\ own \in Seq(Ids)
        /\ Len(shared) \in Nat /\ Len(own) \in Nat
        /\ mode = "args" => site \in Call
        /\ mode \in {"run", "args", "value", "resuming", "unwinding", "over"}
    BY LenProperties DEF TypeInv, TypeOK, Frame
  <2>1. DOMAIN frames = 1..Len(frames)
    BY <2>0, LenProperties
  <2>2. CASE mode \in {"run", "value", "resuming"}
    BY <2>0, <2>1, <2>2, StackStored, CurrentStored DEF LendInv, PointersLive, Stored
  <2>3. CASE mode = "args"
    <3>1. site.shared \in Nat /\ site.own \in Nat
      BY <2>0, <2>3, BoundsAssumption DEF Call
    <3> QED BY <2>0, <2>1, <2>3, <3>1, StackStored, CurrentStored DEF LendInv, PointersLive, Stored
  <2>4. CASE mode \in {"unwinding", "over"}
    <3>1. cur.loops = <<>> /\ cur.ptrs = {}
      BY <2>4 DEF LendInv
    <3>2. DOMAIN cur.loops = {}
      BY <3>1, EmptySeq
    <3>3. Held(cur) = {}
      BY <3>1, <3>2 DEF Held
    <3>4. \A k \in DOMAIN frames : Held(frames[k].act) \subseteq Stored
      BY <2>4, EmptySeq DEF LendInv
    <3> QED BY <3>3, <3>4 DEF PointersLive
  <2> QED BY <2>0, <2>2, <2>3, <2>4
<1> QED BY <1>1, TypeInit, TypeNext, LendInit, LendNext, PTL DEF Spec
-----------------------------------------------------------------------------
(* Parked locals. *)

\* No argument list lends through the alias-typed position before it parks a local.
NoAliasFirst ==
  \A lends \in Sites : \A i, j \in DOMAIN lends :
    lends[i] = "alias" /\ lends[j] = "place" => j < i

\* The call's parked locals are where it will look for them,
Parked(call, S) ==
  \A q \in 1..Len(call.parked) :
    /\ S[call.shared + call.parked[q].at + 1] = call.parked[q].id
    /\ \A p \in 1..(q - 1) : call.parked[p].at < call.parked[q].at

\* below a mark,
Beyond(call, m) == \A q \in 1..Len(call.parked) : call.shared + call.parked[q].at + 1 <= m

\* and below all the marks of an activation.
Clear(call, act, a) ==
  Beyond(call, a) /\ \A l \in DOMAIN act.loops : Beyond(call, act.loops[l].mark)

ParkedStack(fs, S) ==
  \A k \in 1..Len(fs) :
    /\ Parked(fs[k].call, S) /\ Beyond(fs[k].call, Len(S))
    /\ \A j \in 1..(k - 1) : Clear(fs[j].call, fs[k].act, fs[k].call.shared)

AllClear(fs, act, a) == \A j \in 1..Len(fs) : Clear(fs[j].call, act, a)

LEMMA CallParts ==
  ASSUME NEW call \in Call
  PROVE  /\ call.parked \in Seq([id : Ids, at : Nat]) /\ Len(call.parked) \in Nat
         /\ call.shared \in Nat
         /\ \A q \in 1..Len(call.parked) :
              /\ call.parked[q] \in [id : Ids, at : Nat]
              /\ call.parked[q].at \in Nat /\ call.parked[q].id \in Ids
<1>1. call.parked \in Seq([id : Ids, at : Nat]) /\ call.shared \in Nat
  BY BoundsAssumption DEF Call
<1>2. \A q \in 1..Len(call.parked) : call.parked[q] \in [id : Ids, at : Nat]
  BY <1>1, ElementOfSeq
<1> QED BY <1>1, <1>2, LenProperties

LEMMA BeyondRaised ==
  ASSUME NEW call \in Call, NEW a \in Nat, NEW b \in Nat, a <= b, Beyond(call, a)
  PROVE  Beyond(call, b)
BY CallParts DEF Beyond

LEMMA ParkedKept ==
  ASSUME NEW call \in Call, NEW S \in Seq(Ids), NEW T \in Seq(Ids), NEW m \in Nat,
         Parked(call, S), Beyond(call, m), Keeps(S, T, m)
  PROVE  Parked(call, T) /\ Beyond(call, Len(T))
<1>1. \A q \in 1..Len(call.parked) : call.shared + call.parked[q].at + 1 \in 1..m
  BY CallParts DEF Beyond
<1>2. \A q \in 1..Len(call.parked) :
        T[call.shared + call.parked[q].at + 1] = S[call.shared + call.parked[q].at + 1]
  BY <1>1 DEF Keeps
<1>3. Len(T) \in Nat /\ m <= Len(T)
  BY LenProperties DEF Keeps
<1> QED BY <1>2, <1>3, BeyondRaised DEF Parked

LEMMA ParkedStackKept ==
  ASSUME NEW fs \in Seq(Frame), NEW S \in Seq(Ids), NEW T \in Seq(Ids), NEW m \in Nat,
         ParkedStack(fs, S), Keeps(S, T, m), \A k \in 1..Len(fs) : Beyond(fs[k].call, m)
  PROVE  ParkedStack(fs, T)
BY FrameParts, ParkedKept DEF ParkedStack

LEMMA ParkedStackPushed ==
  ASSUME NEW fs \in Seq(Frame), NEW f \in Frame, NEW S, ParkedStack(fs, S),
         Parked(f.call, S), Beyond(f.call, Len(S)), AllClear(fs, f.act, f.call.shared)
  PROVE  ParkedStack(Append(fs, f), S)
<1> DEFINE gs == Append(fs, f)
           n == Len(fs)
<1>1. /\ n \in Nat /\ Len(gs) = n + 1
      /\ \A i \in 1..n : gs[i] = fs[i]
      /\ gs[n + 1] = f
  BY Lengthened
<1> HIDE DEF gs
<1> SUFFICES ASSUME NEW k \in 1..(n + 1)
             PROVE  /\ Parked(gs[k].call, S) /\ Beyond(gs[k].call, Len(S))
                    /\ \A j \in 1..(k - 1) : Clear(gs[j].call, gs[k].act, gs[k].call.shared)
  BY <1>1 DEF ParkedStack, gs
<1>2. CASE k \in 1..n
  <2>1. gs[k] = fs[k] /\ \A j \in 1..(k - 1) : gs[j] = fs[j]
    BY <1>1, <1>2
  <2> QED BY <1>2, <2>1 DEF ParkedStack
<1>3. CASE k = n + 1
  <2>1. gs[k] = f /\ \A j \in 1..(k - 1) : j \in 1..n /\ gs[j] = fs[j]
    BY <1>1, <1>3
  <2> QED BY <2>1 DEF AllClear
<1> QED BY <1>1, <1>2, <1>3

LEMMA ParkedStackPopped ==
  ASSUME NEW fs \in Seq(Frame), fs # <<>>, NEW S, ParkedStack(fs, S)
  PROVE  /\ ParkedStack(Front(fs), S)
         /\ AllClear(Front(fs), Last(fs).act, Last(fs).call.shared)
         /\ Parked(Last(fs).call, S) /\ Beyond(Last(fs).call, Len(S))
<1> DEFINE gs == Front(fs)
           n == Len(fs)
<1>1. /\ n \in Nat /\ n > 0 /\ Len(gs) = n - 1
      /\ \A i \in 1..(n - 1) : gs[i] = fs[i]
      /\ Last(fs) = fs[n]
  BY FrontAndLast
<1> HIDE DEF gs
<1>2. /\ AllClear(gs, fs[n].act, fs[n].call.shared)
      /\ Parked(fs[n].call, S) /\ Beyond(fs[n].call, Len(S))
  BY <1>1 DEF ParkedStack, AllClear
<1>3. ParkedStack(gs, S)
  <2> SUFFICES ASSUME NEW k \in 1..(n - 1)
               PROVE  /\ Parked(gs[k].call, S) /\ Beyond(gs[k].call, Len(S))
                      /\ \A j \in 1..(k - 1) : Clear(gs[j].call, gs[k].act, gs[k].call.shared)
    BY <1>1 DEF ParkedStack
  <2>1. gs[k] = fs[k] /\ k \in 1..n /\ \A j \in 1..(k - 1) : gs[j] = fs[j]
    BY <1>1
  <2> QED BY <2>1 DEF ParkedStack
<1> QED BY <1>1, <1>2, <1>3 DEF gs

LEMMA AllClearRaised ==
  ASSUME NEW fs \in Seq(Frame), NEW act, NEW a \in Nat, NEW b \in Nat, a <= b, AllClear(fs, act, a)
  PROVE  AllClear(fs, act, b)
BY FrameParts, BeyondRaised DEF AllClear, Clear

LEMMA AllClearEmpty ==
  ASSUME NEW fs \in Seq(Frame), NEW act, NEW S, ParkedStack(fs, S), act.loops = <<>>
  PROVE  AllClear(fs, act, Len(S))
<1>1. DOMAIN act.loops = {}
  BY EmptySeq
<1> QED BY <1>1 DEF ParkedStack, AllClear, Clear

ParkInv ==
  /\ TakesBackOwn
  /\ mode \in {"run", "value"} =>
       ParkedStack(frames, shared) /\ AllClear(frames, cur, Len(shared))
  /\ mode = "args" =>
       /\ ParkedStack(frames, shared) /\ AllClear(frames, cur, site.shared)
       /\ Parked(site, shared) /\ Beyond(site, Len(shared))
       /\ \A q \in 1..Len(site.parked) : site.parked[q].at < Len(site.pushed)
       /\ (\A i \in 1..Len(site.pushed) : site.lends[i] # "alias")
            => Len(shared) = site.shared + Len(site.pushed)
  /\ mode = "resuming" =>
       /\ ParkedStack(Front(frames), shared)
       /\ AllClear(Front(frames), Last(frames).act, Last(frames).call.shared)
       /\ Parked(site, shared) /\ Beyond(site, Len(shared))
       /\ \A q \in 1..Len(site.parked) : back.asked[q] = site.parked[q].id

LEMMA ParkInit == Init => ParkInv
<1> SUFFICES ASSUME Init PROVE ParkInv
  OBVIOUS
<1>1. <<>> \in Seq(Frame) /\ Len(<<>>) = 0 /\ DOMAIN <<>> = {}
  BY EmptySeq, LenProperties
<1>2. ParkedStack(frames, shared)
  BY <1>1 DEF Init, ParkedStack
<1>3. AllClear(frames, cur, Len(shared))
  BY <1>1 DEF Init, AllClear
<1>4. TakesBackOwn
  BY <1>1 DEF Init, TakesBackOwn
<1> QED BY <1>2, <1>3, <1>4 DEF Init, ParkInv

\* Values that are lent come after everything that is parked.
LEMMA ValueLent ==
  ASSUME TypeInv, TypeInv', LendInv, ParkInv, NoAliasFirst, LendWhole \/ LendPlace
  PROVE  ParkInv'
<1>0. /\ frames \in Seq(Frame) /\ shared \in Seq(Ids) /\ own \in Seq(Ids) /\ site \in Call
      /\ Len(shared) \in Nat /\ shared' \in Seq(Ids) /\ site' \in Call
  BY LenProperties DEF TypeInv, TypeOK, Frame, LendWhole, LendPlace
<1> DEFINE x == born + 1
           n == Len(site.pushed)
<1>1. x \in Ids
  BY Sizes DEF LendWhole, LendPlace, Ids
<1>2. /\ site.pushed \in Seq(Ids) /\ n \in Nat /\ site.shared \in Nat /\ site.lends \in Sites
  BY <1>0, CallParts, LenProperties DEF Call
<1>3. /\ mode = "args" /\ mode' = "args" /\ frames' = frames /\ cur' = cur /\ back' = back
      /\ n < Len(site.lends)
  BY DEF LendWhole, LendPlace
<1>4. /\ ParkedStack(frames, shared) /\ AllClear(frames, cur, site.shared)
      /\ Parked(site, shared) /\ Beyond(site, Len(shared))
      /\ \A q \in 1..Len(site.parked) : site.parked[q].at < n
      /\ (\A i \in 1..n : site.lends[i] # "alias") => Len(shared) = site.shared + n
  BY <1>3 DEF ParkInv
<1>5. /\ site'.shared = site.shared /\ site'.lends = site.lends
      /\ site'.pushed = Append(site.pushed, x)
  BY <1>0 DEF LendWhole, LendPlace, Call
<1> HIDE DEF x, n
<1>6. Len(site'.pushed) = n + 1
  BY <1>1, <1>2, <1>5, Lengthened DEF n
<1>7. /\ Len(Append(shared, x)) = Len(shared) + 1 /\ Append(shared, x)[Len(shared) + 1] = x
      /\ Keeps(shared, Append(shared, x), Len(shared)) /\ Keeps(shared, shared, Len(shared))
  BY <1>0, <1>1, Lengthened, KeepsAppend, KeepsSame
<1>8. shared' = Append(shared, x) \/ shared' = shared
  BY DEF LendWhole, LendPlace, x
<1>9. Keeps(shared, shared', Len(shared))
  BY <1>7, <1>8
<1>10. ParkedStack(frames, shared')
  <2>1. \A k \in 1..Len(frames) : Beyond(frames[k].call, Len(shared))
    BY <1>4 DEF ParkedStack
  <2> QED BY <1>0, <1>4, <1>9, <2>1, ParkedStackKept
<1>11. Parked(site, shared') /\ Beyond(site, Len(shared'))
  BY <1>0, <1>4, <1>9, ParkedKept
<1>12. TakesBackOwn'
  BY <1>3 DEF ParkInv, TakesBackOwn
<1>13. CASE LendWhole
  <2>1. site'.parked = site.parked
    BY <1>0, <1>13 DEF LendWhole, Call
  <2>2. Parked(site', shared') /\ Beyond(site', Len(shared'))
    BY <1>5, <1>11, <2>1 DEF Parked, Beyond
  <2>3. \A q \in 1..Len(site'.parked) : site'.parked[q].at < Len(site'.pushed)
    BY <1>0, <1>2, <1>4, <1>6, <2>1, CallParts
  <2>4. ASSUME \A i \in 1..(n + 1) : site.lends[i] # "alias"
        PROVE  Len(shared') = site.shared + (n + 1)
    <3>1. site.lends[n + 1] # "alias" /\ \A i \in 1..n : site.lends[i] # "alias"
      BY <1>2, <2>4
    <3>2. shared' = Append(shared, x)
      BY <1>13, <3>1 DEF LendWhole, Lends, x, n
    <3> QED BY <1>0, <1>2, <1>4, <1>7, <3>1, <3>2
  <2> QED BY <1>3, <1>4, <1>5, <1>6, <1>10, <1>12, <2>2, <2>3, <2>4 DEF ParkInv
<1>14. CASE LendPlace
  <2> DEFINE p == [id |-> x, at |-> n]
             N == Len(site.parked)
  <2>1. site'.parked = Append(site.parked, p) /\ shared' = Append(shared, x)
    BY <1>0, <1>14 DEF LendPlace, Call, x, n
  <2>2. p \in [id : Ids, at : Nat] /\ p.id = x /\ p.at = n
    BY <1>1, <1>2
  <2> HIDE DEF p
  <2>3. /\ N \in Nat /\ Len(site'.parked) = N + 1 /\ site'.parked[N + 1] = p
        /\ \A q \in 1..N : site'.parked[q] = site.parked[q]
    BY <1>0, <2>1, <2>2, CallParts, Lengthened
  <2>4. Len(shared) = site.shared + n
    <3>1. site.lends[n + 1] = "place"
      BY <1>14 DEF LendPlace, Lends, n
    <3>2. site.lends \in Seq({"whole", "alias", "place"})
      BY <1>2, SitesAssumption
    <3>3. DOMAIN site.lends = 1..Len(site.lends) /\ Len(site.lends) \in Nat
      BY <3>2, LenProperties
    <3>4. n + 1 \in DOMAIN site.lends /\ \A i \in 1..n : i \in DOMAIN site.lends /\ ~(n + 1 < i)
      BY <1>2, <1>3, <3>3
    <3>5. \A i \in 1..n : site.lends[i] # "alias"
      BY <1>2, <3>1, <3>4 DEF NoAliasFirst
    <3> QED BY <1>4, <3>5
  <2>5. ASSUME NEW q \in 1..(N + 1)
        PROVE  /\ shared'[site.shared + site'.parked[q].at + 1] = site'.parked[q].id
               /\ \A r \in 1..(q - 1) : site'.parked[r].at < site'.parked[q].at
               /\ site.shared + site'.parked[q].at + 1 <= Len(shared')
               /\ site'.parked[q].at < n + 1
    <3>1. CASE q = N + 1
      <4>1. site'.parked[q].at = n /\ site'.parked[q].id = x
        BY <2>2, <2>3, <3>1
      <4>2. \A r \in 1..(q - 1) : site'.parked[r].at < n
        BY <1>4, <2>3, <3>1
      <4> QED BY <1>0, <1>2, <1>7, <2>1, <2>4, <4>1, <4>2
    <3>2. CASE q \in 1..N
      <4>1. site'.parked[q] = site.parked[q] /\ \A r \in 1..(q - 1) : site'.parked[r] = site.parked[r]
        BY <2>3, <3>2
      <4>2. site.parked[q].at < n + 1
        <5>1. site.parked[q].at \in Nat /\ site.parked[q].at < n
          BY <1>0, <1>4, <3>2, CallParts
        <5> QED BY <1>2, <5>1
      <4> QED BY <1>11, <3>2, <4>1, <4>2 DEF Parked, Beyond
    <3> QED BY <2>3, <3>1, <3>2
  <2>6. Parked(site', shared') /\ Beyond(site', Len(shared'))
    BY <1>5, <2>3, <2>5 DEF Parked, Beyond
  <2>7. \A q \in 1..Len(site'.parked) : site'.parked[q].at < Len(site'.pushed)
    BY <1>6, <2>3, <2>5
  <2>8. Len(shared') = site.shared + (n + 1)
    <3>1. Len(shared') = Len(shared) + 1
      BY <1>7, <2>1
    <3> QED BY <1>2, <2>4, <3>1
  <2> QED BY <1>3, <1>4, <1>5, <1>6, <1>10, <1>12, <2>6, <2>7, <2>8 DEF ParkInv
<1> QED BY <1>13, <1>14

LEMMA LocalTaken ==
  ASSUME TypeInv, TypeInv', LendInv, ParkInv, TakeBack
  PROVE  ParkInv'
<1>0. /\ frames \in Seq(Frame) /\ frames # <<>> /\ shared \in Seq(Ids) /\ Len(shared) \in Nat
      /\ shared' \in Seq(Ids) /\ site \in Call /\ mode = "resuming" /\ mode' = "resuming"
      /\ frames' = frames
      /\ back \in [asked : Seq(Ids), got : Seq(Ids \union {None})]
  BY LenProperties DEF TypeInv, TypeOK, Frame, TakeBack
<1> DEFINE N == Len(site.parked)
           fs == Front(frames)
           f == Last(frames)
           at == site.shared + Last(site.parked).at
           found == IF at < Len(shared) THEN shared[at + 1] ELSE None
<1>1. /\ N \in Nat /\ N > 0 /\ Last(site.parked) = site.parked[N] /\ Len(Front(site.parked)) = N - 1
      /\ \A q \in 1..(N - 1) : Front(site.parked)[q] = site.parked[q]
  <2>1. site.parked \in Seq([id : Ids, at : Nat]) /\ site.parked # <<>>
    BY <1>0, CallParts DEF TakeBack
  <2> QED BY <2>1, FrontAndLast
<1>2. /\ site.shared \in Nat /\ site.parked[N].at \in Nat /\ site.parked[N].id \in Ids
      /\ \A q \in 1..N : site.parked[q].at \in Nat
  <2>1. N \in 1..N
    BY <1>1
  <2> QED BY <1>0, <2>1, CallParts
<1>3. at = site.shared + site.parked[N].at /\ at \in Nat
  BY <1>1, <1>2
<1>4. /\ ParkedStack(fs, shared) /\ AllClear(fs, f.act, f.call.shared)
      /\ Parked(site, shared) /\ Beyond(site, Len(shared))
      /\ \A q \in 1..N : back.asked[q] = site.parked[q].id
      /\ TakesBackOwn
  BY <1>0 DEF ParkInv
<1>5. at + 1 <= Len(shared) /\ shared[at + 1] = site.parked[N].id
  BY <1>1, <1>3, <1>4 DEF Beyond, Parked
<1>6. found = back.asked[N]
  BY <1>0, <1>1, <1>3, <1>4, <1>5
<1>7. /\ shared' = Truncated(shared, at)
      /\ back' = [back EXCEPT !.got = <<found>> \o @]
      /\ site' = [site EXCEPT !.parked = Front(@)]
  BY DEF TakeBack, TakeAt
<1>8. site'.shared = site.shared /\ site'.parked = Front(site.parked)
  BY <1>0, <1>7 DEF Call
<1>a. /\ Len(site'.parked) = N - 1
      /\ \A q \in 1..(N - 1) : site'.parked[q] = site.parked[q]
  BY <1>1, <1>8
<1> HIDE DEF fs, f, at, found, N
<1>9. Keeps(shared, shared', at) /\ Len(shared') = at
  <2>1. at < Len(shared) /\ at <= Len(shared) /\ at <= at
    BY <1>0, <1>3, <1>5
  <2> QED BY <1>0, <1>3, <1>7, <2>1, KeepsCut, Cut
<1>10. Parked(site', shared') /\ Beyond(site', Len(shared'))
  <2> SUFFICES ASSUME NEW q \in 1..(N - 1)
               PROVE  /\ shared'[site.shared + site.parked[q].at + 1] = site.parked[q].id
                      /\ \A p \in 1..(q - 1) : site.parked[p].at < site.parked[q].at
                      /\ site.shared + site.parked[q].at + 1 <= at
    BY <1>8, <1>9, <1>a DEF Parked, Beyond
  <2>1. q \in 1..N /\ N \in 1..N
    BY <1>1
  <2>2. site.parked[q].at < site.parked[N].at
    BY <1>4, <2>1 DEF Parked, N
  <2>3. site.shared + site.parked[q].at + 1 \in 1..at
    BY <1>2, <1>3, <2>1, <2>2
  <2> QED BY <1>4, <1>9, <2>1, <2>3 DEF Parked, Keeps, N
<1>11. ParkedStack(fs, shared') /\ AllClear(fs, f.act, f.call.shared)
  <2>1. fs \in Seq(Frame) /\ f.call.shared = site.shared
    BY <1>0, FrontAndLast DEF LendInv, fs, f
  <2>2. \A k \in 1..Len(fs) : Beyond(fs[k].call, at)
    <3>1. \A k \in 1..Len(fs) : Beyond(fs[k].call, site.shared)
      BY <1>4, <2>1 DEF AllClear, Clear
    <3>2. site.shared <= at
      BY <1>2, <1>3
    <3> QED BY <1>2, <1>3, <2>1, <3>1, <3>2, FrameParts, BeyondRaised
  <2> QED BY <1>0, <1>3, <1>4, <1>9, <2>1, <2>2, ParkedStackKept
<1>12. TakesBackOwn'
  <2> DEFINE g == back.got
             n == Len(g)
  <2>1. /\ g \in Seq(Ids \union {None}) /\ n \in Nat /\ DOMAIN g = 1..n /\ found \in Ids \union {None}
    <3>1. g \in Seq(Ids \union {None})
      BY <1>0
    <3>2. found \in Ids \union {None}
      BY <1>2, <1>4, <1>1, <1>6
    <3> QED BY <3>1, <3>2, LenProperties
  <2>2. back'.asked = back.asked /\ back'.got = <<found>> \o g
    BY <1>0, <1>7
  <2>3. /\ Len(<<found>> \o g) = n + 1
        /\ DOMAIN (<<found>> \o g) = 1..(n + 1)
        /\ (<<found>> \o g)[1] = found
        /\ \A k \in 2..(n + 1) : (<<found>> \o g)[k] = g[k - 1]
    <3>1. <<found>> \in Seq(Ids \union {None}) /\ Len(<<found>>) = 1 /\ <<found>>[1] = found
      BY <2>1
    <3>2. /\ <<found>> \o g \in Seq(Ids \union {None})
          /\ Len(<<found>> \o g) = 1 + n
          /\ \A i \in 1..(1 + n) : (<<found>> \o g)[i] =
               IF i <= 1 THEN <<found>>[i] ELSE g[i - 1]
      BY <2>1, <3>1, ConcatProperties
    <3>3. DOMAIN (<<found>> \o g) = 1..(n + 1)
      BY <2>1, <3>2, LenProperties
    <3> QED BY <2>1, <3>1, <3>2, <3>3
  <2>4. /\ Len(back.asked) = n + N
        /\ \A k \in 1..n : g[k] = back.asked[N + k]
    <3>1. Len(back.asked) \in Nat
      BY <1>0, LenProperties
    <3>2. /\ Len(back.asked) = n + N
          /\ \A k \in 1..n : g[k] = back.asked[Len(back.asked) - n + k]
      BY <1>0, <1>4, <2>1 DEF TakesBackOwn, N
    <3>3. Len(back.asked) - n = N
      BY <1>1, <2>1, <3>1, <3>2
    <3> QED BY <3>2, <3>3
  <2>5. \A k \in 1..(n + 1) : back'.got[k] = back'.asked[N - 1 + k]
    <3> SUFFICES ASSUME NEW k \in 1..(n + 1) PROVE back'.got[k] = back'.asked[N - 1 + k]
      OBVIOUS
    <3>1. CASE k = 1
      BY <1>1, <1>6, <2>2, <2>3, <3>1
    <3>2. CASE k \in 2..(n + 1)
      <4>1. k - 1 \in 1..n /\ N + (k - 1) = N - 1 + k
        BY <1>1, <2>1, <3>2
      <4> QED BY <2>2, <2>3, <2>4, <3>2, <4>1
    <3> QED BY <2>1, <3>1, <3>2
  <2>6. Len(back'.asked) = Len(back'.got) + Len(site'.parked)
    BY <1>1, <1>a, <2>1, <2>2, <2>3, <2>4
  <2>7. Len(back'.asked) - Len(back'.got) = N - 1 /\ DOMAIN back'.got = 1..(n + 1)
    BY <1>1, <2>1, <2>2, <2>3, <2>4
  <2> QED BY <1>0, <2>5, <2>6, <2>7 DEF TakesBackOwn
<1>13. \A q \in 1..Len(site'.parked) : back'.asked[q] = site'.parked[q].id
  <2>1. back'.asked = back.asked
    BY <1>0, <1>7
  <2>2. \A q \in 1..(N - 1) : q \in 1..N
    BY <1>1
  <2> QED BY <1>4, <1>a, <2>1, <2>2
<1> QED BY <1>0, <1>10, <1>11, <1>12, <1>13 DEF ParkInv, fs, f

LEMMA TornDownParked ==
  ASSUME TypeInv, ParkedStack(frames, shared), NEW a \in Nat, NEW b \in Nat,
         Current(frames, cur, shared, a, own, b), AllClear(frames, cur, a)
  PROVE  ParkedStack(frames, TornDown(cur))
<1>1. /\ frames \in Seq(Frame) /\ shared \in Seq(Ids) /\ Len(shared) \in Nat /\ cur \in Activation
  BY LenProperties DEF TypeInv, TypeOK, Frame
<1>2. CASE cur.loops = <<>>
  BY <1>2 DEF TornDown
<1>3. CASE cur.loops # <<>>
  <2> DEFINE m == cur.loops[1].mark
  <2>1. 1 \in DOMAIN cur.loops
    BY <1>1, <1>3, MarksAreNat, EmptySeq
  <2>2. m \in Nat
    BY <1>1, <2>1, MarksAreNat
  <2>3. m <= a /\ a <= Len(shared)
    BY <2>1 DEF Current, Level
  <2>4. \A k \in 1..Len(frames) : Beyond(frames[k].call, m)
    BY <2>1 DEF AllClear, Clear
  <2>5. TornDown(cur) = Truncated(shared, m)
    BY <1>3 DEF TornDown
  <2> HIDE DEF m
  <2>6. m <= Len(shared) /\ m <= m
    BY <1>1, <2>2, <2>3
  <2>7. Keeps(shared, Truncated(shared, m), m) /\ Truncated(shared, m) \in Seq(Ids)
    BY <1>1, <2>2, <2>6, KeepsCut, Cut
  <2> QED BY <1>1, <2>2, <2>4, <2>5, <2>7, ParkedStackKept
<1> QED BY <1>2, <1>3

LEMMA ParkLoops ==
  ASSUME TypeInv, TypeInv', mode # "resuming", TakesBackOwn,
         ParkedStack(frames, shared), AllClear(frames, cur, Len(shared)),
         Current(frames, cur, shared, Len(shared), own, Len(own)), EnterLoop \/ LoopGone
  PROVE  ParkInv'
<1>0. /\ cur \in Activation /\ frames \in Seq(Frame) /\ shared \in Seq(Ids) /\ shared' \in Seq(Ids)
      /\ Len(shared) \in Nat /\ Len(shared') \in Nat
  BY LenProperties DEF TypeInv, TypeOK, Frame
<1>1. /\ mode # "resuming" /\ mode' = "run" /\ frames' = frames /\ back' = back
  BY DEF EnterLoop, LoopGone
<1>2. /\ ParkedStack(frames, shared) /\ AllClear(frames, cur, Len(shared)) /\ TakesBackOwn
      /\ Current(frames, cur, shared, Len(shared), own, Len(own))
  OBVIOUS
<1>3. TakesBackOwn'
  BY <1>1, <1>2 DEF TakesBackOwn
<1> DEFINE N == Len(cur.loops)
<1>4. N \in Nat /\ cur.loops \in Seq(Loop) /\ DOMAIN cur.loops = 1..N
  BY <1>0, MarksAreNat
<1>5. \A j \in 1..Len(frames) : Beyond(frames[j].call, Len(shared))
  BY <1>2 DEF AllClear, Clear
<1>6. CASE EnterLoop
  <2> DEFINE l == [mark |-> Len(shared), held |-> born + 1]
  <2>1. born + 1 \in Ids
    BY <1>6, Sizes DEF EnterLoop, Ids
  <2>2. l \in Loop /\ l.mark = Len(shared)
    BY <1>0, <2>1, Sizes DEF Loop
  <2>3. cur'.loops = Append(cur.loops, l) /\ shared' = Append(shared, born + 1)
    BY <1>0, <1>6 DEF EnterLoop, Activation
  <2> HIDE DEF l
  <2>4. /\ DOMAIN cur'.loops = 1..(N + 1) /\ cur'.loops[N + 1] = l
        /\ \A k \in 1..N : cur'.loops[k] = cur.loops[k]
    BY <1>4, <2>2, <2>3, Lengthened, LenProperties
  <2>5. Keeps(shared, shared', Len(shared)) /\ Len(shared) <= Len(shared')
    BY <1>0, <2>1, <2>3, KeepsAppend, Lengthened
  <2>6. ParkedStack(frames, shared')
    BY <1>0, <1>2, <1>5, <2>5, ParkedStackKept
  <2>7. ASSUME NEW j \in 1..Len(frames) PROVE Clear(frames[j].call, cur', Len(shared'))
    <3>1. Beyond(frames[j].call, Len(shared'))
      BY <1>0, <1>5, <2>5, FrameParts, BeyondRaised
    <3>2. ASSUME NEW k \in 1..(N + 1) PROVE Beyond(frames[j].call, cur'.loops[k].mark)
      <4>1. CASE k = N + 1
        BY <1>5, <2>2, <2>4, <4>1
      <4>2. CASE k \in 1..N
        BY <1>2, <1>4, <2>4, <4>2 DEF AllClear, Clear
      <4> QED BY <1>4, <4>1, <4>2
    <3> QED BY <2>4, <3>1, <3>2 DEF Clear
  <2> QED BY <1>1, <1>3, <2>6, <2>7 DEF ParkInv, AllClear
<1>7. CASE LoopGone
  <2> DEFINE m == cur.loops[N].mark
  <2>1. cur.loops # <<>> /\ cur'.loops = Front(cur.loops)
    BY <1>0, <1>7 DEF LoopGone, Activation
  <2>2. /\ N > 0 /\ N \in DOMAIN cur.loops /\ Front(cur.loops) \in Seq(Loop)
        /\ Len(Front(cur.loops)) = N - 1
        /\ \A k \in 1..(N - 1) : Front(cur.loops)[k] = cur.loops[k]
        /\ Last(cur.loops) = cur.loops[N]
    <3>1. cur.loops \in Seq(Loop) /\ cur.loops # <<>>
      BY <1>4, <2>1
    <3>2. /\ Len(cur.loops) > 0 /\ Front(cur.loops) \in Seq(Loop)
          /\ Len(Front(cur.loops)) = Len(cur.loops) - 1
          /\ \A k \in 1..(Len(cur.loops) - 1) : Front(cur.loops)[k] = cur.loops[k]
          /\ Last(cur.loops) = cur.loops[Len(cur.loops)]
      BY <3>1, FrontAndLast
    <3>3. N > 0 /\ N \in DOMAIN cur.loops
      BY <1>4, <3>2
    <3> QED BY <3>2, <3>3
  <2>3. DOMAIN cur'.loops = 1..(N - 1) /\ \A k \in 1..(N - 1) : cur'.loops[k] = cur.loops[k]
    BY <2>1, <2>2, LenProperties
  <2>4. m \in Nat /\ m <= Len(shared) /\ m <= m
    BY <1>0, <1>2, <2>2, MarksAreNat DEF Current, Level
  <2>5. shared' = Truncated(shared, m)
    BY <1>7, <2>2 DEF LoopGone
  <2>6. \A j \in 1..Len(frames) : Beyond(frames[j].call, m)
    BY <1>2, <2>2 DEF AllClear, Clear
  <2> HIDE DEF m
  <2>7. Keeps(shared, shared', m) /\ Len(shared') = m
    BY <1>0, <2>4, <2>5, KeepsCut, Cut
  <2>8. ParkedStack(frames, shared')
    BY <1>0, <1>2, <2>4, <2>6, <2>7, ParkedStackKept
  <2>9. AllClear(frames, cur', Len(shared'))
    <3>1. \A k \in 1..(N - 1) : k \in DOMAIN cur.loops
      BY <1>4
    <3> QED BY <1>2, <2>3, <2>6, <2>7, <3>1 DEF AllClear, Clear
  <2> QED BY <1>1, <1>3, <2>8, <2>9 DEF ParkInv
<1> QED BY <1>6, <1>7

LEMMA ParkResumed ==
  ASSUME TypeInv, TypeInv', LendInv, ParkInv, Resumed
  PROVE  ParkInv'
<1>0. /\ frames \in Seq(Frame) /\ frames # <<>> /\ shared \in Seq(Ids) /\ Len(shared) \in Nat
      /\ shared' \in Seq(Ids) /\ Len(shared') \in Nat /\ mode = "resuming"
      /\ cur.loops = <<>>
  BY LenProperties DEF TypeInv, TypeOK, Frame, LendInv, Resumed
<1> DEFINE fs == Front(frames)
           f == Last(frames)
           a == f.call.shared
<1>1. f \in Frame /\ fs \in Seq(Frame)
  BY <1>0, FrontAndLast
<1>2. f.call \in Call /\ f.act \in Activation
  BY <1>1 DEF Frame
<1>3. a \in Nat
  BY <1>2, CallParts
<1>4. /\ ParkedStack(fs, shared) /\ AllClear(fs, f.act, a) /\ TakesBackOwn
      /\ Stack(frames, shared, own) /\ site.shared = a
  BY <1>0 DEF ParkInv, LendInv
<1>5. shared' = IF HasMark(site) THEN Truncated(shared, site.shared) ELSE shared
  BY DEF Resumed, Unpin
<1>6. frames' = fs /\ back' = back /\ site.parked = <<>>
  BY DEF Resumed
<1>7. \/ mode' = "run" /\ cur' = f.act
      \/ mode' = "value" /\ cur' = cur
  BY Zenon DEF Resumed, Popped
<1>8. a <= Len(shared)
  <2>1. Len(frames) \in Nat /\ Len(frames) > 0 /\ Last(frames) = frames[Len(frames)]
    BY <1>0, FrontAndLast
  <2>2. Len(frames) \in 1..Len(frames)
    BY <2>1
  <2>3. frames[Len(frames)].call.shared <= Len(shared)
    BY <1>4, <2>2 DEF Stack
  <2> QED BY <2>1, <2>3
<1> HIDE DEF fs, f, a
<1>9. Keeps(shared, shared', a) /\ a <= Len(shared')
  <2>1. a <= a
    BY <1>3
  <2>2. Keeps(shared, Truncated(shared, a), a) /\ Keeps(shared, shared, a)
    BY <1>0, <1>3, <1>8, <2>1, KeepsCut, KeepsSame
  <2>3. Keeps(shared, shared', a)
    BY <1>4, <1>5, <2>2
  <2> QED BY <2>3 DEF Keeps
<1>10. ParkedStack(fs, shared')
  <2>1. \A k \in 1..Len(fs) : Beyond(fs[k].call, a)
    BY <1>4 DEF AllClear, Clear
  <2> QED BY <1>0, <1>1, <1>3, <1>4, <1>9, <2>1, ParkedStackKept
<1>11. AllClear(fs, cur', Len(shared'))
  <2>1. CASE cur' = f.act
    BY <1>0, <1>1, <1>3, <1>4, <1>9, <2>1, AllClearRaised
  <2>2. CASE cur' = cur
    BY <1>0, <1>1, <1>10, <2>2, AllClearEmpty
  <2> QED BY <1>7, <2>1, <2>2
<1>12. TakesBackOwn'
  <2>1. Len(site.parked) = 0
    BY <1>6, EmptySeq
  <2> QED BY <1>0, <1>4, <1>6, <1>7, <2>1 DEF TakesBackOwn
<1> QED BY <1>6, <1>7, <1>10, <1>11, <1>12 DEF ParkInv

LEMMA ParkNext ==
  TypeInv /\ LendInv /\ ParkInv /\ NoAliasFirst /\ [Next]_vars => ParkInv'
<1> SUFFICES ASSUME TypeInv, LendInv, ParkInv, NoAliasFirst, [Next]_vars PROVE ParkInv'
  OBVIOUS
<1>t. TypeInv'
  BY TypeNext
<1>0. /\ cur \in Activation /\ frames \in Seq(Frame) /\ shared \in Seq(Ids) /\ own \in Seq(Ids)
      /\ Len(shared) \in Nat
      /\ mode \in {"args", "resuming"} => site \in Call
  BY LenProperties DEF TypeInv, TypeOK, Frame
<1>p. frames' \in Seq(Frame) /\ shared' \in Seq(Ids)
  BY <1>t DEF TypeInv, TypeOK, Frame
<1>k. TakesBackOwn
  BY DEF ParkInv
<1>s. \A ptrs : Start(ptrs).loops = <<>>
  BY DEF Start
<1>1. ASSUME NEW lends \in Sites, NEW exits \in BOOLEAN, BeginCall(lends, exits)
      PROVE ParkInv'
  <2>1. /\ mode = "run" /\ mode' = "args" /\ frames' = frames /\ shared' = shared /\ cur' = cur
        /\ back' = back /\ site'.shared = Len(shared) /\ site'.parked = <<>> /\ site'.pushed = <<>>
    BY <1>1 DEF BeginCall
  <2>2. Len(site'.parked) = 0 /\ Len(site'.pushed) = 0
    BY <2>1, EmptySeq
  <2>3. Parked(site', shared') /\ Beyond(site', Len(shared'))
    BY <2>2 DEF Parked, Beyond
  <2>4. Len(shared') = site'.shared + Len(site'.pushed)
    BY <1>0, <2>1, <2>2
  <2>5. TakesBackOwn'
    BY <1>k, <2>1 DEF TakesBackOwn
  <2> QED BY <2>1, <2>2, <2>3, <2>4, <2>5 DEF ParkInv
<1>2. ASSUME LendWhole \/ LendPlace PROVE ParkInv'
  BY <1>t, <1>2, ValueLent
<1>3. ASSUME LeaveArgs \/ Finish PROVE ParkInv'
  <2>1. ParkedStack(frames, TornDown(cur))
    <3>1. CASE mode = "args"
      <4>1. site.shared \in Nat /\ site.own \in Nat
        BY <1>0, <3>1, BoundsAssumption DEF Call
      <4> QED BY <3>1, <4>1, TornDownParked DEF ParkInv, LendInv
    <3>2. CASE mode = "run"
      <4>1. Len(own) \in Nat
        BY <1>0, LenProperties
      <4> QED BY <1>0, <3>2, <4>1, TornDownParked DEF ParkInv, LendInv
    <3> QED BY <1>3, <3>1, <3>2 DEF LeaveArgs, Finish
  <2>2. /\ frames' = frames /\ shared' = TornDown(cur) /\ mode' = "value" /\ cur'.loops = <<>>
        /\ back' = back /\ mode # "resuming"
    BY <1>3, <1>s DEF LeaveArgs, Finish
  <2>3. AllClear(frames, cur', Len(shared'))
    BY <1>0, <2>1, <2>2, AllClearEmpty
  <2>4. TakesBackOwn'
    BY <1>k, <2>2 DEF TakesBackOwn
  <2> QED BY <2>1, <2>2, <2>3, <2>4 DEF ParkInv
<1>4. ASSUME Park PROVE ParkInv'
  <2> DEFINE f == [act |-> cur, call |-> site]
  <2>1. /\ ParkedStack(frames, shared) /\ AllClear(frames, cur, site.shared)
        /\ Parked(site, shared) /\ Beyond(site, Len(shared)) /\ site \in Call
    BY <1>0, <1>4 DEF Park, ParkInv
  <2>2. f \in Frame /\ f.act = cur /\ f.call = site
    BY <1>0, <2>1 DEF Frame
  <2>3. /\ frames' = Append(frames, f) /\ shared' = shared /\ mode' = "run" /\ mode = "args"
        /\ cur'.loops = <<>> /\ back' = back
    BY <1>4, <1>s DEF Park
  <2> HIDE DEF f
  <2>4. ParkedStack(frames', shared')
    BY <1>0, <2>1, <2>2, <2>3, ParkedStackPushed
  <2>5. AllClear(frames', cur', Len(shared'))
    BY <1>p, <2>3, <2>4, AllClearEmpty
  <2>6. TakesBackOwn'
    BY <1>k, <2>3 DEF TakesBackOwn
  <2> QED BY <2>3, <2>4, <2>5, <2>6 DEF ParkInv
<1>5. ASSUME TailCall PROVE ParkInv'
  <2>1. /\ frames' = frames /\ shared' = shared /\ mode' = "run" /\ mode = "args"
        /\ cur'.loops = <<>> /\ back' = back /\ ParkedStack(frames, shared)
    BY <1>5, <1>s DEF TailCall, ParkInv
  <2>2. AllClear(frames, cur', Len(shared))
    BY <1>0, <2>1, AllClearEmpty
  <2>3. TakesBackOwn'
    BY <1>k, <2>1 DEF TakesBackOwn
  <2> QED BY <2>1, <2>2, <2>3 DEF ParkInv
<1>6. ASSUME NEW place \in Places, Swap(place) PROVE ParkInv'
  <2>1. /\ site'.shared = site.shared /\ site'.parked = site.parked /\ site'.pushed = site.pushed
        /\ site'.lends = site.lends /\ mode' = mode /\ mode = "args"
        /\ frames' = frames /\ shared' = shared /\ cur' = cur /\ back' = back
    BY <1>0, <1>6 DEF Swap, Call
  <2>2. TakesBackOwn'
    BY <1>k, <2>1 DEF TakesBackOwn
  <2> QED BY <2>1, <2>2 DEF ParkInv, Parked, Beyond
<1>7. ASSUME EnterLoop \/ LeaveLoop PROVE ParkInv'
  <2>1. mode = "run" /\ (EnterLoop \/ LoopGone)
    BY <1>7, LeftLoop DEF EnterLoop
  <2>2. /\ ParkedStack(frames, shared) /\ AllClear(frames, cur, Len(shared))
        /\ Current(frames, cur, shared, Len(shared), own, Len(own))
    BY <2>1 DEF ParkInv, LendInv
  <2> QED BY <1>t, <1>k, <2>1, <2>2, ParkLoops
<1>8. ASSUME Resume PROVE ParkInv'
  <2> DEFINE f == Last(frames)
             P == f.call.parked
  <2>1. /\ frames # <<>> /\ mode' = "resuming" /\ site' = f.call
        /\ back' = [asked |-> [k \in DOMAIN P |-> P[k].id], got |-> <<>>]
        /\ frames' = frames /\ shared' = shared /\ ParkedStack(frames, shared)
    BY <1>8 DEF Resume, Popped, ParkInv
  <2>2. f \in Frame
    BY <1>0, <2>1, FrontAndLast
  <2>3. f.call \in Call
    BY <2>2 DEF Frame
  <2>4. DOMAIN P = 1..Len(P) /\ Len(P) \in Nat
    BY <2>3, CallParts, LenProperties
  <2>5. /\ ParkedStack(Front(frames), shared) /\ AllClear(Front(frames), f.act, f.call.shared)
        /\ Parked(f.call, shared) /\ Beyond(f.call, Len(shared))
    BY <1>0, <2>1, ParkedStackPopped
  <2> HIDE DEF f
  <2>6. /\ \A q \in 1..Len(P) : back'.asked[q] = P[q].id
        /\ DOMAIN back'.asked = 1..Len(P) /\ back'.got = <<>>
    BY <2>1, <2>4
  <2>7. Len(back'.asked) = Len(P)
    <3>1. back'.asked \in Seq(Ids)
      BY <1>t DEF TypeInv, TypeOK
    <3> QED BY <2>4, <2>6, <3>1, LenProperties
  <2>8. TakesBackOwn'
    <3>1. Len(<<>>) = 0 /\ DOMAIN <<>> = {}
      BY EmptySeq
    <3> QED BY <2>1, <2>4, <2>6, <2>7, <3>1 DEF TakesBackOwn
  <2> QED BY <2>1, <2>5, <2>6, <2>8 DEF ParkInv, f
<1>9. ASSUME TakeBack PROVE ParkInv'
  BY <1>t, <1>9, LocalTaken
<1>10. ASSUME Resumed PROVE ParkInv'
  BY <1>t, <1>10, ParkResumed
<1>11. ASSUME Return \/ DropStores \/ Panic \/ DropFrame PROVE ParkInv'
  <2>1. mode \notin {"resuming"} /\ mode' \in {"over", "unwinding"} /\ back' = back
    BY <1>11 DEF Return, DropStores, Panic, DropFrame
  <2>2. TakesBackOwn'
    BY <1>k, <2>1 DEF TakesBackOwn
  <2> QED BY <2>1, <2>2 DEF ParkInv
<1>12. ASSUME NextItem \/ UNCHANGED vars PROVE ParkInv'
  BY <1>12 DEF NextItem, vars, given, ParkInv, TakesBackOwn
<1>13. ASSUME BreakArgs PROVE ParkInv'
  <2>1. /\ mode = "args" /\ mode' = "run" /\ frames' = frames /\ own' = own /\ back' = back
        /\ UNCHANGED <<shared, cur>> \/ LoopGone
    BY <1>13, Broken
  <2>2. ParkedStack(frames, shared) /\ AllClear(frames, cur, site.shared)
    BY <2>1 DEF ParkInv
  <2>3. Current(frames, cur, shared, Len(shared), own, Len(own))
    BY <2>1, ArgsCurrent
  <2>4. AllClear(frames, cur, Len(shared))
    <3>1. site \in Call /\ site.shared \in Nat
      BY <1>0, <2>1, BoundsAssumption DEF Call
    <3>2. site.shared <= Len(shared)
      BY <2>1 DEF LendInv, Current
    <3> QED BY <1>0, <2>2, <3>1, <3>2, AllClearRaised
  <2>5. TakesBackOwn'
    BY <1>k, <2>1 DEF TakesBackOwn
  <2>6. CASE UNCHANGED <<shared, cur>>
    BY <2>1, <2>2, <2>4, <2>5, <2>6 DEF ParkInv
  <2>7. CASE LoopGone
    BY <1>t, <1>k, <2>1, <2>2, <2>3, <2>4, <2>7, ParkLoops
  <2> QED BY <2>1, <2>6, <2>7
<1> QED BY <1>1, <1>2, <1>3, <1>4, <1>5, <1>6, <1>7, <1>8, <1>9, <1>10, <1>11, <1>12,
           <1>13 DEF Next

\* Every resume finds the locals its own call parked, unless some argument list lends through
\* the alias-typed position before it parks a local (which `MCAliasFirst` shows to go wrong).
THEOREM LendingTakesBackOwn == ASSUME NoAliasFirst PROVE Spec => []TakesBackOwn
<1>1. TypeInv /\ LendInv /\ ParkInv /\ [Next]_vars => ParkInv'
  BY ParkNext
<1>2. ParkInv => TakesBackOwn
  BY DEF ParkInv
<1> QED BY <1>1, <1>2, TypeInit, TypeNext, LendInit, LendNext, ParkInit, PTL DEF Spec
-----------------------------------------------------------------------------
(* Nothing stays in a store for nobody. *)

\* What a call put into each store, and what the loops of a body did.
Lent(call) == {call.pushed[i] : i \in {j \in DOMAIN call.pushed : call.lends[j] # "alias"}}
LentOwn(call) == {call.pushed[i] : i \in {j \in DOMAIN call.pushed : call.lends[j] = "alias"}}
Kept(act) == {act.loops[l].held : l \in DOMAIN act.loops}

\* What the frames below the `k`-th put there.
Under(fs, k) == UNION {Lent(fs[j].call) \union Kept(fs[j].act) : j \in 1..(k - 1)}
UnderOwn(fs, k) == UNION {LentOwn(fs[j].call) : j \in 1..(k - 1)}

\* Below the mark `a` lie the values `low` of the activations before this one and the
\* collections of its loops, below a loop's mark those of the loops around it.
Laid(act, S, a, low) ==
  /\ Upto(S, a) = low \union Kept(act)
  /\ \A l \in DOMAIN act.loops :
       Upto(S, act.loops[l].mark) = low \union {act.loops[j].held : j \in 1..(l - 1)}

\* A call lends what its site says, and does not leave a loop.
Proper(call, act) ==
  /\ Len(call.pushed) <= Len(call.lends)
  /\ call.parked # <<>> => HasMark(call)
  /\ call.exits => act.loops = <<>>

LaidStack(fs, S, O) ==
  \A k \in 1..Len(fs) :
    /\ Proper(fs[k].call, fs[k].act)
    /\ Laid(fs[k].act, S, fs[k].call.shared, Under(fs, k))
    /\ Upto(O, fs[k].call.own) = UnderOwn(fs, k)

LaidCurrent(fs, act, S, a, O, b) ==
  /\ Laid(act, S, a, Under(fs, Len(fs) + 1))
  /\ Upto(O, b) = UnderOwn(fs, Len(fs) + 1)

\* Of a program without lapses: what is stored is what the frames and the running body put
\* there, in the order they were entered.
DroppedInv ==
  lapses = {} =>
    /\ mode \in {"run", "args", "value", "resuming"} => LaidStack(frames, shared, own)
    /\ mode = "run" => LaidCurrent(frames, cur, shared, Len(shared), own, Len(own))
    /\ mode = "args" =>
         /\ LaidCurrent(frames, cur, shared, site.shared, own, site.own)
         /\ Proper(site, cur)
         /\ ToSet(shared) = Upto(shared, site.shared) \union Lent(site)
         /\ ToSet(own) = Upto(own, site.own) \union LentOwn(site)
    /\ mode = "value" => /\ ToSet(shared) = Under(frames, Len(frames) + 1)
                         /\ ToSet(own) = UnderOwn(frames, Len(frames) + 1)
    /\ mode = "resuming" =>
         /\ site.lends = Last(frames).call.lends /\ site.exits = Last(frames).call.exits
         /\ site.parked # <<>> => HasMark(site)
         /\ HasMark(site) \/ ToSet(shared) = Under(frames, Len(frames) + 1)
         /\ ToSet(own) = UnderOwn(frames, Len(frames) + 1)

LEMMA UnderSame ==
  ASSUME NEW fs, NEW gs, NEW k, \A j \in 1..(k - 1) : gs[j] = fs[j]
  PROVE  Under(gs, k) = Under(fs, k) /\ UnderOwn(gs, k) = UnderOwn(fs, k)
BY DEF Under, UnderOwn

LEMMA UnderNext ==
  ASSUME NEW fs, NEW k \in Nat, k >= 1
  PROVE  /\ Under(fs, k + 1) = Under(fs, k) \union Lent(fs[k].call) \union Kept(fs[k].act)
         /\ UnderOwn(fs, k + 1) = UnderOwn(fs, k) \union LentOwn(fs[k].call)
<1>1. k + 1 - 1 = k /\ 1..k = 1..(k - 1) \union {k}
  OBVIOUS
<1>2. Under(fs, k + 1) = UNION {Lent(fs[j].call) \union Kept(fs[j].act) : j \in 1..k}
      /\ UnderOwn(fs, k + 1) = UNION {LentOwn(fs[j].call) : j \in 1..k}
  BY <1>1 DEF Under, UnderOwn
<1> QED BY <1>1, <1>2 DEF Under, UnderOwn

\* What a call without a mark of its own put into the store is nothing.
LEMMA NoMark ==
  ASSUME NEW call \in Call, Len(call.pushed) <= Len(call.lends)
  PROVE  /\ ~HasMark(call) => Lent(call) = {}
         /\ ~HasOwnMark(call) => LentOwn(call) = {}
         /\ ToSet(call.pushed) = Lent(call) \union LentOwn(call)
<1>1. /\ Len(call.pushed) \in Nat /\ DOMAIN call.pushed = 1..Len(call.pushed)
      /\ Len(call.lends) \in Nat /\ DOMAIN call.lends = 1..Len(call.lends)
  <2>1. call.pushed \in Seq(Ids) /\ call.lends \in Seq({"whole", "alias", "place"})
    BY SitesAssumption DEF Call
  <2> QED BY <2>1, LenProperties
<1>2. DOMAIN call.pushed \subseteq DOMAIN call.lends
  BY <1>1
<1>3. ToSet(call.pushed) = Lent(call) \union LentOwn(call)
  BY DEF ToSet, Lent, LentOwn
<1> QED BY <1>2, <1>3 DEF HasMark, HasOwnMark, Lent, LentOwn

LEMMA LaidKept ==
  ASSUME NEW act \in Activation, NEW S, NEW T, NEW O, NEW a, NEW b, NEW low,
         Level(act, S, a, O, b), Laid(act, S, a, low), Keeps(S, T, a)
  PROVE  Laid(act, T, a, low)
<1>1. Upto(T, a) = Upto(S, a)
  BY KeepsUpto DEF Keeps
<1>2. \A l \in DOMAIN act.loops : Upto(T, act.loops[l].mark) = Upto(S, act.loops[l].mark)
  BY MarksAreNat, KeepsUpto DEF Level
<1> QED BY <1>1, <1>2 DEF Laid

LEMMA LaidStackKept ==
  ASSUME NEW fs \in Seq(Frame), NEW S, NEW T, NEW O, NEW P, Stack(fs, S, O), LaidStack(fs, S, O),
         \A k \in 1..Len(fs) : Keeps(S, T, fs[k].call.shared) /\ Keeps(O, P, fs[k].call.own)
  PROVE  LaidStack(fs, T, P)
<1> SUFFICES ASSUME NEW k \in 1..Len(fs)
             PROVE  /\ Proper(fs[k].call, fs[k].act)
                    /\ Laid(fs[k].act, T, fs[k].call.shared, Under(fs, k))
                    /\ Upto(P, fs[k].call.own) = UnderOwn(fs, k)
  BY DEF LaidStack
<1>1. Laid(fs[k].act, T, fs[k].call.shared, Under(fs, k))
  BY FrameParts, LaidKept DEF Stack, LaidStack
<1>2. Upto(P, fs[k].call.own) = Upto(O, fs[k].call.own)
  BY FrameParts, KeepsUpto
<1> QED BY <1>1, <1>2 DEF LaidStack

LEMMA LaidStackPushed ==
  ASSUME NEW fs \in Seq(Frame), NEW f \in Frame, NEW S, NEW O, LaidStack(fs, S, O),
         Proper(f.call, f.act), LaidCurrent(fs, f.act, S, f.call.shared, O, f.call.own)
  PROVE  /\ LaidStack(Append(fs, f), S, O)
         /\ Under(Append(fs, f), Len(fs) + 2)
              = Under(fs, Len(fs) + 1) \union Lent(f.call) \union Kept(f.act)
         /\ UnderOwn(Append(fs, f), Len(fs) + 2) = UnderOwn(fs, Len(fs) + 1) \union LentOwn(f.call)
<1> DEFINE gs == Append(fs, f)
           n == Len(fs)
<1>1. /\ n \in Nat /\ Len(gs) = n + 1
      /\ \A i \in 1..n : gs[i] = fs[i]
      /\ gs[n + 1] = f
  BY Lengthened
<1> HIDE DEF gs
<1>2. \A k \in 1..(n + 1) : Under(gs, k) = Under(fs, k) /\ UnderOwn(gs, k) = UnderOwn(fs, k)
  <2> SUFFICES ASSUME NEW k \in 1..(n + 1)
               PROVE  Under(gs, k) = Under(fs, k) /\ UnderOwn(gs, k) = UnderOwn(fs, k)
    OBVIOUS
  <2>1. \A j \in 1..(k - 1) : gs[j] = fs[j]
    BY <1>1
  <2> QED BY <2>1, UnderSame
<1>3. LaidStack(gs, S, O)
  <2> SUFFICES ASSUME NEW k \in 1..(n + 1)
               PROVE  /\ Proper(gs[k].call, gs[k].act)
                      /\ Laid(gs[k].act, S, gs[k].call.shared, Under(fs, k))
                      /\ Upto(O, gs[k].call.own) = UnderOwn(fs, k)
    BY <1>1, <1>2 DEF LaidStack
  <2>1. CASE k \in 1..n
    BY <1>1, <2>1 DEF LaidStack
  <2>2. CASE k = n + 1
    BY <1>1, <2>2 DEF LaidCurrent
  <2> QED BY <1>1, <2>1, <2>2
<1>4. n + 1 \in Nat /\ n + 1 >= 1 /\ n + 1 + 1 = n + 2 /\ n + 1 \in 1..(n + 1)
  BY <1>1
<1>5. /\ Under(gs, n + 2) = Under(gs, n + 1) \union Lent(f.call) \union Kept(f.act)
      /\ UnderOwn(gs, n + 2) = UnderOwn(gs, n + 1) \union LentOwn(f.call)
  BY <1>1, <1>4, UnderNext
<1> QED BY <1>2, <1>3, <1>4, <1>5 DEF gs

LEMMA LaidStackPopped ==
  ASSUME NEW fs \in Seq(Frame), fs # <<>>, NEW S, NEW O, LaidStack(fs, S, O)
  PROVE  /\ LaidStack(Front(fs), S, O)
         /\ Proper(Last(fs).call, Last(fs).act)
         /\ LaidCurrent(Front(fs), Last(fs).act, S, Last(fs).call.shared, O, Last(fs).call.own)
         /\ Under(fs, Len(fs) + 1) = Under(Front(fs), Len(Front(fs)) + 1)
                                       \union Lent(Last(fs).call) \union Kept(Last(fs).act)
         /\ UnderOwn(fs, Len(fs) + 1) = UnderOwn(Front(fs), Len(Front(fs)) + 1) \union LentOwn(Last(fs).call)
<1> DEFINE gs == Front(fs)
           n == Len(fs)
<1>1. /\ n \in Nat /\ n > 0 /\ Len(gs) = n - 1
      /\ \A i \in 1..(n - 1) : gs[i] = fs[i]
      /\ Last(fs) = fs[n]
  BY FrontAndLast
<1> HIDE DEF gs, n
<1>2. \A k \in 1..n : Under(gs, k) = Under(fs, k) /\ UnderOwn(gs, k) = UnderOwn(fs, k)
  <2> SUFFICES ASSUME NEW k \in 1..n
               PROVE  Under(gs, k) = Under(fs, k) /\ UnderOwn(gs, k) = UnderOwn(fs, k)
    OBVIOUS
  <2>1. \A j \in 1..(k - 1) : gs[j] = fs[j]
    BY <1>1
  <2> QED BY <2>1, UnderSame
<1>3. n \in 1..n /\ Len(gs) + 1 = n
  BY <1>1
<1>4. /\ Proper(fs[n].call, fs[n].act)
      /\ Laid(fs[n].act, S, fs[n].call.shared, Under(fs, n))
      /\ Upto(O, fs[n].call.own) = UnderOwn(fs, n)
  BY <1>3 DEF LaidStack, n
<1>5. LaidCurrent(gs, fs[n].act, S, fs[n].call.shared, O, fs[n].call.own)
  BY <1>2, <1>3, <1>4 DEF LaidCurrent
<1>6. LaidStack(gs, S, O)
  <2> SUFFICES ASSUME NEW k \in 1..(n - 1)
               PROVE  /\ Proper(gs[k].call, gs[k].act)
                      /\ Laid(gs[k].act, S, gs[k].call.shared, Under(gs, k))
                      /\ Upto(O, gs[k].call.own) = UnderOwn(gs, k)
    BY <1>1 DEF LaidStack
  <2>1. k \in 1..n /\ gs[k] = fs[k]
    BY <1>1
  <2> QED BY <1>2, <2>1 DEF LaidStack, n
<1>7. n \in Nat /\ n >= 1
  BY <1>1
<1>8. /\ Under(fs, n + 1) = Under(fs, n) \union Lent(fs[n].call) \union Kept(fs[n].act)
      /\ UnderOwn(fs, n + 1) = UnderOwn(fs, n) \union LentOwn(fs[n].call)
  BY <1>7, UnderNext
<1> QED BY <1>1, <1>2, <1>3, <1>4, <1>5, <1>6, <1>8 DEF gs, n

LEMMA Parts ==
  ASSUME TypeInv
  PROVE  /\ cur \in Activation /\ frames \in Seq(Frame) /\ shared \in Seq(Ids) /\ own \in Seq(Ids)
         /\ Len(frames) \in Nat /\ Len(shared) \in Nat /\ Len(own) \in Nat
         /\ mode \in {"args", "resuming"} => /\ site \in Call
                                             /\ site.shared \in Nat /\ site.own \in Nat
<1>1. /\ cur \in Activation /\ frames \in Seq(Frame) /\ shared \in Seq(Ids) /\ own \in Seq(Ids)
      /\ mode \in {"args", "resuming"} => site \in Call
  BY DEF TypeInv, TypeOK, Frame
<1>2. \A c \in Call : c.shared \in Nat /\ c.own \in Nat
  BY BoundsAssumption DEF Call
<1> QED BY <1>1, <1>2, LenProperties

LEMMA CutStored ==
  ASSUME NEW s \in Seq(Ids), NEW m \in Nat, m <= Len(s)
  PROVE  /\ Len(Truncated(s, m)) = m /\ ToSet(Truncated(s, m)) = Upto(s, m)
         /\ Upto(Truncated(s, m), m) = Upto(s, m)
<1>1. /\ Len(s) \in Nat /\ Truncated(s, m) \in Seq(Ids)
      /\ Len(Truncated(s, m)) = m
      /\ \A i \in 1..m : Truncated(s, m)[i] = s[i]
  BY Cut, LenProperties
<1>2. Upto(Truncated(s, m), m) = Upto(s, m)
  BY <1>1 DEF Upto
<1> QED BY <1>1, <1>2, UptoStored

LEMMA NoLoops ==
  ASSUME NEW act, act.loops = <<>>
  PROVE  DOMAIN act.loops = {} /\ Kept(act) = {}
<1>1. DOMAIN act.loops = {}
  OBVIOUS
<1> QED BY <1>1 DEF Kept

\* A body that starts finds what its callers put there.
LEMMA LaidEmpty ==
  ASSUME NEW fs, NEW act \in Activation, act.loops = <<>>, NEW S \in Seq(Ids), NEW O \in Seq(Ids),
         ToSet(S) = Under(fs, Len(fs) + 1), ToSet(O) = UnderOwn(fs, Len(fs) + 1)
  PROVE  LaidCurrent(fs, act, S, Len(S), O, Len(O))
<1>1. DOMAIN act.loops = {} /\ Kept(act) = {}
  BY NoLoops
<1>2. Upto(S, Len(S)) = ToSet(S) /\ Upto(O, Len(O)) = ToSet(O)
  BY UptoStored, LenProperties
<1> QED BY <1>1, <1>2 DEF LaidCurrent, Laid

LEMMA LaidLengthened ==
  ASSUME NEW fs \in Seq(Frame), NEW S \in Seq(Ids), NEW O \in Seq(Ids), Stack(fs, S, O),
         LaidStack(fs, S, O), NEW x \in Ids
  PROVE  LaidStack(fs, Append(S, x), O) /\ LaidStack(fs, S, Append(O, x))
<1>1. \A k \in 1..Len(fs) : /\ Keeps(S, Append(S, x), fs[k].call.shared)
                            /\ Keeps(O, Append(O, x), fs[k].call.own)
  BY FrameParts, KeepsAppend DEF Stack
<1>2. \A k \in 1..Len(fs) : /\ Keeps(S, S, fs[k].call.shared)
                            /\ Keeps(O, O, fs[k].call.own)
  BY FrameParts, KeepsSame DEF Stack
<1> QED BY <1>1, <1>2, LaidStackKept

LEMMA LaidCutShared ==
  ASSUME NEW fs \in Seq(Frame), NEW S \in Seq(Ids), NEW O \in Seq(Ids), Stack(fs, S, O),
         LaidStack(fs, S, O), NEW m \in Nat, \A k \in 1..Len(fs) : fs[k].call.shared <= m
  PROVE  LaidStack(fs, Truncated(S, m), O)
<1>1. \A k \in 1..Len(fs) : Keeps(S, Truncated(S, m), fs[k].call.shared)
  BY FrameParts, KeepsCut DEF Stack
<1>2. \A k \in 1..Len(fs) : Keeps(O, O, fs[k].call.own)
  BY FrameParts, KeepsSame DEF Stack
<1> QED BY <1>1, <1>2, LaidStackKept

\* A body that is left releases its loops' collections and nothing else.
LEMMA TornDownLaid ==
  ASSUME TypeInv, NEW a \in Nat, NEW b \in Nat, Stack(frames, shared, own),
         Current(frames, cur, shared, a, own, b), LaidStack(frames, shared, own),
         Laid(cur, shared, a, Under(frames, Len(frames) + 1)), ToSet(shared) = Upto(shared, a)
  PROVE  /\ ToSet(TornDown(cur)) = Under(frames, Len(frames) + 1)
         /\ LaidStack(frames, TornDown(cur), own)
<1>1. CASE cur.loops = <<>>
  <2>1. TornDown(cur) = shared /\ Kept(cur) = {}
    BY <1>1, NoLoops DEF TornDown
  <2> QED BY <2>1 DEF Laid
<1>2. CASE cur.loops # <<>>
  <2>1. 1 \in DOMAIN cur.loops /\ cur.loops[1].mark \in Nat
    BY <1>2, Parts, MarksAreNat, EmptySeq
  <2>2. TornDown(cur) = Truncated(shared, cur.loops[1].mark)
    BY <1>2 DEF TornDown
  <2>3. cur.loops[1].mark <= a /\ a <= Len(shared)
    BY <2>1 DEF Current, Level
  <2>4. cur.loops[1].mark <= Len(shared)
    BY <2>1, <2>3, Parts
  <2>5. ToSet(TornDown(cur)) = Upto(shared, cur.loops[1].mark)
    BY <2>1, <2>2, <2>4, Parts, CutStored
  <2>6. Upto(shared, cur.loops[1].mark) = Under(frames, Len(frames) + 1)
    <3>1. Upto(shared, cur.loops[1].mark)
            = Under(frames, Len(frames) + 1) \union {cur.loops[j].held : j \in 1..(1 - 1)}
      BY <2>1 DEF Laid
    <3>2. 1..(1 - 1) = {}
      OBVIOUS
    <3> QED BY <3>1, <3>2
  <2>7. \A k \in 1..Len(frames) : frames[k].call.shared <= cur.loops[1].mark
    BY <2>1 DEF Current, Above
  <2>8. LaidStack(frames, TornDown(cur), own)
    BY <2>1, <2>2, <2>7, Parts, LaidCutShared
  <2> QED BY <2>5, <2>6, <2>8
<1> QED BY <1>1, <1>2

\* The next value a call stores is of the store its argument names.
LEMMA LentMore ==
  ASSUME NEW call \in Call, NEW x \in Ids, Len(call.pushed) < Len(call.lends),
         NEW next, next.pushed = Append(call.pushed, x), next.lends = call.lends
  PROVE  LET what == call.lends[Len(call.pushed) + 1] IN
         /\ Len(next.pushed) <= Len(next.lends)
         /\ what # "alias" => /\ Lent(next) = Lent(call) \union {x} /\ LentOwn(next) = LentOwn(call)
                              /\ HasMark(next)
         /\ what = "alias" => Lent(next) = Lent(call) /\ LentOwn(next) = LentOwn(call) \union {x}
<1> DEFINE n == Len(call.pushed)
<1>1. call.pushed \in Seq(Ids) /\ call.lends \in Seq({"whole", "alias", "place"})
  BY SitesAssumption DEF Call
<1>2. /\ n \in Nat /\ Len(call.lends) \in Nat
      /\ DOMAIN call.pushed = 1..n /\ DOMAIN call.lends = 1..Len(call.lends)
  BY <1>1, LenProperties
<1>3. /\ DOMAIN next.pushed = 1..(n + 1) /\ Len(next.pushed) = n + 1
      /\ \A i \in 1..n : next.pushed[i] = call.pushed[i]
      /\ next.pushed[n + 1] = x
  <2>1. next.pushed \in Seq(Ids)
    BY <1>1, Lengthened
  <2> QED BY <1>1, <2>1, Lengthened, LenProperties
<1> HIDE DEF n
<1>4. n + 1 \in DOMAIN call.lends /\ 1..(n + 1) = 1..n \union {n + 1} /\ n + 1 <= Len(call.lends)
  BY <1>2 DEF n
<1>5. Lent(call) = {call.pushed[i] : i \in {j \in 1..n : call.lends[j] # "alias"}}
      /\ LentOwn(call) = {call.pushed[i] : i \in {j \in 1..n : call.lends[j] = "alias"}}
  BY <1>2 DEF Lent, LentOwn
<1>6. /\ Lent(next) = {next.pushed[i] : i \in {j \in 1..n \union {n + 1} : call.lends[j] # "alias"}}
      /\ LentOwn(next) = {next.pushed[i] : i \in {j \in 1..n \union {n + 1} : call.lends[j] = "alias"}}
  BY <1>3, <1>4 DEF Lent, LentOwn
<1> DEFINE P == {j \in 1..n : call.lends[j] # "alias"}
           Q == {j \in 1..n : call.lends[j] = "alias"}
<1>p. /\ \A i \in P : next.pushed[i] = call.pushed[i]
      /\ \A i \in Q : next.pushed[i] = call.pushed[i]
  BY <1>3
<1>i. /\ {next.pushed[i] : i \in P} = {call.pushed[i] : i \in P}
      /\ {next.pushed[i] : i \in Q} = {call.pushed[i] : i \in Q}
      /\ {next.pushed[i] : i \in P \union {n + 1}} = {call.pushed[i] : i \in P} \union {next.pushed[n + 1]}
      /\ {next.pushed[i] : i \in Q \union {n + 1}} = {call.pushed[i] : i \in Q} \union {next.pushed[n + 1]}
  <2> HIDE DEF P, Q
  <2>1. {next.pushed[i] : i \in P} = {call.pushed[i] : i \in P}
    BY <1>p
  <2>2. {next.pushed[i] : i \in Q} = {call.pushed[i] : i \in Q}
    BY <1>p
  <2>3. {next.pushed[i] : i \in P \union {n + 1}} = {next.pushed[i] : i \in P} \union {next.pushed[n + 1]}
    OBVIOUS
  <2>4. {next.pushed[i] : i \in Q \union {n + 1}} = {next.pushed[i] : i \in Q} \union {next.pushed[n + 1]}
    OBVIOUS
  <2> QED BY <2>1, <2>2, <2>3, <2>4
<1>7. CASE call.lends[n + 1] # "alias"
  <2>1. {j \in 1..n \union {n + 1} : call.lends[j] # "alias"}
          = {j \in 1..n : call.lends[j] # "alias"} \union {n + 1}
    BY <1>7
  <2>2. {j \in 1..n \union {n + 1} : call.lends[j] = "alias"} = {j \in 1..n : call.lends[j] = "alias"}
    BY <1>7
  <2>3. Lent(next) = Lent(call) \union {x}
    BY <1>3, <1>5, <1>6, <1>i, <2>1
  <2>4. LentOwn(next) = LentOwn(call)
    BY <1>3, <1>5, <1>6, <1>i, <2>2
  <2>5. HasMark(next)
    BY <1>4, <1>7 DEF HasMark
  <2> QED BY <1>3, <1>4, <1>7, <2>3, <2>4, <2>5 DEF n
<1>8. CASE call.lends[n + 1] = "alias"
  <2>1. {j \in 1..n \union {n + 1} : call.lends[j] = "alias"}
          = {j \in 1..n : call.lends[j] = "alias"} \union {n + 1}
    BY <1>8
  <2>2. {j \in 1..n \union {n + 1} : call.lends[j] # "alias"} = {j \in 1..n : call.lends[j] # "alias"}
    BY <1>8
  <2>3. LentOwn(next) = LentOwn(call) \union {x}
    BY <1>3, <1>5, <1>6, <1>i, <2>1
  <2>4. Lent(next) = Lent(call)
    BY <1>3, <1>5, <1>6, <1>i, <2>2
  <2> QED BY <1>3, <1>4, <1>8, <2>3, <2>4 DEF n
<1> QED BY <1>7, <1>8

LEMMA DroppedInit == Init => DroppedInv
<1> SUFFICES ASSUME Init PROVE DroppedInv
  OBVIOUS
<1>1. /\ mode = "run" /\ frames = <<>> /\ shared = <<>> /\ own = <<>> /\ cur.loops = <<>>
      /\ cur \in Activation /\ Len(<<>>) = 0
  <2>1. TypeInv
    BY TypeInit
  <2> QED BY <2>1, EmptySeq, Parts DEF Init
<1>2. 1..(0 + 1 - 1) = {} /\ 1..0 = {}
  OBVIOUS
<1>3. /\ Under(frames, Len(frames) + 1) = {} /\ UnderOwn(frames, Len(frames) + 1) = {}
      /\ ToSet(shared) = {} /\ ToSet(own) = {} /\ <<>> \in Seq(Ids)
  <2>1. ToSet(<<>>) = {}
    BY DEF ToSet
  <2>2. <<>> \in Seq(Ids)
    BY EmptySeq
  <2>3. Under(frames, Len(frames) + 1) = {} /\ UnderOwn(frames, Len(frames) + 1) = {}
    BY <1>1, <1>2 DEF Under, UnderOwn
  <2> QED BY <1>1, <2>1, <2>2, <2>3
<1>4. LaidStack(frames, shared, own)
  BY <1>1, <1>2 DEF LaidStack
<1>5. LaidCurrent(frames, cur, shared, Len(shared), own, Len(own))
  BY <1>1, <1>3, LaidEmpty
<1> QED BY <1>1, <1>4, <1>5 DEF DroppedInv

LEMMA DroppedBegun ==
  ASSUME TypeInv, LendInv, DroppedInv, lapses = {},
         NEW lends \in Sites, NEW exits \in BOOLEAN, BeginCall(lends, exits)
  PROVE  DroppedInv'
<1>1. /\ LaidStack(frames, shared, own)
      /\ LaidCurrent(frames, cur, shared, Len(shared), own, Len(own))
  BY DEF BeginCall, DroppedInv
<1>2. /\ site'.lends = lends /\ site'.pushed = <<>> /\ site'.parked = <<>>
      /\ site'.shared = Len(shared) /\ site'.own = Len(own) /\ site'.exits = exits
      /\ mode' = "args" /\ cur' = cur /\ frames' = frames /\ shared' = shared /\ own' = own
  BY DEF BeginCall
<1>3. DOMAIN site'.pushed = {} /\ Len(site'.pushed) = 0 /\ Len(lends) \in Nat
  BY <1>2, EmptySeq, LenProperties, SitesAssumption
<1>4. Lent(site') = {} /\ LentOwn(site') = {}
  BY <1>3 DEF Lent, LentOwn
<1>5. Proper(site', cur)
  <2>1. exits => cur.loops = <<>>
    BY DEF BeginCall
  <2> QED BY <1>2, <1>3, <2>1 DEF Proper
<1>6. ToSet(shared) = Upto(shared, Len(shared)) /\ ToSet(own) = Upto(own, Len(own))
  BY Parts, UptoStored
<1>7. LaidStack(frames', shared', own') /\ LaidCurrent(frames', cur', shared', site'.shared, own', site'.own)
  BY <1>1, <1>2
<1>8. Proper(site', cur')
  BY <1>2, <1>5
<1>9. /\ ToSet(shared') = Upto(shared', site'.shared) \union Lent(site')
      /\ ToSet(own') = Upto(own', site'.own) \union LentOwn(site')
  BY <1>2, <1>4, <1>6
<1> QED BY <1>2, <1>7, <1>8, <1>9 DEF DroppedInv

LEMMA DroppedLent ==
  ASSUME TypeInv, LendInv, DroppedInv, lapses = {}, LendWhole \/ LendPlace
  PROVE  DroppedInv'
<1> DEFINE x == born + 1
           what == site.lends[Len(site.pushed) + 1]
<1>1. /\ LaidStack(frames, shared, own)
      /\ LaidCurrent(frames, cur, shared, site.shared, own, site.own) /\ Proper(site, cur)
      /\ ToSet(shared) = Upto(shared, site.shared) \union Lent(site)
      /\ ToSet(own) = Upto(own, site.own) \union LentOwn(site)
  BY DEF LendWhole, LendPlace, DroppedInv
<1>2. /\ Stack(frames, shared, own) /\ Current(frames, cur, shared, site.shared, own, site.own)
      /\ site.shared <= Len(shared) /\ site.own <= Len(own)
      /\ Level(cur, shared, site.shared, own, site.own)
  BY DEF LendWhole, LendPlace, LendInv, Current
<1>3. /\ site \in Call /\ site.shared \in Nat /\ site.own \in Nat /\ Len(site.pushed) < Len(site.lends)
      /\ mode' = "args" /\ cur' = cur /\ frames' = frames
  BY Parts DEF LendWhole, LendPlace
<1>4. x \in Ids
  BY Sizes DEF LendWhole, LendPlace, Ids
<1>5. /\ site'.pushed = Append(site.pushed, x) /\ site'.lends = site.lends /\ site'.exits = site.exits
      /\ site'.shared = site.shared /\ site'.own = site.own
      /\ site'.parked = site.parked \/ what = "place"
  BY <1>3 DEF LendWhole, LendPlace, Lends, Call
<1>6. \/ what # "alias" /\ shared' = Append(shared, x) /\ own' = own
      \/ what = "alias" /\ shared' = shared /\ own' = Append(own, x)
  BY DEF LendWhole, LendPlace, Lends
<1>7. /\ Len(site'.pushed) <= Len(site'.lends)
      /\ what # "alias" => /\ Lent(site') = Lent(site) \union {x} /\ LentOwn(site') = LentOwn(site)
                           /\ HasMark(site')
      /\ what = "alias" => Lent(site') = Lent(site) /\ LentOwn(site') = LentOwn(site) \union {x}
  BY <1>3, <1>4, <1>5, LentMore
<1>8. Proper(site', cur')
  <2>1. HasMark(site) => HasMark(site')
    BY <1>5 DEF HasMark
  <2>2. site'.parked # <<>> => HasMark(site')
    BY <1>1, <1>5, <1>7, <2>1 DEF Proper
  <2> QED BY <1>1, <1>3, <1>5, <1>7, <2>2 DEF Proper
<1> HIDE DEF x, what
<1>9. CASE what # "alias" /\ shared' = Append(shared, x) /\ own' = own
  <2>1. LaidStack(frames', shared', own')
    BY <1>1, <1>2, <1>3, <1>4, <1>9, Parts, LaidLengthened
  <2>2. Keeps(shared, shared', site.shared)
    BY <1>2, <1>3, <1>4, <1>9, Parts, KeepsAppend
  <2>3. Upto(shared', site.shared) = Upto(shared, site.shared)
    BY <1>3, <2>2, KeepsUpto
  <2>4. Laid(cur, shared', site.shared, Under(frames, Len(frames) + 1))
    BY <1>1, <1>2, <2>2, Parts, LaidKept DEF LaidCurrent
  <2>5. LaidCurrent(frames', cur', shared', site'.shared, own', site'.own)
    BY <1>1, <1>3, <1>5, <1>9, <2>4 DEF LaidCurrent
  <2>6. ToSet(shared') = ToSet(shared) \union {x}
    BY <1>4, <1>9, Parts, Added
  <2>7. /\ ToSet(shared') = Upto(shared', site'.shared) \union Lent(site')
        /\ ToSet(own') = Upto(own', site'.own) \union LentOwn(site')
    BY <1>1, <1>5, <1>7, <1>9, <2>3, <2>6
  <2> QED BY <1>3, <1>8, <2>1, <2>5, <2>7 DEF DroppedInv
<1>10. CASE what = "alias" /\ shared' = shared /\ own' = Append(own, x)
  <2>1. LaidStack(frames', shared', own')
    BY <1>1, <1>2, <1>3, <1>4, <1>10, Parts, LaidLengthened
  <2>2. Keeps(own, own', site.own)
    BY <1>2, <1>3, <1>4, <1>10, Parts, KeepsAppend
  <2>3. Upto(own', site.own) = Upto(own, site.own)
    BY <1>3, <2>2, KeepsUpto
  <2>4. LaidCurrent(frames', cur', shared', site'.shared, own', site'.own)
    BY <1>1, <1>3, <1>5, <1>10, <2>3 DEF LaidCurrent
  <2>5. ToSet(own') = ToSet(own) \union {x}
    BY <1>4, <1>10, Parts, Added
  <2>6. /\ ToSet(shared') = Upto(shared', site'.shared) \union Lent(site')
        /\ ToSet(own') = Upto(own', site'.own) \union LentOwn(site')
    BY <1>1, <1>5, <1>7, <1>10, <2>3, <2>5
  <2> QED BY <1>3, <1>8, <2>1, <2>4, <2>6 DEF DroppedInv
<1> QED BY <1>6, <1>9, <1>10

LEMMA DroppedLeft ==
  ASSUME TypeInv, LendInv, DroppedInv, lapses = {}, LeaveArgs \/ Finish
  PROVE  DroppedInv'
<1> DEFINE low == Under(frames, Len(frames) + 1)
           a == IF mode = "args" THEN site.shared ELSE Len(shared)
           b == IF mode = "args" THEN site.own ELSE Len(own)
<1>0. mode \in {"args", "run"}
  BY DEF LeaveArgs, Finish
<1>1. /\ a \in Nat /\ b \in Nat /\ Stack(frames, shared, own) /\ Current(frames, cur, shared, a, own, b)
  BY <1>0, Parts DEF LendInv
<1>2. /\ LaidStack(frames, shared, own) /\ LaidCurrent(frames, cur, shared, a, own, b)
  BY <1>0 DEF DroppedInv
<1>3. ToSet(shared) = Upto(shared, a) /\ ToSet(own) = Upto(own, b)
  <2>1. CASE mode = "run"
    BY <2>1, Parts, UptoStored
  <2>2. CASE mode = "args"
    <3>1. site.pushed = <<>>
      BY <2>2 DEF LeaveArgs, Finish
    <3>2. DOMAIN site.pushed = {}
      BY <3>1
    <3>3. Lent(site) = {} /\ LentOwn(site) = {}
      BY <3>2 DEF Lent, LentOwn
    <3> QED BY <2>2, <3>3 DEF DroppedInv
  <2> QED BY <1>0, <2>1, <2>2
<1> HIDE DEF a, b
<1>4. /\ Laid(cur, shared, a, low) /\ Upto(own, b) = UnderOwn(frames, Len(frames) + 1)
  BY <1>2 DEF LaidCurrent
<1>5. ToSet(TornDown(cur)) = low /\ LaidStack(frames, TornDown(cur), own)
  BY <1>1, <1>2, <1>3, <1>4, TornDownLaid
<1>6. mode' = "value" /\ frames' = frames /\ shared' = TornDown(cur) /\ own' = own
  BY DEF LeaveArgs, Finish
<1>7. LaidStack(frames', shared', own')
  BY <1>5, <1>6
<1>8. /\ ToSet(shared') = Under(frames', Len(frames') + 1)
      /\ ToSet(own') = UnderOwn(frames', Len(frames') + 1)
  BY <1>3, <1>4, <1>5, <1>6
<1> QED BY <1>6, <1>7, <1>8 DEF DroppedInv

LEMMA DroppedParked ==
  ASSUME TypeInv, TypeInv', LendInv, DroppedInv, lapses = {}, Park
  PROVE  DroppedInv'
<1> DEFINE f == [act |-> cur, call |-> site]
<1>1. /\ LaidStack(frames, shared, own)
      /\ LaidCurrent(frames, cur, shared, site.shared, own, site.own) /\ Proper(site, cur)
      /\ ToSet(shared) = Upto(shared, site.shared) \union Lent(site)
      /\ ToSet(own) = Upto(own, site.own) \union LentOwn(site)
  BY DEF Park, DroppedInv
<1>2. f \in Frame /\ f.act = cur /\ f.call = site
  BY Parts DEF Park, Frame
<1>3. /\ frames' = Append(frames, f) /\ shared' = shared /\ own' = own /\ mode' = "run"
      /\ cur'.loops = <<>>
  BY DEF Park, Start
<1> HIDE DEF f
<1>4. /\ LaidStack(Append(frames, f), shared, own)
      /\ Under(Append(frames, f), Len(frames) + 2)
           = Under(frames, Len(frames) + 1) \union Lent(site) \union Kept(cur)
      /\ UnderOwn(Append(frames, f), Len(frames) + 2) = UnderOwn(frames, Len(frames) + 1) \union LentOwn(site)
  BY <1>1, <1>2, Parts, LaidStackPushed
<1>5. Len(frames') + 1 = Len(frames) + 2
  BY <1>2, <1>3, Parts, Lengthened
<1>6. ToSet(shared') = Under(frames', Len(frames') + 1) /\ ToSet(own') = UnderOwn(frames', Len(frames') + 1)
  BY <1>1, <1>3, <1>4, <1>5 DEF LaidCurrent, Laid
<1>7. cur' \in Activation /\ shared' \in Seq(Ids) /\ own' \in Seq(Ids)
  BY DEF TypeInv, TypeOK
<1>8. LaidCurrent(frames', cur', shared', Len(shared'), own', Len(own'))
  BY <1>3, <1>6, <1>7, LaidEmpty
<1>9. LaidStack(frames', shared', own')
  BY <1>3, <1>4
<1> QED BY <1>3, <1>8, <1>9 DEF DroppedInv

LEMMA DroppedTail ==
  ASSUME TypeInv, TypeInv', LendInv, DroppedInv, lapses = {}, TailCall
  PROVE  DroppedInv'
<1>1. /\ LaidStack(frames, shared, own)
      /\ LaidCurrent(frames, cur, shared, site.shared, own, site.own) /\ Proper(site, cur)
      /\ ToSet(shared) = Upto(shared, site.shared) \union Lent(site)
      /\ ToSet(own) = Upto(own, site.own) \union LentOwn(site)
  BY DEF TailCall, DroppedInv
<1>2. site.lends = <<>> /\ site.exits /\ site \in Call
  BY Parts DEF TailCall, IsTail
<1>3. cur.loops = <<>> /\ Len(site.pushed) <= 0
  BY <1>1, <1>2, EmptySeq DEF Proper
<1>4. Kept(cur) = {}
  BY <1>3, NoLoops
<1>5. Lent(site) = {} /\ LentOwn(site) = {}
  <2>1. site.pushed \in Seq(Ids)
    BY <1>2 DEF Call
  <2>2. DOMAIN site.pushed = {}
    BY <1>3, <2>1, LenProperties
  <2> QED BY <2>2 DEF Lent, LentOwn
<1>6. /\ frames' = frames /\ shared' = shared /\ own' = own /\ mode' = "run"
      /\ cur'.loops = <<>>
  BY DEF TailCall, Start
<1>7. ToSet(shared') = Under(frames', Len(frames') + 1) /\ ToSet(own') = UnderOwn(frames', Len(frames') + 1)
  BY <1>1, <1>4, <1>5, <1>6 DEF LaidCurrent, Laid
<1>8. cur' \in Activation /\ shared' \in Seq(Ids) /\ own' \in Seq(Ids)
  BY DEF TypeInv, TypeOK
<1>9. LaidCurrent(frames', cur', shared', Len(shared'), own', Len(own'))
  BY <1>6, <1>7, <1>8, LaidEmpty
<1>10. LaidStack(frames', shared', own')
  BY <1>1, <1>6
<1> QED BY <1>6, <1>9, <1>10 DEF DroppedInv

LEMMA DroppedEntered ==
  ASSUME TypeInv, LendInv, DroppedInv, lapses = {}, EnterLoop
  PROVE  DroppedInv'
<1> DEFINE x == born + 1
           n == Len(shared)
           l == [mark |-> n, held |-> x]
           N == Len(cur.loops)
           T == Append(shared, x)
           low == Under(frames, Len(frames) + 1)
<1>0. /\ cur \in Activation /\ frames \in Seq(Frame) /\ shared \in Seq(Ids) /\ own \in Seq(Ids)
      /\ n \in Nat /\ x \in Ids
  BY Parts, Sizes DEF EnterLoop, Ids
<1>1. /\ LaidStack(frames, shared, own) /\ Laid(cur, shared, n, low)
      /\ Upto(own, Len(own)) = UnderOwn(frames, Len(frames) + 1)
      /\ Stack(frames, shared, own) /\ Level(cur, shared, n, own, Len(own))
  BY DEF EnterLoop, DroppedInv, LaidCurrent, LendInv, Current
<1>2. /\ shared' = T /\ own' = own /\ frames' = frames /\ mode' = "run"
      /\ cur'.loops = Append(cur.loops, l)
  BY <1>0 DEF EnterLoop, Activation
<1>3. l \in Loop /\ l.mark = n /\ l.held = x
  BY <1>0, Sizes DEF Loop
<1>4. /\ cur.loops \in Seq(Loop) /\ N \in Nat /\ DOMAIN cur.loops = 1..N
      /\ DOMAIN cur'.loops = 1..(N + 1)
      /\ \A k \in 1..N : cur'.loops[k] = cur.loops[k]
      /\ cur'.loops[N + 1] = l
  BY <1>0, <1>2, <1>3, MarksAreNat, Lengthened, LenProperties
<1>5. Len(T) = n + 1 /\ Keeps(shared, T, n) /\ T[n + 1] = x
  BY <1>0, Lengthened, KeepsAppend
<1> HIDE DEF l, T, x, low, n, N
<1>6. LaidStack(frames', shared', own')
  BY <1>0, <1>1, <1>2, LaidLengthened DEF T
<1>7. Laid(cur, T, n, low)
  BY <1>0, <1>1, <1>5, LaidKept
<1>8. Upto(T, n + 1) = Upto(T, n) \union {x}
  <2>1. 1..(n + 1) = 1..n \union {n + 1}
    BY <1>0
  <2> QED BY <1>5, <2>1 DEF Upto
<1>9. Kept(cur') = Kept(cur) \union {x}
  <2>1. 1..(N + 1) = 1..N \union {N + 1}
    BY <1>4
  <2>2. Kept(cur) = {cur.loops[j].held : j \in 1..N}
    BY <1>4 DEF Kept
  <2>3. Kept(cur') = {cur'.loops[j].held : j \in 1..N \union {N + 1}}
    BY <1>4, <2>1 DEF Kept
  <2>4. {cur'.loops[j].held : j \in 1..N} = {cur.loops[j].held : j \in 1..N}
    BY <1>4
  <2> QED BY <1>3, <1>4, <2>2, <2>3, <2>4
<1>10. Upto(T, n + 1) = low \union Kept(cur')
  BY <1>7, <1>8, <1>9 DEF Laid
<1>11. ASSUME NEW k \in DOMAIN cur'.loops
       PROVE  Upto(T, cur'.loops[k].mark) = low \union {cur'.loops[j].held : j \in 1..(k - 1)}
  <2>1. k \in 1..(N + 1) /\ \A j \in 1..(k - 1) : cur'.loops[j] = cur.loops[j]
    BY <1>4
  <2>2. {cur'.loops[j].held : j \in 1..(k - 1)} = {cur.loops[j].held : j \in 1..(k - 1)}
    BY <2>1
  <2>3. CASE k = N + 1
    <3>1. 1..(k - 1) = 1..N
      BY <1>4, <2>3
    <3>2. Kept(cur) = {cur.loops[j].held : j \in 1..(k - 1)}
      BY <1>4, <3>1 DEF Kept
    <3>3. cur'.loops[k].mark = n
      BY <1>3, <1>4, <2>3
    <3>4. Upto(T, n) = low \union Kept(cur)
      BY <1>7 DEF Laid
    <3> QED BY <2>2, <3>2, <3>3, <3>4
  <2>4. CASE k \in 1..N
    <3>1. Upto(T, cur.loops[k].mark) = low \union {cur.loops[j].held : j \in 1..(k - 1)}
      BY <1>4, <1>7, <2>4 DEF Laid
    <3>2. cur'.loops[k] = cur.loops[k]
      BY <1>4, <2>4
    <3> QED BY <2>2, <3>1, <3>2
  <2> QED BY <1>4, <2>1, <2>3, <2>4
<1>12. Laid(cur', T, n + 1, low)
  BY <1>10, <1>11 DEF Laid
<1>13. LaidCurrent(frames', cur', shared', Len(shared'), own', Len(own'))
  BY <1>1, <1>2, <1>5, <1>12 DEF LaidCurrent, low
<1> QED BY <1>2, <1>6, <1>13 DEF DroppedInv

LEMMA DroppedExited ==
  ASSUME TypeInv, Stack(frames, shared, own),
         Current(frames, cur, shared, Len(shared), own, Len(own)),
         LaidStack(frames, shared, own),
         LaidCurrent(frames, cur, shared, Len(shared), own, Len(own)), LoopGone
  PROVE  DroppedInv'
<1> DEFINE n == Len(shared)
           N == Len(cur.loops)
           m == Last(cur.loops).mark
           T == Truncated(shared, m)
           low == Under(frames, Len(frames) + 1)
<1>0. /\ cur \in Activation /\ frames \in Seq(Frame) /\ shared \in Seq(Ids) /\ own \in Seq(Ids)
      /\ n \in Nat
  BY Parts
<1>1. /\ LaidStack(frames, shared, own) /\ Laid(cur, shared, n, low)
      /\ Upto(own, Len(own)) = UnderOwn(frames, Len(frames) + 1)
      /\ Stack(frames, shared, own) /\ Level(cur, shared, n, own, Len(own))
      /\ Current(frames, cur, shared, n, own, Len(own))
  BY DEF LaidCurrent, Current
<1>2. /\ shared' = T /\ own' = own /\ frames' = frames /\ mode' = "run"
      /\ cur'.loops = Front(cur.loops) /\ cur.loops # <<>>
  BY <1>0 DEF LoopGone, Activation
<1>3. /\ cur.loops \in Seq(Loop) /\ N \in Nat /\ N > 0 /\ DOMAIN cur.loops = 1..N
      /\ DOMAIN cur'.loops = 1..(N - 1)
      /\ \A k \in 1..(N - 1) : cur'.loops[k] = cur.loops[k]
      /\ m = cur.loops[N].mark /\ m \in Nat
  <2>1. cur.loops \in Seq(Loop) /\ N \in Nat /\ DOMAIN cur.loops = 1..N
    BY <1>0, MarksAreNat
  <2>2. /\ N > 0 /\ Front(cur.loops) \in Seq(Loop) /\ Len(Front(cur.loops)) = N - 1
        /\ \A k \in 1..(N - 1) : Front(cur.loops)[k] = cur.loops[k]
        /\ Last(cur.loops) = cur.loops[N]
    BY <1>2, <2>1, FrontAndLast
  <2>3. DOMAIN Front(cur.loops) = 1..(N - 1)
    BY <2>2, LenProperties
  <2>4. cur.loops[N].mark \in Nat
    BY <1>0, <2>1, <2>2, MarksAreNat
  <2> QED BY <1>2, <2>1, <2>2, <2>3, <2>4
<1> HIDE DEF m, T, low, n, N
<1>4. N \in DOMAIN cur.loops
  BY <1>3
<1>5. /\ m <= n /\ \A j \in 1..(N - 1) : cur.loops[j].mark \in Nat /\ cur.loops[j].mark <= m
  <2>1. \A j \in 1..(N - 1) : cur.loops[j].mark \in Nat
    BY <1>0, <1>3, MarksAreNat
  <2> QED BY <1>1, <1>3, <1>4, <2>1 DEF Level
<1>6. Len(T) = m /\ Upto(T, m) = Upto(shared, m) /\ Keeps(shared, T, m)
  BY <1>0, <1>3, <1>5, CutStored, KeepsCut DEF T, n
<1>7. Upto(T, m) = low \union Kept(cur')
  <2>1. Upto(shared, m) = low \union {cur.loops[j].held : j \in 1..(N - 1)}
    BY <1>1, <1>3, <1>4 DEF Laid
  <2>2. Kept(cur') = {cur'.loops[j].held : j \in 1..(N - 1)}
    BY <1>3 DEF Kept
  <2>3. {cur'.loops[j].held : j \in 1..(N - 1)} = {cur.loops[j].held : j \in 1..(N - 1)}
    BY <1>3
  <2> QED BY <1>6, <2>1, <2>2, <2>3
<1>8. ASSUME NEW k \in DOMAIN cur'.loops
      PROVE  Upto(T, cur'.loops[k].mark) = low \union {cur'.loops[j].held : j \in 1..(k - 1)}
  <2>1. k \in 1..(N - 1) /\ \A j \in 1..(k - 1) : cur'.loops[j] = cur.loops[j]
    BY <1>3
  <2>2. {cur'.loops[j].held : j \in 1..(k - 1)} = {cur.loops[j].held : j \in 1..(k - 1)}
    BY <2>1
  <2>3. Upto(shared, cur.loops[k].mark) = low \union {cur.loops[j].held : j \in 1..(k - 1)}
    <3>1. k \in DOMAIN cur.loops
      BY <1>3, <2>1
    <3> QED BY <1>1, <3>1 DEF Laid
  <2>4. Upto(T, cur.loops[k].mark) = Upto(shared, cur.loops[k].mark)
    BY <1>5, <1>6, <2>1, KeepsUpto
  <2> QED BY <1>3, <2>1, <2>2, <2>3, <2>4
<1>9. Laid(cur', T, m, low)
  BY <1>7, <1>8 DEF Laid
<1>10. LaidCurrent(frames', cur', shared', Len(shared'), own', Len(own'))
  BY <1>1, <1>2, <1>6, <1>9 DEF LaidCurrent, low
<1>11. \A k \in 1..Len(frames) : frames[k].call.shared <= m
  BY <1>1, <1>3, <1>4 DEF Current, Above
<1>12. LaidStack(frames', shared', own')
  BY <1>0, <1>1, <1>2, <1>3, <1>11, LaidCutShared DEF T
<1> QED BY <1>2, <1>10, <1>12 DEF DroppedInv

\* Arguments given up before anything was lent leave the stores as the body laid them out.
LEMMA DroppedBroken ==
  ASSUME TypeInv, LendInv, DroppedInv, lapses = {}, BreakArgs
  PROVE  DroppedInv'
<1>1. /\ mode = "args" /\ mode' = "run" /\ site.pushed = <<>>
      /\ frames' = frames /\ own' = own
      /\ UNCHANGED <<shared, cur>> \/ LoopGone
  BY Broken
<1>2. Stack(frames, shared, own) /\ Current(frames, cur, shared, Len(shared), own, Len(own))
  BY <1>1, ArgsCurrent
<1>3. /\ LaidStack(frames, shared, own)
      /\ LaidCurrent(frames, cur, shared, site.shared, own, site.own)
      /\ ToSet(shared) = Upto(shared, site.shared) \union Lent(site)
      /\ ToSet(own) = Upto(own, site.own) \union LentOwn(site)
  BY <1>1 DEF DroppedInv
<1>4. Lent(site) = {} /\ LentOwn(site) = {}
  <2>1. DOMAIN site.pushed = {}
    BY <1>1
  <2> QED BY <2>1 DEF Lent, LentOwn
<1>5. /\ Upto(shared, Len(shared)) = Upto(shared, site.shared)
      /\ Upto(own, Len(own)) = Upto(own, site.own)
  BY <1>3, <1>4, Parts, UptoStored
<1>6. LaidCurrent(frames, cur, shared, Len(shared), own, Len(own))
  BY <1>3, <1>5 DEF LaidCurrent, Laid
<1>7. CASE UNCHANGED <<shared, cur>>
  BY <1>1, <1>3, <1>6, <1>7 DEF DroppedInv
<1>8. CASE LoopGone
  BY <1>2, <1>3, <1>6, <1>8, DroppedExited
<1> QED BY <1>1, <1>7, <1>8

LEMMA DroppedResume ==
  ASSUME TypeInv, DroppedInv, lapses = {}, Resume
  PROVE  DroppedInv'
<1>1. /\ LaidStack(frames, shared, own)
      /\ ToSet(shared) = Under(frames, Len(frames) + 1)
      /\ ToSet(own) = UnderOwn(frames, Len(frames) + 1)
  BY DEF Resume, DroppedInv
<1>2. /\ mode' = "resuming" /\ site' = Last(frames).call /\ frames' = frames
      /\ shared' = shared /\ own' = own /\ frames # <<>>
  BY DEF Resume, Popped
<1>3. Proper(Last(frames).call, Last(frames).act)
  BY <1>1, <1>2, Parts, LaidStackPopped
<1>4. LaidStack(frames', shared', own')
  BY <1>1, <1>2
<1>5. site'.parked # <<>> => HasMark(site')
  BY <1>2, <1>3 DEF Proper
<1>6. /\ ToSet(shared') = Under(frames', Len(frames') + 1)
      /\ ToSet(own') = UnderOwn(frames', Len(frames') + 1)
  BY <1>1, <1>2
<1>7. site'.lends = Last(frames').call.lends /\ site'.exits = Last(frames').call.exits
  BY <1>2
<1> QED BY <1>2, <1>4, <1>5, <1>6, <1>7 DEF DroppedInv

LEMMA DroppedTaken ==
  ASSUME TypeInv, LendInv, DroppedInv, lapses = {}, TakeBack
  PROVE  DroppedInv'
<1>1. /\ LaidStack(frames, shared, own) /\ HasMark(site)
      /\ site.lends = Last(frames).call.lends /\ site.exits = Last(frames).call.exits
      /\ ToSet(own) = UnderOwn(frames, Len(frames) + 1)
  BY DEF TakeBack, DroppedInv
<1>2. /\ Stack(frames, shared, own) /\ site.shared = Last(frames).call.shared /\ frames # <<>>
      /\ site \in Call /\ site.shared \in Nat /\ site.own \in Nat
  BY Parts DEF TakeBack, LendInv, TypeInv
<1> DEFINE at == site.shared + Last(site.parked).at
<1>3. at \in Nat /\ site.shared <= at
  <2>1. site.parked \in Seq([id : Ids, at : Nat]) /\ site.parked # <<>>
    BY <1>2 DEF TakeBack, Call
  <2>2. Last(site.parked) \in [id : Ids, at : Nat]
    BY <2>1, FrontAndLast
  <2>3. Last(site.parked).at \in Nat
    BY <2>2
  <2> QED BY <1>2, <2>3
<1>4. /\ mode' = "resuming" /\ frames' = frames /\ own' = own /\ shared' = Truncated(shared, at)
      /\ site'.lends = site.lends /\ site'.exits = site.exits
  BY <1>2 DEF TakeBack, TakeAt, Call
<1> HIDE DEF at
<1>5. \A k \in 1..Len(frames) : frames[k].call.shared <= at
  <2>1. \A k \in 1..Len(frames) : frames[k].call.shared <= site.shared /\ frames[k].call.shared \in Nat
    BY <1>2, Parts, TopMarks, FrameParts
  <2> QED BY <1>2, <1>3, <2>1
<1>6. LaidStack(frames', shared', own')
  BY <1>1, <1>2, <1>3, <1>4, <1>5, Parts, LaidCutShared
<1>7. HasMark(site')
  BY <1>1, <1>4 DEF HasMark
<1>8. /\ ToSet(own') = UnderOwn(frames', Len(frames') + 1)
      /\ site'.lends = Last(frames').call.lends /\ site'.exits = Last(frames').call.exits
  BY <1>1, <1>4
<1> QED BY <1>4, <1>6, <1>7, <1>8 DEF DroppedInv

LEMMA DroppedResumed ==
  ASSUME TypeInv, TypeInv', LendInv, DroppedInv, lapses = {}, Resumed
  PROVE  DroppedInv'
<1> DEFINE f == Last(frames)
           rest == Front(frames)
           low == Under(rest, Len(rest) + 1)
           lowOwn == UnderOwn(rest, Len(rest) + 1)
<1>1. /\ LaidStack(frames, shared, own)
      /\ site.lends = f.call.lends /\ site.exits = f.call.exits
      /\ HasMark(site) \/ ToSet(shared) = Under(frames, Len(frames) + 1)
      /\ ToSet(own) = UnderOwn(frames, Len(frames) + 1)
  BY DEF Resumed, DroppedInv
<1>2. /\ Stack(frames, shared, own) /\ site.shared = f.call.shared /\ site.own = f.call.own
      /\ frames # <<>> /\ frames \in Seq(Frame) /\ shared \in Seq(Ids) /\ own \in Seq(Ids)
      /\ site.shared \in Nat /\ site.own \in Nat
  BY Parts DEF Resumed, LendInv, TypeInv
<1>3. f \in Frame /\ f.call \in Call /\ f.act \in Activation /\ rest \in Seq(Frame)
  <2>1. f \in Frame /\ rest \in Seq(Frame)
    BY <1>2, FrontAndLast
  <2> QED BY <2>1 DEF Frame
<1>4. /\ LaidStack(rest, shared, own) /\ Proper(f.call, f.act)
      /\ LaidCurrent(rest, f.act, shared, f.call.shared, own, f.call.own)
      /\ Under(frames, Len(frames) + 1) = low \union Lent(f.call) \union Kept(f.act)
      /\ UnderOwn(frames, Len(frames) + 1) = lowOwn \union LentOwn(f.call)
  BY <1>1, <1>2, LaidStackPopped
<1>5. /\ Stack(rest, shared, own)
      /\ Current(rest, f.act, shared, f.call.shared, own, f.call.own)
  BY <1>2, StackPopped
<1> HIDE DEF f, rest, low, lowOwn
<1>6. /\ Laid(f.act, shared, site.shared, low) /\ Upto(own, site.own) = lowOwn
      /\ site.shared <= Len(shared) /\ site.own <= Len(own)
      /\ Level(f.act, shared, site.shared, own, site.own)
      /\ \A j \in 1..Len(rest) : rest[j].call.shared <= site.shared /\ rest[j].call.own <= site.own
  BY <1>2, <1>4, <1>5 DEF LaidCurrent, Current, Above, low, lowOwn
<1>7. /\ ~HasMark(site) => Lent(f.call) = {}
      /\ ~HasOwnMark(site) => LentOwn(f.call) = {}
  BY <1>1, <1>3, <1>4, NoMark DEF Proper, HasMark, HasOwnMark
<1>8. /\ frames' = rest
      /\ shared' = IF HasMark(site) THEN Truncated(shared, site.shared) ELSE shared
      /\ own' = IF HasOwnMark(site) THEN Truncated(own, site.own) ELSE own
  BY DEF Resumed, Unpin, rest
<1>e. (mode' = "run" /\ cur' = f.act) \/ (site.exits /\ mode' = "value")
  BY DEF Resumed, Popped, f
<1>9. Keeps(shared, shared', site.shared) /\ ToSet(shared') = Upto(shared, site.shared)
  <2>1. CASE HasMark(site)
    <3>1. shared' = Truncated(shared, site.shared)
      BY <1>8, <2>1
    <3> QED BY <1>2, <1>6, <3>1, KeepsCut, CutStored
  <2>2. CASE ~HasMark(site)
    <3>1. shared' = shared /\ ToSet(shared) = low \union Kept(f.act)
      BY <1>1, <1>4, <1>7, <1>8, <2>2
    <3> QED BY <1>2, <1>6, <3>1, KeepsSame DEF Laid
  <2> QED BY <2>1, <2>2
<1>10. Keeps(own, own', site.own) /\ ToSet(own') = Upto(own, site.own)
  <2>1. CASE HasOwnMark(site)
    <3>1. own' = Truncated(own, site.own)
      BY <1>8, <2>1
    <3> QED BY <1>2, <1>6, <3>1, KeepsCut, CutStored
  <2>2. CASE ~HasOwnMark(site)
    <3>1. own' = own /\ ToSet(own) = lowOwn
      BY <1>1, <1>4, <1>7, <1>8, <2>2
    <3> QED BY <1>2, <1>6, <3>1, KeepsSame
  <2> QED BY <2>1, <2>2
<1>11. shared' \in Seq(Ids) /\ own' \in Seq(Ids) /\ cur' \in Activation
  BY DEF TypeInv, TypeOK
<1>12. LaidStack(rest, shared', own')
  <2>1. \A k \in 1..Len(rest) : rest[k].call.shared \in Nat /\ rest[k].call.own \in Nat
    BY <1>3, FrameParts
  <2>2. \A k \in 1..Len(rest) : Keeps(shared, shared', rest[k].call.shared)
    BY <1>2, <1>6, <1>9, <1>11, <2>1, KeepsLess
  <2>3. \A k \in 1..Len(rest) : Keeps(own, own', rest[k].call.own)
    BY <1>2, <1>6, <1>10, <1>11, <2>1, KeepsLess
  <2> QED BY <1>3, <1>4, <1>5, <2>2, <2>3, LaidStackKept
<1>13. ToSet(shared') = low \union Kept(f.act) /\ ToSet(own') = lowOwn
  BY <1>6, <1>9, <1>10 DEF Laid
<1>14. CASE mode' = "run" /\ cur' = f.act
  <2>1. Laid(f.act, shared', site.shared, low)
    BY <1>3, <1>6, <1>9, LaidKept
  <2>2. Upto(shared', Len(shared')) = low \union Kept(f.act) /\ Upto(own', Len(own')) = lowOwn
    BY <1>11, <1>13, UptoStored, LenProperties
  <2>3. Laid(f.act, shared', Len(shared'), low)
    BY <2>1, <2>2 DEF Laid
  <2>4. LaidCurrent(rest, f.act, shared', Len(shared'), own', Len(own'))
    BY <2>2, <2>3 DEF LaidCurrent, low, lowOwn
  <2>5. LaidCurrent(frames', cur', shared', Len(shared'), own', Len(own'))
    BY <1>8, <1>14, <2>4
  <2>6. LaidStack(frames', shared', own')
    BY <1>8, <1>12
  <2> QED BY <1>14, <2>5, <2>6 DEF DroppedInv
<1>15. CASE site.exits /\ mode' = "value"
  <2>1. f.act.loops = <<>>
    BY <1>1, <1>4, <1>15 DEF Proper
  <2>2. Kept(f.act) = {}
    BY <2>1, NoLoops
  <2>3. ToSet(shared') = Under(frames', Len(frames') + 1) /\ ToSet(own') = UnderOwn(frames', Len(frames') + 1)
    BY <1>8, <1>13, <2>2 DEF low, lowOwn
  <2>4. LaidStack(frames', shared', own')
    BY <1>8, <1>12
  <2> QED BY <1>15, <2>3, <2>4 DEF DroppedInv
<1> QED BY <1>e, <1>14, <1>15

LEMMA GivenKept == [Next]_vars => lapses' = lapses
BY DEF Next, BeginCall, LendWhole, LendPlace, LeaveArgs, BreakArgs, Park, TailCall, Swap, EnterLoop,
       NextItem, LeaveLoop, Finish, Resume, TakeBack, Resumed, Return, Panic, DropFrame, DropStores, vars, given

LEMMA DroppedNext == TypeInv /\ TypeInv' /\ LendInv /\ DroppedInv /\ [Next]_vars => DroppedInv'
<1> SUFFICES ASSUME TypeInv, TypeInv', LendInv, DroppedInv, [Next]_vars PROVE DroppedInv'
  OBVIOUS
<1>1. lapses' = lapses
  BY GivenKept
<1>2. CASE lapses # {}
  BY <1>1, <1>2 DEF DroppedInv
<1>3. CASE lapses = {}
  <2>1. ASSUME NEW place \in Places, Swap(place) PROVE DroppedInv'
    <3>1. site \in Call /\ mode = "args"
      BY <2>1, Parts DEF Swap
    <3>2. /\ site'.lends = site.lends /\ site'.pushed = site.pushed /\ site'.parked = site.parked
          /\ site'.shared = site.shared /\ site'.own = site.own /\ site'.exits = site.exits
          /\ mode' = "args" /\ cur' = cur /\ frames' = frames /\ shared' = shared /\ own' = own
      BY <2>1, <3>1 DEF Swap, Call
    <3>3. /\ LaidStack(frames, shared, own) /\ Proper(site, cur)
          /\ LaidCurrent(frames, cur, shared, site.shared, own, site.own)
          /\ ToSet(shared) = Upto(shared, site.shared) \union Lent(site)
          /\ ToSet(own) = Upto(own, site.own) \union LentOwn(site)
      BY <1>3, <3>1 DEF DroppedInv
    <3>4. Lent(site') = Lent(site) /\ LentOwn(site') = LentOwn(site) /\ Proper(site', cur')
      BY <3>2, <3>3 DEF Lent, LentOwn, Proper, HasMark
    <3>5. LaidCurrent(frames', cur', shared', site'.shared, own', site'.own) /\ LaidStack(frames', shared', own')
      BY <3>2, <3>3
    <3>6. /\ ToSet(shared') = Upto(shared', site'.shared) \union Lent(site')
          /\ ToSet(own') = Upto(own', site'.own) \union LentOwn(site')
      BY <3>2, <3>3, <3>4
    <3> QED BY <3>2, <3>4, <3>5, <3>6 DEF DroppedInv
  <2>2. ASSUME Return \/ Panic \/ DropFrame \/ DropStores PROVE DroppedInv'
    <3>1. mode' \in {"over", "unwinding"}
      BY <2>2 DEF Return, Panic, DropFrame, DropStores
    <3> QED BY <3>1 DEF DroppedInv
  <2>3. ASSUME NextItem \/ UNCHANGED vars PROVE DroppedInv'
    <3>1. /\ lapses' = lapses /\ mode' = mode /\ cur' = cur /\ site' = site /\ frames' = frames
          /\ shared' = shared /\ own' = own
      BY <2>3 DEF NextItem, vars, given
    <3> QED BY <3>1 DEF DroppedInv
  <2>4. ASSUME LeaveLoop PROVE DroppedInv'
    <3>1. mode = "run" /\ LoopGone
      BY <2>4, LeftLoop
    <3>2. Stack(frames, shared, own) /\ Current(frames, cur, shared, Len(shared), own, Len(own))
      BY <3>1 DEF LendInv
    <3>3. /\ LaidStack(frames, shared, own)
          /\ LaidCurrent(frames, cur, shared, Len(shared), own, Len(own))
      BY <1>3, <3>1 DEF DroppedInv
    <3> QED BY <3>1, <3>2, <3>3, DroppedExited
  <2> QED BY <1>3, <2>1, <2>2, <2>3, <2>4, DroppedBegun, DroppedLent, DroppedLeft, DroppedBroken,
             DroppedParked, DroppedTail, DroppedEntered, DroppedResume, DroppedTaken, DroppedResumed DEF Next
<1> QED BY <1>2, <1>3

\* What the invariant says of a body that runs.
Balanced == mode = "run" /\ lapses = {} => Stored = Accounted

LEMMA DroppedBalanced == TypeInv /\ DroppedInv => Balanced
<1> SUFFICES ASSUME TypeInv, DroppedInv, mode = "run", lapses = {} PROVE Stored = Accounted
  BY DEF Balanced
<1> DEFINE n == Len(frames)
<1>1. /\ n \in Nat /\ DOMAIN frames = 1..n /\ 1..(n + 1 - 1) = 1..n
  BY Parts, LenProperties
<1>2. LaidStack(frames, shared, own) /\ LaidCurrent(frames, cur, shared, Len(shared), own, Len(own))
  BY DEF DroppedInv
<1>3. ToSet(shared) = Under(frames, n + 1) \union Kept(cur) /\ ToSet(own) = UnderOwn(frames, n + 1)
  BY <1>2, Parts, UptoStored DEF LaidCurrent, Laid
<1> HIDE DEF n
<1>4. ASSUME NEW k \in 1..n
      PROVE  OfFrame(frames[k]) = Lent(frames[k].call) \union LentOwn(frames[k].call) \union Kept(frames[k].act)
  <2>1. frames[k].call \in Call /\ Len(frames[k].call.pushed) <= Len(frames[k].call.lends)
    BY <1>2, Parts, FrameParts DEF LaidStack, Proper, n
  <2>2. ToSet(frames[k].call.pushed) = Lent(frames[k].call) \union LentOwn(frames[k].call)
    BY <2>1, NoMark
  <2> QED BY <2>2 DEF OfFrame, Kept
<1> DEFINE lower == UNION {OfFrame(frames[k]) : k \in 1..n}
<1>5. lower = Under(frames, n + 1) \union UnderOwn(frames, n + 1)
  <2>1. /\ Under(frames, n + 1) = UNION {Lent(frames[j].call) \union Kept(frames[j].act) : j \in 1..n}
        /\ UnderOwn(frames, n + 1) = UNION {LentOwn(frames[j].call) : j \in 1..n}
    BY <1>1 DEF Under, UnderOwn
  <2> HIDE DEF OfFrame, Lent, LentOwn, Kept
  <2> QED BY <1>4, <2>1
<1>6. Accounted = Kept(cur) \union lower
  <2> HIDE DEF OfFrame
  <2> QED BY <1>1 DEF Accounted, Kept
<1> HIDE DEF lower
<1>7. Stored = ToSet(shared) \union ToSet(own)
  BY DEF Stored
<1>8. Accounted = Under(frames, n + 1) \union UnderOwn(frames, n + 1) \union Kept(cur)
  BY <1>5, <1>6
<1>9. Stored = Under(frames, n + 1) \union Kept(cur) \union UnderOwn(frames, n + 1)
  BY <1>3, <1>7
<1> DEFINE u == Under(frames, n + 1)
           o == UnderOwn(frames, n + 1)
           c == Kept(cur)
<1>10. Accounted = u \union o \union c /\ Stored = u \union c \union o
  BY <1>8, <1>9
<1> HIDE DEF u, o, c
<1> QED BY <1>10

\* A body that is resumed finds in the stores what the frames below it and its own loops put
\* there and nothing of its callee's subtree, in every program that uses none of the lapses.
THEOREM LendingDroppedUnlessLapsed == Spec => DroppedUnlessLapsed
<1>1. Balanced' /\ [Next]_vars
        => [lapses = {} /\ mode = "resuming" /\ mode' = "run" => Stored' = Accounted']_vars
  BY GivenKept DEF Balanced
<1>2. Spec => []Balanced
  BY TypeInit, TypeNext, LendInit, LendNext, DroppedInit, DroppedNext, DroppedBalanced, PTL DEF Spec
<1> QED BY <1>1, <1>2, PTL DEF Spec, DroppedUnlessLapsed
=============================================================================
