--------------------------- MODULE CallGraphProofs ---------------------------
(***************************************************************************)
(* For every scope: the in-place closure of the call graph is reachability *)
(* (it keeps the rows sound and passed through ever more definitions), and *)
(* the recursions are taken out inner first and written back where they    *)
(* are found. The second rests on what makes a cycle of functions local: a *)
(* body is only entered from outside through the function it is the body   *)
(* of, so a recursion below a member of a cycle is part of that cycle, or  *)
(* its host lies below the member too and comes later in the order.        *)
(* For markers of any number and length: reading them one after the       *)
(* other, as the code does, asks for what they say taken together.         *)
(***************************************************************************)
EXTENDS CallGraph, TLAPS, WellFoundedInduction, SequenceTheorems, FiniteSetTheorems

(* The markers. *)
\* A set of natural numbers has a least one.
LEMMA LeastNat ==
  ASSUME NEW T, T \subseteq Nat, T # {}
  PROVE  \E x \in T : \A y \in T : x <= y
<1>1. PICK x \in T : \A y \in T : ~ (<<y, x>> \in OpToRel(<, Nat))
  BY NatLessThanWellFounded, WFMin
<1>2. \A y \in T : ~ (y < x)
  BY <1>1 DEF OpToRel
<1> QED BY <1>2

\* A set that holds 0 and with a number the next holds every number.
LEMMA Rising ==
  ASSUME NEW S, 0 \in S, \A k \in Nat : k \in S => k + 1 \in S
  PROVE  Nat \subseteq S
<1> SUFFICES ASSUME Nat \ S # {} PROVE FALSE
  OBVIOUS
<1>1. PICK x \in Nat \ S : \A y \in Nat \ S : x <= y
  BY LeastNat
<1>2. x # 0 /\ x - 1 \in Nat
  BY <1>1
<1>3. x - 1 \in S
  BY <1>1, <1>2
<1>4. x - 1 + 1 = x
  BY <1>1
<1> QED BY <1>1, <1>2, <1>3, <1>4

-----------------------------------------------------------------------------
(* One marker. *)

\* It is read option by option.
LEMMA ReadsInOrder ==
  ASSUME NEW metas, NEW n \in Nat
  PROVE  \E read : read = [k \in 0..n |-> IF k = 0 THEN Default
                             ELSE IF read[k - 1] = Bad THEN Bad ELSE With(read[k - 1], metas[k])]
<1> DEFINE after(read, k) == IF k = 0 THEN Default
                             ELSE IF read[k - 1] = Bad THEN Bad ELSE With(read[k - 1], metas[k])
           S == {m \in Nat : \E read : read = [k \in 0..m |-> after(read, k)]}
<1>1. 0 \in S
  <2>1. PICK read : read = [k \in 0..0 |-> Default]
    OBVIOUS
  <2>2. read = [k \in 0..0 |-> after(read, k)]
    BY <2>1
  <2> QED BY <2>2
<1>2. ASSUME NEW m \in Nat, m \in S PROVE m + 1 \in S
  <2>1. PICK read : read = [k \in 0..m |-> after(read, k)]
    BY <1>2
  <2> DEFINE next == [k \in 0..(m + 1) |-> IF k = m + 1 THEN after(read, k) ELSE read[k]]
  <2>2. \A k \in 0..(m + 1) : k # 0 => k - 1 \in 0..m /\ k - 1 \in 0..(m + 1) /\ k - 1 # m + 1
    OBVIOUS
  <2>3. \A k \in 0..(m + 1) : k # 0 => next[k - 1] = read[k - 1]
    BY <2>2
  <2>4. \A k \in 0..(m + 1) : after(next, k) = after(read, k)
    BY <2>3
  <2>5. \A k \in 0..(m + 1) : k # m + 1 => k \in 0..m
    OBVIOUS
  <2> HIDE DEF after
  <2>6. \A k \in 0..(m + 1) : next[k] = after(next, k)
    BY <2>1, <2>4, <2>5
  <2>7. next = [k \in 0..(m + 1) |-> after(next, k)]
    BY <2>6
  <2> HIDE DEF next
  <2>8. m + 1 \in Nat /\ \E reading : reading = [k \in 0..(m + 1) |-> after(reading, k)]
    BY <2>7 DEF after
  <2> QED BY <2>8
<1> HIDE DEF S
<1>3. n \in S
  BY <1>1, <1>2, Rising
<1> QED BY <1>3 DEF S

LEMMA ParseSteps ==
  ASSUME NEW metas, Len(metas) \in Nat
  PROVE  \E read : /\ read[0] = Default /\ Parse(metas) = read[Len(metas)]
                   /\ \A k \in 0..(Len(metas) - 1) :
                        read[k + 1] = IF read[k] = Bad THEN Bad ELSE With(read[k], metas[k + 1])
<1> DEFINE read[k \in 0..Len(metas)] ==
             IF k = 0 THEN Default
             ELSE IF read[k - 1] = Bad THEN Bad ELSE With(read[k - 1], metas[k])
<1>1. Parse(metas) = read[Len(metas)]
  BY DEF Parse
<1>2. read = [k \in 0..Len(metas) |-> IF k = 0 THEN Default
                ELSE IF read[k - 1] = Bad THEN Bad ELSE With(read[k - 1], metas[k])]
  BY ReadsInOrder
<1> HIDE DEF read
<1>3. read[0] = Default
  BY <1>2
<1>4. ASSUME NEW k \in 0..(Len(metas) - 1)
      PROVE  read[k + 1] = IF read[k] = Bad THEN Bad ELSE With(read[k], metas[k + 1])
  <2>1. k + 1 \in 0..Len(metas) /\ k + 1 # 0 /\ k + 1 - 1 = k
    OBVIOUS
  <2> QED BY <1>2, <2>1
<1> QED BY <1>1, <1>3, <1>4

\* What the first `k` options of a marker ask for; the suffix is given once.
Means(opts, metas, k) ==
  /\ opts \in Opts
  /\ \A f \in Flags : f \in opts.flags <=> \E m \in 1..k : metas[m].name = f
  /\ opts.original_suffix # None => \E m \in 1..k : metas[m].name = "original_suffix"
  /\ \A m \in 1..k : metas[m].name = "original_suffix" =>
       metas[m].value = opts.original_suffix /\ opts.original_suffix # None

LEMMA WithMeans ==
  ASSUME NEW metas \in Seq(Metas), NEW k \in 0..(Len(metas) - 1), NEW opts, Means(opts, metas, k),
         With(opts, metas[k + 1]) # Bad
  PROVE  Means(With(opts, metas[k + 1]), metas, k + 1)
<1> DEFINE meta == metas[k + 1]
           new == With(opts, meta)
<1>1. Len(metas) \in Nat /\ k \in Nat
  BY LenProperties
<1>2. k + 1 \in 1..Len(metas) /\ \A m \in 1..(k + 1) : m = k + 1 \/ m \in 1..k
  BY <1>1
<1>3. meta \in Metas
  BY <1>1, <1>2, LenProperties, ElementOfSeq
<1>4. 1..k \subseteq 1..(k + 1) /\ k + 1 \in 1..(k + 1)
  BY <1>1
<1>5. opts \in Opts
  BY DEF Means
<1>6. "original_suffix" \notin Flags
  BY DEF Flags
<1>7. CASE meta.name \in Flags
  <2>1. new = [opts EXCEPT !.flags = @ \union {meta.name}]
    BY <1>6, <1>7 DEF With
  <2>2. /\ new \in Opts /\ new.flags = opts.flags \union {meta.name}
        /\ new.original_suffix = opts.original_suffix
    BY <1>5, <1>7, <2>1 DEF Opts
  <2> HIDE DEF new
  <2>3. \A f \in Flags : f \in new.flags <=> \E m \in 1..(k + 1) : metas[m].name = f
    BY <1>2, <1>4, <2>2 DEF Means
  <2>4. \A m \in 1..(k + 1) : metas[m].name = "original_suffix" => m \in 1..k
    BY <1>2, <1>6, <1>7
  <2> QED BY <1>4, <2>2, <2>3, <2>4 DEF Means, new
<1>8. CASE meta.name \notin Flags
  <2>1. /\ new = [opts EXCEPT !.original_suffix = meta.value]
        /\ meta.name = "original_suffix" /\ meta.value \in SuffixNames /\ opts.original_suffix = None
    BY <1>8 DEF With
  <2>2. new \in Opts /\ new.flags = opts.flags /\ new.original_suffix = meta.value
    BY <1>5, <2>1 DEF Opts
  <2>3. meta.value # None
    BY <2>1, OptionsAssumption
  <2> HIDE DEF new
  <2>4. \A f \in Flags : f \in new.flags <=> \E m \in 1..(k + 1) : metas[m].name = f
    BY <1>2, <1>4, <1>6, <2>1, <2>2 DEF Means
  <2>5. \A m \in 1..(k + 1) : metas[m].name = "original_suffix" => m = k + 1
    BY <1>2, <2>1 DEF Means
  <2>6. \A m \in 1..(k + 1) : metas[m].name = "original_suffix" =>
          metas[m].value = new.original_suffix /\ new.original_suffix # None
    BY <2>2, <2>3, <2>5
  <2> QED BY <1>4, <2>1, <2>2, <2>4, <2>6 DEF Means, new
<1> QED BY <1>7, <1>8

LEMMA ParseMeans ==
  ASSUME NEW metas \in Seq(Metas), Parse(metas) # Bad
  PROVE  Means(Parse(metas), metas, Len(metas))
<1> DEFINE n == Len(metas)
<1>1. n \in Nat
  BY LenProperties
<1>2. PICK read : /\ read[0] = Default /\ Parse(metas) = read[n]
                  /\ \A k \in 0..(n - 1) :
                       read[k + 1] = IF read[k] = Bad THEN Bad ELSE With(read[k], metas[k + 1])
  BY <1>1, ParseSteps
<1> DEFINE S == {k \in Nat : k <= n /\ read[k] # Bad => Means(read[k], metas, k)}
<1>3. 0 \in S
  <2>1. Default \in Opts /\ Default.flags = {} /\ Default.original_suffix = None
    BY DEF Default, Opts
  <2>2. 1..0 = {}
    OBVIOUS
  <2>3. Means(read[0], metas, 0)
    BY <1>2, <2>1, <2>2 DEF Means
  <2> QED BY <2>3
<1>4. ASSUME NEW k \in Nat, k \in S PROVE k + 1 \in S
  <2> SUFFICES ASSUME k + 1 <= n, read[k + 1] # Bad PROVE Means(read[k + 1], metas, k + 1)
    OBVIOUS
  <2>1. k \in 0..(n - 1)
    BY <1>1
  <2>2. read[k] # Bad /\ read[k + 1] = With(read[k], metas[k + 1])
    BY <1>2, <2>1
  <2>3. k <= n
    BY <1>1
  <2>4. Means(read[k], metas, k)
    BY <1>4, <2>2, <2>3
  <2> QED BY <2>1, <2>2, <2>4, WithMeans
<1> HIDE DEF S
<1>5. n \in S
  BY <1>1, <1>3, <1>4, Rising
<1> QED BY <1>1, <1>2, <1>5 DEF S
-----------------------------------------------------------------------------
(* Several markers. *)

\* They are merged one by one.
LEMMA TakesInOrder ==
  ASSUME NEW marks, NEW n \in Nat
  PROVE  \E taken : taken = [k \in 0..n |->
           IF k = 0 THEN None
           ELSE IF taken[k - 1] = Bad \/ Parse(marks[k]) = Bad THEN Bad
           ELSE IF taken[k - 1] = None THEN Parse(marks[k]) ELSE Merge(taken[k - 1], Parse(marks[k]))]
<1> DEFINE after(taken, k) ==
             IF k = 0 THEN None
             ELSE IF taken[k - 1] = Bad \/ Parse(marks[k]) = Bad THEN Bad
             ELSE IF taken[k - 1] = None THEN Parse(marks[k]) ELSE Merge(taken[k - 1], Parse(marks[k]))
           S == {m \in Nat : \E taken : taken = [k \in 0..m |-> after(taken, k)]}
<1>1. 0 \in S
  <2>1. PICK taken : taken = [k \in 0..0 |-> None]
    OBVIOUS
  <2>2. taken = [k \in 0..0 |-> after(taken, k)]
    BY <2>1
  <2> QED BY <2>2
<1>2. ASSUME NEW m \in Nat, m \in S PROVE m + 1 \in S
  <2>1. PICK taken : taken = [k \in 0..m |-> after(taken, k)]
    BY <1>2
  <2> DEFINE next == [k \in 0..(m + 1) |-> IF k = m + 1 THEN after(taken, k) ELSE taken[k]]
  <2>2. \A k \in 0..(m + 1) : k # 0 => k - 1 \in 0..m /\ k - 1 \in 0..(m + 1) /\ k - 1 # m + 1
    OBVIOUS
  <2>3. \A k \in 0..(m + 1) : k # 0 => next[k - 1] = taken[k - 1]
    BY <2>2
  <2>4. \A k \in 0..(m + 1) : after(next, k) = after(taken, k)
    BY <2>3
  <2>5. \A k \in 0..(m + 1) : k # m + 1 => k \in 0..m
    OBVIOUS
  <2> HIDE DEF after
  <2>6. \A k \in 0..(m + 1) : next[k] = after(next, k)
    BY <2>1, <2>4, <2>5
  <2>7. next = [k \in 0..(m + 1) |-> after(next, k)]
    BY <2>6
  <2> HIDE DEF next
  <2>8. m + 1 \in Nat /\ \E taking : taking = [k \in 0..(m + 1) |-> after(taking, k)]
    BY <2>7 DEF after
  <2> QED BY <2>8
<1> HIDE DEF S
<1>3. n \in S
  BY <1>1, <1>2, Rising
<1> QED BY <1>3 DEF S

LEMMA TakeSteps ==
  ASSUME NEW marks, Len(marks) \in Nat
  PROVE  \E taken :
           /\ taken[0] = None /\ TakeFrom(marks) = taken[Len(marks)]
           /\ \A k \in 0..(Len(marks) - 1) :
                taken[k + 1] = IF taken[k] = Bad \/ Parse(marks[k + 1]) = Bad THEN Bad
                               ELSE IF taken[k] = None THEN Parse(marks[k + 1])
                               ELSE Merge(taken[k], Parse(marks[k + 1]))
<1> DEFINE taken[k \in 0..Len(marks)] ==
             IF k = 0 THEN None
             ELSE LET new == Parse(marks[k]) IN
                  IF taken[k - 1] = Bad \/ new = Bad THEN Bad
                  ELSE IF taken[k - 1] = None THEN new ELSE Merge(taken[k - 1], new)
<1>1. TakeFrom(marks) = taken[Len(marks)]
  BY DEF TakeFrom
<1>2. taken = [k \in 0..Len(marks) |->
                 IF k = 0 THEN None
                 ELSE IF taken[k - 1] = Bad \/ Parse(marks[k]) = Bad THEN Bad
                 ELSE IF taken[k - 1] = None THEN Parse(marks[k])
                 ELSE Merge(taken[k - 1], Parse(marks[k]))]
  BY TakesInOrder
<1> HIDE DEF taken
<1>3. taken[0] = None
  BY <1>2
<1>4. ASSUME NEW k \in 0..(Len(marks) - 1)
      PROVE  taken[k + 1] = IF taken[k] = Bad \/ Parse(marks[k + 1]) = Bad THEN Bad
                            ELSE IF taken[k] = None THEN Parse(marks[k + 1])
                            ELSE Merge(taken[k], Parse(marks[k + 1]))
  <2>1. k + 1 \in 0..Len(marks) /\ k + 1 # 0 /\ k + 1 - 1 = k
    OBVIOUS
  <2> QED BY <1>2, <2>1
<1> QED BY <1>1, <1>3, <1>4

\* What the first `k` markers ask for; of several suffixes the last counts.
Merged(opts, marks, k) ==
  /\ opts \in Opts
  /\ \A j \in 1..k : Parse(marks[j]) # Bad
  /\ \A f \in Flags : f \in opts.flags <=> \E j \in 1..k : f \in Parse(marks[j]).flags
  /\ \/ /\ opts.original_suffix = None
        /\ \A j \in 1..k : Parse(marks[j]).original_suffix = None
     \/ \E j \in 1..k : /\ opts.original_suffix = Parse(marks[j]).original_suffix
                        /\ Parse(marks[j]).original_suffix # None
                        /\ \A i \in 1..k : j < i => Parse(marks[i]).original_suffix = None

LEMMA MergeMeans ==
  ASSUME NEW marks, NEW k \in Nat, NEW prev, Merged(prev, marks, k),
         NEW new \in Opts, new = Parse(marks[k + 1])
  PROVE  Merged(Merge(prev, new), marks, k + 1)
<1> DEFINE next == Merge(prev, new)
<1>1. prev \in Opts
  BY DEF Merged
<1>2. /\ next \in Opts /\ next.flags = prev.flags \union new.flags
      /\ new.original_suffix = None => next.original_suffix = prev.original_suffix
      /\ new.original_suffix # None => next.original_suffix = new.original_suffix
  BY <1>1 DEF Merge, Opts
<1> HIDE DEF next
<1>3. k + 1 \in 1..(k + 1) /\ 1..k \subseteq 1..(k + 1) /\ \A j \in 1..(k + 1) : j = k + 1 \/ j \in 1..k
  OBVIOUS
<1>4. new # Bad
  BY OptionsAssumption
<1>5. \A j \in 1..(k + 1) : Parse(marks[j]) # Bad
  BY <1>3, <1>4 DEF Merged
<1>6. \A f \in Flags : f \in next.flags <=> \E j \in 1..(k + 1) : f \in Parse(marks[j]).flags
  BY <1>2, <1>3 DEF Merged
<1>7. CASE new.original_suffix # None
  <2>1. \A i \in 1..(k + 1) : ~(k + 1 < i)
    OBVIOUS
  <2> QED BY <1>2, <1>3, <1>5, <1>6, <1>7, <2>1 DEF Merged, next
<1>8. CASE new.original_suffix = None /\ prev.original_suffix = None
  <2>1. \A j \in 1..k : Parse(marks[j]).original_suffix = None
    BY <1>8 DEF Merged
  <2> QED BY <1>2, <1>3, <1>5, <1>6, <1>8, <2>1 DEF Merged, next
<1>9. CASE new.original_suffix = None /\ prev.original_suffix # None
  <2>1. PICK j \in 1..k : /\ prev.original_suffix = Parse(marks[j]).original_suffix
                          /\ Parse(marks[j]).original_suffix # None
                          /\ \A i \in 1..k : j < i => Parse(marks[i]).original_suffix = None
    BY <1>9 DEF Merged
  <2>2. \A i \in 1..(k + 1) : j < i => Parse(marks[i]).original_suffix = None
    BY <1>3, <1>9, <2>1
  <2> QED BY <1>2, <1>3, <1>5, <1>6, <1>9, <2>1, <2>2 DEF Merged, next
<1> QED BY <1>7, <1>8, <1>9

LEMMA TakenMeans ==
  ASSUME NEW marks \in Marks, TakeFrom(marks) # Bad
  PROVE  IF marks = <<>> THEN TakeFrom(marks) = None ELSE Merged(TakeFrom(marks), marks, Len(marks))
<1> DEFINE n == Len(marks)
<1>1. n \in Nat /\ \A k \in 1..n : marks[k] \in Seq(Metas)
  BY LenProperties, ElementOfSeq DEF Marks
<1>2. PICK taken :
        /\ taken[0] = None /\ TakeFrom(marks) = taken[n]
        /\ \A k \in 0..(n - 1) :
             taken[k + 1] = IF taken[k] = Bad \/ Parse(marks[k + 1]) = Bad THEN Bad
                            ELSE IF taken[k] = None THEN Parse(marks[k + 1])
                            ELSE Merge(taken[k], Parse(marks[k + 1]))
  BY <1>1, TakeSteps
<1> DEFINE S == {k \in Nat : k <= n /\ k # 0 /\ taken[k] # Bad => Merged(taken[k], marks, k)}
<1>3. 0 \in S
  OBVIOUS
<1>4. ASSUME NEW k \in Nat, k \in S PROVE k + 1 \in S
  <2> SUFFICES ASSUME k + 1 <= n, taken[k + 1] # Bad PROVE Merged(taken[k + 1], marks, k + 1)
    OBVIOUS
  <2> DEFINE new == Parse(marks[k + 1])
  <2>1. k \in 0..(n - 1) /\ k + 1 \in 1..n /\ k <= n
    BY <1>1
  <2>2. /\ taken[k] # Bad /\ new # Bad
        /\ taken[k + 1] = IF taken[k] = None THEN new ELSE Merge(taken[k], new)
    BY <1>2, <2>1
  <2>3. new \in Opts
    <3>1. marks[k + 1] \in Seq(Metas)
      BY <1>1, <2>1
    <3> QED BY <2>2, <3>1, ParseMeans DEF Means
  <2>4. CASE k = 0
    <3>1. taken[k + 1] = new
      BY <1>2, <2>2, <2>4
    <3>2. 1..1 = {1} /\ k + 1 = 1
      BY <2>4
    <3> HIDE DEF S
    <3>3. Merged(new, marks, 1)
      BY <2>2, <2>3, <3>2 DEF Merged
    <3> QED BY <3>1, <3>2, <3>3
  <2>5. CASE k # 0
    <3>1. Merged(taken[k], marks, k)
      BY <1>4, <2>1, <2>2, <2>5
    <3>2. taken[k] # None
      BY <3>1, OptionsAssumption DEF Merged
    <3> HIDE DEF S
    <3> QED BY <2>2, <2>3, <3>1, <3>2, MergeMeans
  <2> QED BY <2>4, <2>5
<1> HIDE DEF S
<1>5. n \in S
  BY <1>1, <1>3, <1>4, Rising
<1>6. marks = <<>> <=> n = 0
  BY EmptySeq DEF Marks
<1> QED BY <1>1, <1>2, <1>5, <1>6 DEF S

\* The markers of an item, read one after the other and merged, ask for what they say taken
\* together: each flag that one of them names, and the suffix of the last that has one.
THEOREM TakenAsAsked ==
  ASSUME NEW marks \in Marks, TakeFrom(marks) # Bad
  PROVE  TakeFrom(marks) = IF marks = <<>> THEN None ELSE Asked(marks)
<1> SUFFICES ASSUME marks # <<>> PROVE TakeFrom(marks) = Asked(marks)
  BY TakenMeans
<1> DEFINE n == Len(marks)
           opts == TakeFrom(marks)
           given == UNION {{marks[k][m] : m \in DOMAIN marks[k]} : k \in DOMAIN marks}
           named == {k \in DOMAIN marks : \E m \in DOMAIN marks[k] : marks[k][m].name = "original_suffix"}
           last == marks[CHOOSE k \in named : \A j \in named : j <= k]
<1>1. /\ n \in Nat /\ DOMAIN marks = 1..n
      /\ \A k \in 1..n : marks[k] \in Seq(Metas) /\ DOMAIN marks[k] = 1..Len(marks[k])
  BY LenProperties, ElementOfSeq DEF Marks
<1>2. Merged(opts, marks, n)
  BY TakenMeans
<1>3. \A k \in 1..n : Means(Parse(marks[k]), marks[k], Len(marks[k]))
  BY <1>1, <1>2, ParseMeans DEF Merged
<1> HIDE DEF opts, n
<1>4. opts.flags = {f \in Flags : \E meta \in given : meta.name = f}
  <2>1. opts.flags \subseteq Flags
    BY <1>2 DEF Merged, Opts
  <2>2. ASSUME NEW f \in Flags PROVE f \in opts.flags <=> \E meta \in given : meta.name = f
    <3>1. \A k \in 1..n : f \in Parse(marks[k]).flags <=> \E m \in DOMAIN marks[k] : marks[k][m].name = f
      <4> SUFFICES ASSUME NEW k \in 1..n
                   PROVE  f \in Parse(marks[k]).flags <=> \E m \in DOMAIN marks[k] : marks[k][m].name = f
        OBVIOUS
      <4>1. Means(Parse(marks[k]), marks[k], Len(marks[k])) /\ DOMAIN marks[k] = 1..Len(marks[k])
        BY <1>1, <1>3
      <4> QED BY <4>1 DEF Means
    <3>2. f \in opts.flags <=> \E k \in 1..n : \E m \in DOMAIN marks[k] : marks[k][m].name = f
      BY <1>2, <3>1 DEF Merged
    <3> QED BY <1>1, <3>2
  <2> HIDE DEF given
  <2> QED BY <2>1, <2>2
<1>5. \A k \in 1..n : k \in named <=> Parse(marks[k]).original_suffix # None
  <2> SUFFICES ASSUME NEW k \in 1..n PROVE k \in named <=> Parse(marks[k]).original_suffix # None
    OBVIOUS
  <2>1. Means(Parse(marks[k]), marks[k], Len(marks[k])) /\ DOMAIN marks[k] = 1..Len(marks[k])
    BY <1>1, <1>3
  <2> QED BY <1>1, <2>1 DEF Means
<1>6. opts.original_suffix = IF named = {} THEN None
                             ELSE (CHOOSE meta \in ToSet(last) : meta.name = "original_suffix").value
  <2>1. CASE named = {}
    BY <1>1, <1>2, <1>5, <2>1 DEF Merged
  <2>2. CASE named # {}
    <3>1. named \subseteq 1..n
      BY <1>1
    <3>2. PICK j \in 1..n : /\ opts.original_suffix = Parse(marks[j]).original_suffix
                            /\ Parse(marks[j]).original_suffix # None
                            /\ \A i \in 1..n : j < i => Parse(marks[i]).original_suffix = None
      <4>1. PICK k \in named : TRUE
        BY <2>2
      <4>2. k \in 1..n /\ Parse(marks[k]).original_suffix # None
        BY <1>5, <3>1
      <4> QED BY <1>2, <4>2 DEF Merged
    <3>3. j \in named /\ \A i \in named : i <= j
      <4>1. \A i \in 1..n : i <= j \/ j < i
        BY <1>1
      <4> QED BY <1>5, <3>1, <3>2, <4>1
    <3> HIDE DEF named
    <3>4. \A k \in named : (\A i \in named : i <= k) => k = j
      <4>1. \A k \in named : k \in Nat
        BY <1>1, <3>1
      <4> QED BY <3>3, <4>1
    <3>5. last = marks[j]
      BY <3>3, <3>4
    <3>6. Means(Parse(marks[j]), marks[j], Len(marks[j])) /\ DOMAIN marks[j] = 1..Len(marks[j])
      BY <1>1, <1>3
    <3>7. \E meta \in ToSet(last) : meta.name = "original_suffix"
      BY <3>2, <3>5, <3>6 DEF Means, ToSet
    <3>8. \A meta \in ToSet(last) : meta.name = "original_suffix" => meta.value = opts.original_suffix
      BY <3>2, <3>5, <3>6 DEF Means, ToSet
    <3> HIDE DEF last
    <3> QED BY <2>2, <3>7, <3>8
  <2> QED BY <2>1, <2>2
<1>7. opts = [flags |-> opts.flags, original_suffix |-> opts.original_suffix]
  BY <1>2 DEF Merged, Opts
<1>8. Asked(marks) = [flags |-> {f \in Flags : \E meta \in given : meta.name = f},
                      original_suffix |-> IF named = {} THEN None
                        ELSE (CHOOSE meta \in ToSet(last) : meta.name = "original_suffix").value]
  BY DEF Asked
<1> HIDE DEF given, named, last
<1> QED BY <1>4, <1>6, <1>7, <1>8 DEF opts

-----------------------------------------------------------------------------
(* The graph. *)
\* What the next host and the next member are chosen by.
LEMMA MaxIsLast ==
  ASSUME NEW n \in Nat, NEW S \in SUBSET (1..n), S # {}
  PROVE  Max(S) \in S /\ \A y \in S : y <= Max(S)
<1> DEFINE T == {n - x : x \in S}
<1>0. \A x \in 1..n : n - x \in Nat
  OBVIOUS
<1>1. T \subseteq Nat /\ T # {}
  BY <1>0
<1>2. PICK t \in T : \A y \in T : t <= y
  BY <1>1, LeastNat
<1>3. PICK m \in S : t = n - m
  BY <1>2
<1>4. \A y \in S : n - y \in T /\ y \in Int /\ m \in Int
  BY <1>3
<1>5. \A y \in S : m >= y
  BY <1>2, <1>3, <1>4
<1>6. \E x \in S : \A y \in S : x >= y
  BY <1>5
<1>7. Max(S) \in S /\ \A y \in S : Max(S) >= y
  BY <1>6 DEF Max
<1> QED BY <1>7

Rows(n) == [1..n -> SUBSET (1..n)]

\* What holds of the rows while definitions below `k` have been passed through.
Grows(graph, rows) == \A i \in DOMAIN rows : graph[i] \subseteq rows[i]
Sound(graph, rows) ==
  \A i \in DOMAIN rows : \A S \in SUBSET DOMAIN rows : ClosedFrom(graph, i, S) => rows[i] \subseteq S
Passed(rows, k) ==
  \A i \in DOMAIN rows : \A m \in 1..(k - 1) : m \in rows[i] => rows[m] \subseteq rows[i]
Closing(graph, rows, k) == Grows(graph, rows) /\ Sound(graph, rows) /\ Passed(rows, k)

\* A round keeps the type of the rows.
LEMMA ThroughType ==
  ASSUME NEW n \in Nat, NEW rows \in Rows(n), NEW k \in 1..n
  PROVE  Through(rows, k) \in Rows(n)
BY DEF Through, Rows

\* A round of `closure` passes through one more definition.
LEMMA ThroughStep ==
  ASSUME NEW n \in Nat, NEW graph \in Rows(n), NEW rows \in Rows(n), NEW k \in 1..n,
         Closing(graph, rows, k)
  PROVE  Closing(graph, Through(rows, k), k + 1)
<1> DEFINE next == Through(rows, k)
<1>1. DOMAIN rows = 1..n /\ DOMAIN next = 1..n /\ \A i \in 1..n : rows[i] \subseteq 1..n
  BY DEF Rows, Through
<1>2. \A i \in 1..n : next[i] = IF k \in rows[i] THEN rows[i] \union rows[k] ELSE rows[i]
  BY <1>1 DEF Through
<1>3. Grows(graph, rows) /\ Sound(graph, rows) /\ Passed(rows, k)
  BY DEF Closing
<1> HIDE DEF next
<1>4. Grows(graph, next)
  BY <1>1, <1>2, <1>3 DEF Grows
<1>5. Sound(graph, next)
  <2> SUFFICES ASSUME NEW i \in 1..n, NEW S \in SUBSET (1..n), ClosedFrom(graph, i, S)
               PROVE  next[i] \subseteq S
    BY <1>1 DEF Sound
  <2>1. rows[i] \subseteq S
    BY <1>1, <1>3 DEF Sound
  <2>2. CASE k \in rows[i]
    <3>1. ClosedFrom(graph, k, S)
      BY <2>1, <2>2 DEF ClosedFrom
    <3>2. rows[k] \subseteq S
      BY <1>1, <1>3, <3>1 DEF Sound
    <3> QED BY <1>2, <2>1, <3>2
  <2> QED BY <1>2, <2>1, <2>2
<1>6. Passed(next, k + 1)
  <2> SUFFICES ASSUME NEW i \in 1..n, NEW m \in 1..k, m \in next[i]
               PROVE  next[m] \subseteq next[i]
    BY <1>1 DEF Passed
  <2>1. m \in 1..n /\ (m # k => m \in 1..(k - 1))
    OBVIOUS
  <2>2. \A a \in 1..n, b \in 1..(k - 1) : b \in rows[a] => rows[b] \subseteq rows[a]
    BY <1>1, <1>3 DEF Passed
  <2>3. CASE m = k
    BY <1>2, <2>1, <2>3
  <2>4. CASE m # k
    <3>1. m \in rows[i] => rows[m] \subseteq rows[i]
      BY <2>1, <2>2, <2>4
    <3>2. m \in rows[k] => rows[m] \subseteq rows[k]
      BY <2>1, <2>2, <2>4
    <3> QED BY <1>2, <2>1, <3>1, <3>2
  <2> QED BY <2>3, <2>4
<1> QED BY <1>4, <1>5, <1>6 DEF Closing, next

\* Once every definition has been passed through, the rows are reachability.
LEMMA ClosingEnds ==
  ASSUME NEW n \in Nat, NEW graph \in Rows(n), NEW rows \in Rows(n),
         Closing(graph, rows, n + 1)
  PROVE  Least(graph, rows)
<1>1. DOMAIN rows = 1..n /\ \A i \in 1..n : rows[i] \subseteq 1..n
  BY DEF Rows
<1>2. \A i \in 1..n : graph[i] \subseteq rows[i]
  BY <1>1 DEF Closing, Grows
<1>3. \A i, m \in 1..n : m \in rows[i] => rows[m] \subseteq rows[i]
  BY <1>1 DEF Closing, Passed
<1>4. \A i \in 1..n : ClosedFrom(graph, i, rows[i])
  BY <1>1, <1>2, <1>3 DEF ClosedFrom
<1> QED BY <1>1, <1>4 DEF Closing, Sound, Least

\* A scope has finitely many definitions, in order.
LEMMA ScopeSize ==
  ASSUME NEW s \in ScopeType
  PROVE  Len(s.defs) \in Nat /\ Defs(s) = 1..Len(s.defs)
<1>1. s.defs \in Seq(DefType)
  BY DEF ScopeType
<1>2. Len(s.defs) \in Nat
  BY <1>1, LenProperties
<1> QED BY <1>2 DEF Defs

\* A mention resolves to definitions of its scope.
LEMMA EdgesType ==
  ASSUME NEW s
  PROVE  /\ Edges(s) \in [Defs(s) -> SUBSET Defs(s)]
         /\ Blocked(s) \in [Defs(s) -> SUBSET Defs(s)]
<1>1. \A i, mn : Resolve(s, i, mn) \subseteq Defs(s)
  BY DEF Resolve
<1>2. \A i, r : CallsOf(s, i, r) \subseteq Defs(s)
  BY <1>1 DEF CallsOf
<1> QED BY <1>2 DEF Edges, Blocked
-----------------------------------------------------------------------------
\* The rows of both matrices are what `closure` has made of them so far.
ClosingInv ==
  /\ phase = "closing" =>
       Closing(edges, reaches, round) /\ Closing(optimisticEdges, optimistic, round)
  /\ phase \in {"checking", "expanding", "done"} =>
       Least(edges, reaches) /\ Least(optimisticEdges, optimistic)

LEMMA InitType == Init => TypeOK
<1> SUFFICES ASSUME Init PROVE TypeOK
  OBVIOUS
<1>1. scope \in ScopeType /\ Len(scope.defs) \in Nat
  BY ScopesAssumption, ScopeSize DEF Init
<1>2. edges \in [Defs(scope) -> SUBSET Defs(scope)] /\ blocked \in [Defs(scope) -> SUBSET Defs(scope)]
  BY EdgesType DEF Init
<1>3. optimisticEdges \in [Defs(scope) -> SUBSET Defs(scope)]
  BY <1>2 DEF optimisticEdges
<1>4. round \in 1..(Len(scope.defs) + 1)
  BY <1>1 DEF Init
<1>5. changed \subseteq {scope.defs[i].owner : i \in Defs(scope)}
  <2>1. Collected(scope)
    BY ScopesAssumption DEF Init
  <2>2. \A k \in Bodies(scope) : scope.containers[k].under \in Defs(scope)
    BY <2>1 DEF Bodies, Collected
  <2> QED BY <2>2 DEF Init
<1> QED BY <1>1, <1>2, <1>3, <1>4, <1>5 DEF Init, TypeOK, Slots

LEMMA NextType == TypeOK /\ [Next]_vars => TypeOK'
<1> SUFFICES ASSUME TypeOK, [Next]_vars PROVE TypeOK'
  OBVIOUS
<1> DEFINE n == Len(scope.defs)
<1>n. n \in Nat /\ Defs(scope) = 1..n
  BY ScopeSize DEF TypeOK
<1>m. \A rows \in Rows(n) : \A h : Members(rows, h) \subseteq Defs(scope)
  BY <1>n DEF Members, Rows
<1>h. \A rows \in Rows(n) : Hosts(rows) \subseteq Defs(scope)
  BY <1>n DEF Hosts, Rows
<1>r. reaches \in Rows(n) /\ optimistic \in Rows(n)
  BY <1>n DEF TypeOK, Rows
<1>t. \A hosts : MembersToTake(reaches, hosts) \subseteq Defs(scope)
  BY <1>m, <1>r DEF MembersToTake
<1>1. CASE Close
  <2>1. scope' = scope /\ edges' = edges /\ blocked' = blocked
    BY <1>1 DEF Close, input
  <2>2. CASE round \in Defs(scope)
    <3>1. reaches' \in Rows(n) /\ optimistic' \in Rows(n)
      BY <1>1, <1>n, <1>r, <2>2, ThroughType DEF Close
    <3>2. round' \in 1..(n + 1)
      BY <1>1, <1>n, <2>2 DEF Close
    <3> QED BY <1>1, <1>n, <2>1, <2>2, <3>1, <3>2 DEF Close, TypeOK, Rows
  <2>3. CASE round \notin Defs(scope)
    BY <1>1, <2>1, <2>3 DEF Close, TypeOK
  <2> QED BY <2>2, <2>3
<1>2. CASE Check
  <2>1. todo' \subseteq Defs(scope)
    BY <1>2, <1>h, <1>r DEF Check, TypeOK
  <2>2. members' \subseteq Defs(scope)
    BY <1>2, <1>t DEF Check, TypeOK
  <2> QED BY <1>2, <2>1, <2>2 DEF Check, TypeOK, input
<1>3. CASE Take
  <2> DEFINE i == NextMember(members)
  <2> HIDE DEF i
  <2>1. slot' \in [Defs(scope) -> Slots]
    BY <1>3 DEF Take, TypeOK, Slots, i
  <2>2. held' \in [Defs(scope) -> {NotTaken} \union [Defs(scope) -> Slots]]
    BY <1>3 DEF Take, TypeOK, i
  <2>3. phase' \in {"expanding", "panicked"} /\ members' \subseteq Defs(scope)
    BY <1>3 DEF Take, TypeOK, i
  <2> QED BY <1>3, <2>1, <2>2, <2>3 DEF Take, TypeOK, input
<1>4. CASE Expand
  <2> DEFINE host == NextHost(todo)
             group == Members(reaches, host)
  <2>1. host \in Defs(scope)
    BY <1>4, <1>n, MaxIsLast DEF Expand, TypeOK, NextHost
  <2> HIDE DEF host, group
  <2>2. /\ slot' \in [Defs(scope) -> Slots]
        /\ changed' \subseteq {scope.defs[i].owner : i \in Defs(scope)}
        /\ phase' \in {"expanding", "panicked", "error"}
    <3>1. CASE Rejected(scope, reaches, group, host)
      BY <1>4, <3>1 DEF Expand, TypeOK, host, group
    <3>2. CASE ~Rejected(scope, reaches, group, host) /\ IsRoot(scope, host)
      BY <1>4, <3>2 DEF Expand, TypeOK, host, group
    <3>3. CASE ~Rejected(scope, reaches, group, host) /\ ~IsRoot(scope, host)
      <4>1. WriteBack(group, host) /\ phase = "expanding"
        BY <1>4, <3>3 DEF Expand, host, group
      <4> QED BY <2>1, <4>1 DEF WriteBack, TypeOK, Slots
    <3> QED BY <3>1, <3>2, <3>3
  <2>3. todo' \subseteq Defs(scope) /\ members' \subseteq Defs(scope)
    <3>1. todo' \subseteq todo
      BY <1>4 DEF Expand
    <3>2. members' = members \/ members' = MembersToTake(reaches, todo')
      BY <1>4 DEF Expand
    <3> QED BY <1>t, <3>1, <3>2 DEF TypeOK
  <2> QED BY <1>4, <2>2, <2>3 DEF Expand, TypeOK, input
<1>5. CASE Emit
  BY <1>5 DEF Emit, TypeOK, input
<1>6. CASE Ended \/ UNCHANGED vars
  BY <1>6 DEF Ended, TypeOK, vars
<1> QED BY <1>1, <1>2, <1>3, <1>4, <1>5, <1>6 DEF Next

\* The variables keep their types: every definition a step names is one of the scope.
THEOREM CallGraphTypeOK == Spec => []TypeOK
BY InitType, NextType, PTL DEF Spec
-----------------------------------------------------------------------------
LEMMA InitClosing == Init /\ TypeOK => ClosingInv
<1> SUFFICES ASSUME Init, TypeOK PROVE ClosingInv
  OBVIOUS
<1> DEFINE n == Len(scope.defs)
<1>1. n \in Nat /\ Defs(scope) = 1..n
  BY ScopeSize DEF TypeOK
<1>2. edges \in Rows(n) /\ optimisticEdges \in Rows(n)
  BY <1>1 DEF TypeOK, Rows, optimisticEdges
<1>3. \A graph \in Rows(n) : Closing(graph, graph, 1)
  BY <1>1 DEF Closing, Grows, Sound, Passed, ClosedFrom
<1> QED BY <1>2, <1>3 DEF Init, ClosingInv

LEMMA NextClosing == TypeOK /\ ClosingInv /\ [Next]_vars => ClosingInv'
<1> SUFFICES ASSUME TypeOK, ClosingInv, [Next]_vars PROVE ClosingInv'
  OBVIOUS
<1> DEFINE n == Len(scope.defs)
<1>1. n \in Nat /\ Defs(scope) = 1..n
  BY ScopeSize DEF TypeOK
<1>2. /\ edges \in Rows(n) /\ optimisticEdges \in Rows(n)
      /\ reaches \in Rows(n) /\ optimistic \in Rows(n)
  BY <1>1 DEF TypeOK, Rows, optimisticEdges
<1>3. CASE Close
  <2>1. edges' = edges /\ optimisticEdges' = optimisticEdges /\ phase = "closing"
    BY <1>3 DEF Close, input, optimisticEdges
  <2>2. Closing(edges, reaches, round) /\ Closing(optimisticEdges, optimistic, round)
    BY <2>1 DEF ClosingInv
  <2>3. CASE round \in Defs(scope)
    <3>1. round \in 1..n
      BY <1>1, <2>3
    <3>2. /\ Closing(edges, Through(reaches, round), round + 1)
          /\ Closing(optimisticEdges, Through(optimistic, round), round + 1)
      BY <1>1, <1>2, <2>2, <3>1, ThroughStep
    <3> QED BY <1>3, <2>1, <2>3, <3>2 DEF Close, ClosingInv
  <2>4. CASE round \notin Defs(scope)
    <3>0. round \in 1..(Len(scope.defs) + 1)
      BY DEF TypeOK
    <3>1. round = n + 1
      BY <1>1, <2>4, <3>0
    <3>2. Least(edges, reaches) /\ Least(optimisticEdges, optimistic)
      BY <1>1, <1>2, <2>2, <3>1, ClosingEnds
    <3> QED BY <1>3, <2>1, <2>4, <3>2 DEF Close, ClosingInv
  <2> QED BY <2>3, <2>4
<1>4. CASE Check \/ Take \/ Expand \/ Emit
  <2>1. /\ edges' = edges /\ optimisticEdges' = optimisticEdges
        /\ reaches' = reaches /\ optimistic' = optimistic
        /\ phase \in {"checking", "expanding"} /\ phase' # "closing"
    BY <1>4 DEF Check, Take, Expand, Emit, WriteBack, input, optimisticEdges
  <2> QED BY <2>1 DEF ClosingInv
<1>5. CASE Ended \/ UNCHANGED vars
  BY <1>5 DEF Ended, vars, ClosingInv, optimisticEdges
<1> QED BY <1>3, <1>4, <1>5 DEF Next

\* What the macro takes for reachable in the call graph is reachable, and nothing else is,
\* for every scope.
THEOREM CallGraphReachesRight == Spec => []ReachesRight
<1>1. Init => TypeOK /\ ClosingInv
  BY InitType, InitClosing
<1>2. TypeOK /\ ClosingInv /\ [Next]_vars => (TypeOK /\ ClosingInv)'
  BY NextType, NextClosing
<1>3. ClosingInv => ReachesRight
  BY DEF ClosingInv, ReachesRight
<1> QED BY <1>1, <1>2, <1>3, PTL DEF Spec
-----------------------------------------------------------------------------
\* Paths.

LEMMA PrefixOf ==
  ASSUME NEW s \in Seq(Nat), NEW t \in Seq(Nat)
  PROVE  IsPrefix(s, t) <=> Len(s) <= Len(t) /\ \A k \in 1..Len(s) : s[k] = t[k]
<1>1. Len(s) \in Nat /\ Len(t) \in Nat /\ SubSeq(s, 1, Len(s)) = s
  BY LenProperties, SubSeqFull
<1>2. ASSUME Len(s) <= Len(t)
      PROVE  /\ SubSeq(t, 1, Len(s)) \in Seq(Nat)
             /\ Len(SubSeq(t, 1, Len(s))) = Len(s)
             /\ \A k \in 1..Len(s) : SubSeq(t, 1, Len(s))[k] = t[k]
  <2>1. \A k \in 1..Len(s) : t[k] \in Nat
    BY <1>1, <1>2, LenProperties
  <2>2. /\ SubSeq(t, 1, Len(s)) \in Seq(Nat)
        /\ Len(SubSeq(t, 1, Len(s))) = IF 1 <= Len(s) THEN Len(s) - 1 + 1 ELSE 0
        /\ \A k \in 1..(Len(s) - 1 + 1) : SubSeq(t, 1, Len(s))[k] = t[1 + k - 1]
    BY <1>1, <2>1, SubSeqProperties
  <2> QED BY <1>1, <2>2
<1>3. ASSUME Len(s) <= Len(t), \A k \in 1..Len(s) : s[k] = t[k]
      PROVE  s = SubSeq(t, 1, Len(s))
  BY <1>2, <1>3, SeqEqual
<1> QED BY <1>1, <1>2, <1>3 DEF IsPrefix

LEMMA StrictlyLonger ==
  ASSUME NEW s \in Seq(Nat), NEW t \in Seq(Nat), IsStrictPrefix(s, t)
  PROVE  Len(s) < Len(t)
<1>1. Len(s) \in Nat /\ Len(t) \in Nat
  BY LenProperties
<1>2. Len(s) <= Len(t) /\ (\A k \in 1..Len(s) : s[k] = t[k]) /\ s # t
  BY PrefixOf DEF IsStrictPrefix
<1>3. Len(s) # Len(t)
  BY <1>2, SeqEqual
<1> QED BY <1>1, <1>2, <1>3

LEMMA PrefixTransitive ==
  ASSUME NEW s \in Seq(Nat), NEW t \in Seq(Nat), NEW u \in Seq(Nat),
         IsPrefix(s, t), IsPrefix(t, u)
  PROVE  IsPrefix(s, u)
<1>1. Len(s) \in Nat /\ Len(t) \in Nat /\ Len(u) \in Nat
  BY LenProperties
<1> QED BY <1>1, PrefixOf

LEMMA PrefixOfFront ==
  ASSUME NEW s \in Seq(Nat), NEW t \in Seq(Nat), IsStrictPrefix(s, t)
  PROVE  Front(t) \in Seq(Nat) /\ IsPrefix(s, Front(t))
<1>1. Len(s) \in Nat /\ Len(t) \in Nat /\ Len(s) < Len(t)
  BY LenProperties, StrictlyLonger
<1>2. \A k \in 1..(Len(t) - 1) : t[k] \in Nat
  BY <1>1, LenProperties
<1>3. /\ Front(t) \in Seq(Nat)
      /\ Len(Front(t)) = IF 1 <= Len(t) - 1 THEN Len(t) - 1 - 1 + 1 ELSE 0
      /\ \A k \in 1..(Len(t) - 1 - 1 + 1) : Front(t)[k] = t[1 + k - 1]
  BY <1>1, <1>2, SubSeqProperties DEF Front
<1>4. \A k \in 1..Len(s) : Front(t)[k] = t[k]
  BY <1>1, <1>3
<1>5. Len(s) <= Len(Front(t))
  BY <1>1, <1>3
<1>6. \A k \in 1..Len(s) : s[k] = t[k]
  BY PrefixOf DEF IsStrictPrefix
<1> QED BY <1>3, <1>4, <1>5, <1>6, PrefixOf
-----------------------------------------------------------------------------
\* Where the calls of a scope can go.

LEMMA PathType ==
  ASSUME NEW s \in ScopeType
  PROVE  /\ Len(s.defs) \in Nat /\ Defs(s) = 1..Len(s.defs)
         /\ \A i \in Defs(s) : Path(s, i) \in Seq(Nat) /\ Len(Path(s, i)) \in Nat
         /\ \A i \in Defs(s) : IsRoot(s, i) <=> Len(Path(s, i)) = 0
<1>1. s.defs \in Seq(DefType)
  BY DEF ScopeType
<1>2. Len(s.defs) \in Nat /\ \A i \in 1..Len(s.defs) : s.defs[i] \in DefType
  BY <1>1, LenProperties
<1>3. \A i \in 1..Len(s.defs) : Path(s, i) \in Seq(Nat)
  BY <1>2 DEF DefType, Path
<1>4. \A p \in Seq(Nat) : Len(p) \in Nat /\ (p = <<>> <=> Len(p) = 0)
  BY EmptySeq, LenProperties
<1> QED BY <1>2, <1>3, <1>4 DEF Defs, IsRoot

\* What is declared in a body is collected after the function whose body it is.
LEMMA UnderLater ==
  ASSUME NEW s \in ScopeType, Collected(s), NEW i \in Defs(s), NEW j \in Defs(s), Under(s, j, i)
  PROVE  i < j /\ ~IsRoot(s, j)
<1>1. Len(Path(s, i)) < Len(Path(s, j))
  BY PathType, StrictlyLonger DEF Under
<1>2. ~(j < i) /\ i # j
  BY <1>1, PathType DEF Collected
<1> QED BY <1>1, <1>2, PathType

LEMMA UnderTransitive ==
  ASSUME NEW s \in ScopeType, NEW i \in Defs(s), NEW j \in Defs(s), NEW k \in Defs(s),
         Under(s, j, i), Under(s, k, j)
  PROVE  Under(s, k, i)
<1>1. IsPrefix(Path(s, i), Path(s, k))
  BY PathType, PrefixTransitive DEF Under, IsStrictPrefix
<1>2. Len(Path(s, i)) < Len(Path(s, j)) /\ Len(Path(s, j)) < Len(Path(s, k))
  BY PathType, StrictlyLonger DEF Under
<1>3. Path(s, i) # Path(s, k)
  BY <1>2, PathType
<1> QED BY <1>1, <1>3 DEF Under, IsStrictPrefix

LEMMA CallsInScope ==
  ASSUME NEW s, NEW i \in Defs(s), NEW j \in Edges(s)[i]
  PROVE  j \in Defs(s) /\ InScope(s, i, j)
<1>1. j \in CallsOf(s, i, TRUE)
  BY DEF Edges
<1> QED BY <1>1 DEF CallsOf, Resolve

\* A body is entered through the function it is the body of.
LEMMA EnteredByHost ==
  ASSUME NEW s \in ScopeType, Collected(s), NEW a \in Defs(s), NEW i \in Defs(s),
         NEW j \in Edges(s)[i], Under(s, j, a)
  PROVE  i = a \/ Under(s, i, a)
<1>1. j \in Defs(s) /\ InScope(s, i, j)
  BY CallsInScope
<1>2. ~IsRoot(s, j)
  BY <1>1, UnderLater
<1>3. s.defs[i].owner = s.defs[a].owner /\ IsPrefix(Front(Path(s, j)), Path(s, i))
  BY <1>1, <1>2 DEF InScope, Under
<1>4. Front(Path(s, j)) \in Seq(Nat) /\ IsPrefix(Path(s, a), Front(Path(s, j)))
  BY <1>1, PathType, PrefixOfFront DEF Under
<1>5. IsPrefix(Path(s, a), Path(s, i))
  BY <1>3, <1>4, PathType, PrefixTransitive
<1>6. Path(s, a) = Path(s, i) => a = i
  BY <1>3 DEF Collected
<1> QED BY <1>3, <1>5, <1>6 DEF Under, IsStrictPrefix

\* So every way to what is declared in it from outside leads through that function.
LEMMA Dominates ==
  ASSUME NEW s \in ScopeType, Collected(s), NEW rows \in Rows(Len(s.defs)), Least(Edges(s), rows),
         NEW a \in Defs(s), NEW x \in Defs(s), x # a, ~Under(s, x, a),
         NEW b \in rows[x], Under(s, b, a)
  PROVE  a \in rows[x] /\ b \in rows[a]
<1> DEFINE S == {y \in rows[x] : Under(s, y, a) => a \in rows[x] /\ y \in rows[a]}
<1>1. DOMAIN rows = Defs(s) /\ \A i \in Defs(s) : rows[i] \subseteq Defs(s)
  BY PathType DEF Rows
<1>2. \A i \in Defs(s) : ClosedFrom(Edges(s), i, rows[i])
  BY <1>1 DEF Least
<1>3. Edges(s)[x] \subseteq S
  BY <1>2, EnteredByHost DEF ClosedFrom
<1>4. ASSUME NEW y \in S, NEW z \in Edges(s)[y] PROVE z \in S
  <2>1. y \in Defs(s) /\ z \in rows[x]
    BY <1>1, <1>2, <1>4 DEF ClosedFrom
  <2>2. CASE Under(s, z, a)
    <3>1. y = a \/ Under(s, y, a)
      BY <2>1, <2>2, EnteredByHost
    <3>2. a \in rows[x] /\ (y = a \/ y \in rows[a])
      BY <3>1
    <3>3. z \in rows[a]
      BY <1>2, <3>2 DEF ClosedFrom
    <3> QED BY <2>1, <3>2, <3>3
  <2> QED BY <2>1, <2>2
<1>5. ClosedFrom(Edges(s), x, S) /\ S \in SUBSET Defs(s)
  BY <1>1, <1>3, <1>4 DEF ClosedFrom
<1>6. rows[x] \subseteq S
  BY <1>1, <1>5 DEF Least
<1> QED BY <1>6

LEMMA ReachTransitive ==
  ASSUME NEW n \in Nat, NEW graph, NEW rows \in Rows(n), Least(graph, rows),
         NEW i \in 1..n, NEW m \in rows[i]
  PROVE  rows[m] \subseteq rows[i]
<1>1. DOMAIN rows = 1..n /\ rows[i] \subseteq 1..n
  BY DEF Rows
<1>2. ClosedFrom(graph, i, rows[i])
  BY <1>1 DEF Least
<1>3. ClosedFrom(graph, m, rows[i])
  BY <1>2 DEF ClosedFrom
<1> QED BY <1>1, <1>3 DEF Least

\* The members of a cycle have one host, the first of them.
LEMMA HostOfCycle ==
  ASSUME NEW n \in Nat, NEW graph, NEW rows \in Rows(n), Least(graph, rows),
         NEW i \in 1..n, i \in rows[i]
  PROVE  \E h \in Hosts(rows) : Together(rows, h, i)
<1> DEFINE T == {m \in 1..n : Together(rows, m, i)}
<1>1. DOMAIN rows = 1..n
  BY DEF Rows
<1>2. i \in T /\ T \subseteq Nat
  BY DEF Together
<1>3. PICK h \in T : \A m \in T : h <= m
  BY <1>2, LeastNat
<1>4. \A a \in 1..n, b \in 1..n : Together(rows, a, b) =>
        /\ Together(rows, a, a)
        /\ \A c \in 1..n : Together(rows, b, c) => Together(rows, a, c)
  BY ReachTransitive DEF Together
<1>5. ASSUME NEW j \in 1..(h - 1) PROVE ~Together(rows, h, j)
  <2>1. j \in 1..n /\ j < h
    BY <1>3
  <2>2. j \notin T
    BY <1>3, <2>1
  <2>3. ~Together(rows, j, i)
    BY <2>1, <2>2
  <2> QED BY <1>3, <1>4, <2>1, <2>3 DEF Together
<1>6. Together(rows, h, h)
  BY <1>3, <1>4
<1>7. h \in Hosts(rows)
  BY <1>1, <1>3, <1>5, <1>6 DEF Hosts
<1> QED BY <1>3, <1>7

LEMMA OneHost ==
  ASSUME NEW n \in Nat, NEW graph, NEW rows \in Rows(n), Least(graph, rows),
         NEW i \in 1..n, NEW g \in Hosts(rows), NEW h \in Hosts(rows),
         Together(rows, g, i), Together(rows, h, i)
  PROVE  g = h /\ g <= i
<1>1. g \in 1..n /\ h \in 1..n /\ DOMAIN rows = 1..n
  BY DEF Hosts, Rows
<1>2. /\ \A j \in 1..(g - 1) : ~Together(rows, g, j)
      /\ \A j \in 1..(h - 1) : ~Together(rows, h, j)
  BY DEF Hosts
<1>3. Together(rows, g, h) /\ Together(rows, h, g)
  BY <1>1, ReachTransitive DEF Together
<1>4. ~(h < g) /\ ~(g < h) /\ ~(i < g)
  BY <1>1, <1>2, <1>3
<1> QED BY <1>1, <1>4
-----------------------------------------------------------------------------
\* The cycles are rewritten from the last host to the first, and each is taken out from
\* the last member to the first; a function is out of its slot exactly when it is taken.
InOrder ==
  /\ todo \subseteq Hosts(reaches)
  /\ todo = {} => members = {}
  /\ todo # {} => members \subseteq Members(reaches, NextHost(todo))
  /\ \A h \in Hosts(reaches) \ todo : \A g \in todo : g < h
  /\ \A i \in Defs(scope) : Taken(i) => Recursive(i)
  /\ \A h \in Hosts(reaches) : \A i \in Members(reaches, h) :
       Taken(i) <=> h \notin todo \/ (h = NextHost(todo) /\ i \notin members)
  /\ todo # {} =>
       \A i \in Members(reaches, NextHost(todo)) \ members : \A m \in members : m < i

InSlots == \A i \in Defs(scope) : slot[i] = "fn" <=> ~(Taken(i) /\ ~IsRoot(scope, i))

ExpandInv ==
  /\ scope \in Scopes
  /\ edges = Edges(scope)
  /\ phase \in {"closing", "checking"} => \A i \in Defs(scope) : ~Taken(i)
  /\ phase \in {"closing", "checking", "expanding", "done"} => InSlots
  /\ phase \in {"expanding", "done"} => InOrder
  /\ InnerFirst
  /\ NeverPanics

IInv == TypeOK /\ ClosingInv /\ ExpandInv

\* What the steps that take members out and write them back rely on.
LEMMA Expanding ==
  ASSUME IInv
  PROVE  /\ scope \in ScopeType /\ Collected(scope)
         /\ Len(scope.defs) \in Nat /\ Defs(scope) = 1..Len(scope.defs)
         /\ edges = Edges(scope)
         /\ reaches \in Rows(Len(scope.defs)) /\ DOMAIN reaches = Defs(scope)
         /\ Hosts(reaches) \subseteq Defs(scope)
         /\ \A h \in Defs(scope) : Members(reaches, h) \subseteq Defs(scope)
         /\ phase \in {"checking", "expanding", "done"} => Least(Edges(scope), reaches)
<1>1. scope \in ScopeType /\ Collected(scope) /\ edges = Edges(scope)
  BY ScopesAssumption DEF IInv, ExpandInv
<1>2. Len(scope.defs) \in Nat /\ Defs(scope) = 1..Len(scope.defs)
  BY <1>1, PathType
<1>3. reaches \in Rows(Len(scope.defs)) /\ DOMAIN reaches = Defs(scope)
  BY <1>2 DEF IInv, TypeOK, Rows
<1>4. Hosts(reaches) \subseteq Defs(scope) /\ \A h \in Defs(scope) : Members(reaches, h) \subseteq Defs(scope)
  BY <1>3 DEF Hosts, Members
<1> QED BY <1>1, <1>2, <1>3, <1>4 DEF IInv, ClosingInv

\* A function is taken after every recursion in its body.
LEMMA TakenInside ==
  ASSUME IInv, phase = "expanding", members # {}, todo # {},
         NEW j \in Defs(scope), Under(scope, j, NextMember(members)), Recursive(j)
  PROVE  Taken(j)
<1> DEFINE n == Len(scope.defs)
           i == NextMember(members)
           h == NextHost(todo)
<1>1. n \in Nat /\ Defs(scope) = 1..n /\ reaches \in Rows(n) /\ Least(Edges(scope), reaches)
  BY Expanding
<1>2. members \in SUBSET (1..n) /\ todo \in SUBSET (1..n)
  BY <1>1 DEF IInv, TypeOK
<1>3. i \in members /\ \A m \in members : m <= i
  BY <1>1, <1>2, MaxIsLast DEF NextMember
<1>4. h \in todo /\ \A g \in todo : g <= h
  BY <1>1, <1>2, MaxIsLast DEF NextHost
<1>5. InOrder /\ h \in Hosts(reaches) /\ i \in Members(reaches, h)
  BY <1>3, <1>4 DEF IInv, ExpandInv, InOrder
<1>6. Together(reaches, h, i) /\ i \in 1..n /\ h \in 1..n /\ i < j
  BY <1>1, <1>2, <1>3, <1>4, <1>5, Expanding, UnderLater DEF Members
<1>7. PICK g \in Hosts(reaches) : Together(reaches, g, j)
  BY <1>1, HostOfCycle DEF Recursive
<1>8. g \in 1..n /\ j \in Members(reaches, g)
  BY <1>1, <1>7, Expanding DEF Members
<1> HIDE DEF i, h
<1>9. CASE g = h
  <2>1. j \notin members
    BY <1>1, <1>2, <1>3, <1>6
  <2> QED BY <1>5, <1>8, <1>9, <2>1 DEF InOrder, h
<1>10. CASE g # h
  <2>1. h <= i
    BY <1>1, <1>5, <1>6, OneHost
  <2>2. ~Together(reaches, g, i)
    BY <1>1, <1>5, <1>6, <1>7, <1>10, OneHost
  <2>3. g # i
    <3>1. Together(reaches, i, i)
      BY <1>1, <1>6, ReachTransitive DEF Together
    <3> QED BY <2>2, <3>1
  <2>4. Under(scope, g, i)
    <3> SUFFICES ASSUME ~Under(scope, g, i) PROVE FALSE
      OBVIOUS
    <3>1. j \in reaches[g] /\ g \in reaches[j]
      BY <1>7 DEF Together
    <3>2. i \in reaches[g] /\ j \in reaches[i]
      BY <1>1, <1>6, <1>8, <2>3, <3>1, Expanding, Dominates DEF i
    <3>3. g \in reaches[i]
      BY <1>1, <1>6, <3>1, <3>2, ReachTransitive
    <3> QED BY <2>2, <3>2, <3>3 DEF Together
  <2>5. i < g
    BY <1>1, <1>6, <1>8, <2>4, Expanding, UnderLater DEF i
  <2>6. h < g
    BY <1>6, <1>8, <2>1, <2>5
  <2>7. g \notin todo
    BY <1>4, <1>6, <1>8, <2>6
  <2> QED BY <1>5, <1>7, <1>8, <2>7 DEF InOrder
<1> QED BY <1>9, <1>10

\* The functions the next member is declared in still hold it.
LEMMA InPlace ==
  ASSUME IInv, NEW i \in Defs(scope), Recursive(i), ~Taken(i), phase = "expanding"
  PROVE  slot[i] = "fn" /\ Addressable(i)
<1>1. slot[i] = "fn" /\ \A a \in Defs(scope) : slot[a] # "fn" => Taken(a)
  BY DEF IInv, ExpandInv, InSlots
<1>2. \A a \in Defs(scope) : Under(scope, i, a) => ~Taken(a)
  BY DEF IInv, ExpandInv, InnerFirst
<1> QED BY <1>1, <1>2 DEF Addressable

\* Who is taken next, and for which cycle.
LEMMA NextToTake ==
  ASSUME IInv, phase = "expanding", members # {}
  PROVE  LET i == NextMember(members)
             h == NextHost(todo)
         IN /\ todo # {} /\ h \in todo /\ h \in Hosts(reaches)
            /\ i \in members /\ i \in Defs(scope) /\ i \in Members(reaches, h)
            /\ \A m \in members : m <= i
            /\ Together(reaches, h, i) /\ Recursive(i) /\ ~Taken(i)
<1> DEFINE n == Len(scope.defs)
           i == NextMember(members)
           h == NextHost(todo)
<1>1. n \in Nat /\ Defs(scope) = 1..n /\ reaches \in Rows(n) /\ Least(Edges(scope), reaches)
  BY Expanding
<1>2. members \in SUBSET (1..n) /\ todo \in SUBSET (1..n)
  BY <1>1 DEF IInv, TypeOK
<1>3. InOrder /\ todo # {}
  BY DEF IInv, ExpandInv, InOrder
<1>4. i \in members /\ \A m \in members : m <= i
  BY <1>1, <1>2, MaxIsLast DEF NextMember
<1>5. h \in todo /\ h \in Hosts(reaches)
  BY <1>1, <1>2, <1>3, MaxIsLast DEF NextHost, InOrder
<1>6. i \in Members(reaches, h) /\ i \in 1..n /\ h \in 1..n
  BY <1>2, <1>3, <1>4, <1>5 DEF InOrder
<1> HIDE DEF i, h
<1>7. Together(reaches, h, i)
  BY <1>6 DEF Members
<1>8. Recursive(i)
  BY <1>1, <1>6, <1>7, ReachTransitive DEF Recursive, Together
<1>9. ~Taken(i)
  BY <1>3, <1>4, <1>5, <1>6 DEF InOrder, h
<1> QED BY <1>1, <1>3, <1>4, <1>5, <1>6, <1>7, <1>8, <1>9 DEF i, h

LEMMA TakeKeeps == IInv /\ Take => ExpandInv'
<1> SUFFICES ASSUME IInv, Take PROVE ExpandInv'
  OBVIOUS
<1> DEFINE n == Len(scope.defs)
           i == NextMember(members)
           h == NextHost(todo)
<1>1. phase = "expanding" /\ members # {} /\ todo # {} /\ InOrder /\ InSlots /\ InnerFirst
  BY DEF Take, IInv, ExpandInv, InOrder
<1>2. n \in Nat /\ Defs(scope) = 1..n /\ reaches \in Rows(n) /\ Least(Edges(scope), reaches)
  BY <1>1, Expanding
<1>3. /\ h \in todo /\ h \in Hosts(reaches)
      /\ i \in members /\ i \in Defs(scope) /\ i \in Members(reaches, h)
      /\ \A m \in members : m <= i
      /\ Together(reaches, h, i) /\ Recursive(i) /\ ~Taken(i)
  BY <1>1, NextToTake
<1>4. slot[i] = "fn" /\ Addressable(i)
  BY <1>1, <1>3, InPlace
<1>5. \A j \in Defs(scope) : Under(scope, j, i) => ~IsRoot(scope, j)
  BY <1>2, <1>3, Expanding, UnderLater
<1>6. \A j \in Defs(scope) : Under(scope, j, i) /\ Recursive(j) => Taken(j) /\ slot[j] # "fn"
  BY <1>1, <1>5, TakenInside DEF InSlots
<1>7. /\ scope' = scope /\ edges' = edges /\ reaches' = reaches /\ todo' = todo
      /\ phase' = "expanding" /\ members' = members \ {i}
      /\ held' = [held EXCEPT ![i] = slot]
      /\ slot' = IF IsRoot(scope, i) THEN slot ELSE [slot EXCEPT ![i] = "empty"]
  BY <1>1, <1>4 DEF Take, input
<1> HIDE DEF i, h
<1>8. slot # NotTaken
  <2>1. i \in DOMAIN slot
    BY <1>3 DEF IInv, TypeOK
  <2>2. DOMAIN NotTaken = {}
    BY DEF NotTaken
  <2> QED BY <2>1, <2>2
<1>9. \A k \in Defs(scope) : held'[k] = IF k = i THEN slot ELSE held[k]
  BY <1>3, <1>7 DEF IInv, TypeOK
<1>10. \A k \in Defs(scope) : Taken(k)' <=> Taken(k) \/ k = i
  BY <1>8, <1>9 DEF Taken
<1>11. InSlots'
  <2>1. \A k \in Defs(scope) :
          slot'[k] = IF k = i /\ ~IsRoot(scope, i) THEN "empty" ELSE slot[k]
    BY <1>3, <1>7 DEF IInv, TypeOK
  <2> QED BY <1>1, <1>3, <1>4, <1>7, <1>10, <2>1 DEF InSlots
<1>12. InOrder'
  <2>1. \A g \in Hosts(reaches) : i \in Members(reaches, g) => g = h
    <3>1. \A g \in Hosts(reaches) : i \in Members(reaches, g) => Together(reaches, g, i)
      BY DEF Members
    <3> QED BY <1>2, <1>3, <3>1, OneHost
  <2>2. \A g \in Hosts(reaches) : \A k \in Members(reaches, g) : k \in Defs(scope)
    BY <1>2, Expanding
  <2>3. \A g \in Hosts(reaches) : \A k \in Members(reaches, g) :
          (Taken(k) <=> g \notin todo \/ (g = h /\ k \notin members))
    BY <1>1 DEF InOrder, h
  <2>4. \A g \in Hosts(reaches) : \A k \in Members(reaches, g) :
          (Taken(k)' <=> g \notin todo \/ (g = h /\ k \notin members \ {i}))
    BY <1>10, <2>1, <2>2, <2>3
  <2>5. \A k \in Members(reaches, h) \ members' : \A m \in members' : m < k
    <3>1. \A k \in Members(reaches, h) \ members : \A m \in members : m < k
      BY <1>1 DEF InOrder, h
    <3>2. members \subseteq 1..n
      BY <1>2 DEF IInv, TypeOK
    <3>3. \A m \in members \ {i} : m < i
      BY <1>2, <1>3, <3>2
    <3> QED BY <1>7, <3>1, <3>3
  <2>6. members' \subseteq Members(reaches, h)
    BY <1>1, <1>7 DEF InOrder, h
  <2>7. \A k \in Defs(scope) : Taken(k)' => Recursive(k)
    BY <1>1, <1>3, <1>10 DEF InOrder
  <2>8. todo \subseteq Hosts(reaches) /\ \A g \in Hosts(reaches) \ todo : \A f \in todo : f < g
    BY <1>1 DEF InOrder
  <2> QED BY <1>1, <1>7, <2>4, <2>5, <2>6, <2>7, <2>8 DEF InOrder, Recursive, h
<1>13. InnerFirst'
  <2> SUFFICES ASSUME NEW a \in Defs(scope), NEW j \in Defs(scope),
                      Taken(a)', Under(scope, j, a), Recursive(j)
               PROVE  Taken(j)' /\ held'[a][j] # "fn"
    BY <1>7 DEF InnerFirst, Recursive
  <2>1. CASE a = i
    BY <1>6, <1>9, <1>10, <2>1 DEF i
  <2>2. CASE a # i
    <3>1. Taken(a)
      BY <1>10, <2>2
    <3>2. Taken(j) /\ held[a][j] # "fn"
      BY <1>1, <3>1 DEF InnerFirst
    <3> QED BY <1>9, <1>10, <2>2, <3>2
  <2> QED BY <2>1, <2>2
<1>14. scope' \in Scopes /\ edges' = Edges(scope')
  BY <1>7 DEF IInv, ExpandInv
<1> QED BY <1>7, <1>11, <1>12, <1>13, <1>14 DEF ExpandInv, NeverPanics

\* A cycle whose host is no root lies inside one root.
LEMMA OneOwner ==
  ASSUME IInv, phase = "expanding", NEW h \in Hosts(reaches), ~IsRoot(scope, h),
         NEW i \in Members(reaches, h)
  PROVE  scope.defs[i].owner = scope.defs[h].owner
<1> DEFINE n == Len(scope.defs)
           S == {y \in reaches[h] :
                  h \in reaches[y] => scope.defs[y].owner = scope.defs[h].owner}
<1>1. /\ n \in Nat /\ Defs(scope) = 1..n /\ reaches \in Rows(n)
      /\ scope \in ScopeType /\ Collected(scope) /\ Least(Edges(scope), reaches)
  BY Expanding
<1>2. DOMAIN reaches = 1..n /\ h \in 1..n /\ \A x \in 1..n : reaches[x] \subseteq 1..n
  BY <1>1 DEF Rows, Hosts
<1>3. \A x \in 1..n : ClosedFrom(Edges(scope), x, reaches[x])
  BY <1>2, <1>1 DEF Least
<1>4. \A z \in 1..n : Together(reaches, h, z) => ~IsRoot(scope, z)
  <2> SUFFICES ASSUME NEW z \in 1..n, Together(reaches, h, z) PROVE ~IsRoot(scope, z)
    OBVIOUS
  <2>1. ~(z < h)
    BY <1>2 DEF Hosts
  <2>2. Len(Path(scope, h)) <= Len(Path(scope, z))
    BY <1>1, <1>2, <2>1 DEF Collected
  <2> QED BY <1>1, <1>2, <2>2, PathType
<1>5. ASSUME NEW y \in 1..n, NEW z \in Edges(scope)[y], z \in reaches[h], h \in reaches[z]
      PROVE  scope.defs[z].owner = scope.defs[y].owner
  <2>1. z \in Defs(scope) /\ InScope(scope, y, z)
    BY <1>1, <1>5, CallsInScope
  <2>2. ~IsRoot(scope, z)
    BY <1>1, <1>4, <1>5, <2>1 DEF Together
  <2> QED BY <2>1, <2>2 DEF InScope
<1>6. Edges(scope)[h] \subseteq S
  BY <1>2, <1>3, <1>5 DEF ClosedFrom
<1>7. ASSUME NEW y \in S, NEW z \in Edges(scope)[y] PROVE z \in S
  <2>1. y \in 1..n /\ z \in reaches[h] /\ z \in reaches[y]
    BY <1>2, <1>3, <1>7 DEF ClosedFrom
  <2>2. h \in reaches[z] => h \in reaches[y]
    BY <1>1, <2>1, ReachTransitive
  <2> QED BY <1>5, <1>7, <2>1, <2>2
<1>8. ClosedFrom(Edges(scope), h, S) /\ S \in SUBSET (1..n)
  BY <1>2, <1>6, <1>7 DEF ClosedFrom
<1>9. reaches[h] \subseteq S
  BY <1>1, <1>2, <1>8 DEF Least
<1> QED BY <1>9 DEF Members, Together

\* The host of the cycle being rewritten is found where it was declared.
LEMMA HostInPlace ==
  ASSUME IInv, phase = "expanding", members = {}, todo # {}
  PROVE  LET h == NextHost(todo)
         IN /\ h \in todo /\ h \in Hosts(reaches) /\ h \in Defs(scope)
            /\ \A g \in todo : g <= h
            /\ Taken(h) /\ Addressable(h)
<1> DEFINE n == Len(scope.defs)
           h == NextHost(todo)
<1>1. /\ n \in Nat /\ Defs(scope) = 1..n /\ reaches \in Rows(n)
      /\ scope \in ScopeType /\ Collected(scope) /\ Least(Edges(scope), reaches)
  BY Expanding
<1>2. todo \in SUBSET (1..n) /\ InOrder /\ InSlots
  BY <1>1 DEF IInv, TypeOK, ExpandInv
<1>3. h \in todo /\ h \in Hosts(reaches) /\ h \in 1..n /\ \A g \in todo : g <= h
  BY <1>1, <1>2, MaxIsLast DEF NextHost, InOrder
<1> HIDE DEF h
<1>4. h \in Members(reaches, h)
  BY <1>3 DEF Hosts, Members
<1>5. \A g \in Hosts(reaches) : \A k \in Members(reaches, g) : (Taken(k) <=> g \notin todo \/ g = h)
  BY <1>2 DEF InOrder, h
<1>6. ASSUME NEW a \in Defs(scope), Under(scope, h, a), slot[a] # "fn" PROVE FALSE
  <2>1. Taken(a) /\ Recursive(a)
    BY <1>2, <1>6 DEF InSlots, InOrder
  <2>2. PICK g \in Hosts(reaches) : Together(reaches, g, a)
    BY <1>1, <2>1, HostOfCycle DEF Recursive
  <2>3. g <= a /\ g \in 1..n
    BY <1>1, <2>2, OneHost DEF Hosts, Rows
  <2>4. a < h
    BY <1>1, <1>3, <1>6, UnderLater
  <2>5. a \in Members(reaches, g)
    BY <1>1, <2>2 DEF Members, Rows
  <2>6. g \notin todo
    BY <1>1, <1>3, <1>5, <2>1, <2>3, <2>4, <2>5
  <2>7. h < g
    BY <1>2, <1>3, <2>6 DEF InOrder
  <2> QED BY <1>1, <1>3, <2>3, <2>4, <2>7
<1> QED BY <1>1, <1>3, <1>4, <1>5, <1>6 DEF Addressable, h

LEMMA ExpandKeeps == IInv /\ Expand => ExpandInv'
<1> SUFFICES ASSUME IInv, Expand PROVE ExpandInv'
  OBVIOUS
<1> DEFINE n == Len(scope.defs)
           h == NextHost(todo)
           group == Members(reaches, h)
<1>1. /\ phase = "expanding" /\ members = {} /\ todo # {}
      /\ InOrder /\ InSlots /\ InnerFirst
  BY DEF Expand, IInv, ExpandInv
<1>2. n \in Nat /\ Defs(scope) = 1..n /\ todo \subseteq 1..n
  BY Expanding DEF IInv, TypeOK
<1>3. /\ h \in todo /\ h \in Hosts(reaches) /\ h \in Defs(scope)
      /\ \A g \in todo : g <= h
      /\ Taken(h) /\ Addressable(h)
  BY <1>1, HostInPlace
<1>4. scope' = scope /\ edges' = edges /\ reaches' = reaches /\ held' = held
  BY DEF Expand, input
<1>5. InnerFirst'
  BY <1>1, <1>4 DEF InnerFirst, Taken, Recursive
<1>6. scope' \in Scopes /\ edges' = Edges(scope')
  BY <1>4 DEF IInv, ExpandInv
<1>7. CASE Rejected(scope, reaches, group, h)
  <2>1. phase' = "error"
    BY <1>7 DEF Expand
  <2> QED BY <1>5, <1>6, <2>1 DEF ExpandInv, NeverPanics
<1>8. CASE ~Rejected(scope, reaches, group, h)
  <2>1. todo' = todo \ {h} /\ members' = MembersToTake(reaches, todo')
    BY <1>8 DEF Expand
  <2>2. phase' = "expanding" /\ InSlots'
    <3>1. CASE IsRoot(scope, h)
      <4>1. slot' = slot /\ phase' = phase
        BY <1>8, <3>1 DEF Expand
      <4> QED BY <1>1, <1>4, <4>1 DEF InSlots, Taken
    <3>2. CASE ~IsRoot(scope, h)
      <4>1. WriteBack(group, h)
        BY <1>8, <3>2 DEF Expand
      <4>2. \A i \in group : scope.defs[i].owner = scope.defs[h].owner
        BY <1>1, <1>3, <3>2, OneOwner
      <4> HIDE DEF h, group
      <4>3. slot' = [slot EXCEPT ![h] = "driver"] /\ phase' = phase
        BY <1>3, <4>1, <4>2 DEF WriteBack
      <4>4. \A k \in Defs(scope) : slot'[k] = IF k = h THEN "driver" ELSE slot[k]
        BY <4>3 DEF IInv, TypeOK
      <4> QED BY <1>1, <1>3, <1>4, <3>2, <4>3, <4>4 DEF InSlots, Taken
    <3> QED BY <3>1, <3>2
  <2> HIDE DEF h, group
  <2>3. InOrder'
    <3>1. todo' \subseteq Hosts(reaches) /\ \A g \in Hosts(reaches) \ todo' : \A f \in todo' : f < g
      <4>1. \A f \in todo' : f < h
        BY <1>2, <1>3, <2>1
      <4> QED BY <1>1, <2>1, <4>1 DEF InOrder
    <3>2. \A k \in Defs(scope) : Taken(k) => Recursive(k)
      BY <1>1 DEF InOrder
    <3>3. \A g \in Hosts(reaches) : \A k \in Members(reaches, g) : (Taken(k) <=> g \notin todo')
      BY <1>1, <2>1 DEF InOrder, h
    <3>4. members' = IF todo' = {} THEN {} ELSE Members(reaches, NextHost(todo'))
      BY <2>1 DEF MembersToTake
    <3>5. \A g \in Hosts(reaches) : \A k \in Members(reaches, g) :
            (Taken(k) <=> g \notin todo' \/ (g = NextHost(todo') /\ k \notin members'))
      BY <3>3, <3>4
    <3> QED BY <1>4, <3>1, <3>2, <3>4, <3>5 DEF InOrder, Taken, Recursive
  <2> QED BY <1>5, <1>6, <2>2, <2>3 DEF ExpandInv, NeverPanics
<1> QED BY <1>7, <1>8

LEMMA InitExpand == Init => ExpandInv
<1> SUFFICES ASSUME Init PROVE ExpandInv
  OBVIOUS
<1>1. \A i \in Defs(scope) : ~Taken(i) /\ slot[i] = "fn"
  BY DEF Init, Taken, NotTaken
<1> QED BY <1>1 DEF Init, ExpandInv, InSlots, InnerFirst, NeverPanics

LEMMA CheckKeeps == IInv /\ Check => ExpandInv'
<1> SUFFICES ASSUME IInv, Check PROVE ExpandInv'
  OBVIOUS
<1>1. /\ phase = "checking" /\ InSlots /\ scope' = scope /\ edges' = edges
      /\ reaches' = reaches /\ held' = held /\ slot' = slot
      /\ \A i \in Defs(scope) : ~Taken(i)
  BY DEF Check, input, IInv, ExpandInv
<1>2. InnerFirst' /\ InSlots'
  BY <1>1 DEF InnerFirst, InSlots, Taken
<1>3. scope' \in Scopes /\ edges' = Edges(scope')
  BY <1>1 DEF IInv, ExpandInv
<1>4. CASE phase' = "error"
  BY <1>2, <1>3, <1>4 DEF ExpandInv, NeverPanics
<1>5. CASE phase' # "error"
  <2>1. phase' = "expanding" /\ todo' = Hosts(reaches) /\ members' = MembersToTake(reaches, todo')
    BY <1>5 DEF Check
  <2>2. members' = IF todo' = {} THEN {} ELSE Members(reaches, NextHost(todo'))
    BY <2>1 DEF MembersToTake
  <2>3. \A h \in Hosts(reaches) : \A i \in Members(reaches, h) : i \in Defs(scope)
    BY Expanding
  <2>4. InOrder'
    BY <1>1, <2>1, <2>2, <2>3 DEF InOrder, Taken
  <2> QED BY <1>2, <1>3, <2>1, <2>4 DEF ExpandInv, NeverPanics
<1> QED BY <1>4, <1>5

LEMMA NextExpand == IInv /\ [Next]_vars => ExpandInv'
<1> SUFFICES ASSUME IInv, [Next]_vars PROVE ExpandInv'
  OBVIOUS
<1>1. CASE Close
  <2>1. /\ phase = "closing" /\ phase' \in {"closing", "checking"}
        /\ scope' = scope /\ edges' = edges /\ held' = held /\ slot' = slot
    BY <1>1 DEF Close, input
  <2> QED BY <2>1 DEF IInv, ExpandInv, InSlots, InnerFirst, NeverPanics, Taken
<1>2. CASE Check
  BY <1>2, CheckKeeps
<1>3. CASE Take
  BY <1>3, TakeKeeps
<1>4. CASE Expand
  BY <1>4, ExpandKeeps
<1>5. CASE Emit \/ Ended \/ UNCHANGED vars
  <2>1. UNCHANGED <<scope, edges, reaches, todo, members, slot, held>>
    BY <1>5 DEF Emit, Ended, vars, input
  <2>2. \/ phase' = phase
        \/ phase = "expanding" /\ phase' \in {"done", "no effect", "error"}
    BY <1>5 DEF Emit, Ended, vars
  <2>3. InOrder => InOrder'
    BY <2>1 DEF InOrder, Taken, Recursive
  <2> QED BY <2>1, <2>2, <2>3 DEF IInv, ExpandInv, InSlots, InnerFirst, NeverPanics, Taken, Recursive
<1> QED BY <1>1, <1>2, <1>3, <1>4, <1>5 DEF Next

LEMMA Inductive == Spec => []IInv
<1>1. Init => IInv
  BY InitType, InitClosing, InitExpand DEF IInv
<1>2. IInv /\ [Next]_vars => IInv'
  BY NextType, NextClosing, NextExpand DEF IInv
<1> QED BY <1>1, <1>2, PTL DEF Spec

\* No function is moved into a driver with a recursion left unwritten in its body, for
\* every scope.
THEOREM CallGraphInnerFirst == Spec => []InnerFirst
<1>1. IInv => InnerFirst
  BY DEF IInv, ExpandInv
<1> QED BY <1>1, Inductive, PTL

\* The `expect` and the `unreachable!` of `take`, `put_back` and `expand_roots` are never
\* reached, for every scope.
THEOREM CallGraphNeverPanics == Spec => []NeverPanics
<1>1. IInv => NeverPanics
  BY DEF IInv, ExpandInv
<1> QED BY <1>1, Inductive, PTL
-----------------------------------------------------------------------------
(* What has been written back so far, and what the emitted texts hold. *)

NotRejected == \A h \in Hosts(reaches) \ todo : ~Rejected(scope, reaches, Members(reaches, h), h)

DriversBack ==
  \A h \in Hosts(reaches) \ todo :
    ~IsRoot(scope, h) => slot[h] = "driver" /\ scope.defs[h].owner \in changed

DriversOfHosts ==
  /\ \A i \in Defs(scope) : slot[i] = "driver" => i \in Hosts(reaches)
  /\ \A a \in Defs(scope) : Taken(a) =>
       \A i \in Defs(scope) : held[a][i] = "driver" => i \in Hosts(reaches)

\* A body was taken with the drivers of the cycles below it, and with nothing else missing.
HeldAsIs ==
  \A a \in Defs(scope) : Taken(a) => \A i \in Defs(scope) :
    /\ held[a][i] # "fn" => Taken(i)
    /\ i \in Hosts(reaches) /\ Under(scope, i, a) => held[a][i] = "driver"

\* What the attribute's own error, and its absence, say of the cycles and the containers.
Reported ==
  /\ phase = "no effect" => scope.annotated /\ ~RewroteSomething
  /\ phase = "done" /\ scope.annotated => RewroteSomething \/ Bodies(scope) # {}

WrittenInv ==
  /\ NotRejected /\ DriversBack /\ DriversOfHosts /\ HeldAsIs
  /\ changed # {} => Bodies(scope) # {} \/ \E i \in Defs(scope) : Recursive(i)

OutInv ==
  /\ \A k \in Bodies(scope) : scope.defs[scope.containers[k].under].owner \in changed
  /\ phase \in {"closing", "checking"} =>
       /\ changed # {} => Bodies(scope) # {}
       /\ \A i \in Defs(scope) : slot[i] = "fn"
  /\ phase \in {"expanding", "done"} =>
       ~Unresolvable(blocked, reaches, optimistic) /\ ~NoEffect(scope, reaches) /\ WrittenInv
  /\ phase = "done" => todo = {}
  /\ Reported

LEMMA InitOut == Init => OutInv
BY DEF Init, OutInv, Reported

\* A host is in its own cycle.
LEMMA HostIsMember ==
  ASSUME IInv, NEW h \in Hosts(reaches)
  PROVE  h \in Defs(scope) /\ h \in Members(reaches, h) /\ Recursive(h)
BY Expanding DEF Hosts, Members, Recursive, Together

LEMMA CheckOut == IInv /\ OutInv /\ Check => OutInv'
<1> SUFFICES ASSUME IInv, OutInv, Check PROVE OutInv'
  OBVIOUS
<1>1. /\ phase = "checking" /\ phase' \in {"error", "expanding"}
      /\ scope' = scope /\ edges' = edges /\ blocked' = blocked /\ reaches' = reaches
      /\ optimistic' = optimistic /\ held' = held /\ slot' = slot /\ changed' = changed
  BY DEF Check, input
<1>2. \A i \in Defs(scope) : ~Taken(i) /\ slot[i] = "fn"
  BY <1>1 DEF IInv, ExpandInv, OutInv
<1>3. phase' = "expanding" =>
        /\ ~Unresolvable(blocked, reaches, optimistic) /\ ~NoEffect(scope, reaches)
        /\ todo' = Hosts(reaches)
  BY DEF Check
<1>4. phase' = "expanding" => WrittenInv'
  BY <1>1, <1>2, <1>3 DEF OutInv, WrittenInv, NotRejected, DriversBack, DriversOfHosts, HeldAsIs, Taken
<1>5. Reported'
  BY <1>1 DEF Reported
<1> QED BY <1>1, <1>3, <1>4, <1>5 DEF OutInv

LEMMA TakeOut == IInv /\ OutInv /\ Take => OutInv'
<1> SUFFICES ASSUME IInv, OutInv, Take PROVE OutInv'
  OBVIOUS
<1> DEFINE n == Len(scope.defs)
           i == NextMember(members)
           h == NextHost(todo)
<1>1. phase = "expanding" /\ members # {} /\ todo # {} /\ InOrder /\ InSlots /\ WrittenInv
      /\ ~Unresolvable(blocked, reaches, optimistic) /\ ~NoEffect(scope, reaches)
  BY DEF Take, IInv, ExpandInv, InOrder, OutInv
<1>2. n \in Nat /\ Defs(scope) = 1..n /\ reaches \in Rows(n) /\ Least(Edges(scope), reaches)
  BY <1>1, Expanding
<1>3. /\ h \in todo /\ h \in Hosts(reaches)
      /\ i \in members /\ i \in Defs(scope) /\ i \in Members(reaches, h)
      /\ Together(reaches, h, i) /\ Recursive(i) /\ ~Taken(i)
  BY <1>1, NextToTake
<1>4. slot[i] = "fn" /\ Addressable(i)
  BY <1>1, <1>3, InPlace
<1>5. /\ scope' = scope /\ edges' = edges /\ reaches' = reaches /\ todo' = todo
      /\ blocked' = blocked /\ optimistic' = optimistic /\ changed' = changed
      /\ phase' = "expanding"
      /\ held' = [held EXCEPT ![i] = slot]
      /\ slot' = IF IsRoot(scope, i) THEN slot ELSE [slot EXCEPT ![i] = "empty"]
  BY <1>1, <1>4 DEF Take, input
<1>6. ASSUME NEW g \in Hosts(reaches), Under(scope, g, i) PROVE slot[g] = "driver"
  <2>1. g \in Defs(scope) /\ g \in Members(reaches, g) /\ Recursive(g)
    BY HostIsMember
  <2>2. Taken(g)
    BY <1>1, <1>6, <2>1, TakenInside
  <2>3. i < g /\ ~IsRoot(scope, g)
    BY <1>3, <1>6, <2>1, Expanding, UnderLater
  <2>4. h <= i
    BY <1>2, <1>3, OneHost
  <2>5. h # g
    BY <1>2, <1>3, <2>1, <2>3, <2>4 DEF Hosts
  <2>6. g \notin todo
    BY <1>1, <2>1, <2>2, <2>5 DEF InOrder
  <2> QED BY <1>1, <2>3, <2>6 DEF WrittenInv, DriversBack
<1>7. ASSUME NEW g \in Hosts(reaches) \ todo PROVE g # i
  <2>1. g = i => Together(reaches, g, i)
    BY <1>3 DEF Recursive, Together
  <2> QED BY <1>2, <1>3, <2>1, OneHost
<1> HIDE DEF i, h
<1>8. slot # NotTaken
  <2>1. i \in DOMAIN slot
    BY <1>3 DEF IInv, TypeOK
  <2>2. DOMAIN NotTaken = {}
    BY DEF NotTaken
  <2> QED BY <2>1, <2>2
<1>9. \A k \in Defs(scope) : held'[k] = IF k = i THEN slot ELSE held[k]
  BY <1>3, <1>5 DEF IInv, TypeOK
<1>10. \A k \in Defs(scope) : Taken(k)' <=> Taken(k) \/ k = i
  BY <1>8, <1>9 DEF Taken
<1>11. \A k \in Defs(scope) : slot'[k] = IF k = i /\ ~IsRoot(scope, i) THEN "empty" ELSE slot[k]
  BY <1>3, <1>5 DEF IInv, TypeOK
<1>12. NotRejected'
  BY <1>1, <1>5 DEF WrittenInv, NotRejected
<1>13. DriversBack'
  <2>1. \A g \in Hosts(reaches) \ todo : g \in Defs(scope) /\ slot'[g] = slot[g]
    BY <1>7, <1>11, HostIsMember
  <2> QED BY <1>1, <1>5, <2>1 DEF WrittenInv, DriversBack
<1>14. DriversOfHosts'
  <2>1. DriversOfHosts
    BY <1>1 DEF WrittenInv
  <2> QED BY <1>5, <1>9, <1>10, <1>11, <2>1 DEF DriversOfHosts
<1>15. HeldAsIs'
  <2>1. HeldAsIs
    BY <1>1 DEF WrittenInv
  <2>2. \A k \in Defs(scope) : slot[k] # "fn" => Taken(k)
    BY <1>1 DEF InSlots
  <2>3. \A g \in Hosts(reaches) : Under(scope, g, i) => slot[g] = "driver"
    BY <1>6 DEF i
  <2> QED BY <1>5, <1>9, <1>10, <2>1, <2>2, <2>3 DEF HeldAsIs
<1>16. Reported'
  BY <1>5 DEF Reported
<1>17. WrittenInv'
  BY <1>1, <1>5, <1>12, <1>13, <1>14, <1>15 DEF WrittenInv, Recursive
<1> QED BY <1>1, <1>5, <1>16, <1>17 DEF OutInv

LEMMA ExpandOut == IInv /\ OutInv /\ Expand => OutInv'
<1> SUFFICES ASSUME IInv, OutInv, Expand PROVE OutInv'
  OBVIOUS
<1> DEFINE h == NextHost(todo)
           group == Members(reaches, h)
<1>1. /\ phase = "expanding" /\ members = {} /\ todo # {} /\ WrittenInv
      /\ ~Unresolvable(blocked, reaches, optimistic) /\ ~NoEffect(scope, reaches)
  BY DEF Expand, OutInv
<1>2. h \in todo /\ h \in Hosts(reaches) /\ h \in Defs(scope) /\ Recursive(h)
  BY <1>1, HostInPlace, HostIsMember
<1>3. /\ scope' = scope /\ edges' = edges /\ reaches' = reaches /\ held' = held
      /\ blocked' = blocked /\ optimistic' = optimistic
      /\ phase' \in {"expanding", "error", "panicked"} /\ changed \subseteq changed'
  BY <1>1 DEF Expand, WriteBack, input
<1>4. Reported'
  BY <1>3 DEF Reported
<1>5. CASE phase' # "expanding"
  BY <1>3, <1>4, <1>5 DEF OutInv
<1>6. CASE phase' = "expanding"
  <2>1. ~Rejected(scope, reaches, group, h) /\ todo' = todo \ {h}
    BY <1>6 DEF Expand
  <2>2. IF IsRoot(scope, h) THEN slot' = slot /\ changed' = changed
        ELSE /\ slot' = [slot EXCEPT ![h] = "driver"]
             /\ changed' = changed \union {scope.defs[h].owner}
    BY <1>6, <2>1 DEF Expand, WriteBack
  <2>3. NotRejected'
    BY <1>1, <1>3, <2>1 DEF WrittenInv, NotRejected
  <2> HIDE DEF h, group
  <2>4. \A k \in Defs(scope) : slot'[k] = IF k = h /\ ~IsRoot(scope, h) THEN "driver" ELSE slot[k]
    BY <1>2, <2>2 DEF IInv, TypeOK
  <2>5. DriversBack'
    <3>1. \A g \in Hosts(reaches) : g \in Defs(scope)
      BY HostIsMember
    <3> QED BY <1>1, <1>2, <1>3, <2>1, <2>2, <2>4, <3>1 DEF WrittenInv, DriversBack
  <2>6. DriversOfHosts' /\ HeldAsIs'
    BY <1>1, <1>2, <1>3, <2>4 DEF WrittenInv, DriversOfHosts, HeldAsIs, Taken
  <2>7. changed' # {} => Bodies(scope) # {} \/ \E i \in Defs(scope) : Recursive(i)
    BY <1>1, <1>2, <2>2 DEF WrittenInv
  <2>8. WrittenInv'
    BY <1>3, <2>3, <2>5, <2>6, <2>7 DEF WrittenInv, Recursive
  <2> QED BY <1>1, <1>3, <1>4, <1>6, <2>8 DEF OutInv
<1> QED BY <1>5, <1>6

\* Every definition lies in a root, or is one.
LEMMA RootOf ==
  ASSUME NEW s \in ScopeType, Collected(s), NEW i \in Defs(s)
  PROVE  \E r \in Defs(s) : IsRoot(s, r) /\ s.defs[r].owner = s.defs[i].owner
<1> DEFINE T == {j \in Defs(s) : s.defs[j].owner = s.defs[i].owner}
<1>1. T \subseteq Nat /\ i \in T
  BY PathType
<1>2. PICK r \in T : \A j \in T : r <= j
  BY <1>1, LeastNat
<1>3. ASSUME ~IsRoot(s, r) PROVE FALSE
  <2>1. PICK j \in 1..(r - 1) : Declares(s, j, r)
    BY <1>2, <1>3 DEF Collected
  <2>2. s.defs[j].owner = s.defs[r].owner /\ j \in Defs(s) /\ j < r
    BY <1>2, <2>1, PathType DEF Declares, Under
  <2>3. j \in T
    BY <1>2, <2>2
  <2> QED BY <1>1, <1>2, <2>2, <2>3
<1> QED BY <1>2, <1>3

\* When every cycle has been rewritten, the functions taken are the recursive ones.
LEMMA AllTaken ==
  ASSUME IInv, phase \in {"expanding", "done"}, todo = {}, NEW i \in Defs(scope)
  PROVE  Taken(i) <=> Recursive(i)
<1>1. /\ Len(scope.defs) \in Nat /\ Defs(scope) = 1..Len(scope.defs)
      /\ reaches \in Rows(Len(scope.defs)) /\ Least(Edges(scope), reaches) /\ DOMAIN reaches = Defs(scope)
  BY Expanding
<1>2. InOrder
  BY DEF IInv, ExpandInv
<1>3. ASSUME Recursive(i) PROVE Taken(i)
  <2>1. PICK h \in Hosts(reaches) : Together(reaches, h, i)
    BY <1>1, <1>3, HostOfCycle DEF Recursive
  <2>2. i \in Members(reaches, h)
    BY <1>1, <2>1 DEF Members
  <2> QED BY <1>2, <2>2 DEF InOrder
<1> QED BY <1>2, <1>3 DEF InOrder

\* What was written back, or lies in a container of a body, is in a root that is replaced.
LEMMA EffectIsRewritten ==
  ASSUME IInv, OutInv, phase = "expanding", todo = {},
         Bodies(scope) # {} \/ \E i \in Defs(scope) : Recursive(i)
  PROVE  Rewritten # {}
<1>1. scope \in ScopeType /\ Collected(scope) /\ Len(scope.defs) \in Nat
      /\ Defs(scope) = 1..Len(scope.defs)
      /\ reaches \in Rows(Len(scope.defs)) /\ Least(Edges(scope), reaches)
  BY Expanding
<1>2. ASSUME NEW i \in Defs(scope), scope.defs[i].owner \in changed PROVE Rewritten # {}
  <2>1. PICK r \in Defs(scope) : IsRoot(scope, r) /\ scope.defs[r].owner = scope.defs[i].owner
    BY <1>1, RootOf
  <2> QED BY <1>2, <2>1 DEF Rewritten, Roots
<1>3. ASSUME NEW k \in Bodies(scope) PROVE Rewritten # {}
  <2>1. scope.containers[k].under \in Defs(scope)
    BY <1>1 DEF Bodies, Collected
  <2>2. scope.defs[scope.containers[k].under].owner \in changed
    BY DEF OutInv
  <2> QED BY <1>2, <2>1, <2>2
<1>4. ASSUME NEW i \in Defs(scope), Recursive(i) PROVE Rewritten # {}
  <2>1. PICK h \in Hosts(reaches) : Together(reaches, h, i)
    BY <1>1, <1>4, HostOfCycle DEF Recursive
  <2>2. h \in Defs(scope) /\ Recursive(h)
    BY HostIsMember
  <2>3. CASE IsRoot(scope, h)
    BY <2>2, <2>3, AllTaken DEF Rewritten, Roots
  <2>4. CASE ~IsRoot(scope, h)
    BY <1>2, <2>2, <2>4 DEF OutInv, WrittenInv, DriversBack
  <2> QED BY <2>3, <2>4
<1> QED BY <1>3, <1>4

LEMMA EmitOut == IInv /\ OutInv /\ Emit => OutInv'
<1> SUFFICES ASSUME IInv, OutInv, Emit PROVE OutInv'
  OBVIOUS
<1>1. /\ phase = "expanding" /\ todo = {} /\ WrittenInv
      /\ ~Unresolvable(blocked, reaches, optimistic) /\ ~NoEffect(scope, reaches)
  BY DEF Emit, OutInv
<1>2. UNCHANGED <<scope, edges, blocked, reaches, optimistic, todo, held, slot, changed>>
  BY DEF Emit, input
<1>3. WrittenInv'
  BY <1>1, <1>2 DEF WrittenInv, NotRejected, DriversBack, DriversOfHosts, HeldAsIs, Taken, Recursive
<1>4. phase' \in {"done", "error", "no effect"}
  BY DEF Emit
<1>5. DOMAIN scope.containers = Bodies(scope) \union Items(scope)
  BY DEF Bodies, Items
<1>6. InOrder
  BY <1>1 DEF IInv, ExpandInv
<1>7. phase' = "no effect" => scope.annotated /\ ~RewroteSomething
  <2>1. phase' = "no effect" => scope.annotated /\ ~Transformed
    BY DEF Emit
  <2> QED BY <1>1, <1>5, <2>1, EffectIsRewritten DEF Transformed, RewroteSomething
<1>8. phase' = "done" /\ scope.annotated => RewroteSomething \/ Bodies(scope) # {}
  <2>1. phase' = "done" /\ scope.annotated => Transformed
    BY DEF Emit
  <2>2. Rewritten # {} => Bodies(scope) # {} \/ \E i \in Defs(scope) : Recursive(i)
    BY <1>1, <1>6 DEF Rewritten, Roots, InOrder, WrittenInv
  <2> QED BY <1>5, <2>1, <2>2 DEF Transformed, RewroteSomething
<1>9. Reported'
  BY <1>2, <1>7, <1>8 DEF Reported, RewroteSomething, Recursive
<1> QED BY <1>1, <1>2, <1>3, <1>4, <1>9 DEF OutInv

LEMMA NextOut == IInv /\ OutInv /\ [Next]_vars => OutInv'
<1> SUFFICES ASSUME IInv, OutInv, [Next]_vars PROVE OutInv'
  OBVIOUS
<1>1. CASE Close
  <2>1. /\ phase = "closing" /\ phase' \in {"closing", "checking"}
        /\ scope' = scope /\ changed' = changed /\ slot' = slot
    BY <1>1 DEF Close, input
  <2> QED BY <2>1 DEF OutInv, Reported
<1>2. CASE Ended \/ UNCHANGED vars
  <2>1. UNCHANGED <<scope, edges, blocked, phase, reaches, optimistic, todo, held, slot, changed>>
    BY <1>2 DEF Ended, vars
  <2> QED BY <2>1 DEF OutInv, WrittenInv, NotRejected, DriversBack, DriversOfHosts, HeldAsIs, Taken,
                      Recursive, Reported, RewroteSomething
<1> QED BY <1>1, <1>2, CheckOut, TakeOut, ExpandOut, EmitOut DEF Next

LEMMA AlwaysOut == Spec => [](IInv /\ OutInv)
BY Inductive, InitOut, NextOut, PTL DEF Spec

-----------------------------------------------------------------------------
(* Calls the rewriter cannot follow. *)

\* A call that closes a cycle is a step of a cycle of rewritable calls: each blocked call
\* on the way is doubled by calls that are followed.
LEMMA CyclesAreFollowed ==
  ASSUME NEW n \in Nat, NEW calls \in Rows(n), NEW others \in Rows(n),
         NEW rows \in Rows(n), NEW all \in Rows(n), NEW both \in Rows(n),
         \A x \in 1..n : both[x] = calls[x] \union others[x],
         Least(calls, rows), Least(both, all), ~Unresolvable(others, rows, all),
         NEW i \in 1..n, NEW j \in others[i], i \in all[j]
  PROVE  Together(rows, i, j)
<1> DEFINE S == {x \in all[j] : i \in all[x] => x \in rows[j]}
<1>1. /\ DOMAIN rows = 1..n /\ DOMAIN all = 1..n /\ DOMAIN others = 1..n
      /\ \A x \in 1..n : all[x] \subseteq 1..n /\ rows[x] \subseteq 1..n /\ others[x] \subseteq 1..n
  BY DEF Rows
<1>2. \A x \in 1..n : \A y \in others[x] : x \in all[y] => y \in rows[x]
  BY <1>1 DEF Unresolvable
<1>3. \A x \in 1..n : ClosedFrom(calls, x, rows[x]) /\ ClosedFrom(both, x, all[x])
  BY <1>1 DEF Least
<1>4. j \in 1..n /\ j \in rows[i] /\ j \in all[i]
  BY <1>1, <1>2, <1>3 DEF ClosedFrom
<1>5. \A x, y, z \in 1..n : y \in all[x] /\ z \in all[y] => z \in all[x]
  BY ReachTransitive
<1>6. \A x, y, z \in 1..n : y \in rows[x] /\ z \in rows[y] => z \in rows[x]
  BY ReachTransitive
<1>7. ASSUME NEW y \in 1..n, y = j \/ y \in S, NEW z \in both[y], i \in all[z]
      PROVE  z \in rows[j]
  <2>1. z \in 1..n /\ z \in all[y]
    BY <1>1, <1>3, <1>7 DEF ClosedFrom
  <2>2. i \in all[y] /\ (y = j \/ y \in rows[j])
    BY <1>5, <1>7, <2>1
  <2>3. y \in all[z]
    <3>1. j \in all[z]
      BY <1>4, <1>5, <1>7, <2>1
    <3> QED BY <1>4, <1>5, <1>7, <2>1, <3>1
  <2>4. z \in rows[y]
    BY <1>2, <1>3, <1>7, <2>3 DEF ClosedFrom
  <2> QED BY <1>4, <1>6, <2>1, <2>2, <2>4
<1>8. ClosedFrom(both, j, S)
  <2>1. \A y \in 1..n : y = j \/ y \in S => both[y] \subseteq all[j]
    BY <1>3, <1>4 DEF ClosedFrom
  <2>2. S \subseteq 1..n
    BY <1>1, <1>4
  <2> QED BY <1>4, <1>7, <2>1, <2>2 DEF ClosedFrom
<1>9. all[j] \subseteq S
  <2>1. S \in SUBSET DOMAIN all
    BY <1>1, <1>4
  <2> QED BY <1>1, <1>4, <1>8, <2>1 DEF Least
<1>10. i \in all[i]
  BY <1>4, <1>5
<1>11. i \in rows[j]
  BY <1>9, <1>10
<1> QED BY <1>4, <1>11 DEF Together

\* No recursion escapes the rewriting through a call that is written in a way it cannot
\* follow, for every scope.
THEOREM CallGraphNoCycleLost == Spec => []NoCycleLost
<1>1. ASSUME IInv, OutInv PROVE NoCycleLost
  <2> SUFFICES ASSUME phase \in {"expanding", "done"},
                      NEW i \in Defs(scope), NEW j \in blocked[i],
                      \A S \in SUBSET Defs(scope) : ClosedFrom(optimisticEdges, j, S) => i \in S
               PROVE  Together(reaches, i, j)
    BY DEF NoCycleLost
  <2> DEFINE n == Len(scope.defs)
  <2>1. n \in Nat /\ Defs(scope) = 1..n
    BY <1>1, Expanding
  <2>2. /\ edges \in Rows(n) /\ blocked \in Rows(n) /\ reaches \in Rows(n) /\ optimistic \in Rows(n)
        /\ optimisticEdges \in Rows(n)
        /\ \A x \in 1..n : optimisticEdges[x] = edges[x] \union blocked[x]
    BY <1>1, <2>1 DEF IInv, TypeOK, Rows, optimisticEdges
  <2>3. Least(edges, reaches) /\ Least(optimisticEdges, optimistic)
    BY <1>1 DEF IInv, ClosingInv
  <2>4. ~Unresolvable(blocked, reaches, optimistic)
    BY <1>1 DEF OutInv
  <2>5. j \in 1..n /\ i \in 1..n
    BY <2>1, <2>2 DEF Rows
  <2>6. i \in optimistic[j]
    BY <2>1, <2>2, <2>3, <2>5 DEF Least, Rows
  <2> QED BY <2>1, <2>2, <2>3, <2>4, <2>5, <2>6, CyclesAreFollowed
<1> QED BY <1>1, AlwaysOut, PTL
-----------------------------------------------------------------------------
(* The steps of a driver. *)

\* The members of a cycle are the same whichever of them is asked.
LEMMA SameCycle ==
  ASSUME NEW n \in Nat, NEW graph, NEW rows \in Rows(n), Least(graph, rows),
         NEW i \in 1..n, NEW h \in 1..n, Together(rows, h, i)
  PROVE  Members(rows, i) = Members(rows, h)
<1>1. DOMAIN rows = 1..n
  BY DEF Rows
<1>2. \A x, y, z \in 1..n : Together(rows, x, y) /\ Together(rows, y, z) => Together(rows, x, z)
  BY ReachTransitive DEF Together
<1>3. Together(rows, i, h)
  BY DEF Together
<1> QED BY <1>1, <1>2, <1>3 DEF Members

\* The host of a recursive function, once every cycle has been rewritten.
LEMMA DoneHost ==
  ASSUME IInv, OutInv, phase = "done", NEW i \in Defs(scope), Recursive(i)
  PROVE  \E h \in Hosts(reaches) :
           /\ h \in Defs(scope) /\ Recursive(h) /\ Together(reaches, h, i)
           /\ Members(reaches, i) = Members(reaches, h)
           /\ ~Rejected(scope, reaches, Members(reaches, h), h)
           /\ ~IsRoot(scope, h) => slot[h] = "driver" /\ scope.defs[h].owner \in changed
<1>1. /\ Len(scope.defs) \in Nat /\ Defs(scope) = 1..Len(scope.defs)
      /\ reaches \in Rows(Len(scope.defs)) /\ Least(Edges(scope), reaches)
  BY Expanding
<1>2. PICK h \in Hosts(reaches) : Together(reaches, h, i)
  BY <1>1, HostOfCycle DEF Recursive
<1>3. h \in Defs(scope) /\ Recursive(h)
  BY HostIsMember
<1>4. Members(reaches, i) = Members(reaches, h)
  BY <1>1, <1>2, <1>3, SameCycle
<1>5. todo = {}
  BY DEF OutInv
<1> QED BY <1>2, <1>3, <1>4, <1>5 DEF OutInv, WrittenInv, NotRejected, DriversBack

\* What a mention resolves to has its name, and is something the way it is written can name.
LEMMA Resolved ==
  ASSUME NEW s, NEW i, NEW mn, NEW j \in Resolve(s, i, mn)
  PROVE  j \in Defs(s) /\ s.defs[j].name = mn.name /\ Nameable(s, mn, j)
BY DEF Resolve

\* Every call within a cycle becomes a step to the member it names, for every scope.
THEOREM CallGraphMembersFollowed == Spec => []MembersFollowed
<1>1. ASSUME IInv, OutInv PROVE MembersFollowed
  <2> SUFFICES ASSUME phase = "done",
                      NEW i \in Defs(scope), NEW mn \in scope.mentions[i],
                      NEW j \in Resolve(scope, i, mn), mn.rewritable, Together(reaches, i, j)
               PROVE  RecCall(scope, Members(reaches, i), mn) = {j}
    BY DEF MembersFollowed
  <2> DEFINE group == Members(reaches, i)
  <2>1. /\ Len(scope.defs) \in Nat /\ Defs(scope) = 1..Len(scope.defs) /\ DOMAIN reaches = Defs(scope)
        /\ reaches \in Rows(Len(scope.defs)) /\ Least(Edges(scope), reaches)
    BY <1>1, Expanding
  <2>2. j \in Defs(scope) /\ scope.defs[j].name = mn.name /\ Nameable(scope, mn, j)
    BY Resolved
  <2>3. Recursive(i)
    BY <2>1, <2>2, ReachTransitive DEF Together, Recursive
  <2>4. i \in group /\ j \in group /\ group \subseteq Defs(scope)
    BY <2>1, <2>2, <2>3 DEF Members, Together, Recursive
  <2>5. PICK h : ~Rejected(scope, reaches, group, h)
    BY <1>1, <2>3, DoneHost
  <2> HIDE DEF group
  <2>6. /\ \A k, l \in group : ~SameName(scope, k, l)
        /\ ~(mn.written = "inAMacro" /\ mn.name = scope.defs[j].name)
    BY <2>4, <2>5 DEF Rejected
  <2>7. \/ mn.written \in {"bare", "onAValue"}
        \/ mn.written = "inThisModule" /\ ~scope.assoc
    BY <2>2, <2>6 DEF Nameable
  <2>8. \A k \in group : scope.defs[k].name = mn.name => k = j
    BY <2>2, <2>4, <2>6 DEF SameName
  <2>9. RecCall(scope, group, mn) = {j}
    BY <2>2, <2>4, <2>7, <2>8 DEF RecCall
  <2> QED BY <2>9 DEF group
<1> QED BY <1>1, AlwaysOut, PTL
-----------------------------------------------------------------------------
(* The copies kept as written. *)

LEMMA EmptyPrefix ==
  ASSUME NEW t \in Seq(Nat)
  PROVE  IsPrefix(<<>>, t)
<1>1. PICK e \in Seq(Nat) : e = <<>> /\ Len(e) = 0
  BY EmptySeq
<1>2. Len(e) \in Nat /\ Len(t) \in Nat
  BY LenProperties
<1>3. Len(e) <= Len(t) /\ \A k \in 1..Len(e) : e[k] = t[k]
  <2>1. 1..Len(e) = {}
    BY <1>1
  <2> QED BY <1>1, <1>2, <2>1
<1> QED BY <1>1, <1>3, PrefixOf

\* A root holds every other definition it owns.
LEMMA RootHolds ==
  ASSUME NEW s \in ScopeType, Collected(s), NEW r \in Defs(s), IsRoot(s, r),
         NEW i \in Defs(s), s.defs[i].owner = s.defs[r].owner, i # r
  PROVE  Under(s, i, r) /\ ~IsRoot(s, i)
<1>1. Path(s, r) = <<>> /\ Path(s, i) \in Seq(Nat)
  BY PathType DEF IsRoot
<1>2. Path(s, i) # Path(s, r)
  BY DEF Collected
<1>3. IsPrefix(Path(s, r), Path(s, i))
  BY <1>1, EmptyPrefix
<1> QED BY <1>1, <1>2, <1>3 DEF Under, IsStrictPrefix, IsRoot

\* A root that a cycle touches is in the cycle or holds its driver.
LEMMA TouchedIsRewritten ==
  ASSUME IInv, OutInv, phase = "done", NEW r \in Roots,
         NEW i \in Defs(scope), Recursive(i), scope.defs[i].owner = scope.defs[r].owner
  PROVE  r \in Rewritten
<1>1. /\ scope \in ScopeType /\ Collected(scope)
      /\ Len(scope.defs) \in Nat /\ Defs(scope) = 1..Len(scope.defs)
      /\ reaches \in Rows(Len(scope.defs)) /\ Least(Edges(scope), reaches)
      /\ r \in Defs(scope) /\ IsRoot(scope, r)
  BY Expanding DEF Roots
<1>2. todo = {} /\ \A k \in Defs(scope) : Taken(k) <=> Recursive(k)
  BY AllTaken DEF OutInv
<1>3. PICK h \in Hosts(reaches) :
        /\ h \in Defs(scope) /\ Recursive(h) /\ Together(reaches, h, i)
        /\ ~IsRoot(scope, h) => scope.defs[h].owner \in changed
  BY DoneHost
<1>4. CASE i = r \/ h = r
  BY <1>2, <1>3, <1>4 DEF Rewritten
<1>5. CASE i # r /\ h # r /\ scope.defs[h].owner = scope.defs[r].owner
  BY <1>1, <1>3, <1>5, RootHolds DEF Rewritten
<1>6. CASE i # r /\ h # r /\ scope.defs[h].owner # scope.defs[r].owner
  <2>1. Under(scope, i, r) /\ ~Under(scope, h, r)
    BY <1>1, <1>6, RootHolds DEF Under
  <2>2. r \in reaches[h] /\ i \in reaches[r]
    BY <1>1, <1>3, <1>6, <2>1, Dominates DEF Together
  <2>3. Recursive(r)
    BY <1>1, <1>3, <2>2, ReachTransitive DEF Together, Recursive
  <2> QED BY <1>1, <1>2, <2>3 DEF Rewritten
<1> QED BY <1>4, <1>5, <1>6

\* The copies call each other and nothing that has no copy, and only what was rewritten is
\* copied, for every scope.
THEOREM CallGraphCopiesApart == Spec => []CopiesApart
<1>1. ASSUME IInv, OutInv PROVE CopiesApart
  <2> SUFFICES ASSUME phase = "done" PROVE CopiesApart
    BY DEF CopiesApart
  <2>1. Copied \subseteq Rewritten
    <3>1. todo = {} /\ \A k \in Defs(scope) : Taken(k) <=> Recursive(k)
      BY <1>1, AllTaken DEF OutInv
    <3> QED BY <1>1, <3>1, TouchedIsRewritten DEF Copied
  <2>2. ASSUME NEW i \in Defs(scope), NEW mn \in scope.mentions[i], NEW j \in Resolve(scope, i, mn),
               mn.rewritable, mn.written # "inAMacro"
        PROVE  Renamed(mn) <=> j \in Copied /\ \A k \in Defs(scope) : ~SameName(scope, j, k)
    <3>1. j \in Defs(scope) /\ scope.defs[j].name = mn.name
      BY Resolved
    <3>2. \A r \in Copied : scope.defs[r].name = mn.name /\ (\A k \in Defs(scope) : ~SameName(scope, r, k))
                              => r = j
      BY <3>1 DEF SameName
    <3> QED BY <2>2, <3>1, <3>2 DEF Renamed
  <2> QED BY <2>1, <2>2 DEF CopiesApart
<1> QED BY <1>1, AlwaysOut, PTL
-----------------------------------------------------------------------------
(* The emitted program. *)

\* Two functions a definition lies in: one of them lies in the other.
LEMMA Nested ==
  ASSUME NEW s \in ScopeType, Collected(s), NEW i \in Defs(s), NEW x \in Defs(s), NEW y \in Defs(s),
         Under(s, i, x), Under(s, i, y), x # y
  PROVE  Under(s, x, y) \/ Under(s, y, x)
<1>1. /\ Path(s, i) \in Seq(Nat) /\ Path(s, x) \in Seq(Nat) /\ Path(s, y) \in Seq(Nat)
      /\ Len(Path(s, i)) \in Nat /\ Len(Path(s, x)) \in Nat /\ Len(Path(s, y)) \in Nat
  BY PathType
<1>2. s.defs[x].owner = s.defs[y].owner /\ Path(s, x) # Path(s, y)
  BY DEF Under, Collected
<1>3. IsPrefix(Path(s, x), Path(s, i)) /\ IsPrefix(Path(s, y), Path(s, i))
  BY DEF Under, IsStrictPrefix
<1>4. /\ Len(Path(s, x)) <= Len(Path(s, i)) /\ Len(Path(s, y)) <= Len(Path(s, i))
      /\ \A k \in 1..Len(Path(s, x)) : Path(s, x)[k] = Path(s, i)[k]
      /\ \A k \in 1..Len(Path(s, y)) : Path(s, y)[k] = Path(s, i)[k]
  BY <1>1, <1>3, PrefixOf
<1>5. CASE Len(Path(s, x)) <= Len(Path(s, y))
  <2>1. \A k \in 1..Len(Path(s, x)) : Path(s, x)[k] = Path(s, y)[k]
    BY <1>1, <1>4, <1>5
  <2>2. IsPrefix(Path(s, x), Path(s, y))
    BY <1>1, <1>5, <2>1, PrefixOf
  <2> QED BY <1>2, <2>2 DEF Under, IsStrictPrefix
<1>6. CASE Len(Path(s, y)) <= Len(Path(s, x))
  <2>1. \A k \in 1..Len(Path(s, y)) : Path(s, y)[k] = Path(s, x)[k]
    BY <1>1, <1>4, <1>6
  <2>2. IsPrefix(Path(s, y), Path(s, x))
    BY <1>1, <1>6, <2>1, PrefixOf
  <2> QED BY <1>2, <2>2 DEF Under, IsStrictPrefix
<1> QED BY <1>1, <1>5, <1>6

\* A text is of a recursive function or of a root.
HasText(i) == Recursive(i) \/ IsRoot(scope, i)

\* Every one of them has exactly one text.
LEMMA OneText ==
  ASSUME IInv, OutInv, phase = "done"
  PROVE  /\ \A t \in Texts : t.of \in Defs(scope) /\ HasText(t.of)
         /\ \A t, u \in Texts : t.of = u.of => t = u
         /\ \A i \in Defs(scope) : HasText(i) => \E t \in Texts : t.of = i
<1>1. \A i \in Defs(scope) : Taken(i) <=> Recursive(i)
  BY AllTaken DEF OutInv
<1>2. ASSUME NEW t \in Texts
      PROVE  /\ t.of \in Defs(scope) /\ HasText(t.of)
             /\ Taken(t.of) => t = [of |-> t.of, slots |-> held[t.of]]
             /\ ~Taken(t.of) =>
                  t = [of |-> t.of, slots |-> IF scope.defs[t.of].owner \in changed THEN slot
                                              ELSE [i \in Defs(scope) |-> "fn"]]
  <2>1. CASE \E i \in Defs(scope) : Taken(i) /\ t = [of |-> i, slots |-> held[i]]
    BY <1>1, <2>1 DEF HasText
  <2>2. CASE \E r \in Roots : ~Taken(r) /\
               t = [of |-> r, slots |-> IF scope.defs[r].owner \in changed THEN slot
                                        ELSE [i \in Defs(scope) |-> "fn"]]
    BY <2>2 DEF HasText, Roots
  <2> QED BY <2>1, <2>2 DEF Texts
<1>3. ASSUME NEW t \in Texts, NEW u \in Texts, t.of = u.of PROVE t = u
  BY <1>2, <1>3
<1>4. ASSUME NEW i \in Defs(scope), HasText(i) PROVE \E t \in Texts : t.of = i
  <2>1. CASE Taken(i)
    <3>1. [of |-> i, slots |-> held[i]] \in Texts
      BY <2>1 DEF Texts
    <3> QED BY <3>1
  <2>2. CASE ~Taken(i)
    <3>1. i \in Roots
      BY <1>1, <1>4, <2>2 DEF HasText, Roots
    <3>2. [of |-> i, slots |-> IF scope.defs[i].owner \in changed THEN slot
                               ELSE [k \in Defs(scope) |-> "fn"]] \in Texts
      BY <2>2, <3>1 DEF Texts
    <3> QED BY <3>2
  <2> QED BY <2>1, <2>2
<1> QED BY <1>2, <1>3, <1>4

\* A text has a hole where each recursive function in it was declared, with the driver of
\* the cycle if that is where it goes, and is otherwise as it was written.
LEMMA TextSlots ==
  ASSUME IInv, OutInv, phase = "done",
         NEW t \in Texts, NEW i \in Defs(scope), Under(scope, i, t.of)
  PROVE  /\ t.slots[i] = "fn" <=> ~Recursive(i)
         /\ t.slots[i] = "driver" <=> i \in Hosts(reaches)
<1>1. scope \in ScopeType /\ Collected(scope)
  BY Expanding
<1>2. todo = {} /\ \A k \in Defs(scope) : Taken(k) <=> Recursive(k)
  BY AllTaken DEF OutInv
<1>3. WrittenInv /\ InSlots /\ InnerFirst
  BY DEF OutInv, IInv, ExpandInv
<1>4. t.of \in Defs(scope)
  BY OneText
<1>5. ~IsRoot(scope, i)
  BY <1>1, <1>4, UnderLater
<1>6. i \in Hosts(reaches) => Recursive(i)
  BY HostIsMember
<1>7. CASE t.slots = held[t.of] /\ Taken(t.of)
  <2>1. Recursive(i) => held[t.of][i] # "fn"
    BY <1>3, <1>4, <1>7 DEF InnerFirst
  <2>2. held[t.of][i] # "fn" => Recursive(i)
    BY <1>2, <1>3, <1>4, <1>7 DEF WrittenInv, HeldAsIs
  <2>3. held[t.of][i] = "driver" <=> i \in Hosts(reaches)
    BY <1>3, <1>4, <1>7 DEF WrittenInv, HeldAsIs, DriversOfHosts
  <2> QED BY <1>7, <2>1, <2>2, <2>3
<1>8. CASE t.slots = slot
  <2>1. slot[i] = "fn" <=> ~Recursive(i)
    BY <1>2, <1>3, <1>5 DEF InSlots
  <2>2. slot[i] = "driver" <=> i \in Hosts(reaches)
    BY <1>2, <1>3, <1>5 DEF WrittenInv, DriversBack, DriversOfHosts
  <2> QED BY <1>8, <2>1, <2>2
<1>9. CASE /\ t.of \in Roots /\ ~Taken(t.of) /\ scope.defs[t.of].owner \notin changed
           /\ t.slots = [k \in Defs(scope) |-> "fn"]
  <2>1. scope.defs[i].owner = scope.defs[t.of].owner
    BY DEF Under
  <2>2. ~Recursive(i)
    BY <1>9, <2>1, TouchedIsRewritten DEF Rewritten
  <2> QED BY <1>6, <1>9, <2>2
<1>10. \/ t.slots = held[t.of] /\ Taken(t.of)
       \/ t.of \in Roots /\ ~Taken(t.of) /\ t.slots = IF scope.defs[t.of].owner \in changed THEN slot
                                                      ELSE [k \in Defs(scope) |-> "fn"]
  BY DEF Texts
<1> QED BY <1>7, <1>8, <1>9, <1>10

\* A definition that is not a root lies in one text, counting a text up to the holes and
\* the drivers in it: that of the innermost function around it that has one.
LEMMA LiesInOneText ==
  ASSUME IInv, OutInv, phase = "done", NEW i \in Defs(scope), ~IsRoot(scope, i)
  PROVE  \E t \in Texts :
           /\ Under(scope, i, t.of)
           /\ \A a \in Defs(scope) : Under(scope, i, a) /\ Under(scope, a, t.of) => t.slots[a] = "fn"
           /\ \A u \in Texts :
                /\ Under(scope, i, u.of)
                /\ \A a \in Defs(scope) : Under(scope, i, a) /\ Under(scope, a, u.of) => u.slots[a] = "fn"
                => u = t
<1> DEFINE n == Len(scope.defs)
           TextsAround == {a \in Defs(scope) : Under(scope, i, a) /\ HasText(a)}
<1>1. scope \in ScopeType /\ Collected(scope) /\ n \in Nat /\ Defs(scope) = 1..n
  BY Expanding
<1>2. TextsAround \in SUBSET (1..n) /\ TextsAround # {}
  <2>1. PICK r \in Defs(scope) : IsRoot(scope, r) /\ scope.defs[r].owner = scope.defs[i].owner
    BY <1>1, RootOf
  <2>2. Under(scope, i, r)
    BY <1>1, <2>1, RootHolds
  <2> QED BY <1>1, <2>1, <2>2 DEF HasText
<1>3. PICK x \in TextsAround : \A y \in TextsAround : y <= x
  BY <1>1, <1>2, MaxIsLast
<1>4. PICK t \in Texts : t.of = x
  BY <1>3, OneText
<1>5. \A a \in Defs(scope) : Under(scope, a, x) => x < a
  BY <1>1, <1>3, UnderLater
<1>6. ASSUME NEW a \in Defs(scope), Under(scope, i, a), Under(scope, a, t.of) PROVE t.slots[a] = "fn"
  <2>1. a \notin TextsAround
    BY <1>1, <1>3, <1>4, <1>5, <1>6
  <2> QED BY <1>4, <1>6, <2>1, TextSlots DEF HasText
<1>7. ASSUME NEW u \in Texts, Under(scope, i, u.of),
             \A a \in Defs(scope) : Under(scope, i, a) /\ Under(scope, a, u.of) => u.slots[a] = "fn"
      PROVE  u = t
  <2>1. u.of \in TextsAround
    BY <1>7, OneText
  <2>2. ~Under(scope, u.of, x)
    BY <1>1, <1>3, <1>5, <2>1
  <2>3. ~Under(scope, x, u.of)
    <3> SUFFICES ASSUME Under(scope, x, u.of) PROVE FALSE
      OBVIOUS
    <3>1. u.slots[x] = "fn" /\ ~IsRoot(scope, x)
      BY <1>1, <1>3, <1>7, <2>1, UnderLater
    <3>2. ~Recursive(x)
      BY <1>3, <3>1, TextSlots
    <3> QED BY <1>3, <3>1, <3>2 DEF HasText
  <2>4. u.of = x
    BY <1>1, <1>3, <2>1, <2>2, <2>3, Nested
  <2> QED BY <1>4, <2>4, OneText
<1> QED BY <1>3, <1>4, <1>6, <1>7

\* The emitted program holds every definition once, for every scope: the recursive ones in
\* their drivers and nowhere else, the others where they were written.
THEOREM CallGraphOutputComplete == Spec => []OutputComplete
<1>1. ASSUME IInv, OutInv, phase = "done", NEW i \in Defs(scope)
      PROVE  IF Recursive(i)
             THEN /\ Taken(i)
                  /\ Holding(i, "fn") = {}
                  /\ IF IsRoot(scope, i) \/ i \notin Hosts(reaches) THEN Holding(i, "driver") = {}
                     ELSE Cardinality(Holding(i, "driver")) = 1
             ELSE ~Taken(i) /\ (~IsRoot(scope, i) => Cardinality(Holding(i, "fn")) = 1)
  <2>1. Taken(i) <=> Recursive(i)
    BY <1>1, AllTaken DEF OutInv
  <2>2. \A t \in Texts : Under(scope, i, t.of) =>
          /\ t.slots[i] = "fn" <=> ~Recursive(i)
          /\ t.slots[i] = "driver" <=> i \in Hosts(reaches)
          /\ ~IsRoot(scope, i)
    <3>1. \A t \in Texts : t.of \in Defs(scope)
      BY <1>1, OneText
    <3> QED BY <1>1, <3>1, TextSlots, Expanding, UnderLater
  <2>3. Recursive(i) => Holding(i, "fn") = {}
    BY <2>2 DEF Holding
  <2>4. IsRoot(scope, i) \/ i \notin Hosts(reaches) => Holding(i, "driver") = {}
    BY <2>2 DEF Holding
  <2>5. ASSUME NEW what \in {"fn", "driver"}, ~IsRoot(scope, i),
               what = "fn" => ~Recursive(i), what = "driver" => i \in Hosts(reaches)
        PROVE  Cardinality(Holding(i, what)) = 1
    <3>1. PICK t \in Texts :
            /\ Under(scope, i, t.of)
            /\ \A a \in Defs(scope) : Under(scope, i, a) /\ Under(scope, a, t.of) => t.slots[a] = "fn"
            /\ \A u \in Texts :
                 /\ Under(scope, i, u.of)
                 /\ \A a \in Defs(scope) : Under(scope, i, a) /\ Under(scope, a, u.of) => u.slots[a] = "fn"
                 => u = t
      BY <1>1, <2>5, LiesInOneText
    <3>2. t.slots[i] = what
      BY <2>2, <2>5, <3>1
    <3>3. Holding(i, what) = {t}
      BY <3>1, <3>2 DEF Holding
    <3> QED BY <3>3, FS_Singleton
  <2> QED BY <2>1, <2>3, <2>4, <2>5
<1>2. IInv /\ OutInv => OutputComplete
  BY <1>1 DEF OutputComplete
<1> QED BY <1>2, AlwaysOut, PTL
-----------------------------------------------------------------------------
(* The options in force. *)

\* What the markers of the definition itself make of the options handed down.
Down(s, i, opts) == IF s.defs[i].marks = <<>> THEN opts ELSE Asked(s.defs[i].marks)

Parent(s, i) == CHOOSE j \in 1..(i - 1) : Declares(s, j, i)

\* Own markers count before those around.
LEMMA OwnFirst ==
  ASSUME NEW marks \in Marks, TakeFrom(marks) # Bad, NEW opts
  PROVE  OwnOr(TakeFrom(marks), opts) = IF marks = <<>> THEN opts ELSE Asked(marks)
<1>1. CASE marks = <<>>
  BY <1>1, TakenAsAsked DEF OwnOr
<1>2. CASE marks # <<>>
  <2>1. TakeFrom(marks) = Asked(marks)
    BY <1>2, TakenAsAsked
  <2>2. TakeFrom(marks) # None
    BY <1>2, TakenMeans, OptionsAssumption DEF Merged
  <2> QED BY <1>2, <2>1, <2>2 DEF OwnOr
<1> QED BY <1>1, <1>2

\* `collect` resolves the options of a definition after those of the one that declares it.
LEMMA ParentFirst ==
  ASSUME NEW s \in ScopeType, Collected(s), NEW i \in Defs(s), ~IsRoot(s, i)
  PROVE  /\ Parent(s, i) \in Defs(s) /\ Parent(s, i) \in 1..(i - 1) /\ Parent(s, i) < i
         /\ Declares(s, Parent(s, i), i)
<1>1. \E j \in 1..(i - 1) : Declares(s, j, i)
  BY DEF Collected
<1>2. Parent(s, i) \in 1..(i - 1) /\ Declares(s, Parent(s, i), i)
  BY <1>1 DEF Parent
<1> QED BY <1>2, ScopeSize

LEMMA HandedDown ==
  ASSUME NEW s \in ScopeType, Collected(s), NEW n \in Nat, n <= Len(s.defs)
  PROVE  \E opts : opts = [i \in 1..n |->
           OwnOr(Own(s, i), IF IsRoot(s, i) THEN ScopeOpts(s)
                            ELSE opts[CHOOSE j \in 1..(i - 1) : Declares(s, j, i)])]
<1> DEFINE from(opts, i) ==
             OwnOr(Own(s, i), IF IsRoot(s, i) THEN ScopeOpts(s)
                              ELSE opts[CHOOSE j \in 1..(i - 1) : Declares(s, j, i)])
           Upto(m) == \E opts : opts = [i \in 1..m |-> from(opts, i)]
           S == {m \in Nat : m <= Len(s.defs) => Upto(m)}
<1>0. Len(s.defs) \in Nat /\ Defs(s) = 1..Len(s.defs)
  BY ScopeSize
<1>1. 0 \in S
  <2>1. 1..0 = {}
    OBVIOUS
  <2>2. PICK opts : opts = [i \in {} |-> 0]
    OBVIOUS
  <2>3. opts = [i \in 1..0 |-> from(opts, i)]
    BY <2>1, <2>2
  <2>4. Upto(0)
    BY <2>3
  <2> HIDE DEF Upto
  <2> QED BY <2>4
<1>2. ASSUME NEW m \in Nat, m \in S PROVE m + 1 \in S
  <2> HIDE DEF Upto
  <2> SUFFICES ASSUME m + 1 <= Len(s.defs) PROVE Upto(m + 1)
    OBVIOUS
  <2>0. Upto(m)
    BY <1>0, <1>2
  <2>1. PICK opts : opts = [i \in 1..m |-> from(opts, i)]
    BY <2>0 DEF Upto
  <2> DEFINE next == [i \in 1..(m + 1) |-> IF i = m + 1 THEN from(opts, i) ELSE opts[i]]
  <2>2. ASSUME NEW i \in 1..(m + 1), ~IsRoot(s, i)
        PROVE  next[CHOOSE j \in 1..(i - 1) : Declares(s, j, i)] =
               opts[CHOOSE j \in 1..(i - 1) : Declares(s, j, i)]
    <3>1. i \in Defs(s)
      BY <1>0
    <3>2. Parent(s, i) \in 1..(i - 1)
      BY <2>2, <3>1, ParentFirst
    <3>3. Parent(s, i) \in 1..(m + 1) /\ Parent(s, i) # m + 1
      BY <3>2
    <3>4. next[Parent(s, i)] = opts[Parent(s, i)]
      BY <3>3
    <3> HIDE DEF next
    <3> QED BY <3>4 DEF Parent
  <2>3. \A i \in 1..(m + 1) : from(next, i) = from(opts, i)
    <3> HIDE DEF next
    <3> QED BY <2>2
  <2>4. \A i \in 1..(m + 1) : i # m + 1 => i \in 1..m
    OBVIOUS
  <2> HIDE DEF from
  <2>5. \A i \in 1..(m + 1) : next[i] = from(next, i)
    BY <2>1, <2>3, <2>4
  <2>6. next = [i \in 1..(m + 1) |-> from(next, i)]
    BY <2>5
  <2> HIDE DEF next
  <2> QED BY <2>6 DEF Upto, from
<1> HIDE DEF S
<1>3. n \in S
  BY <1>1, <1>2, Rising
<1> HIDE DEF Upto
<1>4. Upto(n)
  BY <1>3 DEF S
<1> QED BY <1>4 DEF Upto

LEMMA InForceSteps ==
  ASSUME NEW s \in ScopeType, Collected(s)
  PROVE  /\ InForce(s) = [i \in Defs(s) |-> InForce(s)[i]]
         /\ \A i \in Defs(s) :
              InForce(s)[i] = OwnOr(Own(s, i), IF IsRoot(s, i) THEN ScopeOpts(s)
                                               ELSE InForce(s)[Parent(s, i)])
<1> DEFINE opts[i \in Defs(s)] ==
             OwnOr(Own(s, i), IF IsRoot(s, i) THEN ScopeOpts(s)
                              ELSE opts[CHOOSE j \in 1..(i - 1) : Declares(s, j, i)])
<1>1. InForce(s) = opts
  BY DEF InForce
<1>2. Len(s.defs) \in Nat /\ Defs(s) = 1..Len(s.defs)
  BY ScopeSize
<1>3. \E all : all = [i \in Defs(s) |->
                 OwnOr(Own(s, i), IF IsRoot(s, i) THEN ScopeOpts(s)
                                  ELSE all[CHOOSE j \in 1..(i - 1) : Declares(s, j, i)])]
  <2>1. Len(s.defs) <= Len(s.defs)
    BY <1>2
  <2>2. \E all : all = [i \in 1..Len(s.defs) |->
                   OwnOr(Own(s, i), IF IsRoot(s, i) THEN ScopeOpts(s)
                                    ELSE all[CHOOSE j \in 1..(i - 1) : Declares(s, j, i)])]
    BY <1>2, <2>1, HandedDown
  <2> QED BY <1>2, <2>2
<1>4. opts = [i \in Defs(s) |->
                OwnOr(Own(s, i), IF IsRoot(s, i) THEN ScopeOpts(s)
                                 ELSE opts[CHOOSE j \in 1..(i - 1) : Declares(s, j, i)])]
  BY <1>3
<1> HIDE DEF opts
<1>5. \A i \in Defs(s) :
        opts[i] = OwnOr(Own(s, i), IF IsRoot(s, i) THEN ScopeOpts(s)
                                   ELSE opts[CHOOSE j \in 1..(i - 1) : Declares(s, j, i)])
  BY <1>4
<1> QED BY <1>1, <1>4, <1>5 DEF Parent

\* What is around a nested definition is the one that declares it and what is around that.
LEMMA AroundNested ==
  ASSUME NEW s \in ScopeType, Collected(s), NEW i \in Defs(s), ~IsRoot(s, i), NEW j \in Defs(s)
  PROVE  Under(s, i, j) <=> j = Parent(s, i) \/ Under(s, Parent(s, i), j)
<1> DEFINE p == Parent(s, i)
<1>1. p \in Defs(s) /\ Under(s, i, p) /\ Front(Path(s, i)) = Path(s, p)
  BY ParentFirst DEF Declares
<1> HIDE DEF p
<1>2. ASSUME Under(s, i, j), j # p PROVE Under(s, p, j)
  <2>1. IsPrefix(Path(s, j), Path(s, p))
    BY <1>1, <1>2, PathType, PrefixOfFront DEF Under
  <2>2. s.defs[j].owner = s.defs[p].owner
    BY <1>1, <1>2 DEF Under
  <2>3. Path(s, j) # Path(s, p)
    BY <1>1, <1>2, <2>2 DEF Collected
  <2> QED BY <2>1, <2>2, <2>3 DEF Under, IsStrictPrefix
<1>3. ASSUME Under(s, p, j) PROVE Under(s, i, j)
  BY <1>1, <1>3, UnderTransitive
<1> QED BY <1>1, <1>2, <1>3 DEF p

\* What is wanted of a definition is what its own markers make of what is wanted of the one
\* that declares it.
LEMMA WantedSteps ==
  ASSUME NEW s \in ScopeType, Collected(s), NEW i \in Defs(s)
  PROVE  Wanted(s, i) = Down(s, i, IF IsRoot(s, i) THEN Outside(s) ELSE Wanted(s, Parent(s, i)))
<1> DEFINE A == Around(s, i)
<1>1. i \in Nat \ {0} /\ \A j \in Defs(s) : j # 0 /\ Len(Path(s, j)) \in Nat
  BY PathType
<1>2. CASE s.defs[i].marks # <<>>
  <2>1. i \in A
    BY <1>1, <1>2 DEF Around
  <2>2. ASSUME NEW j \in A, j # i PROVE Len(Path(s, j)) < Len(Path(s, i))
    <3>1. j \in Defs(s) /\ Under(s, i, j)
      BY <2>2 DEF Around
    <3> QED BY <3>1, PathType, StrictlyLonger DEF Under
  <2>3. A \subseteq Defs(s)
    BY DEF Around
  <2> HIDE DEF A
  <2>4. \A j \in A : Len(Path(s, j)) <= Len(Path(s, i))
    BY <1>1, <2>2, <2>3
  <2>5. \A j \in A : (\A k \in A : Len(Path(s, k)) <= Len(Path(s, j))) => j = i
    BY <1>1, <2>1, <2>2, <2>3
  <2>6. (CHOOSE j \in A : \A k \in A : Len(Path(s, k)) <= Len(Path(s, j))) = i
    BY <2>1, <2>4, <2>5
  <2>7. A # {}
    BY <2>1
  <2>8. Wanted(s, i) = Asked(s.defs[i].marks)
    BY <2>6, <2>7 DEF Wanted, A
  <2> QED BY <1>2, <2>8 DEF Down
<1>3. CASE s.defs[i].marks = <<>> /\ IsRoot(s, i)
  <2>1. A = {}
    <3> SUFFICES ASSUME NEW j \in A PROVE FALSE
      OBVIOUS
    <3>1. j \in Defs(s) /\ Under(s, i, j)
      BY <1>3 DEF Around
    <3> QED BY <1>3, <3>1, UnderLater
  <2> QED BY <1>3, <2>1 DEF Wanted, Down
<1>4. CASE s.defs[i].marks = <<>> /\ ~IsRoot(s, i)
  <2>1. Parent(s, i) \in Defs(s) /\ Parent(s, i) # 0
    BY <1>1, <1>4, ParentFirst
  <2>2. A = Around(s, Parent(s, i))
    <3>1. \A j \in Defs(s) : Under(s, i, j) <=> j = Parent(s, i) \/ Under(s, Parent(s, i), j)
      BY <1>4, AroundNested
    <3> QED BY <1>1, <1>4, <2>1, <3>1 DEF Around
  <2> HIDE DEF A
  <2> QED BY <1>4, <2>2 DEF Wanted, Down, A
<1> QED BY <1>2, <1>3, <1>4

\* The options a readable scope is collected with are those that are wanted.
LEMMA InForceIsWanted ==
  ASSUME NEW s \in Scopes, ~Unreadable(s)
  PROVE  InForce(s) = [i \in Defs(s) |-> Wanted(s, i)]
<1>1. s \in ScopeType /\ Collected(s)
  BY ScopesAssumption
<1>2. Len(s.defs) \in Nat /\ Defs(s) = 1..Len(s.defs)
  BY <1>1, ScopeSize
<1>3. s.marks \in Marks /\ \A i \in Defs(s) : s.defs[i].marks \in Marks
  <2>1. s.defs \in Seq(DefType) /\ s.marks \in Marks
    BY <1>1 DEF ScopeType
  <2>2. \A i \in Defs(s) : s.defs[i] \in DefType
    BY <1>2, <2>1, LenProperties, ElementOfSeq
  <2> QED BY <2>1, <2>2 DEF DefType
<1>4. ScopeOpts(s) = Outside(s)
  <2>1. TakeFrom(s.marks) # Bad
    BY DEF Unreadable
  <2> QED BY <1>3, <2>1, OwnFirst DEF ScopeOpts, Outside
<1>5. ASSUME NEW i \in Defs(s), NEW opts PROVE OwnOr(Own(s, i), opts) = Down(s, i, opts)
  <2>1. TakeFrom(s.defs[i].marks) # Bad
    BY DEF Unreadable, Own
  <2> QED BY <1>3, <2>1, OwnFirst DEF Own, Down
<1>6. \A i \in Defs(s) : InForce(s)[i] = Down(s, i, IF IsRoot(s, i) THEN Outside(s) ELSE InForce(s)[Parent(s, i)])
  BY <1>1, <1>4, <1>5, InForceSteps
<1> DEFINE T == {i \in Defs(s) : InForce(s)[i] # Wanted(s, i)}
<1>7. T = {}
  <2> SUFFICES ASSUME T # {} PROVE FALSE
    OBVIOUS
  <2>1. T \subseteq Nat
    BY <1>2
  <2>2. PICK i \in T : \A j \in T : i <= j
    BY <2>1, LeastNat
  <2>3. i \in Defs(s)
    OBVIOUS
  <2>4. ~IsRoot(s, i) => InForce(s)[Parent(s, i)] = Wanted(s, Parent(s, i))
    <3> SUFFICES ASSUME ~IsRoot(s, i) PROVE Parent(s, i) \in Defs(s) /\ Parent(s, i) \notin T
      OBVIOUS
    <3>1. Parent(s, i) \in Defs(s) /\ Parent(s, i) < i
      BY <1>1, <2>3, ParentFirst
    <3>2. i \in Nat /\ Parent(s, i) \in Nat
      BY <1>2, <2>3, <3>1
    <3> HIDE DEF T
    <3> QED BY <2>2, <3>1, <3>2
  <2>5. InForce(s)[i] = Wanted(s, i)
    BY <1>1, <1>6, <2>3, <2>4, WantedSteps
  <2> QED BY <2>5
<1>8. InForce(s) = [i \in Defs(s) |-> InForce(s)[i]]
  BY <1>1, InForceSteps
<1> QED BY <1>7, <1>8

\* An expansion without an error has read every marker.
ReadInv ==
  /\ phase # "error" => ~Unreadable(scope)
  /\ phase = "done" => \A k \in Items(scope) : TakeFrom(scope.containers[k].marks) # Bad

LEMMA InitRead == Init => ReadInv
BY DEF Init, ReadInv

LEMMA NextRead == ReadInv /\ [Next]_vars => ReadInv'
<1> SUFFICES ASSUME ReadInv, [Next]_vars PROVE ReadInv'
  OBVIOUS
<1>1. scope' = scope
  BY DEF Next, vars, input, Close, Check, Take, Expand, Emit, Ended
<1>2. phase = "error" => phase' = "error"
  BY DEF Next, vars, Close, Check, Take, Expand, Emit, Ended
<1>3. phase' = "done" =>
        phase = "done" \/ \A k \in Items(scope) : TakeFrom(scope.containers[k].marks) # Bad
  <2>1. CASE Emit
    BY <2>1 DEF Emit
  <2>2. CASE Close \/ Check
    BY <2>2 DEF Close, Check
  <2>3. CASE Take
    BY <2>3 DEF Take
  <2>4. CASE Expand
    BY <2>4 DEF Expand, WriteBack
  <2>5. CASE Ended \/ UNCHANGED vars
    BY <2>5 DEF Ended, vars
  <2> QED BY <2>1, <2>2, <2>3, <2>4, <2>5 DEF Next
<1> QED BY <1>1, <1>2, <1>3 DEF ReadInv

\* In every scope each definition has the options of the innermost marker around it, all of
\* them and no others; the members of a cycle agree in them; and a container is handed what is
\* asked of it, unless it has no marker and stands in a body that a marker in the scope covers.
THEOREM CallGraphInnermostWins == Spec => []InnermostWins
<1>1. ASSUME IInv, OutInv, ReadInv PROVE InnermostWins
  <2> SUFFICES ASSUME phase = "done" PROVE InnermostWins
    BY DEF InnermostWins
  <2>1. scope \in Scopes /\ ~Unreadable(scope) /\ scope \in ScopeType
    BY <1>1, Expanding, ScopesAssumption DEF IInv, ExpandInv, ReadInv
  <2>2. \A i \in Defs(scope) : InForce(scope)[i] = Wanted(scope, i)
    BY <2>1, InForceIsWanted
  <2>3. ASSUME NEW i \in Defs(scope), NEW j \in Defs(scope), Together(reaches, i, j)
        PROVE  Wanted(scope, i).flags = Wanted(scope, j).flags
    <3>1. /\ Len(scope.defs) \in Nat /\ Defs(scope) = 1..Len(scope.defs) /\ DOMAIN reaches = Defs(scope)
          /\ reaches \in Rows(Len(scope.defs)) /\ Least(Edges(scope), reaches)
      BY <1>1, Expanding
    <3>2. Recursive(i)
      BY <2>3, <3>1, ReachTransitive DEF Together, Recursive
    <3>3. PICK h : ~Rejected(scope, reaches, Members(reaches, i), h)
      BY <1>1, <3>2, DoneHost
    <3>4. i \in Members(reaches, i) /\ j \in Members(reaches, i)
      BY <2>3, <3>1, <3>2 DEF Members, Together, Recursive
    <3>5. \A k \in Members(reaches, i) : InForce(scope)[k].flags = InForce(scope)[h].flags
      BY <3>3 DEF Rejected, Disagree, SameRewrite
    <3> QED BY <2>2, <3>4, <3>5
  <2>4. ASSUME NEW k \in DOMAIN scope.containers,
               \/ scope.containers[k].marks # <<>>
               \/ Around(scope, scope.containers[k].under) = {}
        PROVE  PassedOn(scope, k) = IF scope.containers[k].marks # <<>> THEN Asked(scope.containers[k].marks)
                                    ELSE Wanted(scope, scope.containers[k].under)
    <3> DEFINE it == scope.containers[k]
    <3>1. it.marks \in Marks
      <4>1. scope.containers \in Seq(ContainerType)
        BY <2>1 DEF ScopeType
      <4>2. it \in ContainerType
        BY <4>1, LenProperties, ElementOfSeq
      <4> QED BY <4>2 DEF ContainerType
    <3>2. TakeFrom(it.marks) # Bad
      BY <1>1 DEF ReadInv, Unreadable, Bodies, Items
    <3>3. ScopeOpts(scope) = Outside(scope)
      <4>1. scope.marks \in Marks /\ TakeFrom(scope.marks) # Bad
        BY <2>1 DEF ScopeType, Unreadable
      <4> QED BY <4>1, OwnFirst DEF ScopeOpts, Outside
    <3> HIDE DEF it
    <3>4. PassedOn(scope, k) = IF it.marks = <<>> THEN Outside(scope) ELSE Asked(it.marks)
      <4>1. OwnOr(TakeFrom(it.marks), Outside(scope)) = IF it.marks = <<>> THEN Outside(scope) ELSE Asked(it.marks)
        BY <3>1, <3>2, OwnFirst
      <4> QED BY <3>3, <4>1 DEF PassedOn, it
    <3>5. it.marks = <<>> => Wanted(scope, it.under) = Outside(scope)
      BY <2>4 DEF Wanted, it
    <3> QED BY <3>4, <3>5 DEF it
  <2> QED BY <2>2, <2>3, <2>4 DEF InnermostWins
<1>2. Spec => []ReadInv
  BY InitRead, NextRead, PTL DEF Spec
<1> QED BY <1>1, <1>2, AlwaysOut, PTL

\* In every scope an accepted marker of a function is on one that recurses; the error for an
\* attribute without effect is given only where nothing was rewritten; and wherever nothing
\* was it is given, unless a body holds a container, which then came out as it was.
THEOREM CallGraphEffectReported == Spec => []EffectReported
<1>1. ASSUME IInv, OutInv, ReadInv PROVE EffectReported
  <2>1. scope \in ScopeType /\ Collected(scope) /\ Defs(scope) = 1..Len(scope.defs)
    BY <1>1, Expanding
  <2>2. ASSUME phase = "done", NEW i \in Defs(scope), scope.defs[i].marks # <<>>
        PROVE  Recursive(i)
    <3>1. ~NoEffect(scope, reaches) /\ TakeFrom(scope.defs[i].marks) # Bad
      BY <1>1, <2>2 DEF OutInv, ReadInv, Unreadable, Own
    <3>2. scope.defs[i].marks \in Marks
      <4>1. scope.defs \in Seq(DefType)
        BY <2>1 DEF ScopeType
      <4>2. scope.defs[i] \in DefType
        BY <2>1, <4>1, ElementOfSeq
      <4> QED BY <4>2 DEF DefType
    <3>3. TakeFrom(scope.defs[i].marks) # None
      BY <2>2, <3>1, <3>2, TakenMeans, OptionsAssumption DEF Merged
    <3> QED BY <3>1, <3>3 DEF NoEffect, Own, Recursive
  <2>3. ASSUME phase = "done", NEW k \in Bodies(scope)
        PROVE  RewroteSomething \/ UnchangedInBody
    <3>1. scope.containers[k] \in ContainerType /\ k \in DOMAIN scope.containers
      <4>1. scope.containers \in Seq(ContainerType)
        BY <2>1 DEF ScopeType
      <4>2. k \in DOMAIN scope.containers
        BY DEF Bodies
      <4> QED BY <4>1, <4>2, LenProperties, ElementOfSeq
    <3>2. scope.containers[k].outcome # "error"
      BY <1>1, <2>3 DEF ReadInv, Unreadable
    <3>3. scope.containers[k].outcome \in {"rewritten", "unchanged"}
      BY <3>1, <3>2 DEF ContainerType
    <3> QED BY <3>1, <3>3 DEF RewroteSomething, UnchangedInBody
  <2> QED BY <1>1, <2>2, <2>3 DEF OutInv, Reported, EffectReported
<1>2. Spec => []ReadInv
  BY InitRead, NextRead, PTL DEF Spec
<1> QED BY <1>1, <1>2, AlwaysOut, PTL
=============================================================================
