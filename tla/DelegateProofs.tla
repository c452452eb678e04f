---------------------------- MODULE DelegateProofs ----------------------------
(* That the helper macro supplies exactly the missing methods, for every trait *)
(* and impl block: the recursion over the skip list keeps a name in the list   *)
(* as long as it has not met it.                                               *)
EXTENDS Delegate, TLAPS, WellFoundedInduction, SequenceTheorems, FiniteSetTheorems

In(s) == {s[i] : i \in DOMAIN s}
Missing(c) == Required(c) \ Written(c)
Opening == \E call \in calls : call.form = "open"
Pending == {call.method : call \in calls}
Emitted == {items[k].method : k \in DOMAIN items}

\* Before the helper runs there is nothing; one invocation opens it.
Quiet ==
  /\ phase # "helper" => calls = {} /\ items = <<>> /\ errors = {}
  /\ Opening => items = <<>> /\ \A x, y \in calls : x = y

\* An invocation's list holds its method's name exactly if the block wrote it, and no
\* method is in two of them.
Subtracting ==
  /\ \A call \in calls : call.form = "maybe" => (call.method \in Written(case) <=> call.method \in In(call.skip))
  /\ \A x, y \in calls : x.method = y.method => x = y

\* What is emitted was missing, is settled, and carries the gate of its method.
Settled ==
  /\ \A k \in DOMAIN items : /\ items[k].method \in Missing(case) \ Pending
                             /\ items[k].gated = MethodNamed(case, items[k].method).gated
  /\ \A j, k \in DOMAIN items : items[j].method = items[k].method => j = k

\* Unless there is an error, every missing method is on its way or emitted.
Covered ==
  phase = "helper" /\ errors = {} => Opening \/ Missing(case) \subseteq Pending \cup Emitted

IInv == case \in Cases /\ TypeOK /\ Quiet /\ Subtracting /\ Settled /\ Covered

LEMMA CaseShape ==
  ASSUME NEW c \in Cases
  PROVE  /\ c.written \in Seq(Written(c))
         /\ c.methods \in Seq([name : Names(c.methods), required : BOOLEAN, receiver : Receivers,
                               gated : BOOLEAN, sig : {c.methods[i].sig : i \in DOMAIN c.methods}])
         /\ \A i, j \in DOMAIN c.methods : c.methods[i].name = c.methods[j].name => i = j
         /\ Required(c) \subseteq Names(c.methods)
<1>1. c.written \in Seq(Written(c))
  <2>1. c.written \in Seq(Names(c.methods)) BY CasesAssumption
  <2> QED BY <2>1 DEF Written
<1>2. Required(c) \subseteq Names(c.methods) BY DEF Required, Names
<1> QED BY <1>1, <1>2, CasesAssumption

\* The method a name stands for.
LEMMA MethodOf ==
  ASSUME NEW c \in Cases, NEW n \in Names(c.methods)
  PROVE  \E i \in DOMAIN c.methods :
           /\ MethodNamed(c, n) = c.methods[i] /\ c.methods[i].name = n
           /\ c.methods[i].receiver \in Receivers /\ c.methods[i].gated \in BOOLEAN
           /\ n \in Required(c) <=> c.methods[i].required
<1> DEFINE i == CHOOSE j \in DOMAIN c.methods : c.methods[j].name = n
<1>1. i \in DOMAIN c.methods /\ c.methods[i].name = n BY DEF Names
<1>2. MethodNamed(c, n) = c.methods[i] BY DEF MethodNamed
<1> HIDE DEF i
<1>3. c.methods[i].receiver \in Receivers /\ c.methods[i].gated \in BOOLEAN
  <2> DEFINE T == [name : Names(c.methods), required : BOOLEAN, receiver : Receivers,
                   gated : BOOLEAN, sig : {c.methods[k].sig : k \in DOMAIN c.methods}]
  <2>1. c.methods \in Seq(T) BY CaseShape
  <2>2. c.methods[i] \in T
    <3> HIDE DEF T
    <3> QED BY <1>1, <2>1, LenProperties, ElementOfSeq
  <2> QED BY <2>2
<1>4. n \in Required(c) <=> c.methods[i].required
  BY <1>1, CaseShape DEF Required
<1> QED BY <1>1, <1>2, <1>3, <1>4

LEMMA ForwarderShape ==
  ASSUME NEW c \in Cases, NEW n \in Required(c), NEW args,
         Forwardable(MethodNamed(c, n))
  PROVE  LET f == Forwarder(c, MethodNamed(c, n), args)
         IN  /\ f.method = n
             /\ f.gated = MethodNamed(c, n).gated
             /\ f = [method |-> f.method, gated |-> f.gated, through |-> f.through, sig |-> f.sig]
             /\ f.gated \in BOOLEAN
             /\ f.through \in {"&", "&mut", "move"}
<1>1. n \in Names(c.methods) BY CaseShape
<1>2. PICK i \in DOMAIN c.methods :
        /\ MethodNamed(c, n) = c.methods[i] /\ c.methods[i].name = n
        /\ c.methods[i].receiver \in Receivers /\ c.methods[i].gated \in BOOLEAN
  BY <1>1, MethodOf
<1>3. Through(c.methods[i].receiver) \in {"&", "&mut", "move"}
  BY <1>2 DEF Forwardable, Receivers, Through
<1> QED BY <1>2, <1>3 DEF Forwarder

\* The head of a list apart, a list and its tail hold the same names.
LEMMA InTail ==
  ASSUME NEW S, NEW s \in Seq(S), s # <<>>
  PROVE  /\ Tail(s) \in Seq(S)
         /\ In(s) = {Head(s)} \cup In(Tail(s))
<1>1. Tail(s) \in Seq(S) BY HeadTailProperties
<1>2. Len(s) >= 1 /\ Len(Tail(s)) = Len(s) - 1 /\ Len(s) \in Nat
      /\ DOMAIN s = 1..Len(s) /\ DOMAIN Tail(s) = 1..Len(Tail(s)) /\ Head(s) = s[1]
      /\ \A i \in 1..Len(Tail(s)) : Tail(s)[i] = s[i + 1]
  BY <1>1, EmptySeq, LenProperties, HeadTailProperties
<1>3. ASSUME NEW x \in In(s) PROVE x \in {Head(s)} \cup In(Tail(s))
  <2>1. PICK i \in 1..Len(s) : x = s[i] BY <1>2, <1>3 DEF In
  <2>2. CASE i = 1 BY <1>2, <2>1, <2>2
  <2>3. CASE i # 1
    <3>1. i - 1 \in 1..Len(Tail(s)) /\ Tail(s)[i - 1] = s[i] BY <1>2, <2>1, <2>3
    <3> QED BY <1>2, <2>1, <3>1 DEF In
  <2> QED BY <2>2, <2>3
<1>4. ASSUME NEW x \in In(Tail(s)) PROVE x \in In(s)
  <2>1. PICK i \in 1..Len(Tail(s)) : x = Tail(s)[i] BY <1>2, <1>4 DEF In
  <2>2. i + 1 \in DOMAIN s /\ x = s[i + 1] BY <1>2, <2>1
  <2> QED BY <2>2 DEF In
<1>5. Head(s) \in In(s) BY <1>2 DEF In
<1> QED BY <1>1, <1>3, <1>4, <1>5

LEMMA InvInit == Init => IInv
BY DEF Init, IInv, TypeOK, Quiet, Subtracting, Settled, Covered, Opening

LEMMA InvTraitDef == IInv /\ ExpandTraitDef => IInv'
<1> SUFFICES ASSUME IInv, ExpandTraitDef PROVE IInv'
  OBVIOUS
<1>1. /\ case' = case /\ case \in Cases /\ calls = {} /\ calls' = {} /\ items = <<>> /\ items' = <<>>
      /\ errors = {}
  BY DEF ExpandTraitDef, IInv, Quiet
<1>2. \/ phase' = "impl" /\ errors' = {}
      \/ phase' = "helper" /\ errors' = {[why |-> "attribute", method |-> None]} /\ errors' # {}
  BY <1>1 DEF ExpandTraitDef
<1>3. TypeOK' BY <1>1, <1>2 DEF TypeOK
<1>4. Quiet' /\ Subtracting' /\ Settled' BY <1>1, <1>2 DEF Quiet, Subtracting, Settled, Opening
<1>5. Covered' BY <1>2 DEF Covered
<1> QED BY <1>1, <1>3, <1>4, <1>5 DEF IInv

LEMMA InvTraitImpl == IInv /\ ExpandTraitImpl => IInv'
<1> SUFFICES ASSUME IInv, ExpandTraitImpl PROVE IInv'
  OBVIOUS
<1>1. case' = case /\ case \in Cases /\ phase' = "helper" /\ items = <<>> /\ items' = <<>> /\ calls = {} /\ errors = {}
  BY DEF ExpandTraitImpl, IInv, Quiet
<1>2. CASE BlockAccepted(case)
  <2> DEFINE first == Invocation(case.args, case.written)
  <2>1. calls' = {first} /\ errors' = {} /\ first.form = "open" /\ first = Invocation(first.args, case.written)
    BY <1>1, <1>2 DEF ExpandTraitImpl, Invocation
  <2> HIDE DEF first
  <2>2. TypeOK' BY <1>1, <2>1 DEF TypeOK
  <2>3. Quiet' /\ Subtracting' /\ Settled' /\ Covered'
    BY <1>1, <2>1 DEF Quiet, Subtracting, Settled, Covered, Opening
  <2> QED BY <1>1, <2>2, <2>3 DEF IInv
<1>3. CASE ~BlockAccepted(case)
  <2>1. calls' = {} /\ errors' = {[why |-> "attribute", method |-> None]} /\ errors' # {}
    BY <1>1, <1>3 DEF ExpandTraitImpl
  <2>2. TypeOK' BY <1>1, <2>1 DEF TypeOK
  <2>3. Quiet' /\ Subtracting' /\ Settled'
    BY <1>1, <2>1 DEF Quiet, Subtracting, Settled, Opening
  <2>4. Covered' BY <2>1 DEF Covered
  <2> QED BY <1>1, <2>2, <2>3, <2>4 DEF IInv
<1> QED BY <1>2, <1>3

\* Whatever form a call has, its parts are those of the record it was made as.
LEMMA CallShape ==
  ASSUME TypeOK, NEW call \in calls
  PROVE  /\ call.form \in {"open", "maybe"}
         /\ call.form = "open" => call = Invocation(call.args, case.written) /\ call.skip = case.written /\ call.method = None
         /\ call.form = "maybe" =>
              /\ call = Maybe(call.method, call.args, call.skip)
              /\ call.method \in Required(case) /\ call.skip \in Seq(Written(case))
BY DEF TypeOK, Invocation, Maybe

LEMMA InvOpen ==
  ASSUME IInv, phase = "helper", NEW call \in calls, Open(call), case' = case, phase' = phase
  PROVE  IInv'
<1> DEFINE made(n) == Maybe(n, call.args, call.skip)
<1>1. /\ case \in Cases /\ call.form = "open" /\ call.skip = case.written
      /\ calls = {call} /\ items = <<>> /\ items' = <<>> /\ errors' = errors
  BY CallShape DEF IInv, Open, Quiet, Opening
<1>2. calls' = {made(n) : n \in Required(case)} BY <1>1 DEF Open
<1>3. \A n : made(n).form = "maybe" /\ made(n).method = n /\ made(n).skip = case.written
             /\ made(n) = Maybe(made(n).method, made(n).args, made(n).skip)
  BY <1>1 DEF Maybe
<1>4. case.written \in Seq(Written(case)) /\ Written(case) = In(case.written)
  BY <1>1, CaseShape DEF Written, In
<1> HIDE DEF made
<1>5. TypeOK' BY <1>1, <1>2, <1>3, <1>4 DEF IInv, TypeOK
<1>6. Quiet' BY <1>1, <1>2, <1>3 DEF Quiet, Opening
<1>7. Subtracting' BY <1>1, <1>2, <1>3, <1>4 DEF Subtracting
<1>8. Settled' BY <1>1 DEF Settled
<1>9. Covered'
  <2>1. Missing(case) \subseteq Pending' BY <1>2, <1>3 DEF Missing, Pending
  <2> QED BY <1>1, <2>1 DEF Covered
<1> QED BY <1>1, <1>5, <1>6, <1>7, <1>8, <1>9 DEF IInv

LEMMA InvFillIn ==
  ASSUME IInv, phase = "helper", NEW call \in calls, FillIn(call), case' = case, phase' = phase
  PROVE  IInv'
<1> DEFINE new == Invocation(Filled(case.params, call.args), call.skip)
<1>1. /\ case \in Cases /\ call.form = "open" /\ call.skip = case.written
      /\ calls = {call} /\ items = <<>> /\ items' = <<>> /\ errors' = errors
  BY CallShape DEF IInv, FillIn, Quiet, Opening
<1>2. calls' = {new} /\ new.form = "open" /\ new = Invocation(new.args, case.written)
  BY <1>1 DEF FillIn, Invocation
<1> HIDE DEF new
<1>3. TypeOK' BY <1>1, <1>2 DEF IInv, TypeOK
<1>4. Quiet' /\ Subtracting' /\ Settled' /\ Covered'
  BY <1>1, <1>2 DEF Quiet, Subtracting, Settled, Covered, Opening
<1> QED BY <1>1, <1>3, <1>4 DEF IInv

LEMMA InvUnmatched ==
  ASSUME IInv, phase = "helper", NEW call \in calls, Unmatched(call), case' = case, phase' = phase
  PROVE  IInv'
<1>1. /\ case \in Cases /\ calls = {call} /\ items = <<>> /\ items' = <<>> /\ calls' = {}
      /\ errors' = errors \cup {[why |-> "arguments", method |-> None]} /\ errors' # {}
  BY DEF IInv, Unmatched, Quiet, Opening
<1>2. TypeOK' BY <1>1 DEF IInv, TypeOK
<1>3. Quiet' /\ Subtracting' /\ Settled'
  BY <1>1 DEF Quiet, Subtracting, Settled, Opening
<1>4. Covered' BY <1>1 DEF Covered
<1> QED BY <1>1, <1>2, <1>3, <1>4 DEF IInv

\* While a method is looked up there is no open invocation.
LEMMA NoneOpen ==
  ASSUME IInv, NEW call \in calls, call.form = "maybe"
  PROVE  ~Opening
BY DEF IInv, Quiet, Opening

LEMMA InvSkip ==
  ASSUME IInv, phase = "helper", NEW call \in calls, SkipWritten(call), case' = case, phase' = phase
  PROVE  IInv'
<1>1. /\ case \in Cases /\ call.form = "maybe" /\ calls' = calls \ {call}
      /\ items' = items /\ errors' = errors
  BY DEF IInv, SkipWritten
<1>2. call.method \in Written(case)
  <2>1. call.skip \in Seq(Written(case)) BY <1>1, CallShape DEF IInv
  <2>2. call.method \in In(call.skip) BY <2>1, InTail DEF SkipWritten
  <2> QED BY <1>1, <2>2 DEF IInv, Subtracting
<1>3. TypeOK' BY <1>1 DEF IInv, TypeOK
<1>4. ~Opening BY <1>1, NoneOpen
<1>5. Quiet' BY <1>1, <1>4 DEF IInv, Quiet, Opening
<1>6. Subtracting' BY <1>1 DEF IInv, Subtracting
<1>7. Pending' = Pending \ {call.method}
  BY <1>1 DEF IInv, Subtracting, Pending
<1>8. Settled' BY <1>1, <1>7 DEF IInv, Settled
<1>9. Covered'
  <2>1. call.method \notin Missing(case) BY <1>2 DEF Missing
  <2> QED BY <1>1, <1>4, <1>7, <2>1 DEF IInv, Covered, Emitted
<1> QED BY <1>1, <1>3, <1>5, <1>6, <1>8, <1>9 DEF IInv

LEMMA InvPop ==
  ASSUME IInv, phase = "helper", NEW call \in calls, Pop(call), case' = case, phase' = phase
  PROVE  IInv'
<1> DEFINE new == Maybe(call.method, call.args, Tail(call.skip))
<1>1. /\ case \in Cases /\ call.form = "maybe" /\ calls' = (calls \ {call}) \cup {new}
      /\ items' = items /\ errors' = errors
  BY DEF IInv, Pop
<1>2. /\ new.form = "maybe" /\ new.method = call.method /\ new.skip = Tail(call.skip)
      /\ new = Maybe(new.method, new.args, new.skip)
  BY DEF Maybe
<1> HIDE DEF new
<1>3. /\ call.method \in Required(case) /\ Tail(call.skip) \in Seq(Written(case))
      /\ call.method \in In(call.skip) <=> call.method \in In(Tail(call.skip))
  <2>1. call.skip \in Seq(Written(case)) /\ call.method \in Required(case) BY <1>1, CallShape DEF IInv
  <2> QED BY <2>1, InTail DEF Pop
<1>4. ~Opening BY <1>1, NoneOpen
<1>5. TypeOK' BY <1>1, <1>2, <1>3 DEF IInv, TypeOK
<1>6. Quiet' BY <1>1, <1>2, <1>4 DEF IInv, Quiet, Opening
<1>7. Subtracting' BY <1>1, <1>2, <1>3 DEF IInv, Subtracting
<1>8. Pending' = Pending BY <1>1, <1>2 DEF Pending
<1>9. Settled' BY <1>1, <1>8 DEF IInv, Settled
<1>10. Covered' BY <1>1, <1>4, <1>8 DEF IInv, Covered, Emitted
<1> QED BY <1>1, <1>5, <1>6, <1>7, <1>9, <1>10 DEF IInv

LEMMA InvForward ==
  ASSUME IInv, phase = "helper", NEW call \in calls, Forward(call), case' = case, phase' = phase
  PROVE  IInv'
<1> DEFINE m == MethodNamed(case, call.method)
           f == Forwarder(case, m, call.args)
<1>1. case \in Cases /\ call.form = "maybe" /\ call.skip = <<>> /\ calls' = calls \ {call}
  BY DEF IInv, Forward
<1>2. call.method \in Missing(case)
  <2>1. call.method \in Required(case) BY <1>1, CallShape DEF IInv
  <2>2. call.method \notin In(call.skip) BY <1>1 DEF In
  <2> QED BY <1>1, <2>1, <2>2 DEF IInv, Subtracting, Missing
<1>3. call.method \in Required(case) /\ m.name = call.method
  <2>1. call.method \in Names(case.methods) BY <1>1, <1>2, CaseShape DEF Missing
  <2>2. PICK i \in DOMAIN case.methods :
          MethodNamed(case, call.method) = case.methods[i] /\ case.methods[i].name = call.method
    BY <1>1, <2>1, MethodOf
  <2> QED BY <1>2, <2>2 DEF Missing
<1>4. ~Opening BY <1>1, NoneOpen
<1>5. Subtracting' BY <1>1 DEF IInv, Subtracting
<1>6. Pending' = Pending \ {call.method} /\ call.method \in Pending
  BY <1>1 DEF IInv, Subtracting, Pending
<1>7. CASE Forwardable(m)
  <2>1. items' = Append(items, f) /\ errors' = errors BY <1>7 DEF Forward
  <2>2. /\ f.method = call.method /\ f.gated = m.gated /\ f.gated \in BOOLEAN /\ f.through \in {"&", "&mut", "move"}
        /\ f = [method |-> f.method, gated |-> f.gated, through |-> f.through, sig |-> f.sig]
    BY <1>1, <1>3, <1>7, ForwarderShape
  <2> DEFINE n == Len(items)
             T == [method : Required(case), gated : BOOLEAN, through : {"&", "&mut", "move"},
                   sig : {items[i].sig : i \in DOMAIN items}]
             U == [method : Required(case), gated : BOOLEAN, through : {"&", "&mut", "move"},
                   sig : {items'[i].sig : i \in DOMAIN items'}]
  <2>3. items \in Seq(T) /\ n \in Nat /\ DOMAIN items = 1..n
    BY LenProperties DEF IInv, TypeOK
  <2> HIDE DEF f, m
  <2>4. DOMAIN items' = 1..(n + 1) /\ items'[n + 1] = f /\ \A i \in 1..n : items'[i] = items[i]
    <3> HIDE DEF T
    <3> QED BY <2>1, <2>3, AppendProperties
  <2>5. items' \in Seq(U)
    <3>1. \A i \in 1..n : items[i] \in T BY <2>3, ElementOfSeq
    <3>2. \A i \in 1..n : items'[i] \in U BY <2>4, <3>1
    <3>3. f \in U BY <1>3, <2>2, <2>4
    <3> HIDE DEF U
    <3>4. \A i \in 1..(n + 1) : items'[i] \in U
      BY <2>3, <2>4, <3>2, <3>3
    <3>5. items' = [i \in 1..(n + 1) |-> items'[i]]
      <4> DEFINE W == T \cup {f}
      <4> HIDE DEF T
      <4>1. items \in Seq(W)
        <5>1. \A i \in 1..n : items[i] \in W BY <2>3, ElementOfSeq
        <5> QED BY <2>3, <5>1, LenProperties, SeqDef
      <4>2. items' \in Seq(W)
        <5> HIDE DEF W
        <5>1. f \in W BY DEF W
        <5> QED BY <2>1, <4>1, <5>1, AppendProperties
      <4> HIDE DEF W
      <4> QED BY <2>4, <4>2, LenProperties
    <3> QED BY <2>3, <3>4, <3>5, SeqDef
  <2>6. TypeOK' BY <1>1, <2>1, <2>5 DEF IInv, TypeOK
  <2>7. Quiet' BY <1>1, <1>4 DEF IInv, Quiet, Opening
  <2>8. Settled'
    <3>1. \A k \in 1..n : items[k].method # call.method BY <1>6, <2>3 DEF IInv, Settled
    <3>2. ASSUME NEW k \in 1..(n + 1)
          PROVE  /\ items'[k].method \in Missing(case) \ Pending'
                 /\ items'[k].gated = MethodNamed(case, items'[k].method).gated
      BY <1>2, <1>6, <2>2, <2>3, <2>4 DEF IInv, Settled, m
    <3>3. ASSUME NEW j \in 1..(n + 1), NEW k \in 1..(n + 1), items'[j].method = items'[k].method
          PROVE  j = k
      BY <2>2, <2>3, <2>4, <3>1, <3>3 DEF IInv, Settled
    <3> QED BY <1>1, <2>4, <3>2, <3>3 DEF Settled
  <2>9. Covered'
    <3>1. Emitted' = Emitted \cup {call.method}
      <4>1. \A x \in Emitted' : x \in Emitted \cup {call.method} BY <2>2, <2>3, <2>4 DEF Emitted
      <4>2. \A x \in Emitted : x \in Emitted' BY <2>3, <2>4 DEF Emitted
      <4>3. call.method \in Emitted' BY <2>2, <2>3, <2>4 DEF Emitted
      <4> QED BY <4>1, <4>2, <4>3
    <3> QED BY <1>4, <1>6, <2>1, <3>1 DEF IInv, Covered
  <2> QED BY <1>1, <1>5, <2>6, <2>7, <2>8, <2>9 DEF IInv
<1>8. CASE ~Forwardable(m)
  <2>1. items' = items /\ errors' = errors \cup {[why |-> "receiver", method |-> m.name]}
    BY <1>8 DEF Forward
  <2> HIDE DEF m
  <2>2. TypeOK' BY <1>1, <1>3, <2>1 DEF IInv, TypeOK
  <2>3. Quiet' BY <1>1, <1>4, <2>1 DEF IInv, Quiet, Opening
  <2>4. Settled' BY <1>6, <2>1 DEF IInv, Settled
  <2>5. Covered' BY <2>1 DEF Covered
  <2> QED BY <1>1, <1>5, <2>2, <2>3, <2>4, <2>5 DEF IInv
<1> QED BY <1>7, <1>8

LEMMA InvNext == IInv /\ [Next]_vars => IInv'
<1>1. ASSUME IInv, UNCHANGED vars PROVE IInv'
  BY <1>1 DEF vars, IInv, TypeOK, Quiet, Subtracting, Settled, Covered, Opening, Pending, Emitted
<1>2. ASSUME IInv, ExpandHelper PROVE IInv'
  <2>1. phase = "helper" /\ case' = case /\ phase' = phase BY <1>2 DEF ExpandHelper
  <2>2. PICK call \in calls : Expand(call) BY <1>2 DEF ExpandHelper
  <2> QED BY <1>2, <2>1, <2>2, InvOpen, InvSkip, InvPop, InvForward, InvFillIn, InvUnmatched DEF Expand
<1> QED BY <1>1, <1>2, InvTraitDef, InvTraitImpl DEF Next, Ended

LEMMA Inductive == Spec => []IInv
BY InvInit, InvNext, PTL DEF Spec

\* The invocations of the helper and what it emits keep their form for every trait and
\* impl block.
THEOREM DelegateTypeOK == Spec => []TypeOK
<1>1. IInv => TypeOK BY DEF IInv
<1> QED BY <1>1, Inductive, PTL

\* For every trait and every impl block: a block ends with each missing method once, and
\* with nothing else, unless there is an error.
THEOREM DelegateComplete == Spec => []Complete
<1>1. IInv => Complete
  <2> SUFFICES ASSUME IInv, phase = "helper", calls = {}, errors = {},
                      NEW i \in DOMAIN case.methods
               PROVE  LET m == case.methods[i] IN
                      IF m.required /\ ~m.gated /\ m.name \notin Written(case)
                        THEN \E k \in Provided(m.name) : Provided(m.name) = {k}
                        ELSE Provided(m.name) = {}
    BY DEF Complete, Finished
  <2> DEFINE m == case.methods[i]
  <2>1. MethodNamed(case, m.name) = m /\ (m.name \in Required(case) <=> m.required)
    <3>1. m.name \in Names(case.methods) BY DEF Names
    <3>2. PICK j \in DOMAIN case.methods :
            /\ MethodNamed(case, m.name) = case.methods[j] /\ case.methods[j].name = m.name
            /\ m.name \in Required(case) <=> case.methods[j].required
      BY <3>1, MethodOf DEF IInv
    <3>3. j = i BY <3>2, CaseShape DEF IInv
    <3> QED BY <3>2, <3>3
  <2>2. Missing(case) \subseteq Emitted
    BY DEF IInv, Covered, Opening, Pending
  <2> HIDE DEF m
  <2>3. CASE m.required /\ ~m.gated /\ m.name \notin Written(case)
    <3>1. m.name \in Missing(case) BY <2>1, <2>3 DEF Missing
    <3>2. PICK k \in DOMAIN items : items[k].method = m.name BY <2>2, <3>1 DEF Emitted
    <3>3. items[k].gated = m.gated BY <2>1, <3>2 DEF IInv, Settled
    <3>4. Provided(m.name) = {k} BY <2>3, <3>2, <3>3 DEF Provided, IInv, Settled
    <3> QED BY <2>3, <3>4 DEF m
  <2>4. CASE ~(m.required /\ ~m.gated /\ m.name \notin Written(case))
    <3>1. ASSUME NEW k \in Provided(m.name) PROVE FALSE
      <4>1. k \in DOMAIN items /\ items[k].method = m.name /\ ~items[k].gated BY <3>1 DEF Provided
      <4>2. m.name \in Missing(case) /\ items[k].gated = m.gated BY <2>1, <4>1 DEF IInv, Settled
      <4> QED BY <2>1, <2>4, <4>1, <4>2 DEF Missing
    <3> QED BY <2>4, <3>1 DEF m
  <2> QED BY <2>3, <2>4
<1> QED BY <1>1, Inductive, PTL
-----------------------------------------------------------------------------
(* The arguments the helper ends up with. *)

\* A set of natural numbers has a least one.
LEMMA LeastNat ==
  ASSUME NEW T, T \subseteq Nat, T # {}
  PROVE  \E x \in T : \A y \in T : x <= y
<1>1. PICK x \in T : \A y \in T : ~ (<<y, x>> \in OpToRel(<, Nat))
  BY NatLessThanWellFounded, WFMin
<1>2. \A y \in T : ~ (y < x)
  BY <1>1 DEF OpToRel
<1> QED BY <1>2

LEMMA ParamsShape ==
  ASSUME NEW c \in Cases
  PROVE  /\ Len(c.params) \in Nat /\ DOMAIN c.params = 1..Len(c.params)
         /\ \A i \in DOMAIN c.params : c.params[i].kind \in Kinds
         /\ Len(c.args) \in Nat /\ DOMAIN c.args = 1..Len(c.args)
         /\ \A i \in DOMAIN c.args : c.args[i].kind \in Kinds
<1> DEFINE P == [kind : Kinds, name : {c.params[i].name : i \in DOMAIN c.params},
                 default : {c.params[i].default : i \in DOMAIN c.params}]
           A == [kind : Kinds, code : {c.args[i].code : i \in DOMAIN c.args}]
<1>1. c.params \in Seq(P) /\ c.args \in Seq(A)
  BY CasesAssumption
<1>2. (\A p \in P : p.kind \in Kinds) /\ \A a \in A : a.kind \in Kinds
  OBVIOUS
<1> HIDE DEF P, A
<1>3. (\A i \in DOMAIN c.params : c.params[i] \in P) /\ \A i \in DOMAIN c.args : c.args[i] \in A
  BY <1>1, LenProperties, ElementOfSeq
<1> QED BY <1>1, <1>2, <1>3, LenProperties

\* The parameters with a default that no parameter without one follows are the last ones.
LEMMA Trailing ==
  ASSUME NEW c \in Cases
  PROVE  \E first \in 0..Len(c.params) :
           /\ Arity(c.params) = first..Len(c.params)
           /\ \A n \in 0..Len(c.params) :
                n >= first <=> \A i \in (n + 1)..Len(c.params) : c.params[i].default # None
<1> DEFINE len == Len(c.params)
           T == {n \in 0..len : \A i \in (n + 1)..len : c.params[i].default # None}
           D == {i \in DOMAIN c.params : \A j \in i..len : c.params[j].default # None}
<1>1. len \in Nat /\ DOMAIN c.params = 1..len
  BY ParamsShape
<1> HIDE DEF len
<1>2. len \in T /\ T \subseteq Nat
  BY <1>1
<1>3. PICK first \in T : \A y \in T : first <= y
  BY <1>2, LeastNat
<1>4. first \in 0..len /\ \A i \in (first + 1)..len : c.params[i].default # None
  OBVIOUS
<1>5. \A n \in 0..len : n >= first <=> \A i \in (n + 1)..len : c.params[i].default # None
  BY <1>1, <1>3, <1>4
<1>6. D = (first + 1)..len
  <2>1. ASSUME NEW i \in D PROVE i \in (first + 1)..len
    <3>1. i \in 1..len /\ i - 1 \in 0..len /\ i - 1 + 1 = i
      BY <1>1
    <3>2. i - 1 \in T
      BY <3>1
    <3>3. first <= i - 1
      BY <1>3, <3>2
    <3> QED BY <1>4, <3>1, <3>3
  <2>2. ASSUME NEW i \in (first + 1)..len PROVE i \in D
    BY <1>1, <1>4
  <2> QED BY <2>1, <2>2
<1>7. Cardinality((first + 1)..len) = len - first
  <2>1. first + 1 \in Int /\ len \in Int
    BY <1>1, <1>4
  <2> HIDE DEF T
  <2>2. Cardinality((first + 1)..len) = IF first + 1 > len THEN 0 ELSE len - (first + 1) + 1
    BY <2>1, FS_Interval
  <2> QED BY <1>1, <1>4, <2>2
<1>8. Defaults(c.params) = len - first
  BY <1>6, <1>7 DEF Defaults, len
<1>9. Arity(c.params) = first..len
  BY <1>1, <1>4, <1>8 DEF Arity, len
<1> QED BY <1>4, <1>5, <1>9 DEF len

\* The arms there are match what the trait accepts.
LEMMA ArmsAgree ==
  ASSUME NEW c \in Cases
  PROVE  Len(c.args) \in Arity(c.params) /\ Matches(c.params, c.args) <=> Agree(c.params, c.args)
<1> DEFINE given == Len(c.args)
           len == Len(c.params)
           kinds == \A i \in DOMAIN c.args : c.params[i].kind = c.args[i].kind
<1>1. /\ given \in Nat /\ DOMAIN c.args = 1..given
      /\ len \in Nat /\ DOMAIN c.params = 1..len
  BY ParamsShape
<1>2. PICK first \in 0..len :
        /\ Arity(c.params) = first..len
        /\ \A n \in 0..len : n >= first <=> \A i \in (n + 1)..len : c.params[i].default # None
  BY Trailing
<1>3. \A i \in DOMAIN c.args : \A k \in DOMAIN c.args[i].code : c.args[i].code[k].place # "meta"
  BY CasesAssumption DEF Source, Places
<1>4. Matches(c.params, c.args) <=> given <= len /\ kinds
  BY <1>3 DEF Matches
<1>5. Agree(c.params, c.args) <=> given <= len /\ kinds /\ \A i \in (given + 1)..len : c.params[i].default # None
  BY <1>1 DEF Agree
<1> HIDE DEF kinds, given, len
<1>6. given \in first..len <=> given <= len /\ \A i \in (given + 1)..len : c.params[i].default # None
  <2>1. CASE given <= len
    <3>1. given \in 0..len
      BY <1>1, <2>1
    <3>2. given >= first <=> \A i \in (given + 1)..len : c.params[i].default # None
      BY <1>2, <3>1
    <3>3. given \in first..len <=> given >= first
      BY <1>1, <2>1
    <3> QED BY <2>1, <3>2, <3>3
  <2>2. CASE ~(given <= len)
    BY <1>1, <2>2
  <2> QED BY <2>1, <2>2
<1> QED BY <1>2, <1>4, <1>5, <1>6 DEF given, len

\* What the helper makes of a piece of source under the arguments it was given is what the
\* source means under them, where it mentions only parameters among those.
LEMMA Substitutes ==
  ASSUME NEW c \in Cases, NEW code, Source(code), NEW args, NEW given,
         DOMAIN args \subseteq DOMAIN given, DOMAIN given \subseteq DOMAIN c.params,
         \A i \in DOMAIN args : given[i] = args[i].code,
         \A j \in DOMAIN c.params, k \in DOMAIN code :
           Stands(c.params[j], code[k]) => j \in DOMAIN args /\ code[k].place \notin {"segment", "macro"}
  PROVE  /\ Transcribe(Rewrite(c.params, code), args) = Meaning(c.params, given, code)
         /\ \A k \in DOMAIN code : Meaning(c.params, given, code)[k].place # "meta"
<1>1. \A j \in DOMAIN c.params : c.params[j].kind \in Kinds
  BY ParamsShape
<1> DEFINE in == Rewrite(c.params, code)
           out == Transcribe(in, args)
           sense == Meaning(c.params, given, code)
<1>3. /\ DOMAIN in = DOMAIN code /\ DOMAIN out = DOMAIN code /\ DOMAIN sense = DOMAIN code
      /\ out = [k \in DOMAIN code |-> out[k]] /\ sense = [k \in DOMAIN code |-> sense[k]]
  BY DEF Rewrite, Transcribe, Meaning
<1>4. ASSUME NEW k \in DOMAIN code
      PROVE  out[k] = sense[k] /\ sense[k].place # "meta"
  <2> DEFINE w == code[k]
             by == Replacing(c.params, w)
  <2>1. w.place \in Places
    BY DEF Source
  <2>2. by = {j \in DOMAIN c.params : Stands(c.params[j], w)}
    BY <1>1, <2>1 DEF Replacing, Stands, Spaces, Kinds, Places
  <2>3. by \subseteq DOMAIN args
    BY <1>1, <2>2
  <2>4. \A i, j \in by : i = j
    <3>1. ASSUME NEW i \in by, NEW j \in by PROVE i = j
      <4>1. i \in DOMAIN c.params /\ j \in DOMAIN c.params /\ c.params[i].name = c.params[j].name
            /\ (c.params[i].kind = "lifetime" <=> c.params[j].kind = "lifetime")
        BY <1>1, <2>1, <2>2 DEF Stands, Spaces, Kinds, Places
      <4> QED BY <4>1, CasesAssumption
    <3> QED BY <3>1
  <2>5. in[k] = IF by = {} THEN w ELSE Meta(CHOOSE i \in by : TRUE)
    BY DEF Rewrite
  <2>6. out[k] = IF in[k].place = "meta" /\ in[k].name \in DOMAIN args
                 THEN Fragment(args[in[k].name].code) ELSE in[k]
    BY <1>3 DEF Transcribe
  <2>7. sense[k] = IF \E i \in DOMAIN given : Stands(c.params[i], w)
                   THEN Fragment(given[CHOOSE i \in DOMAIN given : Stands(c.params[i], w)])
                   ELSE w
    BY DEF Meaning
  <2> HIDE DEF by, in, out, sense, w
  <2>8. CASE by = {}
    <3>1. ~ \E i \in DOMAIN given : Stands(c.params[i], w)
      BY <2>2, <2>8
    <3>2. w.place # "meta"
      BY <2>1 DEF Places
    <3> QED BY <2>5, <2>6, <2>7, <2>8, <3>1, <3>2
  <2>9. CASE by # {}
    <3>1. PICK i \in by : TRUE
      BY <2>9
    <3>2. by = {i} /\ i \in DOMAIN args /\ i \in DOMAIN given
      BY <2>3, <2>4, <3>1
    <3>3. (CHOOSE j \in by : TRUE) = i
      BY <3>2
    <3>4. in[k] = Meta(i)
      BY <2>5, <2>9, <3>3
    <3>5. out[k] = Fragment(args[i].code)
      BY <2>6, <3>2, <3>4 DEF Meta
    <3>6. Stands(c.params[i], w) /\ \A j \in DOMAIN given : Stands(c.params[j], w) => j = i
      BY <2>2, <3>2
    <3>7. sense[k] = Fragment(given[i])
      BY <2>7, <3>2, <3>6
    <3>8. given[i] = args[i].code
      BY <3>2
    <3> QED BY <3>5, <3>7, <3>8 DEF Fragment
  <2> QED BY <2>8, <2>9
<1> HIDE DEF out, sense
<1>5. out = sense /\ \A k \in DOMAIN code : sense[k].place # "meta"
  BY <1>3, <1>4
<1> QED BY <1>5 DEF out, sense, in

\* The arguments a block leaves out, in the sense of the source.
Omitted(c, i) ==
  Meaning(c.params, [j \in 1..Len(c.args) |-> c.args[j].code], c.params[i].default)
Whole(c, n) == [i \in 1..n |-> IF i <= Len(c.args) THEN c.args[i].code ELSE Omitted(c, i)]

\* A default means the same under the arguments passed and under all those before it, and
\* that is what the helper makes of it.
LEMMA DefaultsMean ==
  ASSUME NEW c \in Cases, Supported(c), Agree(c.params, c.args),
         NEW i \in 1..Len(c.params), i > Len(c.args)
  PROVE  /\ Meaning(c.params, Whole(c, i - 1), c.params[i].default) = Omitted(c, i)
         /\ Transcribe(Rewrite(c.params, c.params[i].default), c.args) = Omitted(c, i)
         /\ \A k \in DOMAIN Omitted(c, i) : Omitted(c, i)[k].place # "meta"
<1> DEFINE code == c.params[i].default
           n == Len(c.args)
           passed == [j \in 1..n |-> c.args[j].code]
<1>1. /\ Len(c.params) \in Nat /\ DOMAIN c.params = 1..Len(c.params)
      /\ n \in Nat /\ DOMAIN c.args = 1..n
  BY ParamsShape
<1> HIDE DEF n
<1>2. 1..n \subseteq 1..(i - 1) /\ 1..n \subseteq 1..Len(c.params) /\ 1..(i - 1) \subseteq 1..Len(c.params)
  BY <1>1 DEF n
<1>3. Source(code)
  <2>1. code # None
    BY <1>1 DEF Agree
  <2> QED BY <1>1, <2>1, CasesAssumption
<1>4. i \in (n + 1)..Len(c.params)
  BY <1>1 DEF n
<1>5. \A j \in DOMAIN c.params, k \in DOMAIN code :
        Stands(c.params[j], code[k]) => j \in DOMAIN c.args /\ code[k].place \notin {"segment", "macro"}
  BY <1>1, <1>4 DEF Supported, n
<1>6. DOMAIN passed = 1..n /\ \A j \in 1..n : passed[j] = c.args[j].code
  OBVIOUS
<1>7. DOMAIN Whole(c, i - 1) = 1..(i - 1) /\ \A j \in 1..n : Whole(c, i - 1)[j] = c.args[j].code
  BY <1>1, <1>2 DEF Whole, n
<1>8. Omitted(c, i) = Meaning(c.params, passed, code) /\ DOMAIN Omitted(c, i) = DOMAIN code
  BY DEF Omitted, Meaning, n
<1> HIDE DEF code, passed
<1>9. Transcribe(Rewrite(c.params, code), c.args) = Meaning(c.params, passed, code)
      /\ \A k \in DOMAIN code : Meaning(c.params, passed, code)[k].place # "meta"
  <2>1. DOMAIN c.args \subseteq DOMAIN passed /\ DOMAIN passed \subseteq DOMAIN c.params
        /\ \A j \in DOMAIN c.args : passed[j] = c.args[j].code
    BY <1>1, <1>2, <1>6
  <2> QED BY <1>3, <1>5, <2>1, Substitutes
<1>10. Transcribe(Rewrite(c.params, code), c.args) = Meaning(c.params, Whole(c, i - 1), code)
  <2>1. DOMAIN c.args \subseteq DOMAIN Whole(c, i - 1) /\ DOMAIN Whole(c, i - 1) \subseteq DOMAIN c.params
        /\ \A j \in DOMAIN c.args : Whole(c, i - 1)[j] = c.args[j].code
    BY <1>1, <1>2, <1>7
  <2> QED BY <1>3, <1>5, <2>1, Substitutes
<1> QED BY <1>8, <1>9, <1>10 DEF code

\* Filling in the arguments one by one, as the source means them.
LEMMA ComplementWhole ==
  ASSUME NEW c \in Cases, Supported(c), Agree(c.params, c.args)
  PROVE  Complement(c.params, c.args) = Whole(c, Len(c.params))
<1> DEFINE len == Len(c.params)
           next(before, i) == Append(before, IF i <= Len(c.args) THEN c.args[i].code
                                             ELSE Meaning(c.params, before, c.params[i].default))
           whole == [i \in 0..len |-> Whole(c, i)]
           upTo[i \in 0..len] == IF i = 0 THEN <<>> ELSE next(upTo[i - 1], i)
<1>1. len \in Nat /\ Len(c.args) \in Nat
  BY ParamsShape
<1>2. \A i \in 1..len : next(Whole(c, i - 1), i) = Whole(c, i)
  <2> SUFFICES ASSUME NEW i \in 1..len PROVE next(Whole(c, i - 1), i) = Whole(c, i)
    OBVIOUS
  <2> DEFINE x == IF i <= Len(c.args) THEN c.args[i].code ELSE Omitted(c, i)
             W == {Whole(c, i)[j] : j \in 1..i}
  <2>1. next(Whole(c, i - 1), i) = Append(Whole(c, i - 1), x)
    BY <1>1, DefaultsMean
  <2>2. /\ i \in Nat /\ i - 1 \in Nat /\ i - 1 + 1 = i
        /\ \A j \in 1..(i - 1) : j \in 1..i /\ j # i
        /\ \A j \in 1..i : j = i \/ j \in 1..(i - 1)
    BY <1>1
  <2>3. Whole(c, i)[i] = x /\ \A j \in 1..(i - 1) : Whole(c, i)[j] = Whole(c, i - 1)[j]
    BY <1>1, <2>2 DEF Whole
  <2>4. Whole(c, i - 1) = [j \in 1..(i - 1) |-> Whole(c, i - 1)[j]] /\ Whole(c, i) = [j \in 1..i |-> Whole(c, i)[j]]
    BY DEF Whole
  <2> HIDE DEF x
  <2>5. (\A j \in 1..(i - 1) : Whole(c, i - 1)[j] \in W) /\ x \in W /\ \A j \in 1..i : Whole(c, i)[j] \in W
    BY <2>2, <2>3
  <2> HIDE DEF W
  <2>6. Whole(c, i - 1) \in Seq(W) /\ Len(Whole(c, i - 1)) = i - 1
    <3>1. Whole(c, i - 1) \in [1..(i - 1) -> W]
      BY <2>4, <2>5
    <3>2. Whole(c, i - 1) \in Seq(W)
      BY <2>2, <3>1, SeqDef
    <3> QED BY <2>2, <3>1, <3>2, LenProperties
  <2> DEFINE s == Append(Whole(c, i - 1), x)
  <2>7. /\ s \in Seq(W) /\ Len(s) = i /\ s[i] = x
        /\ \A j \in 1..(i - 1) : s[j] = Whole(c, i - 1)[j]
    BY <2>2, <2>5, <2>6, AppendProperties
  <2> HIDE DEF s
  <2>8. s = [j \in 1..i |-> s[j]]
    BY <2>7, LenProperties
  <2>9. \A j \in 1..i : s[j] = Whole(c, i)[j]
    BY <2>2, <2>3, <2>7
  <2>10. s = Whole(c, i)
    BY <2>4, <2>8, <2>9
  <2> QED BY <2>1, <2>10 DEF s
<1>3. whole = [i \in 0..len |-> IF i = 0 THEN <<>> ELSE next(whole[i - 1], i)]
  <2>1. Whole(c, 0) = <<>>
    BY DEF Whole
  <2>2. \A i \in 0..len : i # 0 => i \in 1..len /\ i - 1 \in 0..len
    BY <1>1
  <2>3. \A i \in 0..len : i # 0 => whole[i - 1] = Whole(c, i - 1)
    BY <2>2
  <2> HIDE DEF next, len
  <2>4. \A i \in 0..len : Whole(c, i) = IF i = 0 THEN <<>> ELSE next(whole[i - 1], i)
    BY <1>2, <2>1, <2>2, <2>3
  <2> QED BY <2>4
<1>4. upTo = [i \in 0..len |-> IF i = 0 THEN <<>> ELSE next(upTo[i - 1], i)]
  <2>1. \E f : f = [i \in 0..len |-> IF i = 0 THEN <<>> ELSE next(f[i - 1], i)]
    BY <1>3
  <2> QED BY <2>1
<1>5. Complement(c.params, c.args) = upTo[len]
  BY DEF Complement
<1> HIDE DEF upTo, next, whole, len
<1>6. \A i \in 0..len : upTo[i] = Whole(c, i)
  <2> DEFINE T == {i \in 0..len : upTo[i] # Whole(c, i)}
  <2> SUFFICES ASSUME T # {} PROVE FALSE
    OBVIOUS
  <2>1. T \subseteq Nat
    BY <1>1
  <2>2. PICK i \in T : \A y \in T : i <= y
    BY <2>1, LeastNat
  <2>3. upTo[0] = <<>> /\ Whole(c, 0) = <<>>
    BY <1>1, <1>4 DEF Whole
  <2>4. i \in 1..len /\ i - 1 \in 0..len
    BY <1>1, <2>2, <2>3
  <2>5. upTo[i - 1] = Whole(c, i - 1)
    BY <2>1, <2>2, <2>4
  <2>6. upTo[i] = next(upTo[i - 1], i)
    BY <1>1, <1>4, <2>4
  <2> QED BY <1>2, <2>2, <2>4, <2>5, <2>6
<1> QED BY <1>1, <1>5, <1>6 DEF len

-----------------------------------------------------------------------------
(* With which arguments the helper is invoked, and why it fails. *)

\* All of the arguments, in the sense of the source.
Right(c, args) ==
  /\ Agree(c.params, c.args)
  /\ DOMAIN args = DOMAIN c.params
  /\ \A i \in DOMAIN c.params : args[i].code = Whole(c, Len(c.params))[i]

\* Every invocation but the one the impl block made, which may lack some, has as many as the
\* trait has parameters; they are the right ones if the helper can fill in the defaults.
ArgsInv ==
  \A call \in calls :
    \/ /\ Agree(case.params, case.args)
       /\ Len(call.args) = Len(case.params)
       /\ Supported(case) => Right(case, call.args) /\ Matches(case.params, call.args)
    \/ call.form = "open" /\ call.args = case.args

\* What is emitted was transcribed with them.
ItemsInv ==
  Supported(case) =>
    \A k \in DOMAIN items :
      LET m == MethodNamed(case, items[k].method) IN
      /\ Forwardable(m)
      /\ \E args : Right(case, args) /\ items[k] = Forwarder(case, m, args)

Refused(c) == ~FlagAccepted(c) \/ ~BlockAccepted(c)
Unforwardable(c, names) ==
  {[why |-> "receiver", method |-> n] : n \in {r \in names : ~Forwardable(MethodNamed(c, r))}}

\* Each error has its reason; as methods are looked up one by one, so are the errors of
\* those that are not forwarded.
ErrorsInv ==
  /\ phase = "impl" => FlagAccepted(case)
  /\ phase = "helper" =>
       \/ Refused(case) /\ calls = {} /\ errors = {[why |-> "attribute", method |-> None]}
       \/ ~Refused(case) /\ Opening /\ errors = {}
       \/ /\ ~Refused(case)
          /\ Supported(case) => ~Agree(case.params, case.args)
          /\ calls = {} /\ errors = {[why |-> "arguments", method |-> None]}
       \/ /\ ~Refused(case) /\ Agree(case.params, case.args) /\ ~Opening
          /\ errors = Unforwardable(case, Missing(case) \ Pending)

\* The arms for omitted defaults pass on as many arguments as there are parameters.
LEMMA FilledWhole ==
  ASSUME NEW c \in Cases
  PROVE  Len(Filled(c.params, c.args)) = Len(c.params)
<1> DEFINE args == Filled(c.params, c.args)
           len == Len(c.params)
           W == {args[i] : i \in 1..len}
<1>1. len \in Nat /\ DOMAIN c.params = 1..len
  BY ParamsShape
<1>2. args = [i \in 1..len |-> args[i]] /\ DOMAIN args = 1..len
  BY <1>1 DEF Filled
<1> HIDE DEF args
<1>3. args \in [1..len -> W]
  BY <1>2
<1> HIDE DEF W
<1>4. args \in Seq(W)
  BY <1>1, <1>3, SeqDef
<1>5. Len(args) = len
  BY <1>1, <1>2, <1>4, LenProperties
<1> QED BY <1>5 DEF args

\* Invoked with arguments the trait accepts, the helper completes them.
LEMMA FilledRight ==
  ASSUME NEW c \in Cases, Supported(c), Agree(c.params, c.args)
  PROVE  /\ Right(c, Filled(c.params, c.args))
         /\ Matches(c.params, Filled(c.params, c.args))
<1> DEFINE args == Filled(c.params, c.args)
           len == Len(c.params)
<1>1. /\ len \in Nat /\ DOMAIN c.params = 1..len
      /\ Len(c.args) \in Nat /\ DOMAIN c.args = 1..Len(c.args)
  BY ParamsShape
<1>2. args = [i \in 1..len |-> args[i]] /\ DOMAIN args = 1..len
  BY <1>1 DEF Filled
<1>3. ASSUME NEW i \in 1..len
      PROVE  /\ args[i].code = Whole(c, len)[i] /\ args[i].kind = c.params[i].kind
             /\ \A k \in DOMAIN args[i].code : args[i].code[k].place # "meta"
  <2>1. Whole(c, len)[i] = IF i <= Len(c.args) THEN c.args[i].code ELSE Omitted(c, i)
    BY DEF Whole
  <2>2. CASE i <= Len(c.args)
    <3>1. args[i] = c.args[i] /\ i \in DOMAIN c.args
      BY <1>1, <2>2 DEF Filled
    <3>2. c.args[i].kind = c.params[i].kind
      BY <1>1, <2>2 DEF Agree
    <3>3. \A k \in DOMAIN c.args[i].code : c.args[i].code[k].place # "meta"
      BY <3>1, CasesAssumption DEF Source, Places
    <3> QED BY <2>1, <2>2, <3>1, <3>2, <3>3
  <2>3. CASE ~(i <= Len(c.args))
    <3>1. args[i] = [kind |-> c.params[i].kind,
                     code |-> Transcribe(Rewrite(c.params, c.params[i].default), c.args)]
      BY <1>1, <2>3 DEF Filled
    <3>2. /\ Transcribe(Rewrite(c.params, c.params[i].default), c.args) = Omitted(c, i)
          /\ \A k \in DOMAIN Omitted(c, i) : Omitted(c, i)[k].place # "meta"
      BY <1>1, <2>3, DefaultsMean
    <3> QED BY <2>1, <2>3, <3>1, <3>2
  <2> QED BY <2>2, <2>3
<1>4. Len(args) = len
  BY FilledWhole
<1> HIDE DEF args
<1>5. Right(c, args)
  BY <1>1, <1>2, <1>3 DEF Right
<1>6. Matches(c.params, args)
  <2>1. Len(args) <= Len(c.params)
    BY <1>1, <1>4
  <2>2. \A i \in DOMAIN args : c.params[i].kind = args[i].kind
    BY <1>2, <1>3
  <2>3. \A i \in DOMAIN args : \A k \in DOMAIN args[i].code : args[i].code[k].place # "meta"
    BY <1>2, <1>3
  <2> HIDE DEF len
  <2> QED BY <2>1, <2>2, <2>3 DEF Matches
<1> QED BY <1>5, <1>6 DEF args

\* Those of a block that leaves none out are complete.
LEMMA PassedRight ==
  ASSUME NEW c \in Cases, Len(c.args) = Len(c.params), Agree(c.params, c.args)
  PROVE  Right(c, c.args)
BY ParamsShape DEF Right, Whole

\* Under the right arguments a signature means what the trait says.
LEMMA SignaturesMean ==
  ASSUME NEW c \in Cases, Supported(c), NEW n \in Names(c.methods), NEW args, Right(c, args),
         \A w \in DOMAIN MethodNamed(c, n).sig : MethodNamed(c, n).sig[w].place \notin {"segment", "macro"}
  PROVE  Transcribe(Rewrite(c.params, MethodNamed(c, n).sig), args)
           = Meaning(c.params, Complement(c.params, c.args), MethodNamed(c, n).sig)
<1> DEFINE sig == MethodNamed(c, n).sig
           len == Len(c.params)
           given == Whole(c, len)
<1>1. len \in Nat /\ DOMAIN c.params = 1..len
  BY ParamsShape
<1>2. Source(sig)
  <2>1. PICK i \in DOMAIN c.methods : MethodNamed(c, n) = c.methods[i]
    BY MethodOf
  <2> QED BY <2>1, CasesAssumption
<1>3. Complement(c.params, c.args) = given
  BY ComplementWhole DEF Right
<1>4. DOMAIN args = 1..len /\ DOMAIN given = 1..len /\ \A i \in 1..len : given[i] = args[i].code
  BY <1>1 DEF Right, Whole
<1>5. \A j \in DOMAIN c.params, k \in DOMAIN sig :
        Stands(c.params[j], sig[k]) => j \in DOMAIN args /\ sig[k].place \notin {"segment", "macro"}
  BY <1>1, <1>4
<1> HIDE DEF sig, given
<1>6. Transcribe(Rewrite(c.params, sig), args) = Meaning(c.params, given, sig)
  <2>1. DOMAIN args \subseteq DOMAIN given /\ DOMAIN given \subseteq DOMAIN c.params
        /\ \A j \in DOMAIN args : given[j] = args[j].code
    BY <1>1, <1>4
  <2> QED BY <1>2, <1>5, <2>1, Substitutes
<1> QED BY <1>3, <1>6 DEF sig

LEMMA InitRight == Init => ArgsInv /\ ItemsInv /\ ErrorsInv
BY DEF Init, ArgsInv, ItemsInv, ErrorsInv

\* The first arm is reached for arguments the trait accepts only, and with the right ones.
LEMMA OpenRight ==
  ASSUME IInv, ArgsInv, NEW call \in calls, Open(call)
  PROVE  Agree(case.params, case.args) /\ (Supported(case) => Right(case, call.args))
<1>1. case \in Cases /\ Len(call.args) = Len(case.params) /\ Matches(case.params, call.args)
  BY DEF IInv, Open
<1>2. CASE call.args = case.args
  <2>1. PICK first \in 0..Len(case.params) : Arity(case.params) = first..Len(case.params)
    BY <1>1, Trailing
  <2>2. Len(case.args) \in Arity(case.params)
    BY <1>1, <1>2, <2>1, ParamsShape
  <2>3. Agree(case.params, case.args)
    BY <1>1, <1>2, <2>2, ArmsAgree
  <2> QED BY <1>1, <1>2, <2>3, PassedRight
<1> QED BY <1>2 DEF ArgsInv

\* Defaults are filled in for a block that may leave them out, and once.
LEMMA FillInRight ==
  ASSUME IInv, ArgsInv, NEW call \in calls, FillIn(call)
  PROVE  call.args = case.args /\ Agree(case.params, case.args)
<1>1. case \in Cases /\ Matches(case.params, call.args)
      /\ Len(call.args) \in Arity(case.params) /\ Len(call.args) # Len(case.params)
  BY DEF IInv, FillIn
<1>2. call.args = case.args
  BY <1>1 DEF ArgsInv
<1> QED BY <1>1, <1>2, ArmsAgree

\* The last arm is reached with the block's own arguments, which the trait does not accept,
\* or with defaults the helper could not fill in.
LEMMA UnmatchedWrong ==
  ASSUME IInv, ArgsInv, NEW call \in calls, Unmatched(call)
  PROVE  Supported(case) => ~Agree(case.params, case.args)
<1> SUFFICES ASSUME Supported(case) PROVE ~Agree(case.params, case.args)
  OBVIOUS
<1>1. case \in Cases /\ ~(Len(call.args) \in Arity(case.params) /\ Matches(case.params, call.args))
  BY DEF IInv, Unmatched
<1>2. Len(case.params) \in Arity(case.params)
  <2>1. PICK first \in 0..Len(case.params) : Arity(case.params) = first..Len(case.params)
    BY <1>1, Trailing
  <2> QED BY <1>1, <2>1, ParamsShape
<1>3. call.args = case.args
  BY <1>1, <1>2 DEF ArgsInv
<1> QED BY <1>1, <1>3, ArmsAgree

\* Looking a method up, the helper passes on what it was invoked with.
LEMMA NextArgs ==
  ASSUME IInv, ArgsInv, [Next]_vars
  PROVE  ArgsInv'
<1>0. case \in Cases /\ case' = case
  BY DEF IInv, Next, vars, ExpandTraitDef, ExpandTraitImpl, ExpandHelper, Ended
<1>1. CASE ExpandTraitDef \/ Ended \/ UNCHANGED vars
  BY <1>0, <1>1 DEF ExpandTraitDef, Ended, vars, ArgsInv
<1>2. CASE ExpandTraitImpl
  BY <1>0, <1>2 DEF ExpandTraitImpl, ArgsInv, Invocation, IInv, Quiet
<1>3. CASE ExpandHelper
  <2>1. PICK call \in calls : Expand(call)
    BY <1>3 DEF ExpandHelper
  <2>2. CASE Open(call)
    <3>1. Agree(case.params, case.args) /\ (Supported(case) => Right(case, call.args))
      BY <2>2, OpenRight
    <3>2. \A new \in calls' : new \in calls \/ new.args = call.args
      BY <2>2 DEF Open, Maybe
    <3> QED BY <1>0, <2>2, <3>1, <3>2 DEF ArgsInv, Open
  <2>3. CASE FillIn(call)
    <3>1. call.args = case.args /\ Agree(case.params, case.args)
      BY <2>3, FillInRight
    <3>2. \A new \in calls' : new \in calls \/ new.args = Filled(case.params, case.args)
      BY <2>3, <3>1 DEF FillIn, Invocation
    <3>3. Len(Filled(case.params, case.args)) = Len(case.params)
      BY <1>0, FilledWhole
    <3>4. Supported(case) => /\ Right(case, Filled(case.params, case.args))
                             /\ Matches(case.params, Filled(case.params, case.args))
      BY <1>0, <3>1, FilledRight
    <3> QED BY <1>0, <3>1, <3>2, <3>3, <3>4 DEF ArgsInv
  <2>4. CASE Pop(call)
    <3>1. call.form = "maybe"
      BY <2>4 DEF Pop
    <3>2. \A new \in calls' : new \in calls \/ new.args = call.args
      BY <2>4 DEF Pop, Maybe
    <3> QED BY <1>0, <3>1, <3>2 DEF ArgsInv
  <2>5. CASE SkipWritten(call) \/ Forward(call) \/ Unmatched(call)
    BY <1>0, <2>5 DEF ArgsInv, SkipWritten, Forward, Unmatched
  <2> QED BY <2>1, <2>2, <2>3, <2>4, <2>5 DEF Expand
<1> QED BY <1>1, <1>2, <1>3 DEF Next

LEMMA NextItems ==
  ASSUME IInv, ArgsInv, ItemsInv, [Next]_vars
  PROVE  ItemsInv'
<1>0. case \in Cases /\ case' = case
  BY DEF IInv, Next, vars, ExpandTraitDef, ExpandTraitImpl, ExpandHelper, Ended
<1> SUFFICES ASSUME Supported(case) PROVE ItemsInv'
  BY <1>0 DEF ItemsInv
<1>1. CASE items' = items
  BY <1>0, <1>1 DEF ItemsInv
<1>2. ASSUME NEW call \in calls, Forward(call), items' # items
      PROVE  ItemsInv'
  <2> DEFINE m == MethodNamed(case, call.method)
             f == Forwarder(case, m, call.args)
  <2>1. Forwardable(m) /\ items' = Append(items, f) /\ call.form = "maybe"
    BY <1>2 DEF Forward
  <2>2. Right(case, call.args)
    BY <2>1 DEF ArgsInv
  <2>3. call.method \in Required(case)
    BY <2>1, CallShape DEF IInv
  <2>4. f.method = call.method
    BY <1>0, <2>1, <2>3, ForwarderShape
  <2> DEFINE T == [method : Required(case), gated : BOOLEAN, through : {"&", "&mut", "move"},
                   sig : {items[i].sig : i \in DOMAIN items}]
  <2>5. items \in Seq(T)
    BY DEF IInv, TypeOK
  <2> HIDE DEF T, f
  <2>6. /\ Len(items) \in Nat /\ DOMAIN items = 1..Len(items) /\ DOMAIN items' = 1..(Len(items) + 1)
        /\ items'[Len(items) + 1] = f /\ \A i \in 1..Len(items) : items'[i] = items[i]
    BY <2>1, <2>5, LenProperties, AppendProperties
  <2>7. ASSUME NEW k \in DOMAIN items'
        PROVE  LET n == MethodNamed(case, items'[k].method) IN
               Forwardable(n) /\ \E args : Right(case, args) /\ items'[k] = Forwarder(case, n, args)
    <3>1. CASE k = Len(items) + 1
      <4>1. items'[k] = f /\ items'[k].method = call.method
        BY <2>4, <2>6, <3>1
      <4> QED BY <2>1, <2>2, <4>1 DEF f
    <3>2. CASE k # Len(items) + 1
      <4>1. k \in DOMAIN items /\ items'[k] = items[k]
        BY <2>6, <3>2
      <4> QED BY <4>1 DEF ItemsInv
    <3> QED BY <3>1, <3>2
  <2> QED BY <1>0, <2>7 DEF ItemsInv
<1>3. items' = items \/ \E call \in calls : Forward(call)
  BY DEF Next, vars, ExpandTraitDef, ExpandTraitImpl, ExpandHelper, Ended, Expand, Open, SkipWritten,
         Pop, FillIn, Unmatched
<1> QED BY <1>1, <1>2, <1>3

LEMMA NextErrors ==
  ASSUME IInv, ArgsInv, ErrorsInv, [Next]_vars
  PROVE  ErrorsInv'
<1>0. case \in Cases /\ case' = case
  BY DEF IInv, Next, vars, ExpandTraitDef, ExpandTraitImpl, ExpandHelper, Ended
<1>1. CASE Ended \/ UNCHANGED vars
  <2>1. UNCHANGED vars
    BY <1>1 DEF Ended
  <2> QED BY <2>1 DEF vars, ErrorsInv, Opening, Pending
<1>2. CASE ExpandTraitDef
  BY <1>0, <1>2 DEF ExpandTraitDef, IInv, Quiet, ErrorsInv, Refused
<1>3. CASE ExpandTraitImpl
  <2>1. phase' = "helper" /\ calls = {} /\ errors = {} /\ FlagAccepted(case)
    BY <1>3 DEF ExpandTraitImpl, IInv, Quiet, ErrorsInv
  <2>2. CASE BlockAccepted(case)
    <3>1. errors' = {} /\ Opening'
      <4>1. Invocation(case.args, case.written).form = "open"
        BY DEF Invocation
      <4>2. errors' = {} /\ calls' = {Invocation(case.args, case.written)}
        BY <1>3, <2>1, <2>2 DEF ExpandTraitImpl
      <4> QED BY <4>1, <4>2 DEF Opening
    <3> QED BY <1>0, <2>1, <2>2, <3>1 DEF ErrorsInv, Refused
  <2>3. CASE ~BlockAccepted(case)
    BY <1>0, <1>3, <2>1, <2>3 DEF ExpandTraitImpl, ErrorsInv, Refused
  <2> QED BY <2>2, <2>3
<1>4. CASE ExpandHelper
  <2>1. PICK call \in calls : Expand(call)
    BY <1>4 DEF ExpandHelper
  <2>2. phase = "helper" /\ phase' = "helper"
    BY <1>4 DEF ExpandHelper
  <2>3. ~Refused(case)
    BY <2>1, <2>2 DEF ErrorsInv
  <2>4. CASE Open(call)
    <3>1. Opening /\ errors = {} /\ errors' = {}
      BY <2>2, <2>4 DEF ErrorsInv, Opening, Open
    <3>2. calls = {call}
      BY <3>1 DEF IInv, Quiet
    <3>3. calls' = {Maybe(n, call.args, call.skip) : n \in Required(case)}
      BY <2>4, <3>2 DEF Open
    <3>4. ~Opening' /\ Required(case) \subseteq Pending'
      <4>1. \A n : Maybe(n, call.args, call.skip).form = "maybe" /\ Maybe(n, call.args, call.skip).method = n
        BY DEF Maybe
      <4> QED BY <3>3, <4>1 DEF Opening, Pending
    <3>5. Agree(case.params, case.args)
      BY <2>4, OpenRight
    <3>6. Missing(case) \ Pending' = {}
      BY <3>4 DEF Missing
    <3>7. errors' = Unforwardable(case, Missing(case) \ Pending')
      BY <3>1, <3>6 DEF Unforwardable
    <3> QED BY <1>0, <2>2, <2>3, <3>4, <3>5, <3>7 DEF ErrorsInv
  <2>5. CASE FillIn(call)
    <3>1. Opening /\ errors = {} /\ errors' = {}
      BY <2>2, <2>5 DEF ErrorsInv, Opening, FillIn
    <3>2. Opening'
      <4>1. \A args, skip : Invocation(args, skip).form = "open"
        BY DEF Invocation
      <4>2. Invocation(Filled(case.params, call.args), call.skip) \in calls'
        BY <2>5 DEF FillIn
      <4> QED BY <4>1, <4>2 DEF Opening
    <3> QED BY <1>0, <2>2, <2>3, <3>1, <3>2 DEF ErrorsInv
  <2>6. CASE Unmatched(call)
    <3>1. Opening /\ errors = {}
      BY <2>2, <2>6 DEF ErrorsInv, Opening, Unmatched
    <3>2. calls = {call}
      BY <3>1 DEF IInv, Quiet
    <3>3. calls' = {} /\ errors' = {[why |-> "arguments", method |-> None]}
      BY <2>6, <3>1, <3>2 DEF Unmatched
    <3>4. Supported(case) => ~Agree(case.params, case.args)
      BY <2>6, UnmatchedWrong
    <3> QED BY <1>0, <2>2, <2>3, <3>3, <3>4 DEF ErrorsInv
  <2>7. ASSUME call.form = "maybe"
        PROVE  /\ ~Opening /\ Agree(case.params, case.args)
               /\ errors = Unforwardable(case, Missing(case) \ Pending)
               /\ \A x \in calls : x.method = call.method => x = call
    <3>1. ~Opening
      BY <2>7, NoneOpen
    <3> QED BY <2>2, <3>1 DEF ErrorsInv, IInv, Subtracting
  <2>8. CASE SkipWritten(call)
    <3>1. call.form = "maybe" /\ calls' = calls \ {call} /\ errors' = errors
      BY <2>8 DEF SkipWritten
    <3>2. call.method \notin Missing(case)
      <4>1. call.skip \in Seq(Written(case))
        BY <3>1, CallShape DEF IInv
      <4>2. call.method \in In(call.skip)
        BY <2>8, <4>1, InTail DEF SkipWritten
      <4> QED BY <3>1, <4>2 DEF IInv, Subtracting, Missing
    <3>3. Pending' = Pending \ {call.method}
      BY <2>7, <3>1 DEF Pending
    <3>4. Missing(case) \ Pending' = Missing(case) \ Pending
      BY <3>2, <3>3
    <3>5. ~Opening'
      BY <2>7, <3>1 DEF Opening
    <3> QED BY <1>0, <2>2, <2>3, <2>7, <3>1, <3>4, <3>5 DEF ErrorsInv
  <2>9. CASE Pop(call)
    <3>1. /\ call.form = "maybe" /\ errors' = errors
          /\ calls' = (calls \ {call}) \cup {Maybe(call.method, call.args, Tail(call.skip))}
      BY <2>9 DEF Pop
    <3>2. Pending' = Pending
      <4>1. Maybe(call.method, call.args, Tail(call.skip)).method = call.method
        BY DEF Maybe
      <4> QED BY <3>1, <4>1 DEF Pending
    <3>3. ~Opening'
      BY <2>7, <3>1 DEF Opening, Maybe
    <3> QED BY <1>0, <2>2, <2>3, <2>7, <3>1, <3>2, <3>3 DEF ErrorsInv
  <2>10. CASE Forward(call)
    <3> DEFINE m == MethodNamed(case, call.method)
               left == Missing(case) \ Pending
    <3>1. call.form = "maybe" /\ calls' = calls \ {call} /\ call.skip = <<>>
      BY <2>10 DEF Forward
    <3>2. call.method \in Missing(case) /\ call.method \in Pending
      <4>1. call.method \in Required(case)
        BY <3>1, CallShape DEF IInv
      <4>2. call.method \notin In(call.skip)
        BY <3>1 DEF In
      <4> QED BY <3>1, <4>1, <4>2 DEF IInv, Subtracting, Missing, Pending
    <3>3. Pending' = Pending \ {call.method}
      BY <2>7, <3>1 DEF Pending
    <3>4. Missing(case) \ Pending' = left \cup {call.method}
      BY <3>2, <3>3
    <3>5. m.name = call.method
      <4>1. call.method \in Names(case.methods)
        BY <1>0, <3>2, CaseShape DEF Missing
      <4>2. PICK i \in DOMAIN case.methods :
              MethodNamed(case, call.method) = case.methods[i] /\ case.methods[i].name = call.method
        BY <1>0, <4>1, MethodOf
      <4> QED BY <4>2
    <3>6. errors' = IF Forwardable(m) THEN errors
                    ELSE errors \cup {[why |-> "receiver", method |-> call.method]}
      BY <2>10, <3>5 DEF Forward
    <3>7. Unforwardable(case, left \cup {call.method})
            = IF Forwardable(m) THEN Unforwardable(case, left)
              ELSE Unforwardable(case, left) \cup {[why |-> "receiver", method |-> call.method]}
      BY DEF Unforwardable
    <3>8. ~Opening'
      BY <2>7, <3>1 DEF Opening
    <3>9. errors' = Unforwardable(case, Missing(case) \ Pending')
      BY <2>7, <3>1, <3>4, <3>6, <3>7
    <3> QED BY <1>0, <2>2, <2>3, <2>7, <3>1, <3>8, <3>9 DEF ErrorsInv
  <2> QED BY <2>1, <2>4, <2>5, <2>6, <2>8, <2>9, <2>10 DEF Expand
<1> QED BY <1>1, <1>2, <1>3, <1>4 DEF Next

LEMMA AlwaysRight == Spec => [](IInv /\ ArgsInv /\ ItemsInv /\ ErrorsInv)
<1>1. IInv /\ ArgsInv /\ ItemsInv /\ ErrorsInv /\ [Next]_vars
        => (IInv /\ ArgsInv /\ ItemsInv /\ ErrorsInv)'
  BY InvNext, NextArgs, NextItems, NextErrors
<1>2. Init => IInv /\ ArgsInv /\ ItemsInv /\ ErrorsInv
  BY InvInit, InitRight
<1> QED BY <1>1, <1>2, PTL DEF Spec

\* For every trait and every impl block whose omitted defaults the helper can fill in: what
\* is forwarded has the signature the trait gives it under the block's arguments, those
\* left out included, and passes its receiver on the way it is taken.
THEOREM DelegateTrueSignatures ==
  ASSUME \A c \in Cases : Supported(c)
  PROVE  Spec => []TrueSignatures
<1>0. IInv => Supported(case)
  BY DEF IInv
<1>1. IInv /\ ItemsInv => TrueSignatures
  <2> SUFFICES ASSUME IInv, ItemsInv, NEW k \in DOMAIN items,
                      \A w \in DOMAIN MethodNamed(case, items[k].method).sig :
                        MethodNamed(case, items[k].method).sig[w].place \notin {"segment", "macro"}
               PROVE  LET m == MethodNamed(case, items[k].method)
                          given == Complement(case.params, case.args)
                      IN  /\ items[k].sig = Meaning(case.params, given, m.sig)
                          /\ items[k].through = "move" <=> m.receiver = "value"
                          /\ items[k].through = "&mut" <=> m.receiver = "mut"
    BY DEF TrueSignatures
  <2> DEFINE m == MethodNamed(case, items[k].method)
  <2>1. Forwardable(m) /\ \E args : Right(case, args) /\ items[k] = Forwarder(case, m, args)
    BY <1>0 DEF ItemsInv
  <2>2. PICK args : Right(case, args) /\ items[k] = Forwarder(case, m, args)
    BY <2>1
  <2>3. case \in Cases /\ items[k].method \in Names(case.methods)
    BY CaseShape DEF IInv, Settled, Missing
  <2>4. m.receiver \in Receivers
    BY <2>3, MethodOf
  <2>5. Transcribe(Rewrite(case.params, m.sig), args)
          = Meaning(case.params, Complement(case.params, case.args), m.sig)
    BY <2>2, <2>3, SignaturesMean
  <2> HIDE DEF m
  <2>6. items[k].sig = Transcribe(Rewrite(case.params, m.sig), args) /\ items[k].through = Through(m.receiver)
    BY <2>2 DEF Forwarder
  <2>7. /\ Through(m.receiver) = "move" <=> m.receiver = "value"
        /\ Through(m.receiver) = "&mut" <=> m.receiver = "mut"
    BY <2>1, <2>4 DEF Forwardable, Receivers, Through
  <2> QED BY <2>5, <2>6, <2>7 DEF m
<1> QED BY <1>1, AlwaysRight, PTL

\* For every trait and every impl block: nothing that has to fail is expanded without an
\* error; and unless a default the block leaves out mentions another one, or a method
\* compiled out could not be forwarded, the errors are exactly those that are due.
THEOREM DelegateFailsRightly == Spec => []FailsRightly
<1>1. IInv /\ ErrorsInv => FailsRightly
  <2> SUFFICES ASSUME IInv, ErrorsInv, phase = "helper", calls = {}
               PROVE  /\ Due(case) # {} => errors # {}
                      /\ Supported(case) /\ CompiledOutForwardable(case) => errors = Due(case)
    BY DEF FailsRightly, Finished
  <2> DEFINE due == {[why |-> "receiver", method |-> n] :
                       n \in {r \in Required(case) \ Written(case) :
                                /\ ~MethodNamed(case, r).gated
                                /\ ~Forwardable(MethodNamed(case, r))}}
  <2>1. ~Opening /\ Missing(case) \ Pending = Required(case) \ Written(case)
    BY DEF Opening, Pending, Missing
  <2>2. CASE Refused(case) /\ errors = {[why |-> "attribute", method |-> None]}
    BY <2>2 DEF Due, Refused
  <2>3. CASE /\ ~Refused(case)
             /\ Supported(case) => ~Agree(case.params, case.args)
             /\ errors = {[why |-> "arguments", method |-> None]}
    BY <2>3 DEF Due, Refused
  <2>4. CASE /\ ~Refused(case) /\ Agree(case.params, case.args)
             /\ errors = Unforwardable(case, Missing(case) \ Pending)
    <3>1. Due(case) = due
      BY <2>4 DEF Due, Refused
    <3>2. due \subseteq errors
      BY <2>1, <2>4 DEF Unforwardable
    <3>3. CompiledOutForwardable(case) => errors \subseteq due
      BY <2>1, <2>4 DEF Unforwardable, CompiledOutForwardable
    <3> HIDE DEF due
    <3> QED BY <3>1, <3>2, <3>3
  <2> QED BY <2>1, <2>2, <2>3, <2>4 DEF ErrorsInv
<1> QED BY <1>1, AlwaysRight, PTL
=============================================================================
