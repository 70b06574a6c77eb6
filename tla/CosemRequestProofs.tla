------------------------- MODULE CosemRequestProofs -------------------------
(***************************************************************************)
(* For every request that clients make, whatever its objects, times,       *)
(* values and number of items, and whatever the hours of summer time: what *)
(* a client meant with a request that is supported is what the meter is    *)
(* asked for (UnderstoodTheorem), and no parser reads over the end of a    *)
(* request (TypeOKTheorem).                                                *)
(*                                                                         *)
(* The first half says what the parser reads of what a client writes: a    *)
(* part of a request, wherever it lies, takes the parser behind it and     *)
(* leaves certain results (Reads).  The parts are put together to whole    *)
(* requests (AllWritten).  The parser is deterministic, so that every step *)
(* is one on the way to the end that was found so (ParsesOn).  There, what *)
(* is looked up in the results is what was written (FinishMeant).          *)
(***************************************************************************)
EXTENDS CosemRequest, SequenceTheorems, WellFoundedInduction, TLAPS

-----------------------------------------------------------------------------
(* Induction and recursion over the naturals.                              *)

\* Every set of naturals that is not empty has a least element.
LEMMA Least ==
    ASSUME NEW T, T \subseteq Nat, T # {}
    PROVE  \E m \in T : \A k \in T : m <= k
<1> DEFINE R == OpToRel(<, Nat)
<1>1. IsWellFoundedOn(R, Nat)
  BY NatLessThanWellFounded
<1>2. \A a, b \in Nat : a < b => <<a, b>> \in R
  BY DEF OpToRel
<1> HIDE DEF R
<1>3. PICK x \in T : \A y \in T : ~(<<y, x>> \in R)
  BY <1>1, WFMin
<1>4. ASSUME NEW y \in T PROVE x <= y
  <2>1. x \in Nat /\ y \in Nat
    OBVIOUS
  <2>2. ~(y < x)
    BY <1>2, <1>3, <2>1
  <2> QED
    BY <2>1, <2>2
<1> QED
  BY <1>4

\* Induction: a set with 0 and the successors of its elements has every natural number.
LEMMA Induction ==
    ASSUME NEW T, 0 \in T, \A n \in Nat : n \in T => n + 1 \in T
    PROVE  Nat \subseteq T
<1> SUFFICES ASSUME Nat \ T # {} PROVE FALSE
  OBVIOUS
<1>1. PICK m \in Nat \ T : \A k \in Nat \ T : m <= k
  BY Least
<1>2. m # 0 /\ m - 1 \in Nat
  BY <1>1
<1>3. m - 1 \in T
  BY <1>1, <1>2
<1> QED
  BY <1>1, <1>2, <1>3

\* What a recursion computes from a base, with a step for each number up to n.
Steps(it, n, V, base, Step) ==
    /\ it \in [0..n -> V] /\ it[0] = base
    /\ \A k \in 1..n : it[k] = Step[<<it[k - 1], k>>]

\* A recursion of n steps can be computed.
LEMMA StepsExist ==
    ASSUME NEW n \in Nat, NEW V, NEW base \in V, NEW Step \in [V \X (1..n) -> V]
    PROVE  \E it : Steps(it, n, V, base, Step)
<1> DEFINE T == {m \in Nat : m <= n => \E it : Steps(it, m, V, base, Step)}
<1>1. 0 \in T
  <2> DEFINE it == [k \in 0..0 |-> base]
  <2>1. Steps(it, 0, V, base, Step)
    BY DEF Steps
  <2> HIDE DEF it
  <2> QED
    BY <2>1
<1>2. ASSUME NEW m \in Nat, m \in T PROVE m + 1 \in T
  <2>0. SUFFICES ASSUME m + 1 <= n PROVE \E it : Steps(it, m + 1, V, base, Step)
    OBVIOUS
  <2>1. PICK g : Steps(g, m, V, base, Step)
    BY <1>2, <2>0
  <2>2. /\ g \in [0..m -> V] /\ g[0] = base
        /\ \A k \in 1..m : g[k] = Step[<<g[k - 1], k>>]
    BY <2>1 DEF Steps
  <2> DEFINE h == [k \in 0..(m + 1) |-> IF k = m + 1 THEN Step[<<g[m], m + 1>>] ELSE g[k]]
  <2>3. \A k \in 0..(m + 1) : k # m + 1 => k \in 0..m
    OBVIOUS
  <2>4. <<g[m], m + 1>> \in V \X (1..n)
    BY <2>0, <2>2
  <2>5. h \in [0..(m + 1) -> V] /\ h[0] = base
    BY <2>2, <2>3, <2>4
  <2>6. ASSUME NEW k \in 1..(m + 1) PROVE h[k] = Step[<<h[k - 1], k>>]
    <3>1. k \in 0..(m + 1) /\ k - 1 \in 0..(m + 1) /\ k - 1 # m + 1
      OBVIOUS
    <3>2. h[k - 1] = g[k - 1]
      BY <3>1
    <3>3. CASE k = m + 1
      <4>1. k - 1 = m /\ h[k] = Step[<<g[m], m + 1>>]
        BY <3>1, <3>3
      <4> QED
        BY <3>2, <3>3, <4>1
    <3>4. CASE k # m + 1
      <4>1. k \in 1..m /\ h[k] = g[k]
        BY <3>1, <3>4
      <4> QED
        BY <2>2, <3>2, <4>1
    <3> QED
      BY <3>3, <3>4
  <2> HIDE DEF h
  <2>7. Steps(h, m + 1, V, base, Step)
    BY <2>5, <2>6 DEF Steps
  <2> QED
    BY <2>7
<1>3. n \in T
  <2> HIDE DEF T
  <2> QED
    BY <1>1, <1>2, Induction
<1> QED
  BY <1>3

-----------------------------------------------------------------------------
(* Sequences in sequences.                                                 *)

\* After its first p elements b goes on with x.
At(b, p, x) ==
    /\ p + Len(x) <= Len(b)
    /\ \A k \in 1..Len(x) : b[p + k] = x[k]

\* What a sequence is joined from is where it was put.
LEMMA AtJoined ==
    ASSUME NEW S, NEW x \in Seq(S), NEW y \in Seq(S)
    PROVE  /\ x \o y \in Seq(S) /\ Len(x \o y) = Len(x) + Len(y)
           /\ At(x \o y, 0, x) /\ At(x \o y, Len(x), y)
<1>1. /\ Len(x) \in Nat /\ Len(y) \in Nat /\ Len(x \o y) = Len(x) + Len(y)
      /\ \A k \in 1..Len(x) : (x \o y)[k] = x[k]
      /\ \A k \in 1..Len(y) : (x \o y)[Len(x) + k] = y[k]
  OBVIOUS
<1>2. \A k \in 1..Len(x) : 0 + k = k
  OBVIOUS
<1> QED
  BY <1>1, <1>2 DEF At

\* A part of a part is a part.
LEMMA AtPart ==
    ASSUME NEW S, NEW b \in Seq(S), NEW x \in Seq(S), NEW y \in Seq(S), NEW p \in Nat, NEW i \in Nat,
           At(b, p, x), At(x, i, y)
    PROVE  At(b, p + i, y)
<1>0. Len(b) \in Nat /\ Len(x) \in Nat /\ Len(y) \in Nat
  OBVIOUS
<1>1. p + i + Len(y) <= Len(b)
  BY <1>0 DEF At
<1>2. ASSUME NEW k \in 1..Len(y) PROVE b[p + i + k] = y[k]
  <2>1. i + k \in 1..Len(x) /\ p + (i + k) = p + i + k
    BY <1>0 DEF At
  <2> QED
    BY <2>1 DEF At
<1> QED
  BY <1>1, <1>2 DEF At

\* Where two parts joined lie, each of them does.
LEMMA AtConcat ==
    ASSUME NEW S, NEW x \in Seq(S), NEW y \in Seq(S), NEW b \in Seq(S), NEW p \in Nat, At(b, p, x \o y)
    PROVE  At(b, p, x) /\ At(b, p + Len(x), y)
<1>1. x \o y \in Seq(S) /\ At(x \o y, 0, x) /\ At(x \o y, Len(x), y) /\ Len(x) \in Nat /\ p + 0 = p
  BY AtJoined
<1>2. At(b, p + 0, x) /\ At(b, p + Len(x), y)
  <2> HIDE DEF At
  <2> QED
    BY <1>1, AtPart
<1> QED
  BY <1>1, <1>2

\* The part itself, cut out.
LEMMA AtCut ==
    ASSUME NEW S, NEW b \in Seq(S), NEW x \in Seq(S), NEW p \in Nat, At(b, p, x)
    PROVE  SubSeq(b, p + 1, p + Len(x)) = x
<1>0. Len(b) \in Nat /\ Len(x) \in Nat
  OBVIOUS
<1> DEFINE s == SubSeq(b, p + 1, p + Len(x))
<1>1. s \in Seq(S) /\ Len(s) = Len(x) /\ \A k \in 1..Len(x) : s[k] = b[p + k]
  <2>1. p + 1 \in 1..(Len(b) + 1) /\ p + Len(x) \in Nat /\ p + Len(x) <= Len(b)
    BY <1>0 DEF At
  <2>2. \A k \in 1..Len(x) : (p + 1) + k - 1 = p + k
    BY <1>0
  <2> QED
    BY <1>0, <2>1, <2>2
<1>2. \A k \in 1..Len(x) : s[k] = x[k]
  BY <1>1 DEF At
<1> HIDE DEF s
<1> QED
  BY <1>0, <1>1, <1>2, SeqEqual

\* Where the pieces of a sequence begin.
Cuts(cut, pieces, flat) ==
    /\ cut \in [0..Len(pieces) -> Nat] /\ cut[0] = 0 /\ cut[Len(pieces)] = Len(flat)
    /\ \A i \in 1..Len(pieces) :
          cut[i] = cut[i - 1] + Len(pieces[i]) /\ At(flat, cut[i - 1], pieces[i])

\* What FlattenSeq makes of pieces: they lie one after the other.
LEMMA FlattenCuts ==
    ASSUME NEW S, NEW pieces \in Seq(Seq(S))
    PROVE  FlattenSeq(pieces) \in Seq(S) /\ \E cut : Cuts(cut, pieces, FlattenSeq(pieces))
<1> DEFINE n == Len(pieces)
           V == Seq(S)
           Step == [x \in V \X (1..n) |-> x[1] \o pieces[x[2]]]
<1>0. n \in Nat /\ \A i \in 1..n : pieces[i] \in V
  OBVIOUS
<1>1. PICK it : Steps(it, n, V, <<>>, Step)
  <2>1. \A x \in V \X (1..n) : x[1] \in V /\ x[2] \in 1..n
    OBVIOUS
  <2>2. \A x \in V, y \in V : x \o y \in V
    OBVIOUS
  <2>3. <<>> \in V
    OBVIOUS
  <2> HIDE DEF V, n
  <2>4. \A x \in V \X (1..n) : x[1] \o pieces[x[2]] \in V
    BY <1>0, <2>1, <2>2
  <2>5. Step \in [V \X (1..n) -> V]
    BY <2>4
  <2> HIDE DEF Step
  <2> QED
    BY <1>0, <2>3, <2>5, StepsExist
<1>2. /\ it \in [0..n -> V] /\ it[0] = <<>>
      /\ \A k \in 1..n : it[k - 1] \in V /\ it[k] = it[k - 1] \o pieces[k]
  <2> HIDE DEF V, n
  <2>1. it \in [0..n -> V] /\ it[0] = <<>> /\ \A k \in 1..n : it[k] = Step[<<it[k - 1], k>>]
    BY <1>1 DEF Steps
  <2>2. ASSUME NEW k \in 1..n PROVE it[k - 1] \in V /\ it[k] = it[k - 1] \o pieces[k]
    <3>1. k - 1 \in 0..n
      BY <1>0
    <3>2. <<it[k - 1], k>> \in V \X (1..n)
      BY <2>1, <3>1
    <3> QED
      BY <2>1, <3>1, <3>2
  <2> QED
    BY <2>1, <2>2
<1> HIDE DEF Step
<1> DEFINE cut == [k \in 0..n |-> Len(it[k])]
<1>3. \A k \in 0..n : it[k] \in V /\ cut[k] \in Nat /\ cut[k] = Len(it[k])
  BY <1>2
<1>4. cut \in [0..n -> Nat] /\ cut[0] = 0
  BY <1>0, <1>2
<1> HIDE DEF cut, n
<1> DEFINE Placed(k) == \A i \in 1..k : cut[i] = cut[i - 1] + Len(pieces[i]) /\ At(it[k], cut[i - 1], pieces[i])
           T == {k \in Nat : k <= n => Placed(k)}
<1>5. 0 \in T
  OBVIOUS
<1>6. ASSUME NEW k \in Nat, k \in T PROVE k + 1 \in T
  <2>0. SUFFICES ASSUME k + 1 <= n PROVE Placed(k + 1)
    OBVIOUS
  <2> DEFINE x == it[k]
             y == pieces[k + 1]
  <2>1. k \in 0..n /\ k + 1 \in 0..n /\ k + 1 \in 1..n /\ (k + 1) - 1 = k
    BY <1>0, <2>0
  <2>2. x \in Seq(S) /\ y \in Seq(S) /\ it[k + 1] = x \o y /\ cut[k] = Len(x) /\ cut[k + 1] = Len(it[k + 1])
    BY <1>0, <1>2, <1>3, <2>1
  <2>3. Placed(k)
    BY <1>6, <2>0, <1>0
  <2> HIDE DEF x, y, V
  <2>4. x \o y \in Seq(S) /\ Len(x \o y) = Len(x) + Len(y) /\ At(x \o y, 0, x) /\ At(x \o y, Len(x), y)
    BY <2>2, AtJoined
  <2>5. ASSUME NEW i \in 1..(k + 1) PROVE cut[i] = cut[i - 1] + Len(pieces[i]) /\ At(it[k + 1], cut[i - 1], pieces[i])
    <3>1. CASE i = k + 1
      BY <2>1, <2>2, <2>4, <3>1 DEF y
    <3>2. CASE i # k + 1
      <4>1. i \in 1..k /\ i - 1 \in 0..n /\ i \in 1..n
        BY <1>0, <2>0, <3>2
      <4>2. cut[i] = cut[i - 1] + Len(pieces[i]) /\ At(x, cut[i - 1], pieces[i])
        BY <2>3, <4>1 DEF x
      <4>3. pieces[i] \in Seq(S) /\ cut[i - 1] \in Nat /\ 0 + cut[i - 1] = cut[i - 1]
        BY <1>0, <1>3, <4>1 DEF V
      <4>4. At(x \o y, 0 + cut[i - 1], pieces[i])
        BY <2>2, <2>4, <4>2, <4>3, AtPart
      <4> QED
        BY <2>2, <4>2, <4>3, <4>4
    <3> QED
      BY <3>1, <3>2
  <2> QED
    BY <2>5
<1>7. Placed(n)
  <2> HIDE DEF Placed
  <2>1. n \in T
    <3> HIDE DEF T
    <3> QED
      BY <1>0, <1>5, <1>6, Induction
  <2> QED
    BY <1>0, <2>1
<1>8. FlattenSeq(pieces) = it[n]
  <2>1. CASE n = 0
    <3>1. pieces = <<>>
      BY <1>0, <2>1 DEF n
    <3> QED
      BY <1>2, <2>1, <3>1 DEF FlattenSeq, n
  <2>2. CASE n # 0
    <3> DEFINE Defines(f) == f = [i \in 1..n |-> IF i = 1 THEN pieces[i] ELSE f[i - 1] \o pieces[i]]
               flatten == CHOOSE f : Defines(f)
    <3>1. FlattenSeq(pieces) = flatten[n]
      BY <2>2 DEF FlattenSeq, n
    <3>2. \A i \in 1..n : <<>> \o pieces[i] = pieces[i]
      BY <1>0
    <3>3. it[1] = pieces[1]
      <4>1. 1 \in 1..n /\ 1 - 1 = 0
        BY <1>0, <2>2
      <4>2. it[1] = it[1 - 1] \o pieces[1]
        BY <1>2, <4>1
      <4> QED
        BY <1>2, <3>2, <4>1, <4>2
    <3>4. \E f : Defines(f)
      <4> DEFINE f == [i \in 1..n |-> it[i]]
      <4>1. ASSUME NEW i \in 1..n PROVE it[i] = IF i = 1 THEN pieces[i] ELSE f[i - 1] \o pieces[i]
        <5>1. CASE i = 1
          BY <3>3, <5>1
        <5>2. CASE i # 1
          <6>1. i - 1 \in 1..n
            BY <1>0, <5>2
          <6> QED
            BY <1>2, <5>2, <6>1
        <5> QED
          BY <5>1, <5>2
      <4>2. Defines(f)
        BY <4>1
      <4> QED
        BY <4>2
    <3>5. Defines(flatten)
      <4> HIDE DEF Defines
      <4> QED
        BY <3>4
    <3> HIDE DEF flatten
    <3>6. \A i \in 1..n : flatten[i] = IF i = 1 THEN pieces[i] ELSE flatten[i - 1] \o pieces[i]
      BY <3>5
    <3> HIDE DEF Defines
    <3> DEFINE U == {k \in Nat : k + 1 <= n => flatten[k + 1] = it[k + 1]}
    <3>7. 0 \in U
      <4>1. 1 \in 1..n /\ 0 + 1 = 1
        BY <1>0, <2>2
      <4> QED
        BY <3>3, <3>6, <4>1
    <3>8. ASSUME NEW k \in Nat, k \in U PROVE k + 1 \in U
      <4>0. SUFFICES ASSUME (k + 1) + 1 <= n PROVE flatten[(k + 1) + 1] = it[(k + 1) + 1]
        OBVIOUS
      <4>1. (k + 1) + 1 \in 1..n /\ (k + 1) + 1 # 1 /\ ((k + 1) + 1) - 1 = k + 1 /\ k + 1 <= n
        BY <1>0, <4>0
      <4>2. it[(k + 1) + 1] = it[k + 1] \o pieces[(k + 1) + 1]
        BY <1>2, <4>1
      <4>3. flatten[(k + 1) + 1] = flatten[k + 1] \o pieces[(k + 1) + 1]
        BY <3>6, <4>1
      <4> QED
        BY <3>8, <4>1, <4>2, <4>3
    <3>9. n - 1 \in U
      <4>1. n - 1 \in Nat
        BY <1>0, <2>2
      <4> HIDE DEF U
      <4> QED
        BY <3>7, <3>8, <4>1, Induction
    <3> QED
      BY <1>0, <2>2, <3>1, <3>9
  <2> QED
    BY <2>1, <2>2
<1>9. Cuts(cut, pieces, it[n])
  <2>1. n \in 0..n
    BY <1>0
  <2> QED
    BY <1>0, <1>3, <1>4, <1>7, <2>1 DEF Cuts, n
<1> QED
  BY <1>0, <1>3, <1>8, <1>9 DEF V

-----------------------------------------------------------------------------
(* How the parser gets from one place to another.                          *)

Types == DOMAIN FixedLength \cup Unfixed \cup DOMAIN Sequences \cup ChoiceTypes \cup Lists

TodoItem ==
    [op : {"parse", "option"}, tid : Types] \cup [op : {"elements"}, tid : Lists, left : Nat]
    \cup [op : {"element"}, at : Nat] \cup [op : {"access"}]

Result == [tid : Types, val : Seq(0..255)]

Place(list, p, rs) == [todo |-> list, pos |-> p, results |-> rs]

Places(b) == [todo : Seq(TodoItem), pos : 0..Len(b), results : Seq(Result)]

Got(tid, val) == [tid |-> tid, val |-> val]

\* What an item to do becomes in one step at p: the items of front, with rs found on the
\* way to q.
TurnsFixed(b, x, p, front, q, rs) ==
    \E tid \in DOMAIN FixedLength :
        /\ x = Parse(tid) /\ front = <<>> /\ q = p + FixedLength[tid] /\ q <= Len(b)
        /\ rs = <<Got(tid, SubSeq(b, p + 1, q))>>

TurnsUnfixed(b, x, p, front, q, rs) ==
    \E tid \in Unfixed :
        LET info == LengthAt(b, p)
        IN  /\ x = Parse(tid) /\ front = <<>> /\ info.size # 0
            /\ q = p + info.size + info.value /\ q <= Len(b)
            /\ rs = <<Got(tid, SubSeq(b, p + info.size + 1, q))>>

TurnsSequence(b, x, p, front, q, rs) ==
    \E tid \in DOMAIN Sequences : x = Parse(tid) /\ front = Items(tid) /\ q = p /\ rs = <<>>

TurnsOption(b, x, p, front, q, rs) ==
    /\ x.op = "option" /\ q = p + 1 /\ rs = <<>>
    /\ front = IF b[p + 1] = 0 THEN <<>> ELSE <<Parse(x.tid)>>

TurnsChoice(b, x, p, front, q, rs) ==
    \E tid \in ChoiceTypes :
        /\ x = Parse(tid) /\ Chosen(tid, b[p + 1]) # "none"
        /\ front = <<Parse(Chosen(tid, b[p + 1]))>> /\ q = p + 1
        /\ rs = IF tid = "cosem_pdu" THEN <<Got("cosem_pdu", <<b[p + 1]>>)>> ELSE <<>>

TurnsList(b, x, p, front, q, rs) ==
    \E tid \in Lists :
        LET info == LengthAt(b, p)
        IN  /\ x = Parse(tid) /\ info.size # 0 /\ q = p + info.size
            /\ front = <<[op |-> "elements", tid |-> tid, left |-> info.value]>>
            /\ rs = <<Got(tid, IF tid = "attribute_descriptor_list" THEN <<info.value % 256>>
                               ELSE <<0, 0>> \o Short(info.value))>>

TurnsElement(b, x, p, front, q, rs) ==
    /\ x.op = "elements" /\ q = p /\ rs = <<>>
    /\ LET more == [x EXCEPT !.left = @ - 1]
           end == [op |-> "element", at |-> p]
       IN  front = IF x.left = 0 \/ Len(b) - p <= 0 THEN <<>>
                   ELSE IF x.tid = "attribute_descriptor_list"
                     THEN <<Parse("cosem_attribute_descriptor"), end, [op |-> "access"], more>>
                   ELSE <<Parse("data"), end, more>>

TurnsEnd(b, x, p, front, q, rs) ==
    x.op = "element" /\ front = <<>> /\ q = p /\ rs = <<>>

TurnsAccess(b, x, p, front, q, rs) ==
    /\ x.op = "access"
    /\ rs = <<Got("selective_access_descriptor", <<b[p + 1]>>)>>
    /\ q = IF b[p + 1] = 0 THEN p + 1 ELSE p
    /\ front = IF b[p + 1] = 1 THEN <<Parse("data"), [op |-> "element", at |-> p]>> ELSE <<>>

Turns(b, x, p, front, q, rs) ==
    \/ TurnsFixed(b, x, p, front, q, rs) \/ TurnsUnfixed(b, x, p, front, q, rs)
    \/ TurnsSequence(b, x, p, front, q, rs) \/ TurnsOption(b, x, p, front, q, rs)
    \/ TurnsChoice(b, x, p, front, q, rs) \/ TurnsList(b, x, p, front, q, rs)
    \/ TurnsElement(b, x, p, front, q, rs) \/ TurnsEnd(b, x, p, front, q, rs)
    \/ TurnsAccess(b, x, p, front, q, rs)

Goes(b, c, d) ==
    /\ c.todo # <<>>
    /\ \E front \in Seq(TodoItem), q \in 0..Len(b), rs \in Seq(Result) :
          /\ Turns(b, Head(c.todo), c.pos, front, q, rs)
          /\ d = Place(front \o Tail(c.todo), q, c.results \o rs)

\* From c the parser can only get to d, or never stops.
Gets(b, c, d) ==
    \E S \in SUBSET Places(b) :
        c \in S /\ d \in S /\ \A x \in S : x = d \/ \E y \in S : Goes(b, x, y)

\* The parser is where it is.
LEMMA GetsStays ==
    ASSUME NEW b, NEW c \in Places(b)
    PROVE  Gets(b, c, c)
<1>1. {c} \in SUBSET Places(b) /\ c \in {c}
  OBVIOUS
<1> QED
  BY <1>1 DEF Gets

\* From one place to another, and on to a third.
LEMMA GetsOn ==
    ASSUME NEW b, NEW c, NEW d, NEW e, Gets(b, c, d), Gets(b, d, e)
    PROVE  Gets(b, c, e)
<1>1. PICK S \in SUBSET Places(b) :
        c \in S /\ d \in S /\ \A x \in S : x = d \/ \E y \in S : Goes(b, x, y)
  BY DEF Gets
<1>2. PICK T \in SUBSET Places(b) :
        d \in T /\ e \in T /\ \A x \in T : x = e \/ \E y \in T : Goes(b, x, y)
  BY DEF Gets
<1> DEFINE U == (S \ {d}) \cup T
<1>3. U \in SUBSET Places(b) /\ c \in U /\ e \in U
  BY <1>1, <1>2
<1>4. \A x \in U : x = e \/ \E y \in U : Goes(b, x, y)
  BY <1>1, <1>2
<1> QED
  BY <1>3, <1>4 DEF Gets

\* One step, and on from there.
LEMMA GetsFirst ==
    ASSUME NEW b, NEW c \in Places(b), NEW d, NEW e, Goes(b, c, d), Gets(b, d, e)
    PROVE  Gets(b, c, e)
<1>1. d \in Places(b)
  BY DEF Gets
<1>2. {c, d} \in SUBSET Places(b) /\ \A x \in {c, d} : x = d \/ \E y \in {c, d} : Goes(b, x, y)
  BY <1>1
<1>3. Gets(b, c, d)
  BY <1>2 DEF Gets
<1> QED
  BY <1>3, GetsOn

\* Doing the items of front takes the parser from p to q and leaves rs.
Does(b, front, p, q, rs) ==
    /\ front \in Seq(TodoItem) /\ p \in 0..Len(b) /\ q \in 0..Len(b) /\ rs \in Seq(Result)
    /\ \A rest \in Seq(TodoItem), r \in Seq(Result) :
          Gets(b, Place(front \o rest, p, r), Place(rest, q, r \o rs))

\* Joining is closed and associative.
LEMMA Associates ==
    ASSUME NEW S, NEW x \in Seq(S), NEW y \in Seq(S), NEW z \in Seq(S)
    PROVE  x \o y \in Seq(S) /\ x \o (y \o z) = (x \o y) \o z
<1>1. x \o y \in Seq(S) /\ y \o z \in Seq(S)
  OBVIOUS
<1>2. (x \o y) \o z = x \o (y \o z)
  BY ConcatAssociative
<1> QED
  BY <1>1, <1>2

\* Nothing to do takes the parser nowhere.
LEMMA DoesNothing ==
    ASSUME NEW b, NEW p \in 0..Len(b)
    PROVE  Does(b, <<>>, p, p, <<>>)
<1>1. ASSUME NEW rest \in Seq(TodoItem), NEW r \in Seq(Result)
      PROVE  Gets(b, Place(<<>> \o rest, p, r), Place(rest, p, r \o <<>>))
  <2>1. <<>> \o rest = rest /\ r \o <<>> = r
    OBVIOUS
  <2>2. Place(rest, p, r) \in Places(b)
    BY DEF Place, Places
  <2> QED
    BY <2>1, <2>2, GetsStays
<1>2. <<>> \in Seq(TodoItem) /\ <<>> \in Seq(Result)
  OBVIOUS
<1> QED
  BY <1>1, <1>2 DEF Does

\* First the items of f, then those of g.
LEMMA DoesBoth ==
    ASSUME NEW b, NEW f, NEW g, NEW p, NEW q, NEW s, NEW rs, NEW ts,
           Does(b, f, p, q, rs), Does(b, g, q, s, ts)
    PROVE  Does(b, f \o g, p, s, rs \o ts)
<1>0. /\ f \in Seq(TodoItem) /\ g \in Seq(TodoItem) /\ rs \in Seq(Result) /\ ts \in Seq(Result)
      /\ p \in 0..Len(b) /\ s \in 0..Len(b)
  BY DEF Does
<1>1. ASSUME NEW rest \in Seq(TodoItem), NEW r \in Seq(Result)
      PROVE  Gets(b, Place((f \o g) \o rest, p, r), Place(rest, s, r \o (rs \o ts)))
  <2>1. g \o rest \in Seq(TodoItem) /\ r \o rs \in Seq(Result)
    BY <1>0
  <2>2. (f \o g) \o rest = f \o (g \o rest)
    BY <1>0, SMTT(30)
  <2>3. r \o (rs \o ts) = (r \o rs) \o ts
    <3>1. rs \in Seq(Result) /\ ts \in Seq(Result)
      BY <1>0
    <3> QED
      BY <3>1, Associates
  <2>4. Gets(b, Place(f \o (g \o rest), p, r), Place(g \o rest, q, r \o rs))
    BY <2>1 DEF Does
  <2>5. Gets(b, Place(g \o rest, q, r \o rs), Place(rest, s, (r \o rs) \o ts))
    BY <2>1 DEF Does
  <2> QED
    BY <2>2, <2>3, <2>4, <2>5, GetsOn
<1>2. f \o g \in Seq(TodoItem) /\ rs \o ts \in Seq(Result)
  BY <1>0
<1> QED
  BY <1>0, <1>1, <1>2 DEF Does

\* A turn, and then the items that it leaves.
LEMMA DoesTurn ==
    ASSUME NEW b, NEW x \in TodoItem, NEW p \in 0..Len(b), NEW front, NEW q, NEW rs, NEW s, NEW ts,
           rs \in Seq(Result), Turns(b, x, p, front, q, rs), Does(b, front, q, s, ts)
    PROVE  Does(b, <<x>>, p, s, rs \o ts)
<1>0. front \in Seq(TodoItem) /\ q \in 0..Len(b) /\ s \in 0..Len(b) /\ ts \in Seq(Result)
  BY DEF Does
<1>1. ASSUME NEW rest \in Seq(TodoItem), NEW r \in Seq(Result)
      PROVE  Gets(b, Place(<<x>> \o rest, p, r), Place(rest, s, r \o (rs \o ts)))
  <2> DEFINE list == <<x>> \o rest
  <2>1. list \in Seq(TodoItem) /\ list # <<>> /\ Head(list) = x /\ Tail(list) = rest
    OBVIOUS
  <2>2. r \o rs \in Seq(Result) /\ r \o (rs \o ts) = (r \o rs) \o ts
    <3>1. rs \in Seq(Result) /\ ts \in Seq(Result)
      BY <1>0
    <3> QED
      BY ONLY <3>1, r \in Seq(Result), Associates, SMTT(30)
  <2> HIDE DEF list
  <2>3. Place(list, p, r) \in Places(b)
    BY <2>1 DEF Place, Places
  <2>4. Place(list, p, r).todo = list /\ Place(list, p, r).pos = p /\ Place(list, p, r).results = r
    BY DEF Place
  <2>5. Goes(b, Place(list, p, r), Place(front \o rest, q, r \o rs))
    BY <1>0, <2>1, <2>4 DEF Goes
  <2>6. Gets(b, Place(front \o rest, q, r \o rs), Place(rest, s, (r \o rs) \o ts))
    BY <2>2 DEF Does
  <2> QED
    BY <2>2, <2>3, <2>5, <2>6, GetsFirst DEF list
<1>2. <<x>> \in Seq(TodoItem) /\ rs \o ts \in Seq(Result)
  BY <1>0
<1> QED
  BY <1>0, <1>1, <1>2 DEF Does

-----------------------------------------------------------------------------
(* What each parser does.                                                  *)

\* A parser to run is an item to do.
LEMMA ParseItem ==
    ASSUME NEW tid \in Types
    PROVE  Parse(tid) \in TodoItem /\ Parse(tid).op = "parse" /\ Parse(tid).tid = tid
  BY DEF Parse, TodoItem

\* Nothing, joined to either end.
LEMMA Joined1 ==
    ASSUME NEW S, NEW x \in Seq(S)
    PROVE  x \o <<>> = x /\ <<>> \o x = x
  OBVIOUS

\* A turn after which nothing is left to do.
LEMMA DoesLast ==
    ASSUME NEW b, NEW x \in TodoItem, NEW p \in 0..Len(b), NEW q \in 0..Len(b), NEW rs \in Seq(Result),
           Turns(b, x, p, <<>>, q, rs)
    PROVE  Does(b, <<x>>, p, q, rs)
<1>1. Does(b, <<>>, q, q, <<>>)
  BY DoesNothing
<1>2. rs \o <<>> = rs
  BY Joined1
<1>3. Does(b, <<x>>, p, q, rs \o <<>>)
  BY <1>1, DoesTurn
<1> QED
  BY <1>2, <1>3

\* A type of fixed length, where its bytes lie.
LEMMA FixedDoes ==
    ASSUME NEW b \in Seq(0..255), NEW p \in Nat, NEW tid \in DOMAIN FixedLength,
           NEW x \in Seq(0..255), Len(x) = FixedLength[tid], At(b, p, x)
    PROVE  Does(b, <<Parse(tid)>>, p, p + Len(x), <<Got(tid, x)>>)
<1>1. Parse(tid) \in TodoItem
  BY ParseItem DEF Types
<1>2. SubSeq(b, p + 1, p + Len(x)) = x
  BY AtCut
<1>3. p \in 0..Len(b) /\ p + Len(x) \in 0..Len(b) /\ p + Len(x) <= Len(b)
  BY DEF At
<1>4. <<Got(tid, x)>> \in Seq(Result)
  <2>1. Got(tid, x) \in Result
    BY DEF Got, Result, Types
  <2> QED
    BY <2>1
<1>5. Turns(b, Parse(tid), p, <<>>, p + Len(x), <<Got(tid, x)>>)
  <2>1. TurnsFixed(b, Parse(tid), p, <<>>, p + Len(x), <<Got(tid, x)>>)
    BY <1>2, <1>3 DEF TurnsFixed
  <2> QED
    BY <2>1 DEF Turns
<1> QED
  BY <1>1, <1>3, <1>4, <1>5, DoesLast

\* A length before its bytes.
LEMMA UnfixedDoes ==
    ASSUME NEW b \in Seq(0..255), NEW p \in Nat, NEW tid \in Unfixed, NEW size \in Nat, NEW x \in Seq(0..255),
           LengthAt(b, p) = [size |-> size, value |-> Len(x)], size # 0, At(b, p + size, x)
    PROVE  Does(b, <<Parse(tid)>>, p, p + size + Len(x), <<Got(tid, x)>>)
<1>0. Len(x) \in Nat
  OBVIOUS
<1>1. Parse(tid) \in TodoItem
  BY ParseItem DEF Types
<1>2. SubSeq(b, p + size + 1, p + size + Len(x)) = x
  BY AtCut
<1>3. p \in 0..Len(b) /\ p + size + Len(x) \in 0..Len(b) /\ p + size + Len(x) <= Len(b)
  BY <1>0 DEF At
<1>4. <<Got(tid, x)>> \in Seq(Result)
  <2>1. Got(tid, x) \in Result
    BY DEF Got, Result, Types
  <2> QED
    BY <2>1
<1>5. Turns(b, Parse(tid), p, <<>>, p + size + Len(x), <<Got(tid, x)>>)
  <2>1. LengthAt(b, p).size = size /\ LengthAt(b, p).value = Len(x)
    OBVIOUS
  <2>2. TurnsUnfixed(b, Parse(tid), p, <<>>, p + size + Len(x), <<Got(tid, x)>>)
    BY <1>2, <1>3, <2>1 DEF TurnsUnfixed
  <2> QED
    BY <2>2 DEF Turns
<1> QED
  BY <1>1, <1>3, <1>4, <1>5, DoesLast

\* A length below 128 is one byte.
LEMMA ShortLength ==
    ASSUME NEW b \in Seq(0..255), NEW p \in Nat, b[p + 1] < 128, p < Len(b)
    PROVE  LengthAt(b, p) = [size |-> 1, value |-> b[p + 1]]
  BY DEF LengthAt

\* Every tag of data has a parser, and it is none of a sequence or a choice.
LEMMA DataTypeNames ==
    /\ DOMAIN DataTypes = 1..25
    /\ \A tag \in DOMAIN DataTypes :
          DataTypes[tag] # "none" /\ DataTypes[tag] \in DOMAIN FixedLength \cup Unfixed \cup Lists
<1> DEFINE Names == {"sequence_of_array", "sequence_of_struct", "boolean", "bit_string", "integer32",
     "unsigned32", "floating_point", "null", "octet_string", "visible_string", "gen_time", "bcd", "integer8",
     "integer16", "unsigned8", "unsigned16", "integer64", "unsigned64", "enumerated", "float32",
     "float64", "datetime"}
<1>1. DataTypes \in Seq(Names) /\ Len(DataTypes) = 25
  BY DEF DataTypes
<1>2. \A x \in Names : x # "none" /\ x \in DOMAIN FixedLength \cup Unfixed \cup Lists
  BY DEF FixedLength, Unfixed, Lists
<1>3. DOMAIN DataTypes = 1..25
  BY <1>1
<1> HIDE DEF Names
<1>4. ASSUME NEW tag \in DOMAIN DataTypes PROVE DataTypes[tag] \in Names
  BY <1>1, <1>3, ElementOfSeq
<1> QED
  BY <1>2, <1>3, <1>4

Elements(tid, n) == [op |-> "elements", tid |-> tid, left |-> n]

\* A loop over elements is an item to do.
LEMMA ElementsItem ==
    ASSUME NEW tid \in Lists, NEW n \in Nat
    PROVE  Elements(tid, n) \in TodoItem
  BY DEF Elements, TodoItem

CountOf(tid, n) == IF tid = "attribute_descriptor_list" THEN <<n % 256>> ELSE <<0, 0>> \o Short(n)

\* A loop over no elements ends at once.
LEMMA NoElementDoes ==
    ASSUME NEW b, NEW p \in 0..Len(b), NEW tid \in Lists
    PROVE  Does(b, <<Elements(tid, 0)>>, p, p, <<>>)
<1>1. TurnsElement(b, Elements(tid, 0), p, <<>>, p, <<>>)
  BY DEF TurnsElement, Elements
<1>2. <<>> \in Seq(Result)
  OBVIOUS
<1> QED
  BY <1>1, <1>2, ElementsItem, DoesLast DEF Turns

\* The end of an element is passed.
LEMMA EndDoes ==
    ASSUME NEW b, NEW p \in 0..Len(b), NEW at \in Nat
    PROVE  Does(b, <<[op |-> "element", at |-> at]>>, p, p, <<>>)
<1> DEFINE x == [op |-> "element", at |-> at]
<1>1. x \in TodoItem
  BY DEF TodoItem
<1>2. TurnsEnd(b, x, p, <<>>, p, <<>>)
  BY DEF TurnsEnd
<1>3. <<>> \in Seq(Result)
  OBVIOUS
<1> HIDE DEF x
<1>4. Does(b, <<x>>, p, p, <<>>)
  BY <1>1, <1>2, <1>3, DoesLast DEF Turns
<1> QED
  BY <1>4 DEF x

\* One element of an array or a structure, and the others.
LEMMA ElementDoes ==
    ASSUME NEW b \in Seq(0..255), NEW p \in Nat, p < Len(b), NEW tid \in Lists, tid # "attribute_descriptor_list",
           NEW n \in Nat, NEW q, NEW rs, Does(b, <<Parse("data")>>, p, q, rs),
           NEW s, NEW ts, Does(b, <<Elements(tid, n)>>, q, s, ts)
    PROVE  Does(b, <<Elements(tid, n + 1)>>, p, s, rs \o ts)
<1> DEFINE end == [op |-> "element", at |-> p]
           first == <<Parse("data")>>
           more == <<Elements(tid, n)>>
<1>1. q \in 0..Len(b) /\ rs \in Seq(Result) /\ ts \in Seq(Result) /\ first \in Seq(TodoItem) /\ more \in Seq(TodoItem)
  BY DEF Does
<1>2. Does(b, <<end>>, q, q, <<>>)
  BY <1>1, EndDoes
<1>3. <<Parse("data"), end, Elements(tid, n)>> = <<Parse("data")>> \o (<<end>> \o <<Elements(tid, n)>>)
  OBVIOUS
<1> DEFINE front == <<Parse("data"), end, Elements(tid, n)>>
<1>4. TurnsElement(b, Elements(tid, n + 1), p, front, p, <<>>)
  <2>1. [Elements(tid, n + 1) EXCEPT !.left = @ - 1] = Elements(tid, n)
    BY DEF Elements
  <2>2. /\ Elements(tid, n + 1).op = "elements" /\ Elements(tid, n + 1).tid = tid
        /\ Elements(tid, n + 1).left # 0
    BY DEF Elements
  <2>3. ~(Len(b) - p <= 0)
    OBVIOUS
  <2> QED
    BY <2>1, <2>2, <2>3 DEF TurnsElement
<1> HIDE DEF end, front
<1>5. Does(b, <<end>> \o <<Elements(tid, n)>>, q, s, <<>> \o ts)
  BY <1>2, DoesBoth
<1>6. Does(b, <<Parse("data")>> \o (<<end>> \o <<Elements(tid, n)>>), p, s, rs \o (<<>> \o ts))
  BY <1>5, DoesBoth
<1>7. Does(b, front, p, s, rs \o ts)
  BY <1>1, <1>3, <1>6, Joined1 DEF front
<1>8. Does(b, <<Elements(tid, n + 1)>>, p, s, <<>> \o (rs \o ts))
  <2>1. Elements(tid, n + 1) \in TodoItem /\ p \in 0..Len(b) /\ <<>> \in Seq(Result)
    BY ElementsItem
  <2>2. Turns(b, Elements(tid, n + 1), p, front, p, <<>>)
    BY <1>4 DEF Turns
  <2> QED
    BY <1>7, <2>1, <2>2, DoesTurn
<1>9. rs \o ts \in Seq(Result)
  BY <1>1
<1> QED
  BY <1>8, <1>9, Joined1

-----------------------------------------------------------------------------
(* What is written and what is read.                                       *)

\* Wherever v lies, doing the items of front takes the parser behind it and leaves rs.
Reads(v, front, rs) ==
    /\ v \in Seq(0..255) /\ front \in Seq(TodoItem) /\ rs \in Seq(Result)
    /\ \A b \in Seq(0..255), p \in Nat : At(b, p, v) => Does(b, front, p, p + Len(v), rs)

\* What is read of two parts is what is read of each, one after the other.
LEMMA ReadsBoth ==
    ASSUME NEW x, NEW y, NEW f, NEW g, NEW r, NEW s, Reads(x, f, r), Reads(y, g, s)
    PROVE  Reads(x \o y, f \o g, r \o s)
<1>1. /\ x \in Seq(0..255) /\ y \in Seq(0..255) /\ f \in Seq(TodoItem) /\ g \in Seq(TodoItem)
      /\ r \in Seq(Result) /\ s \in Seq(Result)
  BY DEF Reads
<1>2. x \o y \in Seq(0..255) /\ Len(x \o y) = Len(x) + Len(y)
  BY <1>1
<1>3. f \o g \in Seq(TodoItem) /\ r \o s \in Seq(Result)
  BY <1>1
<1>4. ASSUME NEW b \in Seq(0..255), NEW p \in Nat, At(b, p, x \o y)
      PROVE  Does(b, f \o g, p, p + Len(x \o y), r \o s)
  <2>1. At(b, p, x) /\ At(b, p + Len(x), y)
    BY <1>1, <1>4, AtConcat
  <2>2. Len(x) \in Nat /\ Len(y) \in Nat
    BY <1>1
  <2>3. p + Len(x) \in Nat /\ (p + Len(x)) + Len(y) = p + Len(x \o y)
    BY <1>2, <2>2
  <2>4. Does(b, f, p, p + Len(x), r) /\ Does(b, g, p + Len(x), (p + Len(x)) + Len(y), s)
    BY <2>1, <2>3 DEF Reads
  <2> QED
    BY <2>3, <2>4, DoesBoth
<1> QED
  BY <1>2, <1>3, <1>4 DEF Reads

\* What lies somewhere lies in the sequence.
LEMMA AtRange ==
    ASSUME NEW b \in Seq(0..255), NEW p \in Nat, NEW v \in Seq(0..255), At(b, p, v)
    PROVE  p \in 0..Len(b) /\ p + Len(v) \in 0..Len(b) /\ (v # <<>> => p < Len(b))
<1>1. Len(v) \in Nat /\ Len(b) \in Nat /\ (v # <<>> => Len(v) # 0)
  OBVIOUS
<1> QED
  BY <1>1 DEF At

\* The empty sequence is one of bytes, of items to do and of results.
LEMMA NoBytes ==
    /\ <<>> \in Seq(0..255) /\ <<>> \in Seq(TodoItem) /\ <<>> \in Seq(Result) /\ Len(<<>>) = 0
  OBVIOUS

\* A turn that reads nothing.
LEMMA TurnReads ==
    ASSUME NEW x \in TodoItem, NEW v, NEW front, NEW rs, Reads(v, front, rs),
           \A b \in Seq(0..255), p \in Nat : At(b, p, v) => Turns(b, x, p, front, p, <<>>)
    PROVE  Reads(v, <<x>>, rs)
<1>1. v \in Seq(0..255) /\ rs \in Seq(Result) /\ <<x>> \in Seq(TodoItem)
  BY DEF Reads
<1>2. ASSUME NEW b \in Seq(0..255), NEW p \in Nat, At(b, p, v) PROVE Does(b, <<x>>, p, p + Len(v), rs)
  <2>1. Turns(b, x, p, front, p, <<>>) /\ Does(b, front, p, p + Len(v), rs) /\ p \in 0..Len(b)
    BY <1>1, <1>2, AtRange DEF Reads
  <2>2. Does(b, <<x>>, p, p + Len(v), <<>> \o rs)
    BY <2>1, NoBytes, DoesTurn
  <2> QED
    BY <1>1, <2>2, Joined1
<1> QED
  BY <1>1, <1>2 DEF Reads

\* A turn that reads a byte.
LEMMA TurnReadsByte ==
    ASSUME NEW x \in TodoItem, NEW t \in 0..255, NEW v, NEW front, NEW rs, NEW ts \in Seq(Result), Reads(v, front, rs),
           \A b \in Seq(0..255), p \in Nat : (p < Len(b) /\ b[p + 1] = t) => Turns(b, x, p, front, p + 1, ts)
    PROVE  Reads(<<t>> \o v, <<x>>, ts \o rs)
<1>1. v \in Seq(0..255) /\ rs \in Seq(Result) /\ <<x>> \in Seq(TodoItem) /\ <<t>> \in Seq(0..255)
  BY DEF Reads
<1>2. <<t>> \o v \in Seq(0..255) /\ Len(<<t>> \o v) = 1 + Len(v) /\ ts \o rs \in Seq(Result)
  BY <1>1
<1>3. ASSUME NEW b \in Seq(0..255), NEW p \in Nat, At(b, p, <<t>> \o v)
      PROVE  Does(b, <<x>>, p, p + Len(<<t>> \o v), ts \o rs)
  <2>1. At(b, p, <<t>>) /\ At(b, p + 1, v)
    <3>1. Len(<<t>>) = 1
      OBVIOUS
    <3> QED
      BY <1>1, <1>3, <3>1, AtConcat, Zenon
  <2>2. b[p + 1] = t /\ p < Len(b) /\ p \in 0..Len(b)
    <3>1. Len(<<t>>) = 1 /\ <<t>>[1] = t /\ Len(b) \in Nat
      OBVIOUS
    <3> QED
      BY <2>1, <3>1 DEF At
  <2>3. Len(v) \in Nat
    BY <1>1
  <2>4. p + 1 \in Nat /\ (p + 1) + Len(v) = p + Len(<<t>> \o v)
    BY <1>2, <2>3
  <2>5. Turns(b, x, p, front, p + 1, ts) /\ Does(b, front, p + 1, (p + 1) + Len(v), rs)
    BY <2>1, <2>2, <2>4 DEF Reads
  <2> QED
    BY <2>2, <2>4, <2>5, DoesTurn
<1> QED
  BY <1>1, <1>2, <1>3 DEF Reads

\* A type of fixed length reads its bytes.
LEMMA ReadsFixed ==
    ASSUME NEW tid \in DOMAIN FixedLength, NEW n \in Nat, FixedLength[tid] = n,
           NEW x \in Seq(0..255), Len(x) = n
    PROVE  Reads(x, <<Parse(tid)>>, <<Got(tid, x)>>) /\ Got(tid, x) \in Result
<1>1. Got(tid, x) \in Result
  BY DEF Got, Result, Types
<1>2. <<Got(tid, x)>> \in Seq(Result)
  BY <1>1
<1>3. <<Parse(tid)>> \in Seq(TodoItem)
  <2>1. Parse(tid) \in TodoItem
    BY ParseItem DEF Types
  <2> QED
    BY <2>1
<1>4. Len(x) = FixedLength[tid]
  OBVIOUS
<1>5. ASSUME NEW b \in Seq(0..255), NEW p \in Nat, At(b, p, x)
      PROVE  Does(b, <<Parse(tid)>>, p, p + Len(x), <<Got(tid, x)>>)
  BY <1>4, <1>5, FixedDoes
<1> QED
  BY <1>1, <1>2, <1>3, <1>5 DEF Reads

\* A sequence reads what its items read.
LEMMA ReadsSequence ==
    ASSUME NEW tid \in DOMAIN Sequences, NEW v, NEW rs, Reads(v, Items(tid), rs)
    PROVE  Reads(v, <<Parse(tid)>>, rs)
<1>1. Parse(tid) \in TodoItem
  BY ParseItem DEF Types
<1>2. ASSUME NEW b, NEW p PROVE Turns(b, Parse(tid), p, Items(tid), p, <<>>)
  BY DEF Turns, TurnsSequence
<1> QED
  BY <1>1, <1>2, TurnReads

\* Nothing is read for nothing.
LEMMA ReadsNothing == Reads(<<>>, <<>>, <<>>)
<1>1. ASSUME NEW b \in Seq(0..255), NEW p \in Nat, At(b, p, <<>>) PROVE Does(b, <<>>, p, p + Len(<<>>), <<>>)
  <2>1. Len(b) \in Nat /\ p + Len(<<>>) = p
    OBVIOUS
  <2>2. p <= Len(b)
    BY <1>1, <2>1 DEF At
  <2>3. p \in 0..Len(b)
    BY <2>1, <2>2
  <2> QED
    BY <2>1, <2>3, DoesNothing
<1> QED
  BY <1>1, NoBytes DEF Reads

\* A choice: a tag and what it chooses.
LEMMA ReadsChoice ==
    ASSUME NEW tid \in ChoiceTypes, tid # "cosem_pdu", NEW t \in 0..255, NEW to, Chosen(tid, t) = to, to # "none",
           NEW v, NEW rs, Reads(v, <<Parse(to)>>, rs)
    PROVE  Reads(<<t>> \o v, <<Parse(tid)>>, rs)
<1>1. Parse(tid) \in TodoItem
  BY ParseItem DEF Types
<1>2. ASSUME NEW b \in Seq(0..255), NEW p \in Nat, p < Len(b), b[p + 1] = t
      PROVE  Turns(b, Parse(tid), p, <<Parse(to)>>, p + 1, <<>>)
  <2>1. TurnsChoice(b, Parse(tid), p, <<Parse(to)>>, p + 1, <<>>)
    BY <1>2 DEF TurnsChoice
  <2> QED
    BY <2>1 DEF Turns
<1>3. Reads(<<t>> \o v, <<Parse(tid)>>, <<>> \o rs)
  BY <1>1, <1>2, NoBytes, TurnReadsByte
<1>4. rs \in Seq(Result)
  BY DEF Reads
<1> QED
  BY <1>3, <1>4, Joined1

\* Data is a tag and what it chooses.
LEMMA ReadsData ==
    ASSUME NEW t \in DOMAIN DataTypes, NEW v, NEW rs, Reads(v, <<Parse(DataTypes[t])>>, rs)
    PROVE  Reads(<<t>> \o v, <<Parse("data")>>, rs)
<1>1. t \in 0..255 /\ Chosen("data", t) = DataTypes[t] /\ DataTypes[t] # "none"
  BY DataTypeNames DEF Chosen
<1>2. "data" \in ChoiceTypes /\ "data" # "cosem_pdu"
  BY DEF ChoiceTypes
<1> QED
  BY <1>1, <1>2, ReadsChoice

\* The third item of a request.
OptionOf(tid) == [op |-> "option", tid |-> tid]

\* An option that is not there is a 0; one that is has a 1 before it.
LEMMA ReadsOption ==
    ASSUME NEW tid \in Types
    PROVE  /\ Reads(<<0>>, <<OptionOf(tid)>>, <<>>)
           /\ \A v, rs : Reads(v, <<Parse(tid)>>, rs) => Reads(<<1>> \o v, <<OptionOf(tid)>>, rs)
<1>1. OptionOf(tid) \in TodoItem /\ OptionOf(tid).op = "option" /\ OptionOf(tid).tid = tid
  BY DEF OptionOf, TodoItem
<1>2. 0 \in 0..255 /\ 1 \in 0..255
  OBVIOUS
<1>3. ASSUME NEW b \in Seq(0..255), NEW p \in Nat, p < Len(b), b[p + 1] = 0
      PROVE  Turns(b, OptionOf(tid), p, <<>>, p + 1, <<>>)
  <2>1. TurnsOption(b, OptionOf(tid), p, <<>>, p + 1, <<>>)
    BY <1>1, <1>3 DEF TurnsOption
  <2> QED
    BY <2>1 DEF Turns
<1>4. Reads(<<0>>, <<OptionOf(tid)>>, <<>>)
  <2>1. Reads(<<0>> \o <<>>, <<OptionOf(tid)>>, <<>> \o <<>>)
    BY <1>1, <1>2, <1>3, NoBytes, ReadsNothing, TurnReadsByte
  <2>2. <<0>> \o <<>> = <<0>> /\ <<>> \o <<>> = <<>>
    OBVIOUS
  <2> QED
    BY <2>1, <2>2
<1>5. ASSUME NEW b \in Seq(0..255), NEW p \in Nat, p < Len(b), b[p + 1] = 1
      PROVE  Turns(b, OptionOf(tid), p, <<Parse(tid)>>, p + 1, <<>>)
  <2>1. TurnsOption(b, OptionOf(tid), p, <<Parse(tid)>>, p + 1, <<>>)
    BY <1>1, <1>5 DEF TurnsOption
  <2> QED
    BY <2>1 DEF Turns
<1>6. ASSUME NEW v, NEW rs, Reads(v, <<Parse(tid)>>, rs) PROVE Reads(<<1>> \o v, <<OptionOf(tid)>>, rs)
  <2>1. Reads(<<1>> \o v, <<OptionOf(tid)>>, <<>> \o rs)
    BY <1>1, <1>2, <1>5, <1>6, NoBytes, TurnReadsByte
  <2>2. rs \in Seq(Result)
    BY <1>6 DEF Reads
  <2> QED
    BY <2>1, <2>2, Joined1
<1> QED
  BY <1>4, <1>6

-----------------------------------------------------------------------------
(* Values, structures and arrays.                                          *)

\* A value of fixed length behind its tag.
LEMMA ReadsValue ==
    ASSUME NEW tag \in DOMAIN DataTypes, NEW tid \in DOMAIN FixedLength, DataTypes[tag] = tid,
           NEW n \in Nat, FixedLength[tid] = n, NEW x \in Seq(0..255), Len(x) = n
    PROVE  Reads(Value(tag, x), <<Parse("data")>>, <<Got(tid, x)>>)
<1>1. Reads(x, <<Parse(tid)>>, <<Got(tid, x)>>)
  BY ReadsFixed
<1> QED
  BY <1>1, ReadsData DEF Value

\* A length before the bytes.
LEMMA ReadsOctets ==
    ASSUME NEW x \in Seq(0..255), NEW n \in 0..127, Len(x) = n
    PROVE  Reads(Octets(x), <<Parse("data")>>, <<Got("octet_string", x)>>)
<1>1. 9 \in DOMAIN DataTypes /\ DataTypes[9] = "octet_string" /\ "octet_string" \in Unfixed
  BY DataTypeNames DEF DataTypes, Unfixed
<1>2. n \in 0..255 /\ n < 128
  OBVIOUS
<1> DEFINE v == <<n>> \o x
<1>3. v \in Seq(0..255) /\ Len(v) = 1 + Len(x) /\ <<n>> \in Seq(0..255)
  BY <1>2
<1>4. ASSUME NEW b \in Seq(0..255), NEW p \in Nat, At(b, p, v)
      PROVE  Does(b, <<Parse("octet_string")>>, p, p + Len(v), <<Got("octet_string", x)>>)
  <2>1. At(b, p, <<n>>) /\ At(b, p + 1, x)
    <3>1. Len(<<n>>) = 1
      OBVIOUS
    <3> QED
      BY <1>3, <1>4, <3>1, AtConcat, Zenon
  <2>2. b[p + 1] = n /\ p < Len(b)
    <3>1. Len(<<n>>) = 1 /\ <<n>>[1] = n /\ Len(b) \in Nat
      OBVIOUS
    <3> QED
      BY <2>1, <3>1 DEF At
  <2>3. LengthAt(b, p) = [size |-> 1, value |-> Len(x)]
    BY <1>2, <2>2, ShortLength
  <2>4. p + 1 + Len(x) = p + Len(v)
    <3>1. Len(x) \in Nat
      OBVIOUS
    <3> QED
      BY <1>3, <3>1
  <2>5. 1 \in Nat /\ 1 # 0
    OBVIOUS
  <2>6. Does(b, <<Parse("octet_string")>>, p, p + 1 + Len(x), <<Got("octet_string", x)>>)
    BY <1>1, <2>1, <2>3, <2>5, UnfixedDoes
  <2> QED
    BY <2>4, <2>6
<1>5. <<Got("octet_string", x)>> \in Seq(Result) /\ <<Parse("octet_string")>> \in Seq(TodoItem)
  <2>1. Got("octet_string", x) \in Result
    BY <1>1 DEF Got, Result, Types
  <2>2. Parse("octet_string") \in TodoItem
    BY <1>1, ParseItem DEF Types
  <2> QED
    BY <2>1, <2>2
<1>6. Octets(x) = <<9>> \o v
  BY DEF Octets
<1> HIDE DEF v
<1>7. Reads(v, <<Parse("octet_string")>>, <<Got("octet_string", x)>>)
  BY <1>3, <1>4, <1>5 DEF Reads
<1> QED
  BY <1>1, <1>6, <1>7, ReadsData

ListType(tag) == IF tag = 1 THEN "sequence_of_array" ELSE "sequence_of_struct"

Head4(tid, n) == <<Got(tid, CountOf(tid, n))>>

\* The number of elements is a result.
LEMMA CountBytes ==
    ASSUME NEW tid \in Lists, NEW n \in 0..127
    PROVE  CountOf(tid, n) \in Seq(0..255) /\ Got(tid, CountOf(tid, n)) \in Result
<1>1. n % 256 \in 0..255 /\ n \div 256 = 0
  OBVIOUS
<1>2. <<n % 256>> \in Seq(0..255)
  BY <1>1
<1>3. <<0, 0>> \in Seq(0..255) /\ <<n \div 256, n % 256>> \in Seq(0..255)
  BY <1>1
<1>4. <<0, 0>> \o <<n \div 256, n % 256>> \in Seq(0..255)
  BY <1>3
<1>5. CountOf(tid, n) \in Seq(0..255)
  BY <1>2, <1>4 DEF CountOf, Short
<1> QED
  BY <1>5 DEF Got, Result, Types

\* The number of elements, and they.
LEMMA ReadsList ==
    ASSUME NEW tid \in Lists, NEW n \in 0..127, NEW v, NEW rs, Reads(v, <<Elements(tid, n)>>, rs)
    PROVE  Reads(<<n>> \o v, <<Parse(tid)>>, Head4(tid, n) \o rs)
<1>1. Parse(tid) \in TodoItem /\ n \in 0..255
  BY ParseItem DEF Types
<1>2. Head4(tid, n) \in Seq(Result)
  <2>1. Got(tid, CountOf(tid, n)) \in Result
    BY CountBytes
  <2> QED
    BY <2>1 DEF Head4
<1>3. ASSUME NEW b \in Seq(0..255), NEW p \in Nat, p < Len(b), b[p + 1] = n
      PROVE  Turns(b, Parse(tid), p, <<Elements(tid, n)>>, p + 1, Head4(tid, n))
  <2>1. LengthAt(b, p) = [size |-> 1, value |-> n]
    BY <1>3, ShortLength
  <2>2. TurnsList(b, Parse(tid), p, <<Elements(tid, n)>>, p + 1, Head4(tid, n))
    BY <2>1 DEF TurnsList, Elements, CountOf, Head4
  <2> QED
    BY <2>2 DEF Turns
<1> QED
  BY <1>1, <1>2, <1>3, TurnReadsByte

\* No element has no bytes.
LEMMA ReadsNoElement ==
    ASSUME NEW tid \in Lists
    PROVE  Reads(<<>>, <<Elements(tid, 0)>>, <<>>)
<1>1. <<Elements(tid, 0)>> \in Seq(TodoItem)
  <2>1. Elements(tid, 0) \in TodoItem
    BY ElementsItem
  <2> QED
    BY <2>1
<1>2. ASSUME NEW b \in Seq(0..255), NEW p \in Nat, At(b, p, <<>>)
      PROVE  Does(b, <<Elements(tid, 0)>>, p, p + Len(<<>>), <<>>)
  <2>1. Len(b) \in Nat /\ p + Len(<<>>) = p
    OBVIOUS
  <2>2. p <= Len(b)
    BY <1>2, <2>1 DEF At
  <2>3. p \in 0..Len(b)
    BY <2>1, <2>2
  <2> QED
    BY <2>1, <2>3, NoElementDoes
<1> QED
  BY <1>1, <1>2, NoBytes DEF Reads

\* One element more in front.
LEMMA ReadsElement ==
    ASSUME NEW tid \in Lists, tid # "attribute_descriptor_list", NEW n \in Nat,
           NEW x, x # <<>>, NEW y, NEW rs, NEW ts,
           Reads(x, <<Parse("data")>>, rs), Reads(y, <<Elements(tid, n)>>, ts)
    PROVE  Reads(x \o y, <<Elements(tid, n + 1)>>, rs \o ts)
<1>1. x \in Seq(0..255) /\ y \in Seq(0..255) /\ rs \in Seq(Result) /\ ts \in Seq(Result)
  BY DEF Reads
<1>2. x \o y \in Seq(0..255) /\ Len(x \o y) = Len(x) + Len(y) /\ rs \o ts \in Seq(Result)
  BY <1>1
<1>3. <<Elements(tid, n + 1)>> \in Seq(TodoItem)
  <2>1. Elements(tid, n + 1) \in TodoItem
    BY ElementsItem
  <2> QED
    BY <2>1
<1>4. ASSUME NEW b \in Seq(0..255), NEW p \in Nat, At(b, p, x \o y)
      PROVE  Does(b, <<Elements(tid, n + 1)>>, p, p + Len(x \o y), rs \o ts)
  <2>1. At(b, p, x) /\ At(b, p + Len(x), y)
    BY <1>1, <1>4, AtConcat
  <2>2. Len(x) \in Nat /\ Len(y) \in Nat
    BY <1>1
  <2>3. p + Len(x) \in Nat /\ (p + Len(x)) + Len(y) = p + Len(x \o y)
    BY <1>2, <2>2
  <2>4. p < Len(b)
    BY <1>1, <2>1, AtRange
  <2>5. /\ Does(b, <<Parse("data")>>, p, p + Len(x), rs)
        /\ Does(b, <<Elements(tid, n)>>, p + Len(x), (p + Len(x)) + Len(y), ts)
    BY <2>1, <2>3 DEF Reads
  <2> QED
    BY <2>3, <2>4, <2>5, ElementDoes
<1> QED
  BY <1>2, <1>3, <1>4 DEF Reads

\* The parsers of arrays and structures.
LEMMA ListTypes ==
    ASSUME NEW tag \in {1, 2}
    PROVE  /\ ListType(tag) \in Lists /\ ListType(tag) # "attribute_descriptor_list"
           /\ tag \in DOMAIN DataTypes /\ DataTypes[tag] = ListType(tag)
<1>1. DataTypes[1] = "sequence_of_array" /\ DataTypes[2] = "sequence_of_struct"
  BY DEF DataTypes
<1>2. tag \in DOMAIN DataTypes
  BY DataTypeNames
<1> QED
  BY <1>1, <1>2 DEF ListType, Lists

\* An array (1) or a structure (2).
LEMMA ReadsLists ==
    ASSUME NEW tag \in {1, 2}, NEW n \in 0..127, NEW v, NEW rs, Reads(v, <<Elements(ListType(tag), n)>>, rs)
    PROVE  Reads(<<tag>> \o (<<n>> \o v), <<Parse("data")>>, Head4(ListType(tag), n) \o rs)
<1>1. Reads(<<n>> \o v, <<Parse(ListType(tag))>>, Head4(ListType(tag), n) \o rs)
  BY ListTypes, ReadsList
<1> QED
  BY <1>1, ListTypes, ReadsData

\* Any number of elements: suffix[k] are the last k of them.
LEMMA ReadsMany ==
    ASSUME NEW tag \in {1, 2}, NEW n \in Nat, NEW suffix, suffix[0] = <<>>,
           \A k \in 1..n : \E x, rs : x # <<>> /\ Reads(x, <<Parse("data")>>, rs) /\ suffix[k] = x \o suffix[k - 1]
    PROVE  \E rs : Reads(suffix[n], <<Elements(ListType(tag), n)>>, rs)
<1> DEFINE T == {k \in Nat : k <= n => \E rs : Reads(suffix[k], <<Elements(ListType(tag), k)>>, rs)}
<1>1. 0 \in T
  <2>1. Reads(suffix[0], <<Elements(ListType(tag), 0)>>, <<>>)
    BY ListTypes, ReadsNoElement
  <2> QED
    BY <2>1
<1>2. ASSUME NEW k \in Nat, k \in T PROVE k + 1 \in T
  <2>0. SUFFICES ASSUME k + 1 <= n
                 PROVE  \E rs : Reads(suffix[k + 1], <<Elements(ListType(tag), k + 1)>>, rs)
    OBVIOUS
  <2>1. PICK ts : Reads(suffix[k], <<Elements(ListType(tag), k)>>, ts)
    BY <1>2, <2>0
  <2>2. k + 1 \in 1..n /\ (k + 1) - 1 = k
    BY <2>0
  <2>3. PICK x, rs : x # <<>> /\ Reads(x, <<Parse("data")>>, rs) /\ suffix[k + 1] = x \o suffix[k]
    BY <2>2
  <2>4. Reads(x \o suffix[k], <<Elements(ListType(tag), k + 1)>>, rs \o ts)
    BY <2>1, <2>3, ListTypes, ReadsElement
  <2> QED
    BY <2>3, <2>4
<1> HIDE DEF T
<1>3. Nat \subseteq T
  BY <1>1, <1>2, Induction
<1>4. n \in T
  BY <1>3
<1> QED
  BY <1>4 DEF T

-----------------------------------------------------------------------------
(* Suffixes.                                                               *)

Joins(x, y, z, m, l) ==
    /\ Len(x) = m /\ Len(y) = l /\ Len(z) = m + l
    /\ \A k \in 1..m : z[k] = x[k]
    /\ \A k \in 1..l : z[m + k] = y[k]

\* A sequence that has the elements of two, one after the other, is both joined.
LEMMA JoinedIs ==
    ASSUME NEW S, NEW x \in Seq(S), NEW y \in Seq(S), NEW z \in Seq(S), NEW m \in Nat, NEW l \in Nat,
           Joins(x, y, z, m, l)
    PROVE  x \o y = z
<1>0. /\ Len(x) = m /\ Len(y) = l /\ Len(z) = m + l
      /\ \A k \in 1..m : z[k] = x[k]
      /\ \A k \in 1..l : z[m + k] = y[k]
  BY DEF Joins
<1>1. x \o y \in Seq(S) /\ Len(x \o y) = Len(z)
  <2>1. x \o y \in Seq(S) /\ Len(x \o y) = Len(x) + Len(y)
    OBVIOUS
  <2> QED
    BY <1>0, <2>1
<1>2. /\ \A k \in 1..Len(x) : (x \o y)[k] = x[k]
      /\ \A k \in 1..Len(y) : (x \o y)[Len(x) + k] = y[k]
  OBVIOUS
<1>3. ASSUME NEW k \in 1..Len(x \o y) PROVE (x \o y)[k] = z[k]
  <2>1. k \in 1..(m + l)
    BY <1>0, <1>1
  <2>2. CASE k <= m
    BY <1>0, <1>2, <2>1, <2>2
  <2>3. CASE k > m
    <3>1. k - m \in 1..l /\ k = m + (k - m)
      BY <2>1, <2>3
    <3> QED
      BY <1>0, <1>2, <3>1, Zenon
  <2> QED
    BY <2>1, <2>2, <2>3
<1> QED
  BY <1>1, <1>3, SeqEqual

\* The elements of a part.
LEMMA CutOut ==
    ASSUME NEW S, NEW b \in Seq(S), NEW p \in Nat, NEW m \in Nat, NEW q, q = p + m, q <= Len(b)
    PROVE  /\ SubSeq(b, p + 1, q) \in Seq(S) /\ Len(SubSeq(b, p + 1, q)) = m
           /\ \A k \in 1..m : SubSeq(b, p + 1, q)[k] = b[p + k]
<1>1. Len(b) \in Nat
  OBVIOUS
<1> QED
  BY <1>1, SMTT(30)

\* A part and what follows it.
LEMMA CutFront ==
    ASSUME NEW S, NEW b \in Seq(S), NEW p \in Nat, NEW q \in Nat, p <= q, q <= Len(b)
    PROVE  /\ SubSeq(b, p + 1, q) \in Seq(S) /\ Len(SubSeq(b, p + 1, q)) = q - p
           /\ SubSeq(b, q + 1, Len(b)) \in Seq(S)
           /\ SubSeq(b, p + 1, q) \o SubSeq(b, q + 1, Len(b)) = SubSeq(b, p + 1, Len(b))
<1>0. Len(b) \in Nat
  OBVIOUS
<1>1. PICK m \in Nat, l \in Nat : m = q - p /\ l = Len(b) - q
  <2>1. q - p \in Nat /\ Len(b) - q \in Nat
    BY <1>0
  <2> QED
    BY <2>1
<1>2. q = p + m /\ Len(b) = q + l /\ Len(b) = p + (m + l) /\ m + l \in Nat /\ Len(b) <= Len(b)
  BY <1>0, <1>1
<1> DEFINE x == SubSeq(b, p + 1, q)
           y == SubSeq(b, q + 1, Len(b))
           z == SubSeq(b, p + 1, Len(b))
<1>3. x \in Seq(S) /\ Len(x) = m /\ \A k \in 1..m : x[k] = b[p + k]
  BY <1>2, CutOut
<1>4. y \in Seq(S) /\ Len(y) = l /\ \A k \in 1..l : y[k] = b[q + k]
  BY <1>2, CutOut
<1>5. z \in Seq(S) /\ Len(z) = m + l /\ \A k \in 1..(m + l) : z[k] = b[p + k]
  BY <1>2, CutOut
<1> HIDE DEF x, y, z
<1>6. \A k \in 1..m : z[k] = x[k]
  BY <1>3, <1>5
<1>7. \A k \in 1..l : z[m + k] = y[k]
  <2>1. ASSUME NEW k \in 1..l PROVE z[m + k] = y[k]
    <3>1. m + k \in 1..(m + l) /\ p + (m + k) = q + k
      BY <1>2
    <3> QED
      BY <1>4, <1>5, <3>1
  <2> QED
    BY <2>1
<1>8. x \o y = z
  <2>1. x \in Seq(S) /\ y \in Seq(S) /\ z \in Seq(S)
    BY <1>3, <1>4, <1>5
  <2>2. Joins(x, y, z, m, l)
    BY <1>3, <1>4, <1>5, <1>6, <1>7 DEF Joins
  <2> QED
    BY <2>1, <2>2, JoinedIs
<1> QED
  BY <1>1, <1>3, <1>4, <1>8 DEF x, y, z

\* The whole of it, and nothing.
LEMMA CutEnds ==
    ASSUME NEW S, NEW b \in Seq(S)
    PROVE  SubSeq(b, 1, Len(b)) = b /\ SubSeq(b, Len(b) + 1, Len(b)) = <<>>
  OBVIOUS

\* What FlattenSeq makes of pieces is the first one and what it makes of the others.
LEMMA FlattenSuffixes ==
    ASSUME NEW S, NEW pieces \in Seq(Seq(S))
    PROVE  \E suffix :
              /\ suffix[0] = <<>> /\ suffix[Len(pieces)] = FlattenSeq(pieces)
              /\ \A k \in 1..Len(pieces) : suffix[k] = pieces[Len(pieces) + 1 - k] \o suffix[k - 1]
<1> DEFINE flat == FlattenSeq(pieces)
           n == Len(pieces)
<1>1. flat \in Seq(S) /\ n \in Nat
  BY FlattenCuts
<1>2. PICK cut : Cuts(cut, pieces, flat)
  BY FlattenCuts
<1> HIDE DEF flat, n
<1>3. cut \in [0..n -> Nat] /\ cut[0] = 0 /\ cut[n] = Len(flat)
  BY <1>2 DEF Cuts, n
<1>4. ASSUME NEW i \in 1..n PROVE cut[i] = cut[i - 1] + Len(pieces[i]) /\ At(flat, cut[i - 1], pieces[i])
  BY <1>2 DEF Cuts, n
<1> DEFINE suffix == [k \in 0..n |-> SubSeq(flat, cut[n - k] + 1, Len(flat))]
<1>5. suffix[0] = <<>> /\ suffix[n] = flat
  <2>1. n - 0 = n /\ n - n = 0 /\ 0 \in 0..n /\ n \in 0..n /\ 0 + 1 = 1
    BY <1>1
  <2> QED
    BY <1>1, <1>3, <2>1, CutEnds
<1>6. ASSUME NEW k \in 1..n PROVE suffix[k] = pieces[n + 1 - k] \o suffix[k - 1]
  <2> DEFINE i == n + 1 - k
  <2>1. i \in 1..n /\ i - 1 = n - k /\ i = n - (k - 1) /\ k \in 0..n /\ k - 1 \in 0..n /\ i \in 0..n /\ i - 1 \in 0..n
    BY <1>1
  <2>2. suffix[k] = SubSeq(flat, cut[i - 1] + 1, Len(flat)) /\ suffix[k - 1] = SubSeq(flat, cut[i] + 1, Len(flat))
    BY <2>1
  <2> HIDE DEF i, suffix
  <2>3. pieces[i] \in Seq(S)
    BY <2>1, ElementOfSeq DEF n
  <2>4. cut[i - 1] \in Nat /\ cut[i] \in Nat /\ Len(pieces[i]) \in Nat
    BY <1>3, <2>1, <2>3
  <2>5. cut[i] = cut[i - 1] + Len(pieces[i]) /\ At(flat, cut[i - 1], pieces[i])
    BY <1>4, <2>1
  <2>6. SubSeq(flat, cut[i - 1] + 1, cut[i]) = pieces[i]
    <3>1. SubSeq(flat, cut[i - 1] + 1, cut[i - 1] + Len(pieces[i])) = pieces[i]
      BY <1>1, <2>3, <2>4, <2>5, AtCut
    <3> QED
      BY <2>5, <3>1
  <2>7. cut[i - 1] <= cut[i] /\ cut[i] <= Len(flat)
    BY <1>1, <2>4, <2>5 DEF At
  <2>8. SubSeq(flat, cut[i - 1] + 1, cut[i]) \o SubSeq(flat, cut[i] + 1, Len(flat)) = SubSeq(flat, cut[i - 1] + 1, Len(flat))
    BY <1>1, <2>4, <2>7, CutFront
  <2> QED
    BY <2>2, <2>6, <2>8 DEF i
<1> HIDE DEF suffix
<1> QED
  BY <1>5, <1>6 DEF flat, n

-----------------------------------------------------------------------------
(* What a client writes.                                                   *)

\* A class is two bytes that make it.
LEMMA ShortBytes ==
    ASSUME NEW n \in ClassIds
    PROVE  Short(n) \in Seq(0..255) /\ Len(Short(n)) = 2 /\ Short(n)[1] * 256 + Short(n)[2] = n
<1>1. n \in Nat /\ n <= 65535
  BY SMTT(30) DEF ClassIds
<1>2. n \div 256 \in Nat /\ n \div 256 < 256
  BY <1>1, Z3
<1>3. n % 256 \in 0..255 /\ (n \div 256) * 256 + (n % 256) = n
  BY <1>1, Z3
<1> DEFINE d == n \div 256
           m == n % 256
<1>4. d \in 0..255 /\ m \in 0..255 /\ d * 256 + m = n /\ Short(n) = <<d, m>>
  BY <1>2, <1>3 DEF Short
<1> HIDE DEF d, m
<1> QED
  BY <1>4

\* There are n results.
Sized(rs, n) == rs \in Seq(Result) /\ n \in Nat /\ Len(rs) = n

\* Results in front of others.
LEMMA SizedBoth ==
    ASSUME NEW r, NEW s, NEW m, NEW l, Sized(r, m), Sized(s, l), NEW n, n = m + l
    PROVE  /\ Sized(r \o s, n)
           /\ \A i \in 1..m : (r \o s)[i] = r[i]
           /\ \A i \in 1..l : (r \o s)[m + i] = s[i]
<1>1. r \in Seq(Result) /\ s \in Seq(Result) /\ m \in Nat /\ l \in Nat /\ Len(r) = m /\ Len(s) = l
  BY DEF Sized
<1>2. r \o s \in Seq(Result) /\ Len(r \o s) = Len(r) + Len(s)
  BY <1>1
<1>3. /\ \A i \in 1..Len(r) : (r \o s)[i] = r[i]
      /\ \A i \in 1..Len(s) : (r \o s)[Len(r) + i] = s[i]
  BY <1>1
<1> QED
  BY <1>1, <1>2, <1>3 DEF Sized

\* One result.
LEMMA SizedOne ==
    ASSUME NEW x \in Result
    PROVE  Sized(<<x>>, 1) /\ <<x>>[1] = x
<1>1. <<x>> \in Seq(Result) /\ Len(<<x>>) = 1 /\ <<x>>[1] = x
  OBVIOUS
<1> QED
  BY <1>1 DEF Sized

\* Brackets.
LEMMA Closed == \A S : \A x, y \in Seq(S) : x \o y \in Seq(S)
  OBVIOUS

\* Joining is associative.
LEMMA Brackets ==
    ASSUME NEW S, NEW x, NEW y, NEW z, x \in Seq(S), y \in Seq(S), z \in Seq(S)
    PROVE  (x \o y) \o z = x \o (y \o z)
  BY ConcatAssociative

Regrouped(h, a, b, c, d) == h \o a \o b \o c \o d = h \o (a \o (b \o (c \o d)))

\* Five parts joined, and the same from the right.
LEMMA Five ==
    ASSUME NEW S, NEW h, NEW a, NEW b, NEW c, NEW d, h \in Seq(S), a \in Seq(S),
           b \in Seq(S), c \in Seq(S), d \in Seq(S)
    PROVE  Regrouped(h, a, b, c, d)
<1> DEFINE g == h \o a
           f == g \o b
           y == c \o d
           x == b \o y
<1>1. g \in Seq(S) /\ y \in Seq(S)
  BY Closed, Zenon
<1> HIDE DEF g, y
<1>2. f \in Seq(S) /\ x \in Seq(S)
  BY <1>1, Closed, Zenon
<1> HIDE DEF f, x
<1>3. (f \o c) \o d = f \o (c \o d)
  BY ONLY <1>2, c \in Seq(S), d \in Seq(S), Brackets, SMTT(30)
<1>4. (g \o b) \o y = g \o (b \o y)
  BY ONLY <1>1, b \in Seq(S), Brackets
<1>5. (h \o a) \o x = h \o (a \o x)
  BY ONLY <1>2, h \in Seq(S), a \in Seq(S), Brackets, SMTT(30)
<1> QED
  BY ONLY <1>3, <1>4, <1>5 DEF f, g, x, y, Regrouped

\* Two bytes in front.
LEMMA TwoBytes ==
    ASSUME NEW s \in 0..255, NEW t \in 0..255, NEW v \in Seq(0..255)
    PROVE  <<s, t>> \o v = <<s>> \o (<<t>> \o v) /\ <<s, t>> \o v # <<>> /\ <<s, t>> \in Seq(0..255)
<1>1. <<s>> \in Seq(0..255) /\ <<t>> \in Seq(0..255) /\ <<s, t>> \in Seq(0..255)
  OBVIOUS
<1>1a. <<s, t>> = <<s>> \o <<t>>
  <2>1. Joins(<<s>>, <<t>>, <<s, t>>, 1, 1)
    BY DEF Joins
  <2> QED
    BY <1>1, <2>1, JoinedIs
<1>2. <<s>> \o (<<t>> \o v) = (<<s>> \o <<t>>) \o v
  BY <1>1, Associates
<1>3. Len(<<s, t>> \o v) = 2 + Len(v) /\ Len(v) \in Nat
  OBVIOUS
<1> QED
  BY <1>1, <1>1a, <1>2, <1>3

\* Bytes with one in front.
LEMMA NotEmpty ==
    ASSUME NEW t \in 0..255, NEW v \in Seq(0..255)
    PROVE  <<t>> \o v # <<>> /\ <<t>> \o v \in Seq(0..255)
<1>1. Len(<<t>> \o v) = 1 + Len(v) /\ Len(v) \in Nat /\ <<t>> \o v \in Seq(0..255)
  OBVIOUS
<1> QED
  BY <1>1

StructHead == Head4("sequence_of_struct", 4)

FourResults(r1, r2, r3, r4) == StructHead \o (r1 \o (r2 \o (r3 \o r4)))

\* A value with a tag is not empty.
ReadsSome(v, rs) == v # <<>> /\ Reads(v, <<Parse("data")>>, rs)

\* A structure of four.
LEMMA ReadsFour ==
    ASSUME NEW v1, NEW v2, NEW v3, NEW v4, NEW r1, NEW r2, NEW r3, NEW r4,
           ReadsSome(v1, r1), ReadsSome(v2, r2), ReadsSome(v3, r3), ReadsSome(v4, r4)
    PROVE  ReadsSome(<<2, 4>> \o v1 \o v2 \o v3 \o v4, FourResults(r1, r2, r3, r4))
<1> DEFINE E(n) == <<Elements(ListType(2), n)>>
<1>1. /\ v1 \in Seq(0..255) /\ v2 \in Seq(0..255) /\ v3 \in Seq(0..255) /\ v4 \in Seq(0..255)
      /\ r4 \in Seq(Result)
  BY DEF Reads, ReadsSome
<1>2. ListType(2) \in Lists /\ ListType(2) # "attribute_descriptor_list" /\ ListType(2) = "sequence_of_struct"
  BY DEF ListType, Lists
<1>3. Reads(<<>>, E(0), <<>>)
  BY <1>2, ReadsNoElement
<1>4. Reads(v4, E(1), r4)
  <2>1. Reads(v4 \o <<>>, E(0 + 1), r4 \o <<>>)
    BY <1>2, <1>3, ReadsElement DEF ReadsSome
  <2>2. v4 \o <<>> = v4 /\ r4 \o <<>> = r4 /\ 0 + 1 = 1
    BY <1>1, Joined1
  <2> QED
    BY <2>1, <2>2
<1>5. Reads(v3 \o v4, E(2), r3 \o r4)
  <2>1. Reads(v3 \o v4, E(1 + 1), r3 \o r4)
    BY <1>2, <1>4, ReadsElement DEF ReadsSome
  <2> QED
    BY <2>1
<1>6. Reads(v2 \o (v3 \o v4), E(3), r2 \o (r3 \o r4))
  <2>1. Reads(v2 \o (v3 \o v4), E(2 + 1), r2 \o (r3 \o r4))
    BY <1>2, <1>5, ReadsElement DEF ReadsSome
  <2> QED
    BY <2>1
<1>7. Reads(v1 \o (v2 \o (v3 \o v4)), E(4), r1 \o (r2 \o (r3 \o r4)))
  <2>1. Reads(v1 \o (v2 \o (v3 \o v4)), E(3 + 1), r1 \o (r2 \o (r3 \o r4)))
    BY <1>2, <1>6, ReadsElement DEF ReadsSome
  <2> QED
    BY <2>1
<1> DEFINE v == v1 \o (v2 \o (v3 \o v4))
<1>8. v \in Seq(0..255)
  BY <1>7 DEF Reads
<1>9. 2 \in {1, 2} /\ 4 \in 0..127 /\ 2 \in 0..255 /\ 4 \in 0..255
  OBVIOUS
<1>10. <<2, 4>> \o v1 \o v2 \o v3 \o v4 = <<2, 4>> \o v
  <2> DEFINE h == <<2, 4>>
             S == 0..255
  <2>1. h \in Seq(S) /\ v1 \in Seq(S) /\ v2 \in Seq(S) /\ v3 \in Seq(S) /\ v4 \in Seq(S)
    BY <1>1
  <2> HIDE DEF h, S
  <2>2. Regrouped(h, v1, v2, v3, v4)
    BY ONLY <2>1, Five
  <2> QED
    BY <2>2 DEF Regrouped, h
<1> HIDE DEF v, E
<1>11. Reads(<<2>> \o (<<4>> \o v), <<Parse("data")>>, Head4(ListType(2), 4) \o (r1 \o (r2 \o (r3 \o r4))))
  BY <1>7, <1>9, ReadsLists DEF v, E
<1>12. <<2, 4>> \o v = <<2>> \o (<<4>> \o v) /\ <<2, 4>> \o v # <<>>
  BY <1>8, <1>9, TwoBytes, ZenonT(40)
<1> QED
  BY <1>2, <1>10, <1>11, <1>12 DEF ReadsSome, FourResults, StructHead

\* The head of a structure is one result.
LEMMA StructHeadSize == Sized(StructHead, 1)
<1>1. 4 \in 0..127 /\ "sequence_of_struct" \in Lists
  BY DEF Lists
<1> QED
  BY <1>1, CountBytes, SizedOne DEF StructHead, Head4

\* A structure and its results.
LEMMA FourSized ==
    ASSUME NEW r1, NEW r2, NEW r3, NEW r4, NEW n1, NEW n2, NEW n3, NEW n4,
           Sized(r1, n1), Sized(r2, n2), Sized(r3, n3), Sized(r4, n4), NEW n, n = 1 + n1 + n2 + n3 + n4
    PROVE  Sized(FourResults(r1, r2, r3, r4), n)
<1>1. n1 \in Nat /\ n2 \in Nat /\ n3 \in Nat /\ n4 \in Nat
  BY DEF Sized
<1>2. Sized(r3 \o r4, n3 + n4)
  BY SizedBoth
<1>3. Sized(r2 \o (r3 \o r4), n2 + (n3 + n4))
  BY <1>2, SizedBoth
<1>4. Sized(r1 \o (r2 \o (r3 \o r4)), n1 + (n2 + (n3 + n4)))
  BY <1>3, SizedBoth
<1>5. n = 1 + (n1 + (n2 + (n3 + n4)))
  BY <1>1
<1> QED
  BY <1>4, <1>5, StructHeadSize, SizedBoth DEF FourResults

\* The tags that clients write and what they choose.
LEMMA Tags ==
    /\ {1, 2, 6, 9, 15, 18, 25} \subseteq DOMAIN DataTypes
    /\ DataTypes[6] = "unsigned32" /\ DataTypes[15] = "integer8" /\ DataTypes[18] = "unsigned16"
    /\ DataTypes[25] = "datetime"
    /\ {"unsigned32", "integer8", "unsigned16", "datetime"} \subseteq DOMAIN FixedLength
    /\ FixedLength["unsigned32"] = 4 /\ FixedLength["integer8"] = 1
    /\ FixedLength["unsigned16"] = 2 /\ FixedLength["datetime"] = 12
<1>1. {1, 2, 6, 9, 15, 18, 25} \subseteq DOMAIN DataTypes
  BY DataTypeNames
<1>2. /\ DataTypes[6] = "unsigned32" /\ DataTypes[15] = "integer8" /\ DataTypes[18] = "unsigned16"
      /\ DataTypes[25] = "datetime"
  BY DEF DataTypes
<1> QED
  BY <1>1, <1>2 DEF FixedLength

\* A value of a fixed length and its one result.
LEMMA OneValue ==
    ASSUME NEW tag \in DOMAIN DataTypes, NEW tid \in DOMAIN FixedLength, DataTypes[tag] = tid,
           NEW n \in Nat, FixedLength[tid] = n, NEW x \in Seq(0..255), Len(x) = n
    PROVE  ReadsSome(Value(tag, x), <<Got(tid, x)>>) /\ Sized(<<Got(tid, x)>>, 1) /\ <<Got(tid, x)>>[1] = Got(tid, x)
<1>1. Reads(Value(tag, x), <<Parse("data")>>, <<Got(tid, x)>>)
  BY ReadsValue
<1>2. Got(tid, x) \in Result
  BY DEF Got, Result, Types
<1>3. tag \in 0..255
  BY DataTypeNames
<1>4. Value(tag, x) # <<>>
  BY <1>3, NotEmpty DEF Value
<1> QED
  BY <1>1, <1>2, <1>4, SizedOne DEF ReadsSome

\* Octets leave one result.
LEMMA OneOctets ==
    ASSUME NEW x \in Seq(0..255), NEW n \in 0..127, Len(x) = n
    PROVE  /\ ReadsSome(Octets(x), <<Got("octet_string", x)>>) /\ Sized(<<Got("octet_string", x)>>, 1)
           /\ <<Got("octet_string", x)>>[1] = Got("octet_string", x)
<1>1. Reads(Octets(x), <<Parse("data")>>, <<Got("octet_string", x)>>)
  BY ReadsOctets
<1>2. Got("octet_string", x) \in Result
  BY DEF Got, Result, Types, Unfixed
<1>3. Octets(x) # <<>>
  <2>1. 9 \in 0..255 /\ n \in 0..255
    OBVIOUS
  <2> QED
    BY <2>1, TwoBytes, ZenonT(40) DEF Octets
<1> QED
  BY <1>1, <1>2, <1>3, SizedOne DEF ReadsSome

\* A column takes five results.
LEMMA ReadsColumn ==
    ASSUME NEW class \in ClassIds
    PROVE  \E rs : ReadsSome(Column(class), rs) /\ Sized(rs, 5)
<1> DEFINE s == Short(class)
           o == <<0, 0, 1, 0, 0, 255>>
           two == <<2>>
           zero == <<0, 0>>
<1>1. s \in Seq(0..255) /\ Len(s) = 2
  BY ShortBytes
<1>2. o \in Seq(0..255) /\ Len(o) = 6 /\ 6 \in 0..127
  OBVIOUS
<1>3. two \in Seq(0..255) /\ Len(two) = 1 /\ zero \in Seq(0..255) /\ Len(zero) = 2
  OBVIOUS
<1>4. Column(class) = <<2, 4>> \o Value(18, s) \o Octets(o) \o Value(15, two) \o Value(18, zero)
  BY DEF Column
<1> HIDE DEF s, o, two, zero
<1>5. 18 \in DOMAIN DataTypes /\ 15 \in DOMAIN DataTypes /\ "unsigned16" \in DOMAIN FixedLength /\ "integer8" \in DOMAIN FixedLength
      /\ 1 \in Nat /\ 2 \in Nat
  BY Tags
<1>5a. DataTypes[18] = "unsigned16" /\ DataTypes[15] = "integer8" /\ FixedLength["integer8"] = 1 /\ FixedLength["unsigned16"] = 2
  BY Tags
<1>6. ReadsSome(Value(18, s), <<Got("unsigned16", s)>>) /\ Sized(<<Got("unsigned16", s)>>, 1)
  BY <1>1, <1>5, <1>5a, OneValue, Zenon
<1>7. ReadsSome(Octets(o), <<Got("octet_string", o)>>) /\ Sized(<<Got("octet_string", o)>>, 1)
  BY <1>2, OneOctets
<1>8. ReadsSome(Value(15, two), <<Got("integer8", two)>>) /\ Sized(<<Got("integer8", two)>>, 1)
  BY <1>3, <1>5, <1>5a, OneValue, Zenon
<1>9. ReadsSome(Value(18, zero), <<Got("unsigned16", zero)>>) /\ Sized(<<Got("unsigned16", zero)>>, 1)
  BY <1>3, <1>5, <1>5a, OneValue, Zenon
<1>10. 5 = 1 + 1 + 1 + 1 + 1
  OBVIOUS
<1> DEFINE rs == FourResults(<<Got("unsigned16", s)>>, <<Got("octet_string", o)>>, <<Got("integer8", two)>>,
                             <<Got("unsigned16", zero)>>)
<1>11. ReadsSome(Column(class), rs)
  BY <1>4, <1>6, <1>7, <1>8, <1>9, ReadsFour
<1>12. Sized(rs, 5)
  BY <1>6, <1>7, <1>8, <1>9, <1>10, FourSized
<1> QED
  BY <1>11, <1>12

-----------------------------------------------------------------------------
(* Selections.                                                             *)

\* The bytes of a date_time.
IsDateTime(d, hour, status) == d \in Seq(0..255) /\ Len(d) = 12 /\ d[6] = hour /\ d[12] = status

\* The hour and the status of a date are its sixth and twelfth byte.
LEMMA TwelveBytes ==
    ASSUME NEW hour \in 0..255, NEW status \in 0..255
    PROVE  IsDateTime(<<7, 230, 1, 1, 1, hour, 0, 0, 0, 128, 0, status>>, hour, status)
<1> DEFINE d == <<7, 230, 1, 1, 1, hour, 0, 0, 0, 128, 0, status>>
<1>1. Len(d) = 12 /\ d[6] = hour /\ d[12] = status
  OBVIOUS
<1>2. d \in Seq(0..255)
  OBVIOUS
<1> HIDE DEF d
<1>3. IsDateTime(d, hour, status)
  BY <1>1, <1>2 DEF IsDateTime
<1> QED
  BY <1>3 DEF d

\* A date shows the hour of its time and its status.
LEMMA DateBytes ==
    ASSUME NEW sel, IsRange(sel), NEW time \in 0..254
    PROVE  IsDateTime(Date(sel, time), LocalHour(time), Status(sel, time))
<1>1. LocalHour(time) \in 0..255
  BY DEF LocalHour
<1>2. Status(sel, time) \in 0..255
  BY DEF Status, IsRange
<1> QED
  BY <1>1, <1>2, TwelveBytes DEF Date

\* The result of a date_time.
Dated(x, sel, time) ==
    x = Got(IF sel.asDate THEN "datetime" ELSE "octet_string", Date(sel, time))

\* A time, as a date_time or as octets, leaves one result that shows it.
LEMMA ReadsInstance ==
    ASSUME NEW sel, IsRange(sel), NEW time \in 0..254
    PROVE  \E x : ReadsSome(Instance(sel, time), <<x>>) /\ Sized(<<x>>, 1) /\ <<x>>[1] = x /\ Dated(x, sel, time)
<1> DEFINE d == Date(sel, time)
<1>1. d \in Seq(0..255) /\ Len(d) = 12
  BY DateBytes DEF IsDateTime
<1>2. CASE sel.asDate
  <2>1. Instance(sel, time) = Value(25, d)
    BY <1>2 DEF Instance
  <2>2. Dated(Got("datetime", d), sel, time)
    BY <1>2 DEF Dated
  <2>3. 25 \in DOMAIN DataTypes /\ "datetime" \in DOMAIN FixedLength /\ 12 \in Nat
    BY Tags
  <2>4. DataTypes[25] = "datetime" /\ FixedLength["datetime"] = 12
    BY Tags
  <2> HIDE DEF d
  <2>5. /\ ReadsSome(Value(25, d), <<Got("datetime", d)>>) /\ Sized(<<Got("datetime", d)>>, 1)
        /\ <<Got("datetime", d)>>[1] = Got("datetime", d)
    BY <1>1, <2>3, <2>4, OneValue
  <2> QED
    BY <2>1, <2>2, <2>5
<1>3. CASE ~sel.asDate
  <2>1. Instance(sel, time) = Octets(d)
    BY <1>3 DEF Instance
  <2>2. Dated(Got("octet_string", d), sel, time)
    BY <1>3 DEF Dated
  <2>3. 12 \in 0..127
    OBVIOUS
  <2> HIDE DEF d
  <2>4. /\ ReadsSome(Octets(d), <<Got("octet_string", d)>>) /\ Sized(<<Got("octet_string", d)>>, 1)
        /\ <<Got("octet_string", d)>>[1] = Got("octet_string", d)
    BY <1>1, <2>3, OneOctets
  <2> QED
    BY <2>1, <2>2, <2>4
<1> QED
  BY <1>2, <1>3

\* The columns: without any, one result says so.
LEMMA ReadsColumns ==
    ASSUME NEW n \in 0..127
    PROVE  \E rs, m : ReadsSome(<<1, n>> \o Columns(n), rs) /\ Sized(rs, m) /\ m > 0 /\ (n = 0 => m = 1)
<1> DEFINE c == Column(3)
           pieces == [i \in 1..n |-> c]
<1>0. n \in Nat /\ n \in 0..255 /\ 1 \in 0..255 /\ 1 \in {1, 2}
  OBVIOUS
<1>1. PICK cs : ReadsSome(c, cs) /\ Sized(cs, 5)
  <2>1. 3 \in ClassIds
    BY SMT DEF ClassIds
  <2> QED
    BY <2>1, ReadsColumn
<1>2. c # <<>> /\ Reads(c, <<Parse("data")>>, cs) /\ c \in Seq(0..255)
  BY <1>1 DEF ReadsSome, Reads
<1> HIDE DEF c
<1>3. pieces \in Seq(Seq(0..255)) /\ Len(pieces) = n
  BY <1>0, <1>2
<1>4. Columns(n) = FlattenSeq(pieces)
  BY DEF Columns, c
<1>5. PICK suffix :
         /\ suffix[0] = <<>> /\ suffix[Len(pieces)] = FlattenSeq(pieces)
         /\ \A k \in 1..Len(pieces) : suffix[k] = pieces[Len(pieces) + 1 - k] \o suffix[k - 1]
  BY <1>3, FlattenSuffixes
<1>6. \A k \in 1..n : suffix[k] = c \o suffix[k - 1]
  <2>1. ASSUME NEW k \in 1..n PROVE pieces[n + 1 - k] = c
    <3>1. n + 1 - k \in 1..n
      BY <1>0
    <3> QED
      BY <3>1
  <2> HIDE DEF pieces
  <2> QED
    BY <1>3, <1>5, <2>1
<1> HIDE DEF pieces
<1>7. suffix[0] = <<>> /\ suffix[n] = Columns(n)
  BY <1>3, <1>4, <1>5
<1>8. ListType(1) \in Lists /\ ListType(1) = "sequence_of_array"
  BY DEF ListType, Lists
<1>9. Sized(Head4(ListType(1), n), 1)
  BY <1>8, CountBytes, SizedOne DEF Head4
<1>10. PICK ts : Reads(Columns(n), <<Elements(ListType(1), n)>>, ts) /\ (n = 0 => ts = <<>>)
  <2>1. CASE n = 0
    <3>1. Reads(<<>>, <<Elements(ListType(1), 0)>>, <<>>)
      BY <1>8, ReadsNoElement
    <3> QED
      BY <1>7, <2>1, <3>1
  <2>2. CASE n # 0
    <3>1. \A k \in 1..n : \E x, rs : x # <<>> /\ Reads(x, <<Parse("data")>>, rs) /\ suffix[k] = x \o suffix[k - 1]
      BY <1>2, <1>6
    <3>2. \E rs : Reads(suffix[n], <<Elements(ListType(1), n)>>, rs)
      BY <1>0, <1>7, <3>1, ReadsMany
    <3> QED
      BY <1>7, <2>2, <3>2
  <2> QED
    BY <2>1, <2>2
<1>11. Reads(<<1>> \o (<<n>> \o Columns(n)), <<Parse("data")>>, Head4(ListType(1), n) \o ts)
  BY <1>0, <1>10, ReadsLists
<1>12. <<1, n>> \o Columns(n) = <<1>> \o (<<n>> \o Columns(n)) /\ <<1, n>> \o Columns(n) # <<>>
  <2>1. Columns(n) \in Seq(0..255)
    BY <1>10 DEF Reads
  <2> QED
    BY <1>0, <2>1, TwoBytes, Zenon
<1>13. PICK l : Sized(ts, l) /\ (n = 0 => l = 0)
  <2>1. ts \in Seq(Result)
    BY <1>10 DEF Reads
  <2>2. Sized(ts, Len(ts)) /\ (ts = <<>> => Len(ts) = 0)
    BY <2>1 DEF Sized
  <2> QED
    BY <1>10, <2>2
<1>14. l \in Nat
  BY <1>13 DEF Sized
<1>15. Sized(Head4(ListType(1), n) \o ts, 1 + l)
  BY <1>9, <1>13, SizedBoth
<1>16. 1 + l > 0 /\ (n = 0 => 1 + l = 1)
  BY <1>13, <1>14
<1> QED
  BY <1>11, <1>12, <1>15, <1>16 DEF ReadsSome

RangeData(sel) ==
    <<2, 4>> \o Column(8) \o Instance(sel, sel.start) \o Instance(sel, sel.end)
        \o (<<1, sel.columns>> \o Columns(sel.columns))

\* The dates are the seventh and the eighth result.
RangeResults(rs, sel) ==
    \E n : /\ Sized(rs, n) /\ n > 8 /\ (sel.columns = 0 => n = 9)
           /\ Dated(rs[7], sel, sel.start) /\ Dated(rs[8], sel, sel.end)

Together(z, r, m, s, l) == z = r \o s /\ Sized(r, m) /\ Sized(s, l)

\* Where the first of two lies in both.
LEMMA JoinedFirst ==
    ASSUME NEW r, NEW s, NEW m, NEW l, NEW z, Together(z, r, m, s, l), NEW i \in Nat, 1 <= i, i <= m
    PROVE  z[i] = r[i]
<1>1. r \in Seq(Result) /\ s \in Seq(Result) /\ i \in 1..Len(r) /\ z = r \o s
  BY DEF Sized, Together
<1> QED
  BY <1>1

\* Where the second of two lies in both.
LEMMA JoinedSecond ==
    ASSUME NEW r, NEW s, NEW m, NEW l, NEW z, Together(z, r, m, s, l), NEW i \in Nat, 1 <= i, i <= l,
           NEW j, j = m + i
    PROVE  z[j] = s[i]
<1>1. r \in Seq(Result) /\ s \in Seq(Result) /\ Len(r) = m /\ m \in Nat /\ i \in 1..Len(s) /\ z = r \o s
  BY DEF Sized, Together
<1>2. (r \o s)[Len(r) + i] = s[i]
  BY <1>1
<1> QED
  BY <1>1, <1>2

\* In a structure of four the second is result 7 and the third result 8.
LEMMA FourPlaces ==
    ASSUME NEW r1, NEW r2, NEW r3, NEW r4, NEW m, NEW n, NEW rs, rs = FourResults(r1, r2, r3, r4),
           Sized(r1, 5), Sized(r2, 1), Sized(r3, 1), Sized(r4, m), n = 8 + m
    PROVE  Sized(rs, n) /\ rs[7] = r2[1] /\ rs[8] = r3[1]
<1>0. m \in Nat
  BY DEF Sized
<1>1. PICK a : a = r3 \o r4
  OBVIOUS
<1>2. Together(a, r3, 1, r4, m) /\ Sized(a, 1 + m)
  BY <1>1, SizedBoth DEF Together
<1>3. PICK b : b = r2 \o a
  OBVIOUS
<1>4. Together(b, r2, 1, a, 1 + m) /\ Sized(b, 1 + (1 + m))
  BY <1>2, <1>3, SizedBoth DEF Together
<1>5. PICK c : c = r1 \o b
  OBVIOUS
<1>6. Together(c, r1, 5, b, 1 + (1 + m)) /\ Sized(c, 5 + (1 + (1 + m)))
  BY <1>4, <1>5, SizedBoth DEF Together
<1>7. Together(rs, StructHead, 1, c, 5 + (1 + (1 + m))) /\ Sized(rs, 1 + (5 + (1 + (1 + m))))
  BY <1>1, <1>3, <1>5, <1>6, StructHeadSize, SizedBoth DEF Together, FourResults
<1>8. a[1] = r3[1] /\ b[1] = r2[1]
  BY <1>2, <1>4, JoinedFirst
<1>9. b[2] = a[1]
  BY <1>0, <1>4, JoinedSecond
<1>10. c[6] = b[1]
  BY <1>0, <1>6, JoinedSecond
<1>11. c[7] = b[2]
  BY <1>0, <1>6, JoinedSecond
<1>12. rs[7] = c[6]
  BY <1>0, <1>7, JoinedSecond
<1>13. rs[8] = c[7]
  BY <1>0, <1>7, JoinedSecond
<1>14. n = 1 + (5 + (1 + (1 + m)))
  BY <1>0
<1> QED
  BY ONLY <1>7, <1>8, <1>9, <1>10, <1>11, <1>12, <1>13, <1>14

\* A selection by range leaves results of which two show its times.
LEMMA ReadsRange ==
    ASSUME NEW sel, IsRange(sel)
    PROVE  \E rs : ReadsSome(RangeData(sel), rs) /\ RangeResults(rs, sel)
<1>0. sel.start \in 0..254 /\ sel.end \in 0..254 /\ sel.columns \in 0..127
  BY DEF IsRange
<1>1. PICK r1 : ReadsSome(Column(8), r1) /\ Sized(r1, 5)
  <2>1. 8 \in ClassIds
    BY SMT DEF ClassIds
  <2> QED
    BY <2>1, ReadsColumn
<1>2. PICK x : /\ ReadsSome(Instance(sel, sel.start), <<x>>) /\ Sized(<<x>>, 1) /\ <<x>>[1] = x
               /\ Dated(x, sel, sel.start)
  BY <1>0, ReadsInstance
<1>3. PICK y : /\ ReadsSome(Instance(sel, sel.end), <<y>>) /\ Sized(<<y>>, 1) /\ <<y>>[1] = y
               /\ Dated(y, sel, sel.end)
  BY <1>0, ReadsInstance
<1>4. PICK r4, m : /\ ReadsSome(<<1, sel.columns>> \o Columns(sel.columns), r4) /\ Sized(r4, m) /\ m > 0
                   /\ (sel.columns = 0 => m = 1)
  BY <1>0, ReadsColumns
<1> DEFINE rs == FourResults(r1, <<x>>, <<y>>, r4)
<1>5. ReadsSome(RangeData(sel), rs)
  BY <1>1, <1>2, <1>3, <1>4, ReadsFour DEF RangeData
<1>6. Sized(rs, 8 + m) /\ rs[7] = x /\ rs[8] = y
  BY <1>1, <1>2, <1>3, <1>4, FourPlaces
<1>7. 8 + m > 8 /\ (sel.columns = 0 => 8 + m = 9)
  <2>1. m \in Nat
    BY <1>4 DEF Sized
  <2> QED
    BY <1>4, <2>1
<1> HIDE DEF rs
<1>8. RangeResults(rs, sel)
  BY <1>2, <1>3, <1>6, <1>7 DEF RangeResults
<1> QED
  BY <1>5, <1>8

-----------------------------------------------------------------------------
(* Descriptors and their selections.                                       *)

DescriptorTypes ==
    /\ {"cosem_class_id", "cosem_object_instance_id", "cosem_object_attribute_id", "invoke_id_and_priority",
        "unsigned8", "unsigned32"} \subseteq DOMAIN FixedLength
    /\ FixedLength["cosem_class_id"] = 2 /\ FixedLength["cosem_object_instance_id"] = 6
    /\ FixedLength["cosem_object_attribute_id"] = 1 /\ FixedLength["invoke_id_and_priority"] = 1
    /\ FixedLength["unsigned8"] = 1 /\ FixedLength["unsigned32"] = 4

\* The types of a descriptor have a fixed length.
LEMMA DescriptorLengths == DescriptorTypes
  BY DEF DescriptorTypes, FixedLength

DescriptorItems ==
    <<Parse("cosem_class_id"), Parse("cosem_object_instance_id"), Parse("cosem_object_attribute_id")>>

\* A descriptor is a sequence of three.
LEMMA DescriptorSequence ==
    /\ "cosem_attribute_descriptor" \in DOMAIN Sequences
    /\ Items("cosem_attribute_descriptor") = DescriptorItems
<1> DEFINE tid == "cosem_attribute_descriptor"
<1>1. tid \in DOMAIN Sequences
  BY DEF Sequences
<1>2. Sequences[tid] = <<"cosem_class_id", "cosem_object_instance_id", "cosem_object_attribute_id">>
  BY DEF Sequences
<1>3. \A i : ~Optional(tid, i)
  BY DEF Optional, MaskFour
<1>4. Items(tid) = [i \in 1..3 |-> Parse(Sequences[tid][i])]
  BY <1>2, <1>3 DEF Items, Parse
<1>5. [i \in 1..3 |-> Parse(Sequences[tid][i])] = DescriptorItems
  BY <1>2 DEF DescriptorItems
<1> QED
  BY <1>1, <1>4, <1>5

\* Three results.
DescriptorResults(d) ==
    <<Got("cosem_class_id", Short(d.class))>> \o (<<Got("cosem_object_instance_id", d.obis)>>
        \o <<Got("cosem_object_attribute_id", <<d.attr>>)>>)

ShowsDescriptor(rs, d) ==
    /\ rs[1] = Got("cosem_class_id", Short(d.class))
    /\ rs[2] = Got("cosem_object_instance_id", d.obis)
    /\ rs[3] = Got("cosem_object_attribute_id", <<d.attr>>)

\* Three elements, one by one.
LEMMA Three ==
    ASSUME NEW x, NEW y, NEW z
    PROVE  <<x, y, z>> = <<x>> \o (<<y>> \o <<z>>)
<1> DEFINE S == {x, y, z}
<1>1. <<x>> \in Seq(S) /\ <<y>> \in Seq(S) /\ <<z>> \in Seq(S) /\ <<y, z>> \in Seq(S) /\ <<x, y, z>> \in Seq(S)
  OBVIOUS
<1>2. Joins(<<y>>, <<z>>, <<y, z>>, 1, 1)
  BY DEF Joins
<1>3. Joins(<<x>>, <<y, z>>, <<x, y, z>>, 1, 2)
  BY DEF Joins
<1> HIDE DEF S
<1>4. <<y>> \o <<z>> = <<y, z>>
  BY <1>1, <1>2, JoinedIs
<1>5. <<x>> \o <<y, z>> = <<x, y, z>>
  BY <1>1, <1>3, JoinedIs
<1> QED
  BY <1>4, <1>5

\* A descriptor leaves its class, logical name and attribute.
LEMMA ReadsDescriptor ==
    ASSUME NEW d, IsDescriptor(d)
    PROVE  /\ Reads(Descriptor(d), <<Parse("cosem_attribute_descriptor")>>, DescriptorResults(d))
           /\ Sized(DescriptorResults(d), 3) /\ ShowsDescriptor(DescriptorResults(d), d) /\ Descriptor(d) # <<>>
<1> DEFINE c == Short(d.class)
           o == d.obis
           a == <<d.attr>>
<1>1. c \in Seq(0..255) /\ Len(c) = 2
  <2>1. d.class \in ClassIds
    BY DEF IsDescriptor
  <2> QED
    BY <2>1, ShortBytes
<1>2. o \in Seq(0..255) /\ Len(o) = 6 /\ a \in Seq(0..255) /\ Len(a) = 1
  <2>1. o \in Seq(0..255) /\ Len(o) = 6 /\ d.attr \in 0..255
    BY DEF IsDescriptor, IsBytes
  <2>2. a \in Seq(0..255) /\ Len(a) = 1
    BY <2>1
  <2> QED
    BY <2>1, <2>2
<1>3. Descriptor(d) = c \o (o \o a)
  <2>1. Descriptor(d) = c \o o \o a
    BY DEF Descriptor
  <2> HIDE DEF c, o, a
  <2>2. c \o o \o a = c \o (o \o a)
    BY ONLY <1>1, <1>2, Brackets, SMTT(30)
  <2> QED
    BY <2>1, <2>2
<1> HIDE DEF c, o, a
<1>4. /\ "cosem_class_id" \in DOMAIN FixedLength /\ "cosem_object_instance_id" \in DOMAIN FixedLength
      /\ "cosem_object_attribute_id" \in DOMAIN FixedLength
      /\ FixedLength["cosem_class_id"] = 2 /\ FixedLength["cosem_object_instance_id"] = 6
      /\ FixedLength["cosem_object_attribute_id"] = 1 /\ 2 \in Nat /\ 6 \in Nat /\ 1 \in Nat
  BY DescriptorLengths DEF DescriptorTypes
<1> DEFINE x == Got("cosem_class_id", c)
           y == Got("cosem_object_instance_id", o)
           z == Got("cosem_object_attribute_id", a)
<1>5. Reads(c, <<Parse("cosem_class_id")>>, <<x>>) /\ x \in Result
  BY <1>1, <1>4, ReadsFixed
<1>6. Reads(o, <<Parse("cosem_object_instance_id")>>, <<y>>) /\ y \in Result
  BY <1>2, <1>4, ReadsFixed
<1>7. Reads(a, <<Parse("cosem_object_attribute_id")>>, <<z>>) /\ z \in Result
  BY <1>2, <1>4, ReadsFixed
<1>8. DescriptorResults(d) = <<x>> \o (<<y>> \o <<z>>)
  BY DEF DescriptorResults, c, o, a
<1> HIDE DEF x, y, z
<1>9. Reads(c \o (o \o a), DescriptorItems, <<x>> \o (<<y>> \o <<z>>))
  <2>1. Reads(o \o a, <<Parse("cosem_object_instance_id")>> \o <<Parse("cosem_object_attribute_id")>>, <<y>> \o <<z>>)
    BY <1>6, <1>7, ReadsBoth
  <2>2. Reads(c \o (o \o a), <<Parse("cosem_class_id")>> \o (<<Parse("cosem_object_instance_id")>>
                 \o <<Parse("cosem_object_attribute_id")>>), <<x>> \o (<<y>> \o <<z>>))
    BY <1>5, <2>1, ReadsBoth
  <2> QED
    BY <2>2, Three DEF DescriptorItems
<1>10. Reads(Descriptor(d), <<Parse("cosem_attribute_descriptor")>>, DescriptorResults(d))
  BY <1>3, <1>8, <1>9, DescriptorSequence, ReadsSequence
<1>11. <<x>> \o (<<y>> \o <<z>>) = <<x, y, z>>
  BY Three
<1>12. <<x, y, z>> \in Seq(Result) /\ Len(<<x, y, z>>) = 3 /\ <<x, y, z>>[1] = x /\ <<x, y, z>>[2] = y /\ <<x, y, z>>[3] = z
  BY <1>5, <1>6, <1>7
<1>13. Sized(DescriptorResults(d), 3)
  BY <1>8, <1>11, <1>12 DEF Sized
<1>14. ShowsDescriptor(DescriptorResults(d), d)
  BY <1>8, <1>11, <1>12 DEF ShowsDescriptor, x, y, z, c, o, a
<1>15. Descriptor(d) # <<>>
  <2> DEFINE w == o \o a
  <2>1. w \in Seq(0..255)
    BY <1>2
  <2> HIDE DEF w
  <2>2. c \o w # <<>>
    <3>1. c \in Seq(0..255) /\ Len(c) = 2
      BY <1>1
    <3> QED
      BY ONLY <2>1, <3>1
  <2> QED
    BY <1>3, <2>2 DEF w
<1> QED
  BY <1>10, <1>13, <1>14, <1>15

-----------------------------------------------------------------------------
(* The elements of a list of descriptors.                                  *)

Access == [op |-> "access"]

AccessResult(byte) == Got("selective_access_descriptor", <<byte>>)

\* A selective access is an item to do, and leaves a result.
LEMMA AccessItem ==
    /\ Access \in TodoItem /\ Access.op = "access" /\ <<Access>> \in Seq(TodoItem)
    /\ \A byte \in 0..255 : AccessResult(byte) \in Result /\ <<AccessResult(byte)>> \in Seq(Result)
<1>1. Access \in TodoItem /\ Access.op = "access"
  BY DEF Access, TodoItem
<1>2. "selective_access_descriptor" \in Types
  BY DEF Types, Sequences
<1>3. ASSUME NEW byte \in 0..255 PROVE AccessResult(byte) \in Result
  BY <1>2 DEF AccessResult, Got, Result
<1> QED
  BY <1>1, <1>3

\* No selective access is a 0.
LEMMA ReadsNoAccess == Reads(<<0>>, <<Access>>, <<AccessResult(0)>>)
<1>1. ASSUME NEW b \in Seq(0..255), NEW p \in Nat, p < Len(b), b[p + 1] = 0
      PROVE  Turns(b, Access, p, <<>>, p + 1, <<AccessResult(0)>>)
  <2>1. TurnsAccess(b, Access, p, <<>>, p + 1, <<AccessResult(0)>>)
    BY <1>1, AccessItem DEF TurnsAccess, AccessResult
  <2> QED
    BY <2>1 DEF Turns
<1>2. 0 \in 0..255 /\ <<AccessResult(0)>> \in Seq(Result)
  BY AccessItem
<1>3. Reads(<<0>> \o <<>>, <<Access>>, <<AccessResult(0)>> \o <<>>)
  BY <1>1, <1>2, AccessItem, ReadsNothing, TurnReadsByte
<1>4. <<0>> \o <<>> = <<0>> /\ <<AccessResult(0)>> \o <<>> = <<AccessResult(0)>>
  BY <1>2, Joined1
<1> QED
  BY <1>3, <1>4

\* The byte that says there is a selection is read again, as the tag of an array.
LEMMA ReadsAccess ==
    ASSUME NEW w, NEW rs, w \in Seq(0..255), Reads(<< 1 >> \o w, <<Parse("data")>>, rs)
    PROVE  Reads(<< 1 >> \o w, <<Access>>, <<AccessResult(1)>> \o rs)
<1> DEFINE v == <<1>> \o w
           head == <<AccessResult(1)>>
<1>0. 1 \in 0..255
  OBVIOUS
<1>1. v \in Seq(0..255) /\ v # <<>> /\ v[1] = 1
  <2>1. Len(w) \in Nat /\ v \in Seq(0..255) /\ Len(v) = 1 + Len(w) /\ v[1] = 1
    OBVIOUS
  <2> QED
    BY <2>1
<1>2. rs \in Seq(Result) /\ head \in Seq(Result)
  BY <1>0, AccessItem DEF Reads
<1>3. head \o rs \in Seq(Result)
  BY <1>2
<1>4. Reads(v, <<Parse("data")>>, rs)
  OBVIOUS
<1>5. <<Parse("data")>> \in Seq(TodoItem)
  BY <1>4 DEF Reads
<1> HIDE DEF v, head
<1>6. ASSUME NEW b \in Seq(0..255), NEW p \in Nat, At(b, p, v)
      PROVE  Does(b, <<Access>>, p, p + Len(v), head \o rs)
  <2> DEFINE end == [op |-> "element", at |-> p]
             q == p + Len(v)
  <2>1. p \in 0..Len(b) /\ q \in 0..Len(b) /\ p < Len(b)
    BY <1>1, <1>6, AtRange
  <2>2. b[p + 1] = 1
    <3>1. Len(v) \in Nat /\ Len(v) >= 1
      BY <1>1
    <3> QED
      BY <1>1, <1>6, <3>1 DEF At
  <2>3. Does(b, <<Parse("data")>>, p, q, rs)
    BY <1>4, <1>6 DEF Reads
  <2>4. Does(b, <<end>>, q, q, <<>>)
    BY <2>1, EndDoes
  <2>5. <<Parse("data"), end>> = <<Parse("data")>> \o <<end>>
    OBVIOUS
  <2>6. TurnsAccess(b, Access, p, <<Parse("data"), end>>, p, head)
    BY <2>2, AccessItem DEF TurnsAccess, AccessResult, head
  <2> HIDE DEF end, q
  <2>7. Does(b, <<Parse("data")>> \o <<end>>, p, q, rs \o <<>>)
    BY <2>3, <2>4, DoesBoth
  <2>8. Does(b, <<Parse("data"), end>>, p, q, rs)
    BY <1>2, <2>5, <2>7, Joined1
  <2>9. Turns(b, Access, p, <<Parse("data"), end>>, p, head)
    BY <2>6 DEF Turns
  <2>10. Does(b, <<Access>>, p, q, head \o rs)
    BY <1>2, <2>1, <2>8, <2>9, AccessItem, DoesTurn
  <2> QED
    BY <2>10 DEF q
<1>7. Reads(v, <<Access>>, head \o rs)
  BY <1>1, <1>3, <1>6, AccessItem DEF Reads
<1> QED
  BY <1>7 DEF v, head

List3 == "attribute_descriptor_list"

\* A descriptor and its selection in front of the others.
LEMMA ReadsDescriptors ==
    ASSUME NEW n \in Nat, NEW x, x # <<>>, NEW y, NEW z, NEW r, NEW s, NEW t,
           Reads(x, <<Parse("cosem_attribute_descriptor")>>, r), Reads(y, <<Access>>, s),
           Reads(z, <<Elements(List3, n)>>, t)
    PROVE  Reads(x \o (y \o z), <<Elements(List3, n + 1)>>, r \o (s \o t))
<1> DEFINE v == x \o (y \o z)
           rs == r \o (s \o t)
<1>1. Reads(y \o z, <<Access>> \o <<Elements(List3, n)>>, s \o t)
  BY ReadsBoth
<1>2. x \in Seq(0..255) /\ y \o z \in Seq(0..255) /\ r \in Seq(Result) /\ s \o t \in Seq(Result)
      /\ <<Parse("cosem_attribute_descriptor")>> \in Seq(TodoItem)
  BY <1>1 DEF Reads
<1>3. v \in Seq(0..255) /\ rs \in Seq(Result)
  BY <1>2
<1>4. List3 \in Lists
  BY DEF List3, Lists
<1>5. Elements(List3, n + 1) \in TodoItem /\ Elements(List3, n) \in TodoItem
  BY <1>4, ElementsItem
<1>6. ASSUME NEW b \in Seq(0..255), NEW p \in Nat, At(b, p, v)
      PROVE  Does(b, <<Elements(List3, n + 1)>>, p, p + Len(v), rs)
  <2> DEFINE end == [op |-> "element", at |-> p]
             front == <<Parse("cosem_attribute_descriptor"), end, Access, Elements(List3, n)>>
             q == p + Len(x)
  <2>1. At(b, p, x) /\ At(b, q, y \o z)
    BY <1>2, <1>6, AtConcat
  <2>2. p \in 0..Len(b) /\ q \in 0..Len(b) /\ p < Len(b)
    BY <1>2, <2>1, AtRange
  <2>3. q + Len(y \o z) = p + Len(v)
    <3>1. Len(v) = Len(x) + Len(y \o z) /\ Len(x) \in Nat /\ Len(y \o z) \in Nat
      BY <1>2
    <3> QED
      BY <3>1
  <2>4. Does(b, <<Parse("cosem_attribute_descriptor")>>, p, q, r)
    BY <2>1 DEF Reads
  <2>5. Does(b, <<end>>, q, q, <<>>)
    BY <2>2, EndDoes
  <2>6. Does(b, <<Access>> \o <<Elements(List3, n)>>, q, p + Len(v), s \o t)
    <3>1. q \in Nat
      BY <2>2
    <3> QED
      BY <1>1, <2>1, <2>3, <3>1 DEF Reads
  <2>7. front = <<Parse("cosem_attribute_descriptor")>> \o (<<end>> \o (<<Access>> \o <<Elements(List3, n)>>))
    OBVIOUS
  <2>8. TurnsElement(b, Elements(List3, n + 1), p, front, p, <<>>)
    <3>1. [Elements(List3, n + 1) EXCEPT !.left = @ - 1] = Elements(List3, n)
      BY DEF Elements
    <3>2. /\ Elements(List3, n + 1).op = "elements" /\ Elements(List3, n + 1).tid = "attribute_descriptor_list"
          /\ Elements(List3, n + 1).left # 0
      BY DEF Elements, List3
    <3>3. ~(Len(b) - p <= 0)
      BY <2>2
    <3> QED
      BY <3>1, <3>2, <3>3 DEF TurnsElement, Access
  <2> HIDE DEF end, front, q
  <2>9. Does(b, <<end>> \o (<<Access>> \o <<Elements(List3, n)>>), q, p + Len(v), <<>> \o (s \o t))
    BY <2>5, <2>6, DoesBoth
  <2>10. <<>> \o (s \o t) = s \o t
    BY <1>2, Joined1
  <2>11. Does(b, front, p, p + Len(v), rs)
    BY <2>4, <2>7, <2>9, <2>10, DoesBoth
  <2>12. Turns(b, Elements(List3, n + 1), p, front, p, <<>>)
    BY <2>8 DEF Turns
  <2>13. Does(b, <<Elements(List3, n + 1)>>, p, p + Len(v), <<>> \o rs)
    BY <1>5, <2>2, <2>11, <2>12, NoBytes, DoesTurn
  <2> QED
    BY <1>3, <2>13, Joined1
<1> HIDE DEF v, rs
<1>7. <<Elements(List3, n + 1)>> \in Seq(TodoItem)
  BY <1>5
<1>8. Reads(v, <<Elements(List3, n + 1)>>, rs)
  BY <1>3, <1>6, <1>7 DEF Reads
<1> QED
  BY <1>8 DEF v, rs

-----------------------------------------------------------------------------
(* Items: a descriptor and a selection.                                    *)

Grouped(x, y, z) == (x \o y) \o z = x \o (y \o z)

\* Three parts joined from the left or from the right.
LEMMA ThreeGrouped ==
    ASSUME NEW S, NEW x, NEW y, NEW z, x \in Seq(S), y \in Seq(S), z \in Seq(S)
    PROVE  Grouped(x, y, z)
BY Brackets DEF Grouped

InFront(s, v1, v2, v3, v4) ==
    <<1, s, 2, 4>> \o v1 \o v2 \o v3 \o v4 = <<1>> \o (<<s>> \o (<<2, 4>> \o v1 \o v2 \o v3 \o v4))

\* Two bytes before a structure of four are two bytes before all of it.
LEMMA FourBytes ==
    ASSUME NEW s \in 0..255, NEW v1 \in Seq(0..255), NEW v2 \in Seq(0..255), NEW v3 \in Seq(0..255), NEW v4 \in Seq(0..255)
    PROVE  InFront(s, v1, v2, v3, v4)
<1> DEFINE S == 0..255
           f == <<1, s, 2, 4>>
           h == <<2, 4>>
           g == <<s, 2, 4>>
           o == <<1>>
           t == <<s>>
<1>1. o \in Seq(S) /\ t \in Seq(S) /\ f \in Seq(S) /\ g \in Seq(S) /\ h \in Seq(S)
  OBVIOUS
<1>2. f = o \o g
  <2>1. Joins(o, g, f, 1, 3)
    BY DEF Joins
  <2> HIDE DEF S
  <2> QED
    BY <1>1, <2>1, JoinedIs
<1>3. g = t \o h
  <2>1. Joins(t, h, g, 1, 2)
    BY DEF Joins
  <2> HIDE DEF S
  <2> QED
    BY <1>1, <2>1, JoinedIs
<1>4. v1 \in Seq(S) /\ v2 \in Seq(S) /\ v3 \in Seq(S) /\ v4 \in Seq(S)
  OBVIOUS
<1> HIDE DEF S, f, h, g, o, t
<1> DEFINE v == v1 \o (v2 \o (v3 \o v4))
<1>5. f \o v1 \o v2 \o v3 \o v4 = f \o v
  <2>1. Regrouped(f, v1, v2, v3, v4)
    BY ONLY <1>1, <1>4, Five
  <2> QED
    BY ONLY <2>1 DEF Regrouped, v
<1>6. h \o v1 \o v2 \o v3 \o v4 = h \o v
  <2>1. Regrouped(h, v1, v2, v3, v4)
    BY ONLY <1>1, <1>4, Five
  <2> QED
    BY ONLY <2>1 DEF Regrouped, v
<1>7. v \in Seq(S)
  <2>1. v3 \o v4 \in Seq(S)
    BY <1>4, Closed, Zenon
  <2>2. v2 \o (v3 \o v4) \in Seq(S)
    BY <1>4, <2>1, Closed, Zenon
  <2> QED
    BY <1>4, <2>2, Closed, Zenon
<1> HIDE DEF v
<1>8. h \o v \in Seq(S)
  BY <1>1, <1>7, Closed, Zenon
<1>9. (t \o h) \o v = t \o (h \o v)
  <2>1. Grouped(t, h, v)
    BY ONLY <1>1, <1>7, ThreeGrouped
  <2> QED
    BY ONLY <2>1 DEF Grouped
<1>10. (o \o g) \o v = o \o (g \o v)
  <2>1. Grouped(o, g, v)
    BY ONLY <1>1, <1>7, ThreeGrouped
  <2> QED
    BY ONLY <2>1 DEF Grouped
<1>11. f \o v = o \o (t \o (h \o v))
  BY ONLY <1>2, <1>3, <1>9, <1>10
<1>12. f \o v1 \o v2 \o v3 \o v4 = o \o (t \o (h \o v1 \o v2 \o v3 \o v4))
  BY ONLY <1>5, <1>6, <1>11
<1> QED
  BY <1>12 DEF f, h, o, t, InFront

\* A selection by k with data w.
Selects(sel, k, w) == Selection(sel) = <<1>> \o (<<k>> \o w)

\* A selection by range, behind its first two bytes.
LEMMA RangeSelection ==
    ASSUME NEW sel, IsRange(sel)
    PROVE  Selects(sel, 1, RangeData(sel))
<1>1. sel.start \in 0..254 /\ sel.end \in 0..254 /\ sel.columns \in 0..127 /\ sel.kind = "range"
  BY DEF IsRange
<1>2. Instance(sel, sel.start) \in Seq(0..255) /\ Instance(sel, sel.end) \in Seq(0..255)
  BY <1>1, ReadsInstance, Zenon DEF ReadsSome, Reads
<1>3. <<1, sel.columns>> \o Columns(sel.columns) \in Seq(0..255)
  BY <1>1, ReadsColumns DEF ReadsSome, Reads
<1>4. Column(8) \in Seq(0..255)
  <2>1. 8 \in ClassIds
    BY SMT DEF ClassIds
  <2> QED
    BY <2>1, ReadsColumn DEF ReadsSome, Reads
<1>5. 1 \in 0..255
  OBVIOUS
<1>6. Selection(sel) = <<1, 1, 2, 4>> \o Column(8) \o Instance(sel, sel.start) \o Instance(sel, sel.end)
                          \o (<<1, sel.columns>> \o Columns(sel.columns))
  BY <1>1 DEF Selection
<1> DEFINE c == Column(8)
           i1 == Instance(sel, sel.start)
           i2 == Instance(sel, sel.end)
           cs == <<1, sel.columns>> \o Columns(sel.columns)
<1> HIDE DEF c, i1, i2, cs
<1>7. InFront(1, c, i1, i2, cs)
  BY <1>2, <1>3, <1>4, <1>5, FourBytes DEF c, i1, i2, cs
<1> QED
  BY <1>6, <1>7 DEF RangeData, InFront, Selects, c, i1, i2, cs

\* The data of a selection by entries.
LEMMA EntriesSelection ==
    ASSUME NEW sel, sel.kind = "entries"
    PROVE  \E w, rs : ReadsSome(w, rs) /\ Selects(sel, 2, w)
<1> DEFINE one == <<0, 0, 0, 1>>
           two == <<0, 0, 0, 2>>
           from == <<0, 1>>
           to == <<0, 0>>
           v1 == Value(6, one)
           v2 == Value(6, two)
           v3 == Value(18, from)
           v4 == Value(18, to)
           w == <<2, 4>> \o v1 \o v2 \o v3 \o v4
<1>1. one \in Seq(0..255) /\ Len(one) = 4
  OBVIOUS
<1>2. two \in Seq(0..255) /\ Len(two) = 4
  OBVIOUS
<1>3. from \in Seq(0..255) /\ Len(from) = 2 /\ to \in Seq(0..255) /\ Len(to) = 2
  OBVIOUS
<1>4. Selection(sel) = <<1, 2, 2, 4>> \o v1 \o v2 \o v3 \o v4
  BY DEF Selection
<1> HIDE DEF one, two, from, to
<1>5. /\ 18 \in DOMAIN DataTypes /\ 6 \in DOMAIN DataTypes /\ "unsigned16" \in DOMAIN FixedLength
      /\ "unsigned32" \in DOMAIN FixedLength /\ 4 \in Nat /\ 2 \in Nat
  BY Tags
<1>6. /\ DataTypes[18] = "unsigned16" /\ DataTypes[6] = "unsigned32" /\ FixedLength["unsigned32"] = 4
      /\ FixedLength["unsigned16"] = 2
  BY Tags
<1>7. ReadsSome(v1, <<Got("unsigned32", one)>>)
  BY <1>1, <1>5, <1>6, OneValue
<1>8. ReadsSome(v2, <<Got("unsigned32", two)>>)
  BY <1>2, <1>5, <1>6, OneValue
<1>9. ReadsSome(v3, <<Got("unsigned16", from)>>)
  BY <1>3, <1>5, <1>6, OneValue
<1>10. ReadsSome(v4, <<Got("unsigned16", to)>>)
  BY <1>3, <1>5, <1>6, OneValue
<1> HIDE DEF v1, v2, v3, v4
<1>11. v1 \in Seq(0..255) /\ v2 \in Seq(0..255) /\ v3 \in Seq(0..255) /\ v4 \in Seq(0..255) /\ 2 \in 0..255
  BY <1>7, <1>8, <1>9, <1>10 DEF ReadsSome, Reads
<1>12. Selects(sel, 2, w)
  <2>1. InFront(2, v1, v2, v3, v4)
    BY <1>11, FourBytes, Zenon
  <2> QED
    BY <1>4, <2>1 DEF InFront, Selects
<1>13. ReadsSome(w, FourResults(<<Got("unsigned32", one)>>, <<Got("unsigned32", two)>>,
                       <<Got("unsigned16", from)>>, <<Got("unsigned16", to)>>))
  BY <1>7, <1>8, <1>9, <1>10, ReadsFour
<1> QED
  BY <1>12, <1>13

SelectionType == "selective_access_descriptor"

\* A selection is a selector and data.
LEMMA SelectionSequence ==
    /\ SelectionType \in DOMAIN Sequences /\ SelectionType \in Types
    /\ Items(SelectionType) = <<Parse("unsigned8")>> \o <<Parse("data")>>
<1>1. SelectionType \in DOMAIN Sequences
  BY DEF Sequences, SelectionType
<1>2. Sequences[SelectionType] = <<"unsigned8", "data">>
  BY DEF Sequences, SelectionType
<1>3. \A i : ~Optional(SelectionType, i)
  BY DEF Optional, MaskFour, SelectionType
<1>4. Items(SelectionType) = [i \in 1..2 |-> Parse(Sequences[SelectionType][i])]
  BY <1>2, <1>3 DEF Items, Parse
<1>5. [i \in 1..2 |-> Parse(Sequences[SelectionType][i])] = <<Parse("unsigned8"), Parse("data")>>
  BY <1>2
<1>6. <<Parse("unsigned8"), Parse("data")>> = <<Parse("unsigned8")>> \o <<Parse("data")>>
  OBVIOUS
<1> QED
  BY <1>1, <1>4, <1>5, <1>6 DEF Types

\* A selector and what it selects by.
LEMMA ReadsSelection ==
    ASSUME NEW k \in 0..255, NEW w, NEW rs, ReadsSome(w, rs)
    PROVE  /\ Reads(<<1>> \o (<<k>> \o w), <<OptionOf(SelectionType)>>, <<Got("unsigned8", <<k>>)>> \o rs)
           /\ Sized(<<Got("unsigned8", <<k>>)>>, 1)
<1> DEFINE x == <<k>>
<1>1. x \in Seq(0..255) /\ Len(x) = 1
  OBVIOUS
<1>2. "unsigned8" \in DOMAIN FixedLength /\ FixedLength["unsigned8"] = 1 /\ 1 \in Nat
  BY DescriptorLengths DEF DescriptorTypes
<1> HIDE DEF x
<1>3. Reads(x, <<Parse("unsigned8")>>, <<Got("unsigned8", x)>>) /\ Got("unsigned8", x) \in Result
  BY <1>1, <1>2, ReadsFixed
<1>4. Reads(x \o w, <<Parse("unsigned8")>> \o <<Parse("data")>>, <<Got("unsigned8", x)>> \o rs)
  BY <1>3, ReadsBoth DEF ReadsSome
<1>5. Reads(x \o w, <<Parse(SelectionType)>>, <<Got("unsigned8", x)>> \o rs)
  BY <1>4, SelectionSequence, ReadsSequence
<1>6. Reads(<<1>> \o (x \o w), <<OptionOf(SelectionType)>>, <<Got("unsigned8", x)>> \o rs)
  BY <1>5, SelectionSequence, ReadsOption
<1> QED
  BY <1>3, <1>6, SizedOne DEF x

-----------------------------------------------------------------------------
(* Lists of descriptors.                                                   *)

\* How many results an item of a list has, one that picks no columns.
ItemSize(sel) == IF sel.kind = "none" THEN 4 ELSE 14

\* The results after the first p are those of an item.
Shown(rs, p, item) ==
    /\ p \in Nat
    /\ \E n \in Nat : rs \in Seq(Result) /\ Len(rs) = n /\ p + ItemSize(item.sel) <= n
    /\ rs[p + 1] = Got("cosem_class_id", Short(item.d.class))
    /\ rs[p + 2] = Got("cosem_object_instance_id", item.d.obis)
    /\ rs[p + 3] = Got("cosem_object_attribute_id", <<item.d.attr>>)
    /\ item.sel.kind = "none" => rs[p + 4] = AccessResult(0)
    /\ item.sel.kind = "range" =>
          /\ rs[p + 4] = AccessResult(1)
          /\ Dated(rs[p + 12], item.sel, item.sel.start) /\ Dated(rs[p + 13], item.sel, item.sel.end)

\* An array of the one structure that says what is selected.
LEMMA ReadsArray ==
    ASSUME NEW v, NEW rs, ReadsSome(v, rs)
    PROVE  Reads(<<1>> \o (<<1>> \o v), <<Parse("data")>>, Head4("sequence_of_array", 1) \o rs)
<1>1. 1 \in {1, 2} /\ 1 \in 0..127 /\ ListType(1) = "sequence_of_array"
  BY DEF ListType
<1>2. ListType(1) \in Lists /\ ListType(1) # "attribute_descriptor_list"
  BY <1>1, ListTypes
<1>3. Reads(<<>>, <<Elements(ListType(1), 0)>>, <<>>)
  BY <1>2, ReadsNoElement
<1>4. 0 \in Nat /\ 0 + 1 = 1
  OBVIOUS
<1>5. v # <<>> /\ Reads(v, <<Parse("data")>>, rs)
  BY DEF ReadsSome
<1>6. Reads(v \o <<>>, <<Elements(ListType(1), 0 + 1)>>, rs \o <<>>)
  BY <1>2, <1>3, <1>4, <1>5, ReadsElement
<1>7. v \o <<>> = v /\ rs \o <<>> = rs
  BY <1>5, Joined1 DEF Reads
<1>8. Reads(v, <<Elements(ListType(1), 1)>>, rs)
  BY ONLY <1>4, <1>6, <1>7
<1>9. Reads(<<1>> \o (<<1>> \o v), <<Parse("data")>>, Head4(ListType(1), 1) \o rs)
  BY <1>1, <1>8, ReadsLists
<1> QED
  BY <1>1, <1>9

\* The places of the results of a selection in those of an item.
Itemized(z, r, a, h, x) == z = r \o (a \o (h \o x))

InPlaces(z, r, a, x, l) ==
    /\ Sized(z, l) /\ z[1] = r[1] /\ z[2] = r[2] /\ z[3] = r[3] /\ z[4] = a[1]
    /\ z[12] = x[7] /\ z[13] = x[8]

\* Where the parts of an item lie in its results.
LEMMA ItemPlaces ==
    ASSUME NEW r, NEW a, NEW h, NEW x, NEW n, Sized(r, 3), Sized(a, 1), Sized(h, 1), Sized(x, n), n > 8,
           NEW z, Itemized(z, r, a, h, x), NEW l, l = n + 5
    PROVE  InPlaces(z, r, a, x, l)
<1>0. n \in Nat /\ n > 8
  BY DEF Sized
<1>1. PICK y : y = h \o x
  OBVIOUS
<1>2. Together(y, h, 1, x, n) /\ Sized(y, 1 + n)
  BY <1>1, SizedBoth DEF Together
<1>3. PICK w : w = a \o y
  OBVIOUS
<1>4. Together(w, a, 1, y, 1 + n) /\ Sized(w, 1 + (1 + n))
  BY <1>2, <1>3, SizedBoth DEF Together
<1>5. Together(z, r, 3, w, 1 + (1 + n)) /\ Sized(z, 3 + (1 + (1 + n)))
  BY <1>1, <1>3, <1>4, SizedBoth DEF Together, Itemized
<1>6. l = 3 + (1 + (1 + n))
  BY <1>0
<1>7. z[1] = r[1]
  BY ONLY <1>5, JoinedFirst
<1>8. z[2] = r[2]
  BY ONLY <1>5, JoinedFirst
<1>9. z[3] = r[3]
  BY ONLY <1>5, JoinedFirst
<1>10. w[1] = a[1]
  BY ONLY <1>4, JoinedFirst
<1>11. z[4] = w[1]
  BY ONLY <1>0, <1>5, JoinedSecond
<1>12. y[8] = x[7]
  BY ONLY <1>0, <1>2, JoinedSecond
<1>13. y[9] = x[8]
  BY ONLY <1>0, <1>2, JoinedSecond
<1>14. w[9] = y[8]
  BY ONLY <1>0, <1>4, JoinedSecond
<1>15. w[10] = y[9]
  BY ONLY <1>0, <1>4, JoinedSecond
<1>16. z[12] = w[9]
  BY ONLY <1>0, <1>5, JoinedSecond
<1>17. z[13] = w[10]
  BY ONLY <1>0, <1>5, JoinedSecond
<1> QED
  BY ONLY <1>5, <1>6, <1>7, <1>8, <1>9, <1>10, <1>11, <1>12, <1>13, <1>14, <1>15, <1>16, <1>17 DEF InPlaces

\* Only times are picked.
Plain(sel) == sel.kind = "range" => sel.columns = 0

\* What a selection leaves behind the three results of a descriptor.
LEMMA ReadsItemSelection ==
    ASSUME NEW item, IsItem(item, {"none", "range"})
    PROVE  \E s : /\ Reads(Selection(item.sel), <<Access>>, s)
                  /\ \E x, m : /\ Together(x, DescriptorResults(item.d), 3, s, m - 3)
                               /\ Sized(x, m) /\ Shown(x, 0, item) /\ (Plain(item.sel) => m = ItemSize(item.sel))
<1> DEFINE r == DescriptorResults(item.d)
<1>0. item.sel.kind \in {"none", "range"} /\ IsDescriptor(item.d)
  BY DEF IsItem
<1>1. Sized(r, 3) /\ ShowsDescriptor(r, item.d)
  BY <1>0, ReadsDescriptor
<1>2. \A byte \in 0..255 : Sized(<<AccessResult(byte)>>, 1) /\ <<AccessResult(byte)>>[1] = AccessResult(byte)
  BY AccessItem, SizedOne
<1>3. 0 \in 0..255 /\ 1 \in 0..255
  OBVIOUS
<1> HIDE DEF r
<1>4. CASE item.sel.kind = "none"
  <2> DEFINE s == <<AccessResult(0)>>
  <2>1. Selection(item.sel) = <<0>>
    BY <1>4 DEF Selection
  <2>2. Reads(Selection(item.sel), <<Access>>, s)
    BY <2>1, ReadsNoAccess
  <2>3. Sized(s, 1) /\ s[1] = AccessResult(0)
    BY <1>2, <1>3
  <2> HIDE DEF s
  <2>4. PICK x : x = r \o s
    OBVIOUS
  <2>5. Together(x, r, 3, s, 1) /\ Sized(x, 3 + 1)
    BY <1>1, <2>3, <2>4, SizedBoth DEF Together
  <2>6. x[1] = r[1]
    BY ONLY <2>5, JoinedFirst
  <2>7. x[2] = r[2]
    BY ONLY <2>5, JoinedFirst
  <2>8. x[3] = r[3]
    BY ONLY <2>5, JoinedFirst
  <2>9. x[4] = s[1]
    BY ONLY <2>5, JoinedSecond
  <2>10. Sized(x, 4) /\ Together(x, r, 3, s, 4 - 3)
    BY ONLY <2>5
  <2>11. Shown(x, 0, item)
    BY <1>1, <1>4, <2>3, <2>6, <2>7, <2>8, <2>9, <2>10 DEF Shown, ShowsDescriptor, ItemSize, Sized
  <2> QED
    BY <1>4, <2>2, <2>10, <2>11 DEF ItemSize, r
<1>5. CASE item.sel.kind = "range"
  <2>1. IsRange(item.sel)
    BY <1>5 DEF IsItem
  <2>2. PICK v : ReadsSome(RangeData(item.sel), v) /\ RangeResults(v, item.sel)
    BY <2>1, ReadsRange
  <2>3. PICK n : /\ Sized(v, n) /\ n > 8 /\ (item.sel.columns = 0 => n = 9)
                 /\ Dated(v[7], item.sel, item.sel.start) /\ Dated(v[8], item.sel, item.sel.end)
    BY <2>2 DEF RangeResults
  <2> DEFINE h == Head4("sequence_of_array", 1)
             a == <<AccessResult(1)>>
             w == <<1>> \o RangeData(item.sel)
  <2>4. Reads(<<1>> \o w, <<Parse("data")>>, h \o v)
    BY <2>2, ReadsArray
  <2>5. w \in Seq(0..255)
    BY <1>3, <2>2, NotEmpty DEF ReadsSome, Reads
  <2>6. Selection(item.sel) = <<1>> \o w
    BY <2>1, RangeSelection DEF Selects
  <2>7. Sized(h, 1)
    <3>1. "sequence_of_array" \in Lists /\ 1 \in 0..127
      BY DEF Lists
    <3> QED
      BY <3>1, CountBytes, SizedOne DEF Head4
  <2>8. Sized(a, 1) /\ a[1] = AccessResult(1)
    BY <1>2, <1>3
  <2> HIDE DEF h, w
  <2>9. Reads(Selection(item.sel), <<Access>>, a \o (h \o v))
    BY <2>4, <2>5, <2>6, ReadsAccess
  <2> HIDE DEF a
  <2>10. PICK y : y = a \o (h \o v)
    OBVIOUS
  <2>11. n \in Nat
    BY <2>3 DEF Sized
  <2>12. Sized(h \o v, 1 + n)
    BY <2>3, <2>7, SizedBoth
  <2>13. Sized(y, 1 + (1 + n))
    BY <2>8, <2>10, <2>12, SizedBoth
  <2>14. PICK x : x = r \o y
    OBVIOUS
  <2>15. PICK m : m = n + 5
    OBVIOUS
  <2>16. Together(x, r, 3, y, m - 3)
    <3>1. m - 3 = 1 + (1 + n)
      BY <2>11, <2>15
    <3> QED
      BY <1>1, <2>13, <2>14, <3>1 DEF Together
  <2>17. /\ Sized(x, m) /\ x[1] = r[1] /\ x[2] = r[2] /\ x[3] = r[3] /\ x[4] = a[1]
         /\ x[12] = v[7] /\ x[13] = v[8]
    <3>1. Sized(r, 3) /\ Sized(a, 1) /\ Sized(h, 1) /\ Sized(v, n) /\ n > 8
      BY <1>1, <2>3, <2>7, <2>8
    <3>2. Itemized(x, r, a, h, v)
      BY <2>10, <2>14 DEF Itemized
    <3>3. InPlaces(x, r, a, v, m)
      BY ONLY <2>15, <3>1, <3>2, ItemPlaces
    <3> QED
      BY <3>3 DEF InPlaces
  <2>18. m >= 14 /\ (item.sel.columns = 0 => m = 14)
    BY <2>3, <2>11, <2>15
  <2>19. Shown(x, 0, item)
    <3>1. /\ x[0 + 1] = Got("cosem_class_id", Short(item.d.class))
          /\ x[0 + 2] = Got("cosem_object_instance_id", item.d.obis)
          /\ x[0 + 3] = Got("cosem_object_attribute_id", <<item.d.attr>>)
      BY <1>1, <2>17 DEF ShowsDescriptor
    <3>2. x[0 + 4] = AccessResult(1) /\ x[0 + 12] = v[7] /\ x[0 + 13] = v[8]
      BY <2>8, <2>17
    <3>3. x \in Seq(Result) /\ m \in Nat /\ Len(x) = m /\ 0 + ItemSize(item.sel) <= m
      BY <1>5, <2>17, <2>18 DEF Sized, ItemSize
    <3> QED
      BY <1>5, <2>3, <3>1, <3>2, <3>3 DEF Shown
  <2>20. Plain(item.sel) => m = ItemSize(item.sel)
    BY <1>5, <2>18 DEF Plain, ItemSize
  <2>21. Reads(Selection(item.sel), <<Access>>, y)
    BY <2>9, <2>10
  <2> QED
    BY <2>16, <2>17, <2>19, <2>20, <2>21 DEF r
<1> QED
  BY <1>0, <1>4, <1>5

\* The results of an item, before and behind others.
LEMMA TogetherLengths ==
    ASSUME NEW z, NEW x, NEW t, NEW m, NEW l, Together(z, x, m, t, l)
    PROVE  /\ m \in Nat /\ l \in Nat /\ Len(x) = m /\ Len(t) = l /\ z \in Seq(Result) /\ Len(z) = m + l
           /\ \A i \in Nat : (1 <= i /\ i <= m) => z[i] = x[i]
           /\ \A i \in Nat : (1 <= i /\ i <= l) => z[m + i] = t[i]
<1>1. Sized(x, m) /\ Sized(t, l) /\ z = x \o t
  BY DEF Together
<1>2. m \in Nat /\ l \in Nat /\ Len(x) = m /\ Len(t) = l
  BY <1>1 DEF Sized
<1>3. Sized(z, m + l)
  BY <1>1, SizedBoth
<1>4. ASSUME NEW i \in Nat, 1 <= i, i <= m PROVE z[i] = x[i]
  BY ONLY <1>4, JoinedFirst, Together(z, x, m, t, l)
<1>5. ASSUME NEW i \in Nat, 1 <= i, i <= l PROVE z[m + i] = t[i]
  BY ONLY <1>5, JoinedSecond, Together(z, x, m, t, l)
<1> QED
  BY <1>2, <1>3, <1>4, <1>5 DEF Sized

\* An item's results are shown after p in z what they are after q in x.
LEMMA ShownAs ==
    ASSUME NEW z, NEW x, NEW p, NEW q \in Nat, NEW n \in Nat, NEW item, Shown(x, p, item),
           z \in Seq(Result), Len(z) = n, q + ItemSize(item.sel) <= n,
           \A k \in 1..ItemSize(item.sel) : z[q + k] = x[p + k]
    PROVE  Shown(z, q, item)
<1>1. 1 \in 1..ItemSize(item.sel) /\ 2 \in 1..ItemSize(item.sel) /\ 3 \in 1..ItemSize(item.sel) /\ 4 \in 1..ItemSize(item.sel)
  BY DEF ItemSize
<1>2. item.sel.kind = "range" => 12 \in 1..ItemSize(item.sel) /\ 13 \in 1..ItemSize(item.sel)
  BY DEF ItemSize
<1>3. z[q + 1] = x[p + 1] /\ z[q + 2] = x[p + 2] /\ z[q + 3] = x[p + 3] /\ z[q + 4] = x[p + 4]
  BY <1>1
<1>4. item.sel.kind = "range" => z[q + 12] = x[p + 12] /\ z[q + 13] = x[p + 13]
  BY <1>2
<1> QED
  BY <1>3, <1>4 DEF Shown

\* An item that is shown is shown with others behind it.
LEMMA ShownFirst ==
    ASSUME NEW z, NEW x, NEW t, NEW m, NEW l, Together(z, x, m, t, l), NEW item, NEW p, Shown(x, p, item)
    PROVE  Shown(z, p, item)
<1>1. /\ m \in Nat /\ l \in Nat /\ Len(x) = m /\ z \in Seq(Result) /\ Len(z) = m + l
      /\ \A i \in Nat : (1 <= i /\ i <= m) => z[i] = x[i]
  BY TogetherLengths
<1>2. p \in Nat /\ p + ItemSize(item.sel) <= m /\ ItemSize(item.sel) \in Nat
  BY <1>1 DEF Shown, ItemSize
<1>3. ASSUME NEW k \in 1..ItemSize(item.sel) PROVE z[p + k] = x[p + k]
  <2>1. p + k \in Nat /\ 1 <= p + k /\ p + k <= m
    BY <1>1, <1>2
  <2> QED
    BY <1>1, <2>1
<1>4. m + l \in Nat /\ p + ItemSize(item.sel) <= m + l
  BY <1>1, <1>2
<1> QED
  BY <1>1, <1>2, <1>3, <1>4, ShownAs

\* An item that is shown is shown with others in front of it.
LEMMA ShownAfter ==
    ASSUME NEW z, NEW x, NEW t, NEW m, NEW l, Together(z, x, m, t, l), NEW item, NEW p, Shown(t, p, item),
           NEW q, q = m + p
    PROVE  Shown(z, q, item)
<1>1. /\ m \in Nat /\ l \in Nat /\ Len(t) = l /\ z \in Seq(Result) /\ Len(z) = m + l
      /\ \A i \in Nat : (1 <= i /\ i <= l) => z[m + i] = t[i]
  BY TogetherLengths
<1>2. p \in Nat /\ p + ItemSize(item.sel) <= l /\ ItemSize(item.sel) \in Nat
  BY <1>1 DEF Shown, ItemSize
<1>3. ASSUME NEW k \in 1..ItemSize(item.sel) PROVE z[q + k] = t[p + k]
  <2>1. p + k \in Nat /\ 1 <= p + k /\ p + k <= l /\ q + k = m + (p + k)
    BY <1>1, <1>2
  <2> QED
    BY <1>1, <2>1
<1>4. m + l \in Nat /\ q + ItemSize(item.sel) <= m + l /\ q \in Nat
  BY <1>1, <1>2
<1> QED
  BY <1>1, <1>2, <1>3, <1>4, ShownAs

ItemBytes(item) == Descriptor(item.d) \o Selection(item.sel)

\* An item in front of n others.
LEMMA ReadsItem ==
    ASSUME NEW item, IsItem(item, {"none", "range"}), NEW n \in Nat, NEW y, NEW t, NEW l, Sized(t, l),
           Reads(y, <<Elements(List3, n)>>, t)
    PROVE  \E x, m, z : /\ Together(z, x, m, t, l) /\ Shown(x, 0, item) /\ (Plain(item.sel) => m = ItemSize(item.sel))
                        /\ Reads(ItemBytes(item) \o y, <<Elements(List3, n + 1)>>, z)
<1> DEFINE d == Descriptor(item.d)
           r == DescriptorResults(item.d)
           e == Selection(item.sel)
<1>0. IsDescriptor(item.d)
  BY DEF IsItem
<1>1. d # <<>> /\ Reads(d, <<Parse("cosem_attribute_descriptor")>>, r) /\ Sized(r, 3)
  BY <1>0, ReadsDescriptor
<1>2. PICK s : /\ Reads(e, <<Access>>, s)
               /\ \E x, m : /\ Together(x, r, 3, s, m - 3) /\ Sized(x, m) /\ Shown(x, 0, item)
                            /\ (Plain(item.sel) => m = ItemSize(item.sel))
  BY ReadsItemSelection
<1>3. PICK x, m : /\ Together(x, r, 3, s, m - 3) /\ Sized(x, m) /\ Shown(x, 0, item)
                  /\ (Plain(item.sel) => m = ItemSize(item.sel))
  BY <1>2
<1> HIDE DEF d, r, e
<1>4. Reads(d \o (e \o y), <<Elements(List3, n + 1)>>, r \o (s \o t))
  BY <1>1, <1>2, ReadsDescriptors
<1>5. d \in Seq(0..255) /\ e \in Seq(0..255) /\ y \in Seq(0..255) /\ r \in Seq(Result) /\ s \in Seq(Result) /\ t \in Seq(Result)
  BY <1>1, <1>2 DEF Reads
<1>6. Grouped(d, e, y) /\ Grouped(r, s, t)
  BY ONLY <1>5, ThreeGrouped
<1>7. Reads((d \o e) \o y, <<Elements(List3, n + 1)>>, (r \o s) \o t)
  BY ONLY <1>4, <1>6 DEF Grouped
<1>8. x = r \o s
  BY <1>3 DEF Together
<1>9. PICK z : z = x \o t
  OBVIOUS
<1>10. Together(z, x, m, t, l)
  BY <1>3, <1>9 DEF Together
<1>11. Reads((d \o e) \o y, <<Elements(List3, n + 1)>>, z)
  BY ONLY <1>7, <1>8, <1>9
<1> QED
  BY <1>3, <1>10, <1>11 DEF ItemBytes, d, e

Offsets(off, items, n) ==
    /\ off \in [0..n -> Nat] /\ off[0] = 0
    /\ \A k \in 1..n : off[k] = off[k - 1] + ItemSize(items[k].sel)

\* The offsets of the items can be computed.
LEMMA OffsetsExist ==
    ASSUME NEW n \in Nat, NEW items
    PROVE  \E off : Offsets(off, items, n)
<1> DEFINE Step == [x \in Nat \X (1..n) |-> x[1] + ItemSize(items[x[2]].sel)]
<1>1. \A sel : ItemSize(sel) \in Nat
  BY DEF ItemSize
<1>2. Step \in [Nat \X (1..n) -> Nat] /\ 0 \in Nat
  BY <1>1
<1>3. \A a \in Nat, k \in 1..n : Step[<<a, k>>] = a + ItemSize(items[k].sel)
  OBVIOUS
<1> HIDE DEF Step
<1>4. PICK it : Steps(it, n, Nat, 0, Step)
  BY <1>2, StepsExist
<1>5. it \in [0..n -> Nat] /\ it[0] = 0 /\ \A k \in 1..n : it[k] = Step[<<it[k - 1], k>>]
  BY <1>4 DEF Steps
<1>6. \A k \in 1..n : k - 1 \in 0..n
  OBVIOUS
<1>7. Offsets(it, items, n)
  BY <1>3, <1>5, <1>6 DEF Offsets
<1> QED
  BY <1>7

\* Every item but the last one picks times only.
PlainBeforeLast(items, n) == \A i \in 1..n : i # n => Plain(items[i].sel)

\* The last m items.
LEMMA ItemsAdded ==
    ASSUME NEW n \in Nat, NEW items, \A i \in 1..n : IsItem(items[i], {"none", "range"}),
           NEW off, Offsets(off, items, n), NEW m \in Nat, m < n, NEW y, NEW t, NEW l, Sized(t, l),
           Reads(y, <<Elements(List3, m)>>, t),
           PlainBeforeLast(items, n) =>
              \A j \in 1..n : j > n - m => Shown(t, off[j - 1] - off[n - m], items[j])
    PROVE  \E z, k : /\ Sized(z, k) /\ Reads(ItemBytes(items[n - m]) \o y, <<Elements(List3, m + 1)>>, z)
                     /\ PlainBeforeLast(items, n) =>
                           \A j \in 1..n : j > n - (m + 1) => Shown(z, off[j - 1] - off[n - (m + 1)], items[j])
<1> DEFINE i == n - m
<1>1. i \in 1..n /\ n - (m + 1) = i - 1 /\ i - 1 \in 0..n /\ i \in 0..n
  OBVIOUS
<1>2. off \in [0..n -> Nat] /\ off[i] = off[i - 1] + ItemSize(items[i].sel)
  BY <1>1 DEF Offsets
<1> HIDE DEF i
<1>3. PICK x, s, z : /\ Together(z, x, s, t, l) /\ Shown(x, 0, items[i])
                     /\ (Plain(items[i].sel) => s = ItemSize(items[i].sel))
                     /\ Reads(ItemBytes(items[i]) \o y, <<Elements(List3, m + 1)>>, z)
  BY <1>1, ReadsItem
<1>4. Sized(z, s + l)
  BY <1>3, SizedBoth DEF Together
<1>5. ASSUME PlainBeforeLast(items, n), NEW j \in 1..n, j > i - 1
      PROVE  Shown(z, off[j - 1] - off[i - 1], items[j])
  <2>1. CASE j = i
    <3>1. off[j - 1] - off[i - 1] = 0
      BY <1>1, <1>2, <2>1
    <3>2. Shown(z, 0, items[i])
      BY <1>3, ShownFirst
    <3> QED
      BY <2>1, <3>1, <3>2
  <2>2. CASE j # i
    <3>1. j > i /\ i # n /\ j - 1 \in 0..n
      BY <1>1, <1>5, <2>2
    <3>2. Shown(t, off[j - 1] - off[i], items[j])
      BY <1>5, <3>1 DEF i
    <3>3. s = ItemSize(items[i].sel)
      BY <1>1, <1>3, <1>5, <3>1 DEF PlainBeforeLast
    <3>4. s \in Nat
      BY <3>3 DEF ItemSize
    <3>5. off[j - 1] - off[i - 1] = s + (off[j - 1] - off[i])
      BY <1>1, <1>2, <3>1, <3>3, <3>4, SMTT(30)
    <3> QED
      BY ONLY <1>3, <3>2, <3>5, ShownAfter
  <2> QED
    BY <2>1, <2>2
<1>6. n - (m + 1) = i - 1
  BY <1>1
<1>7. PlainBeforeLast(items, n) =>
         \A j \in 1..n : j > n - (m + 1) => Shown(z, off[j - 1] - off[n - (m + 1)], items[j])
  BY <1>5, <1>6
<1> QED
  BY <1>3, <1>4, <1>7 DEF i

\* The results of a list of items, one behind the other.
ItemsShown(z, items, n) ==
    \E off : Offsets(off, items, n) /\ \A j \in 1..n : Shown(z, off[j - 1], items[j])

\* All the items of a list, each of which is shown if the others are plain.
LEMMA ReadsItems ==
    ASSUME NEW n \in Nat, NEW items, DOMAIN items = 1..n, \A i \in 1..n : IsItem(items[i], {"none", "range"})
    PROVE  \E z, k : /\ Sized(z, k) /\ (PlainBeforeLast(items, n) => ItemsShown(z, items, n))
                     /\ Reads(FlattenSeq([i \in DOMAIN items |-> ItemBytes(items[i])]), <<Elements(List3, n)>>, z)
<1> DEFINE pieces == [i \in DOMAIN items |-> ItemBytes(items[i])]
<1>1. ASSUME NEW i \in 1..n PROVE ItemBytes(items[i]) \in Seq(0..255)
  <2>1. Descriptor(items[i].d) \in Seq(0..255)
    BY ReadsDescriptor DEF IsItem, Reads
  <2>2. Selection(items[i].sel) \in Seq(0..255)
    BY ReadsItemSelection DEF Reads
  <2> QED
    BY <2>1, <2>2, Closed, Zenon DEF ItemBytes
<1>2. pieces \in Seq(Seq(0..255)) /\ Len(pieces) = n /\ \A i \in 1..n : pieces[i] = ItemBytes(items[i])
  BY <1>1
<1> HIDE DEF pieces
<1>3. PICK suffix : /\ suffix[0] = <<>> /\ suffix[Len(pieces)] = FlattenSeq(pieces)
                    /\ \A k \in 1..Len(pieces) : suffix[k] = pieces[Len(pieces) + 1 - k] \o suffix[k - 1]
  BY <1>2, FlattenSuffixes
<1>4. PICK off : Offsets(off, items, n)
  BY OffsetsExist
<1> DEFINE Good(m, z, k) ==
               /\ Sized(z, k) /\ Reads(suffix[m], <<Elements(List3, m)>>, z)
               /\ PlainBeforeLast(items, n) =>
                     \A j \in 1..n : j > n - m => Shown(z, off[j - 1] - off[n - m], items[j])
           T == {m \in Nat : m <= n => \E z, k : Good(m, z, k)}
<1>5. 0 \in T
  <2>1. List3 \in Lists
    BY DEF Lists, List3
  <2>2. Sized(<<>>, 0)
    BY NoBytes DEF Sized
  <2>3. Reads(suffix[0], <<Elements(List3, 0)>>, <<>>)
    BY <1>3, <2>1, ReadsNoElement
  <2>4. \A j \in 1..n : ~(j > n - 0)
    OBVIOUS
  <2>5. Good(0, <<>>, 0)
    BY <2>2, <2>3, <2>4
  <2> QED
    BY <2>5
<1>6. ASSUME NEW m \in Nat, m \in T PROVE m + 1 \in T
  <2>0. SUFFICES ASSUME m < n PROVE \E z, k : Good(m + 1, z, k)
    OBVIOUS
  <2>1. PICK t, l : Good(m, t, l)
    BY <1>6, <2>0
  <2>2. PICK z, k : /\ Sized(z, k) /\ Reads(ItemBytes(items[n - m]) \o suffix[m], <<Elements(List3, m + 1)>>, z)
                    /\ PlainBeforeLast(items, n) =>
                          \A j \in 1..n : j > n - (m + 1) => Shown(z, off[j - 1] - off[n - (m + 1)], items[j])
    BY <1>4, <2>0, <2>1, ItemsAdded
  <2>3. m + 1 \in 1..n /\ n + 1 - (m + 1) = n - m /\ (m + 1) - 1 = m /\ n - m \in 1..n
    BY <2>0
  <2>4. suffix[m + 1] = ItemBytes(items[n - m]) \o suffix[m]
    BY <1>2, <1>3, <2>3
  <2>5. Good(m + 1, z, k)
    BY <2>2, <2>4
  <2> QED
    BY <2>5
<1>7. n \in T
  <2> HIDE DEF T
  <2> QED
    BY <1>5, <1>6, Induction
<1>8. PICK z, k : Good(n, z, k)
  BY <1>7
<1>9. suffix[n] = FlattenSeq(pieces)
  BY <1>2, <1>3
<1>10. ASSUME PlainBeforeLast(items, n) PROVE ItemsShown(z, items, n)
  <2>1. ASSUME NEW j \in 1..n PROVE Shown(z, off[j - 1], items[j])
    <3>1. n - n = 0 /\ j > n - n /\ j - 1 \in 0..n
      OBVIOUS
    <3>2. off[j - 1] - off[n - n] = off[j - 1]
      BY <1>4, <3>1 DEF Offsets
    <3> QED
      BY <1>8, <1>10, <3>1, <3>2
  <2> QED
    BY <1>4, <2>1 DEF ItemsShown
<1> QED
  BY <1>8, <1>9, <1>10 DEF pieces

-----------------------------------------------------------------------------
(* The data of an action.                                                  *)

\* c has the elements of b after the first p, up to q.
IsCut(c, b, p, q) == c = SubSeq(b, p + 1, q)

Copies(c, b, p, m) == c \in Seq(0..255) /\ Len(c) = m /\ \A k \in 1..m : c[k] = b[p + k]

\* A part that is cut out is a copy.
LEMMA CutIs ==
    ASSUME NEW b \in Seq(0..255), NEW p \in Nat, NEW m \in Nat, NEW q, q = p + m, NEW n \in Nat, Len(b) = n, q <= n,
           NEW c, IsCut(c, b, p, q)
    PROVE  Copies(c, b, p, m)
<1>1. q <= Len(b)
  OBVIOUS
<1> DEFINE S == 0..255
<1>2. b \in Seq(S)
  OBVIOUS
<1> HIDE DEF S
<1>3. /\ SubSeq(b, p + 1, q) \in Seq(S) /\ Len(SubSeq(b, p + 1, q)) = m
      /\ \A k \in 1..m : SubSeq(b, p + 1, q)[k] = b[p + k]
  BY ONLY <1>1, <1>2, m \in Nat, p \in Nat, q = p + m, CutOut
<1> QED
  BY <1>3 DEF IsCut, S, Copies

\* An element of a sequence.
LEMMA ElementOf ==
    ASSUME NEW S, NEW v \in Seq(S), NEW n \in Nat, Len(v) = n, NEW k \in 1..n
    PROVE  v[k] \in S
OBVIOUS

\* A byte of a sequence of bytes.
LEMMA ByteOf ==
    ASSUME NEW v \in Seq(0..255), NEW n \in Nat, Len(v) = n, NEW k \in Nat, 1 <= k, k <= n
    PROVE  v[k] \in 0..255
<1> DEFINE S == 0..255
<1>1. v \in Seq(S) /\ k \in 1..n
  OBVIOUS
<1> HIDE DEF S
<1>2. v[k] \in S
  BY ONLY <1>1, Len(v) = n, n \in Nat, ElementOf
<1> QED
  BY <1>2 DEF S

\* The first byte, and the others.
LEMMA FirstByte ==
    ASSUME NEW v \in Seq(0..255), NEW n \in Nat, Len(v) = n, n > 0, NEW w, IsCut(w, v, 1, n)
    PROVE  v[1] \in 0..255 /\ Copies(w, v, 1, n - 1) /\ v = <<v[1]>> \o w
<1>0. n - 1 \in Nat /\ n = 1 + (n - 1) /\ n <= n /\ 1 \in Nat /\ 1 <= 1 /\ 1 <= n /\ Len(v) = n
  OBVIOUS
<1>1. v[1] \in 0..255
  BY <1>0, ByteOf
<1>2. w \in Seq(0..255) /\ Len(w) = n - 1 /\ \A k \in 1..(n - 1) : w[k] = v[1 + k]
  <2>1. PICK m \in Nat : m = n - 1 /\ n = 1 + m
    BY <1>0
  <2>2. Copies(w, v, 1, m)
    BY ONLY <1>0, <2>1, CutIs, n \in Nat, v \in Seq(0..255), Len(v) = n, IsCut(w, v, 1, n)
  <2> QED
    BY <2>1, <2>2 DEF Copies
<1>3. <<v[1]>> \in Seq(0..255) /\ Len(<<v[1]>>) = 1
  BY <1>1
<1>4. Joins(<<v[1]>>, w, v, 1, n - 1)
  <2>1. \A k \in 1..1 : v[k] = <<v[1]>>[k]
    OBVIOUS
  <2>2. Len(v) = 1 + (n - 1)
    OBVIOUS
  <2>3. \A k \in 1..(n - 1) : v[1 + k] = w[k]
    BY <1>2
  <2> QED
    BY ONLY <1>2, <1>3, <2>1, <2>2, <2>3 DEF Joins
<1>5. <<v[1]>> \o w = v
  BY <1>0, <1>2, <1>3, <1>4, JoinedIs
<1> QED
  BY <1>1, <1>2, <1>5 DEF Copies

\* A length is the same wherever its bytes lie.
LEMMA SameLength ==
    ASSUME NEW v \in Seq(0..255), NEW b \in Seq(0..255), NEW p \in Nat, NEW n \in Nat, Len(v) = n, n > 1,
           NEW l \in Nat, Len(b) = l, p + (n - 1) <= l,
           \A k \in 1..(n - 1) : b[p + k] = v[1 + k],
           NEW s \in Nat, LengthAt(v, 1).size = s, 1 + s <= n
    PROVE  LengthAt(b, p) = LengthAt(v, 1)
<1>0. PICK first : first = v[2]
  OBVIOUS
<1>1. first \in 0..255
  <2>1. 2 \in Nat /\ 1 <= 2 /\ 2 <= n
    OBVIOUS
  <2> QED
    BY <1>0, <2>1, ByteOf
<1>2. PICK count \in Nat : count = first % 128
  BY <1>1
<1>3. b[p + 1] = first /\ v[1 + 1] = first
  <2>1. 1 \in 1..(n - 1) /\ 1 + 1 = 2
    OBVIOUS
  <2> QED
    BY <1>0, <2>1
<1>4. CASE first >= 128 /\ ~(count > 4)
  <2>1. s = count + 1
    <3>1. LengthAt(v, 1) = [size |-> count + 1, value |-> Number(SubSeq(v, 1 + 2, 1 + 1 + count))]
      BY ONLY <1>1, <1>2, <1>3, <1>4 DEF LengthAt
    <3> QED
      BY ONLY <3>1, LengthAt(v, 1).size = s
  <2>2. 2 + count <= n /\ (p + 1) + count <= l /\ p + 1 \in Nat /\ 2 \in Nat
    BY ONLY <1>2, <2>1, p \in Nat, n \in Nat, l \in Nat, p + (n - 1) <= l, 1 + s <= n
  <2>3. PICK x : IsCut(x, v, 2, 2 + count)
    BY DEF IsCut
  <2>4. PICK y : IsCut(y, b, p + 1, (p + 1) + count)
    BY DEF IsCut
  <2>5. Copies(x, v, 2, count)
    BY ONLY <1>2, <2>2, <2>3, n \in Nat, Len(v) = n, v \in Seq(0..255), CutIs
  <2>6. Copies(y, b, p + 1, count)
    BY ONLY <1>2, <2>2, <2>4, l \in Nat, Len(b) = l, b \in Seq(0..255), CutIs
  <2>7. ASSUME NEW k \in 1..count PROVE b[(p + 1) + k] = v[2 + k]
    <3>1. 1 + k \in 1..(n - 1) /\ p + (1 + k) = (p + 1) + k /\ 1 + (1 + k) = 2 + k
      BY ONLY <1>2, <2>2, <2>7, n \in Nat, p \in Nat
    <3>2. b[p + (1 + k)] = v[1 + (1 + k)]
      BY <3>1
    <3> QED
      BY ONLY <3>1, <3>2
  <2>8. x = y
    <3>1. Len(x) = Len(y) /\ \A k \in 1..Len(x) : x[k] = y[k]
      BY ONLY <2>5, <2>6, <2>7 DEF Copies
    <3>2. x \in Seq(0..255) /\ y \in Seq(0..255)
      BY ONLY <2>5, <2>6 DEF Copies
    <3> QED
      BY ONLY <3>1, <3>2, SeqEqual
  <2>9. x = SubSeq(v, 1 + 2, 1 + 1 + count) /\ y = SubSeq(b, p + 2, p + 1 + count)
    <3>1. 2 + 1 = 1 + 2 /\ 2 + count = 1 + 1 + count /\ (p + 1) + 1 = p + 2 /\ (p + 1) + count = p + 1 + count
      BY ONLY <1>2, p \in Nat
    <3> QED
      BY ONLY <2>3, <2>4, <3>1 DEF IsCut
  <2>10. SubSeq(v, 1 + 2, 1 + 1 + count) = SubSeq(b, p + 2, p + 1 + count)
    BY ONLY <2>8, <2>9
  <2> QED
    BY ONLY <1>1, <1>2, <1>3, <1>4, <2>10, Zenon DEF LengthAt
<1>5. CASE first < 128
  BY ONLY <1>1, <1>3, <1>5 DEF LengthAt
<1>6. CASE first >= 128 /\ count > 4
  BY ONLY <1>1, <1>2, <1>3, <1>6 DEF LengthAt
<1> QED
  BY ONLY <1>1, <1>2, <1>4, <1>5, <1>6

\* A value of any length.
LEMMA ReadsUnfixed ==
    ASSUME NEW v \in Seq(0..255), NEW n \in Nat, Len(v) = n, n > 1, NEW tid \in Unfixed,
           NEW s \in Nat, NEW m \in Nat, LengthAt(v, 1) = [size |-> s, value |-> m], s # 0, n = 1 + s + m,
           NEW w, IsCut(w, v, 1, n)
    PROVE  \E rs : Reads(w, <<Parse(tid)>>, rs)
<1>0. 1 + s \in Nat /\ 1 + s + m <= n /\ n > 0 /\ 1 + s <= n /\ n - 1 = s + m
  OBVIOUS
<1>1. /\ w \in Seq(0..255) /\ Len(w) = n - 1
      /\ \A k \in 1..(n - 1) : w[k] = v[1 + k]
  <2>1. Copies(w, v, 1, n - 1)
    BY ONLY <1>0, FirstByte, v \in Seq(0..255), n \in Nat, Len(v) = n, IsCut(w, v, 1, n)
  <2> QED
    BY ONLY <2>1 DEF Copies
<1>2. PICK x : IsCut(x, v, 1 + s, 1 + s + m)
  BY DEF IsCut
<1>3. x \in Seq(0..255) /\ Len(x) = m /\ \A k \in 1..m : x[k] = v[(1 + s) + k]
  <2>1. Copies(x, v, 1 + s, m)
    BY ONLY <1>0, <1>2, CutIs, v \in Seq(0..255), n \in Nat, Len(v) = n, m \in Nat
  <2> QED
    BY <2>1 DEF Copies
<1>4. ASSUME NEW b \in Seq(0..255), NEW p \in Nat, At(b, p, w)
      PROVE  Does(b, <<Parse(tid)>>, p, p + Len(w), <<Got(tid, x)>>)
  <2>1. PICK l \in Nat : l = Len(b)
    OBVIOUS
  <2>2. p + (n - 1) <= l /\ \A k \in 1..(n - 1) : b[p + k] = w[k]
    BY ONLY <1>1, <1>4, <2>1 DEF At
  <2>3. \A k \in 1..(n - 1) : b[p + k] = v[1 + k]
    BY ONLY <1>1, <2>2
  <2>4. LengthAt(b, p) = LengthAt(v, 1)
    <3>1. LengthAt(v, 1).size = s
      OBVIOUS
    <3> QED
      BY ONLY <1>0, <1>4, <2>1, <2>2, <2>3, <3>1, SameLength, v \in Seq(0..255), n \in Nat, Len(v) = n, n > 1,
              s \in Nat
  <2>5. At(b, p + s, x)
    <3>1. p + s + m <= l
      BY ONLY <1>0, <2>1, <2>2, n \in Nat, s \in Nat, m \in Nat, p \in Nat
    <3>2. ASSUME NEW k \in 1..m PROVE b[p + s + k] = x[k]
      <4>1. s + k \in 1..(n - 1) /\ p + (s + k) = p + s + k /\ 1 + (s + k) = (1 + s) + k
        BY ONLY <1>0, <3>2, n \in Nat, s \in Nat, m \in Nat, p \in Nat
      <4>2. b[p + (s + k)] = v[1 + (s + k)]
        BY ONLY <2>3, <4>1
      <4>3. x[k] = v[(1 + s) + k]
        BY ONLY <1>3, <3>2
      <4> QED
        BY ONLY <4>1, <4>2, <4>3
    <3> QED
      BY ONLY <1>3, <2>1, <3>1, <3>2 DEF At
  <2>6. LengthAt(b, p) = [size |-> s, value |-> Len(x)]
    BY <1>3, <2>4
  <2>7. Does(b, <<Parse(tid)>>, p, p + s + Len(x), <<Got(tid, x)>>)
    BY ONLY <1>3, <1>4, <2>5, <2>6, UnfixedDoes, tid \in Unfixed, s \in Nat, s # 0
  <2>8. p + s + Len(x) = p + Len(w)
    BY ONLY <1>0, <1>1, <1>3, <1>4, n \in Nat, s \in Nat, m \in Nat
  <2> QED
    BY ONLY <2>7, <2>8
<1>5. tid \in Types /\ Parse(tid) \in TodoItem
  BY ParseItem DEF Types
<1>6. Got(tid, x) \in Result
  BY <1>3, <1>5 DEF Got, Result
<1>7. <<Parse(tid)>> \in Seq(TodoItem) /\ <<Got(tid, x)>> \in Seq(Result)
  BY <1>5, <1>6
<1>8. Reads(w, <<Parse(tid)>>, <<Got(tid, x)>>)
  BY ONLY <1>1, <1>4, <1>7 DEF Reads
<1> QED
  BY <1>8

\* A length is a size and a value.
LEMMA LengthRecord ==
    ASSUME NEW b, NEW p
    PROVE  LengthAt(b, p) = [size |-> LengthAt(b, p).size, value |-> LengthAt(b, p).value]
  BY DEF LengthAt

\* A value that an action brings.
LEMMA ReadsAValue ==
    ASSUME NEW v, IsValue(v)
    PROVE  \E rs : ReadsSome(v, rs)
<1>1. PICK n \in Nat : Len(v) = n /\ n > 0 /\ v \in Seq(0..255) /\ v[1] \in DOMAIN DataTypes
  BY DEF IsValue, IsBytes
<1>2. PICK w : IsCut(w, v, 1, n)
  BY DEF IsCut
<1>3. v[1] \in 0..255 /\ w \in Seq(0..255) /\ Len(w) = n - 1 /\ v = <<v[1]>> \o w
  <2>1. v[1] \in 0..255 /\ Copies(w, v, 1, n - 1) /\ v = <<v[1]>> \o w
    BY ONLY <1>1, <1>2, FirstByte
  <2> QED
    BY ONLY <2>1 DEF Copies
<1>4. v # <<>>
  BY <1>1
<1>5. CASE DataTypes[v[1]] \in DOMAIN FixedLength /\ n = 1 + FixedLength[DataTypes[v[1]]]
  <2>1. PICK tid \in DOMAIN FixedLength : tid = DataTypes[v[1]]
    BY <1>5
  <2>2. FixedLength[tid] \in Nat /\ Len(w) = FixedLength[tid]
    <3>1. FixedLength[tid] \in Nat
      BY <2>1 DEF FixedLength
    <3> QED
      BY <1>3, <1>5, <2>1, <3>1
  <2>3. Reads(Value(v[1], w), <<Parse("data")>>, <<Got(tid, w)>>)
    BY <1>1, <1>3, <2>1, <2>2, ReadsValue
  <2>4. Value(v[1], w) = v
    BY <1>3 DEF Value
  <2> QED
    BY <1>4, <2>3, <2>4 DEF ReadsSome
<1>6. CASE /\ DataTypes[v[1]] \in Unfixed /\ n > 1 /\ LengthAt(v, 1).size # 0 /\ LengthAt(v, 1).value \in Nat
           /\ n = 1 + LengthAt(v, 1).size + LengthAt(v, 1).value
  <2>1. PICK s, m : LengthAt(v, 1) = [size |-> s, value |-> m]
    BY LengthRecord
  <2>2. s # 0 /\ m \in Nat /\ n = 1 + s + m
    BY <1>6, <2>1
  <2>3. s \in Nat
    <3>1. 2 \in Nat /\ 1 <= 2 /\ 2 <= n
      BY <1>1, <1>6
    <3>2. v[2] \in 0..255
      BY ONLY <1>1, <3>1, ByteOf
    <3>3. v[1 + 1] \in 0..255 /\ 1 + 1 = 2
      BY <3>2
    <3>4. LengthAt(v, 1).size \in Nat
      BY ONLY <3>3 DEF LengthAt
    <3> QED
      BY <2>1, <3>4
  <2>4. PICK rs : Reads(w, <<Parse(DataTypes[v[1]])>>, rs)
    BY ONLY <1>1, <1>2, <1>6, <2>1, <2>2, <2>3, ReadsUnfixed
  <2>5. Reads(<<v[1]>> \o w, <<Parse("data")>>, rs)
    BY <1>1, <2>4, ReadsData
  <2> QED
    BY <1>3, <1>4, <2>5 DEF ReadsSome
<1> QED
  BY <1>1, <1>5, <1>6 DEF IsValue

\* A cut that goes back is empty.
LEMMA EmptyCut ==
    ASSUME NEW S, NEW v \in Seq(S), NEW p \in Nat, NEW q \in Nat, q <= p
    PROVE  SubSeq(v, p + 1, q) = <<>>
<1>1. 1 + q - (p + 1) <= 0
  OBVIOUS
<1> QED
  BY <1>1

InTwo(z, x, y) == z = x \o y

\* The first value of a part, and the rest of it.
LEMMA CutValue ==
    ASSUME NEW v \in Seq(0..255), NEW n \in Nat, Len(v) = n, NEW p \in 0..n, NEW q \in 0..n,
           NEW x, IsCut(x, v, p, q), x # <<>>, NEW y, IsCut(y, v, q, n), NEW z, IsCut(z, v, p, n)
    PROVE  InTwo(z, x, y)
<1> DEFINE S == 0..255
<1>0. p \in Nat /\ q \in Nat /\ q <= Len(v) /\ v \in Seq(S)
  OBVIOUS
<1> HIDE DEF S
<1>1. p <= q
  <2>1. SUFFICES ASSUME q <= p PROVE FALSE
    BY <1>0
  <2>2. SubSeq(v, p + 1, q) = <<>>
    BY ONLY <1>0, <2>1, EmptyCut
  <2> QED
    BY <2>2 DEF IsCut
<1>2. SubSeq(v, p + 1, q) \o SubSeq(v, q + 1, Len(v)) = SubSeq(v, p + 1, Len(v))
  BY ONLY <1>0, <1>1, CutFront
<1> QED
  BY <1>2 DEF IsCut, InTwo

\* An array or a structure of values.
LEMMA ReadsAStructure ==
    ASSUME NEW v, IsStructure(v)
    PROVE  \E rs : ReadsSome(v, rs)
<1>1. PICK l \in Nat : Len(v) = l /\ l > 1 /\ v \in Seq(0..255) /\ v[1] \in {1, 2}
  BY DEF IsStructure, IsBytes
<1>2. PICK w : IsCut(w, v, 1, l)
  BY DEF IsCut
<1>3. v[1] \in 0..255 /\ Copies(w, v, 1, l - 1) /\ v = <<v[1]>> \o w
  <2>1. l > 0
    BY <1>1
  <2> QED
    BY ONLY <1>1, <1>2, <2>1, FirstByte
<1>4. PICK m \in Nat : m = l - 1 /\ m > 0
  BY <1>1
<1>5. w \in Seq(0..255) /\ Len(w) = m /\ w[1] = v[2]
  <2>1. 1 \in 1..m /\ 1 + 1 = 2
    BY <1>4
  <2>2. w[1] = v[1 + 1]
    BY ONLY <1>3, <1>4, <2>1 DEF Copies
  <2> QED
    BY ONLY <1>3, <1>4, <2>1, <2>2 DEF Copies
<1>6. PICK u : IsCut(u, w, 1, m)
  BY DEF IsCut
<1>7. w[1] \in 0..255 /\ Copies(u, w, 1, m - 1) /\ w = <<w[1]>> \o u
  BY ONLY <1>4, <1>5, <1>6, FirstByte
<1>8. PICK n : n = v[2]
  OBVIOUS
<1>9. n \in 0..127 /\ n \in Nat
  <2>1. v[2] < 128
    BY DEF IsStructure
  <2>2. n \in 0..255
    BY ONLY <1>5, <1>7, <1>8
  <2> QED
    BY ONLY <1>8, <2>1, <2>2
<1>10. PICK cut \in [0..n -> 0..l] : /\ cut[0] = 2 /\ cut[n] = l
                                     /\ \A i \in 1..n : IsValue(SubSeq(v, cut[i - 1] + 1, cut[i]))
  BY <1>1, <1>8 DEF IsStructure
<1> DEFINE suffix == [k \in 0..n |-> SubSeq(v, cut[n - k] + 1, l)]
<1>11. suffix[0] = <<>>
  <2>1. 0 \in 0..n /\ n - 0 = n
    BY <1>9
  <2>2. suffix[0] = SubSeq(v, l + 1, l)
    BY ONLY <1>10, <2>1 DEF suffix
  <2>3. SubSeq(v, l + 1, l) = <<>>
    BY ONLY <1>1, EmptyCut, l <= l
  <2> QED
    BY ONLY <2>2, <2>3
<1>12. ASSUME NEW k \in 1..n
       PROVE  \E x, rs : x # <<>> /\ Reads(x, <<Parse("data")>>, rs) /\ suffix[k] = x \o suffix[k - 1]
  <2>1. PICK i : i = n - k + 1
    OBVIOUS
  <2>2. i \in 1..n /\ i - 1 = n - k /\ i = n - (k - 1) /\ k \in 0..n /\ k - 1 \in 0..n /\ i \in 0..n /\ i - 1 \in 0..n
    BY ONLY <1>9, <1>12, <2>1
  <2>3. PICK x : IsCut(x, v, cut[i - 1], cut[i])
    BY DEF IsCut
  <2>4. IsValue(x)
    BY ONLY <1>10, <2>2, <2>3 DEF IsCut
  <2>5. PICK rs : ReadsSome(x, rs)
    BY ONLY <2>4, ReadsAValue
  <2>6. suffix[k] = SubSeq(v, cut[i - 1] + 1, l) /\ suffix[k - 1] = SubSeq(v, cut[i] + 1, l)
    BY ONLY <2>2 DEF suffix
  <2>7. cut[i - 1] \in 0..l /\ cut[i] \in 0..l
    BY ONLY <1>10, <2>2
  <2> HIDE DEF suffix
  <2>8. IsCut(suffix[k], v, cut[i - 1], l) /\ IsCut(suffix[k - 1], v, cut[i], l)
    BY ONLY <2>6 DEF IsCut
  <2>9. x # <<>>
    BY ONLY <2>5 DEF ReadsSome
  <2>10. suffix[k] = x \o suffix[k - 1]
    <3>1. InTwo(suffix[k], x, suffix[k - 1])
      BY ONLY <1>1, <2>3, <2>7, <2>8, <2>9, CutValue
    <3> QED
      BY ONLY <3>1 DEF InTwo
  <2> QED
    BY ONLY <2>5, <2>9, <2>10 DEF ReadsSome
<1>13. u = suffix[n]
  <2>1. n \in 0..n /\ n - n = 0
    BY ONLY <1>9
  <2>2. suffix[n] = SubSeq(v, 2 + 1, l)
    BY ONLY <1>10, <2>1 DEF suffix
  <2>3. PICK e : IsCut(e, v, 2, l)
    BY DEF IsCut
  <2>4. Copies(e, v, 2, m - 1)
    <3>1. m - 1 \in Nat /\ l = 2 + (m - 1) /\ l <= l /\ 2 \in Nat
      BY <1>1, <1>4
    <3> QED
      BY ONLY <1>1, <2>3, <3>1, CutIs
  <2>5. u \in Seq(0..255) /\ e \in Seq(0..255) /\ Len(u) = Len(e) /\ Len(u) = m - 1
    BY ONLY <1>7, <2>4 DEF Copies
  <2>6. ASSUME NEW k \in 1..(m - 1) PROVE u[k] = e[k]
    <3>1. 1 + k \in 1..(l - 1) /\ 1 + (1 + k) = 2 + k
      BY ONLY <1>1, <1>4, <2>6
    <3>2. u[k] = w[1 + k] /\ e[k] = v[2 + k]
      BY ONLY <1>7, <2>4, <2>6 DEF Copies
    <3>3. w[1 + k] = v[1 + (1 + k)]
      BY ONLY <1>3, <3>1 DEF Copies
    <3> QED
      BY ONLY <3>1, <3>2, <3>3
  <2>7. u = e
    <3>1. \A k \in 1..Len(u) : u[k] = e[k]
      BY ONLY <2>5, <2>6
    <3>2. u \in Seq(0..255) /\ e \in Seq(0..255) /\ Len(u) = Len(e)
      BY ONLY <2>5
    <3> QED
      BY ONLY <3>1, <3>2, SeqEqual
  <2> QED
    BY ONLY <2>2, <2>3, <2>7 DEF IsCut
<1> HIDE DEF suffix
<1>14. PICK rs : Reads(suffix[n], <<Elements(ListType(v[1]), n)>>, rs)
  BY ONLY <1>1, <1>9, <1>11, <1>12, ReadsMany
<1>15. Reads(<<v[1]>> \o (<<n>> \o u), <<Parse("data")>>, Head4(ListType(v[1]), n) \o rs)
  BY ONLY <1>1, <1>9, <1>13, <1>14, ReadsLists
<1>16. v = <<v[1]>> \o (<<n>> \o u) /\ v # <<>>
  BY <1>1, <1>3, <1>5, <1>7, <1>8
<1> QED
  BY ONLY <1>15, <1>16 DEF ReadsSome

\* What is read of the data of an action: all of it, but for a compact array.
LEMMA ReadsActionData ==
    ASSUME NEW v, IsData(v), v # <<>>
    PROVE  \E x, y, rs : /\ v = x \o y /\ y \in Seq(0..255) /\ ReadsSome(x, rs)
                         /\ (v[1] # CompactArray => y = <<>>)
<1>1. CASE IsValue(v) \/ IsStructure(v)
  <2>1. PICK rs : ReadsSome(v, rs)
    BY <1>1, ReadsAValue, ReadsAStructure
  <2>2. v \in Seq(0..255)
    BY <2>1 DEF ReadsSome, Reads
  <2>3. v \o <<>> = v /\ <<>> \in Seq(0..255)
    BY <2>2, Joined1
  <2> QED
    BY <2>1, <2>3
<1>2. CASE IsBytes(v) /\ Len(v) > 0 /\ v[1] = CompactArray
  <2>1. PICK n \in Nat : Len(v) = n /\ n > 0 /\ v \in Seq(0..255)
    BY <1>2 DEF IsBytes
  <2>2. PICK w : IsCut(w, v, 1, n)
    BY DEF IsCut
  <2>3. v[1] \in 0..255 /\ Copies(w, v, 1, n - 1) /\ v = <<v[1]>> \o w
    BY ONLY <2>1, <2>2, FirstByte
  <2>4. 19 \in DOMAIN DataTypes /\ DataTypes[19] = "null" /\ "null" \in DOMAIN FixedLength /\ FixedLength["null"] = 0
    BY DEF DataTypes, FixedLength
  <2>5. <<>> \in Seq(0..255) /\ Len(<<>>) = 0 /\ 0 \in Nat
    OBVIOUS
  <2>6. Reads(Value(19, <<>>), <<Parse("data")>>, <<Got("null", <<>>)>>)
    BY ONLY <2>4, <2>5, ReadsValue
  <2>7. <<19>> \in Seq(0..255) /\ <<19>> # <<>>
    OBVIOUS
  <2>8. Value(19, <<>>) = <<19>>
    BY <2>7, Joined1 DEF Value
  <2>9. ReadsSome(<<19>>, <<Got("null", <<>>)>>)
    BY ONLY <2>6, <2>7, <2>8 DEF ReadsSome
  <2> QED
    BY <1>2, <2>3, <2>9 DEF CompactArray, Copies
<1> QED
  BY <1>1, <1>2 DEF IsData

-----------------------------------------------------------------------------
(* Whole requests.                                                         *)

\* The items of the requests.
LEMMA RequestSequences ==
    /\ {"get_request_normal", "action_request_normal", "get_request_next", "get_request_with_list"}
          \subseteq DOMAIN Sequences
    /\ Items("get_request_normal") =
          <<Parse("invoke_id_and_priority"), Parse("cosem_attribute_descriptor"), OptionOf(SelectionType)>>
    /\ Items("action_request_normal") =
          <<Parse("invoke_id_and_priority"), Parse("cosem_attribute_descriptor"), OptionOf("data")>>
    /\ Items("get_request_next") = <<Parse("invoke_id_and_priority"), Parse("unsigned32")>>
    /\ Items("get_request_with_list") = <<Parse("invoke_id_and_priority"), Parse(List3)>>
<1>1. {"get_request_normal", "action_request_normal", "get_request_next", "get_request_with_list"}
          \subseteq DOMAIN Sequences
  BY DEF Sequences
<1>2. ASSUME NEW tid \in {"get_request_normal", "action_request_normal"}, NEW x, NEW y, NEW z,
             Sequences[tid] = <<x, y, z>>
      PROVE  Items(tid) = <<Parse(x), Parse(y), OptionOf(z)>>
  <2>1. Optional(tid, 3) /\ ~Optional(tid, 1) /\ ~Optional(tid, 2)
    BY DEF Optional, MaskFour
  <2>2. Items(tid) = [i \in 1..3 |-> [op |-> IF Optional(tid, i) THEN "option" ELSE "parse",
                                      tid |-> <<x, y, z>>[i]]]
    BY <1>2 DEF Items
  <2>3. [i \in 1..3 |-> [op |-> IF Optional(tid, i) THEN "option" ELSE "parse", tid |-> <<x, y, z>>[i]]]
           = <<Parse(x), Parse(y), OptionOf(z)>>
    BY <2>1 DEF Parse, OptionOf
  <2> QED
    BY <2>2, <2>3
<1>3. ASSUME NEW tid \in {"get_request_next", "get_request_with_list"}, NEW x, NEW y, Sequences[tid] = <<x, y>>
      PROVE  Items(tid) = <<Parse(x), Parse(y)>>
  <2>1. ~Optional(tid, 1) /\ ~Optional(tid, 2)
    BY DEF Optional, MaskFour
  <2>2. Items(tid) = [i \in 1..2 |-> [op |-> IF Optional(tid, i) THEN "option" ELSE "parse",
                                      tid |-> <<x, y>>[i]]]
    BY <1>3 DEF Items
  <2>3. [i \in 1..2 |-> [op |-> IF Optional(tid, i) THEN "option" ELSE "parse", tid |-> <<x, y>>[i]]]
           = <<Parse(x), Parse(y)>>
    BY <2>1 DEF Parse
  <2> QED
    BY <2>2, <2>3
<1>4. /\ Sequences["get_request_normal"] =
            <<"invoke_id_and_priority", "cosem_attribute_descriptor", SelectionType>>
      /\ Sequences["action_request_normal"] = <<"invoke_id_and_priority", "cosem_attribute_descriptor", "data">>
      /\ Sequences["get_request_next"] = <<"invoke_id_and_priority", "unsigned32">>
      /\ Sequences["get_request_with_list"] = <<"invoke_id_and_priority", List3>>
  BY DEF Sequences, SelectionType, List3
<1> QED
  BY <1>1, <1>2, <1>3, <1>4

\* Which request the second byte chooses.
Requested(t, k) ==
    IF t = 192 THEN IF k = 1 THEN "get_request_normal"
                    ELSE IF k = 2 THEN "get_request_next" ELSE "get_request_with_list"
    ELSE "action_request_normal"

\* What the first two bytes choose.
LEMMA RequestChosen ==
    /\ \A k \in {1, 2, 3} : Chosen("get_request", k) = Requested(192, k)
    /\ Chosen("action_request", 1) = Requested(195, 1)
    /\ Chosen("cosem_pdu", 192) = "get_request" /\ Chosen("cosem_pdu", 195) = "action_request"
    /\ \A t, k : Requested(t, k) # "none"
    /\ {"cosem_pdu", "get_request", "action_request"} \subseteq ChoiceTypes
  BY DEF Chosen, Requested, ChoiceTypes

\* The first byte leaves a result, and chooses what is read behind it.
LEMMA ReadsPdu ==
    ASSUME NEW t \in {192, 195}, NEW v, NEW rs, Reads(v, <<Parse(Chosen("cosem_pdu", t))>>, rs)
    PROVE  Reads(<<t>> \o v, <<Parse("cosem_pdu")>>, <<Got("cosem_pdu", <<t>>)>> \o rs)
<1> DEFINE x == Parse("cosem_pdu")
           to == Chosen("cosem_pdu", t)
           g == <<Got("cosem_pdu", <<t>>)>>
<1>1. x \in TodoItem /\ to # "none" /\ "cosem_pdu" \in ChoiceTypes
  BY RequestChosen, ParseItem DEF Types
<1>2. ASSUME NEW b \in Seq(0..255), NEW p \in Nat, p < Len(b), b[p + 1] = t
      PROVE  Turns(b, x, p, <<Parse(to)>>, p + 1, g)
  <2>1. TurnsChoice(b, x, p, <<Parse(to)>>, p + 1, g)
    BY <1>1, <1>2 DEF TurnsChoice
  <2> QED
    BY <2>1 DEF Turns
<1>3. g \in Seq(Result)
  <2>1. "cosem_pdu" \in Types /\ <<t>> \in Seq(0..255)
    BY <1>1 DEF Types
  <2> QED
    BY <2>1 DEF Got, Result
<1>4. t \in 0..255
  OBVIOUS
<1> HIDE DEF x, to, g
<1>5. Reads(<<t>> \o v, <<x>>, g \o rs)
  <2>1. Reads(v, <<Parse(to)>>, rs)
    BY DEF to
  <2> QED
    BY <1>1, <1>2, <1>3, <1>4, <2>1, TurnReadsByte
<1> QED
  BY <1>5 DEF x, g

\* The first two bytes choose the request, the first one leaves a result.
LEMMA ReadsRequest ==
    ASSUME NEW t \in {192, 195}, NEW k \in 0..255, k \in {1, 2, 3}, t = 195 => k = 1,
           NEW v, NEW rs, Reads(v, Items(Requested(t, k)), rs)
    PROVE  Reads(<<t>> \o (<<k>> \o v), <<Parse("cosem_pdu")>>, <<Got("cosem_pdu", <<t>>)>> \o rs)
<1>1. Requested(t, k) \in DOMAIN Sequences
  BY RequestSequences DEF Requested
<1>2. Reads(v, <<Parse(Requested(t, k))>>, rs)
  BY <1>1, ReadsSequence
<1>3. t \in {192, 195} /\ k \in 0..255 /\ (t = 195 => k = 1)
  OBVIOUS
<1>4. /\ Chosen(Chosen("cosem_pdu", t), k) = Requested(t, k) /\ Chosen("cosem_pdu", t) \in ChoiceTypes
      /\ Chosen("cosem_pdu", t) # "cosem_pdu" /\ Requested(t, k) # "none"
  BY RequestChosen
<1>5. Reads(<<k>> \o v, <<Parse(Chosen("cosem_pdu", t))>>, rs)
  <2>1. PICK tid, to : tid = Chosen("cosem_pdu", t) /\ to = Requested(t, k)
    OBVIOUS
  <2>2. tid \in ChoiceTypes /\ tid # "cosem_pdu" /\ Chosen(tid, k) = to /\ to # "none"
    BY ONLY <1>4, <2>1
  <2>3. Reads(v, <<Parse(to)>>, rs)
    BY ONLY <1>2, <2>1
  <2>4. Reads(<<k>> \o v, <<Parse(tid)>>, rs)
    BY ONLY k \in 0..255, <2>2, <2>3, ReadsChoice
  <2> QED
    BY ONLY <2>1, <2>4
<1> QED
  BY <1>3, <1>5, ReadsPdu

\* Any one byte.
LEMMA ReadsInvoke ==
    ASSUME NEW i \in 0..255
    PROVE  /\ Reads(<<i>>, <<Parse("invoke_id_and_priority")>>, <<Got("invoke_id_and_priority", <<i>>)>>)
           /\ Sized(<<Got("invoke_id_and_priority", <<i>>)>>, 1)
<1> DEFINE x == <<i>>
<1>1. x \in Seq(0..255) /\ Len(x) = 1 /\ 1 \in Nat
  OBVIOUS
<1>2. "invoke_id_and_priority" \in DOMAIN FixedLength /\ FixedLength["invoke_id_and_priority"] = 1
  BY DescriptorLengths DEF DescriptorTypes
<1> HIDE DEF x
<1>3. /\ Reads(x, <<Parse("invoke_id_and_priority")>>, <<Got("invoke_id_and_priority", x)>>)
      /\ Got("invoke_id_and_priority", x) \in Result
  BY <1>1, <1>2, ReadsFixed
<1> QED
  BY <1>3, SizedOne DEF x

\* What a get request selects by.
ShowsSelection(s, l, sel) ==
    /\ Sized(s, l)
    /\ sel.kind = "none" => l = 0
    /\ sel.kind = "range" =>
          /\ l > 8 /\ s[1] = Got("unsigned8", <<1>>)
          /\ Dated(s[8], sel, sel.start) /\ Dated(s[9], sel, sel.end)

\* What is read of the selection of a single get.
LEMMA ReadsGetSelection ==
    ASSUME NEW item, IsItem(item, {"none", "range", "entries"})
    PROVE  \E s, l : Reads(Selection(item.sel), <<OptionOf(SelectionType)>>, s) /\ ShowsSelection(s, l, item.sel)
<1> DEFINE sel == item.sel
<1>0. sel.kind \in {"none", "range", "entries"}
  BY DEF IsItem
<1>1. SelectionType \in Types
  BY SelectionSequence
<1>2. CASE sel.kind = "none"
  <2>1. Selection(sel) = <<0>>
    BY <1>2 DEF Selection
  <2>2. Reads(<<0>>, <<OptionOf(SelectionType)>>, <<>>)
    BY <1>1, ReadsOption
  <2>3. ShowsSelection(<<>>, 0, sel)
    BY <1>2, NoBytes DEF ShowsSelection, Sized
  <2> QED
    BY <2>1, <2>2, <2>3
<1>3. CASE sel.kind = "entries"
  <2>1. PICK w, rs : ReadsSome(w, rs) /\ Selects(sel, 2, w)
    BY <1>3, EntriesSelection
  <2>2. PICK u : u = <<Got("unsigned8", <<2>>)>>
    OBVIOUS
  <2>3. Reads(<<1>> \o (<<2>> \o w), <<OptionOf(SelectionType)>>, u \o rs) /\ Sized(u, 1)
    <3>1. 2 \in 0..255
      OBVIOUS
    <3> QED
      BY <2>1, <2>2, <3>1, ReadsSelection
  <2>4. PICK s : s = u \o rs
    OBVIOUS
  <2>5. Reads(Selection(sel), <<OptionOf(SelectionType)>>, s)
    BY <2>1, <2>3, <2>4 DEF Selects
  <2>6. PICK l : Sized(s, l)
    <3>1. s \in Seq(Result) /\ Len(s) \in Nat
      BY <2>5 DEF Reads
    <3> QED
      BY <3>1 DEF Sized
  <2>7. ShowsSelection(s, l, sel)
    BY <1>3, <2>6 DEF ShowsSelection
  <2> QED
    BY <2>5, <2>7
<1>4. CASE sel.kind = "range"
  <2>1. IsRange(sel)
    BY <1>4 DEF IsItem
  <2>2. PICK v : ReadsSome(RangeData(sel), v) /\ RangeResults(v, sel)
    BY <2>1, ReadsRange
  <2>3. PICK n : /\ Sized(v, n) /\ n > 8
                 /\ Dated(v[7], sel, sel.start) /\ Dated(v[8], sel, sel.end)
    BY <2>2 DEF RangeResults
  <2>4. PICK u : u = <<Got("unsigned8", <<1>>)>>
    OBVIOUS
  <2>5. Reads(<<1>> \o (<<1>> \o RangeData(sel)), <<OptionOf(SelectionType)>>, u \o v) /\ Sized(u, 1)
    <3>1. 1 \in 0..255
      OBVIOUS
    <3> QED
      BY <2>2, <2>4, <3>1, ReadsSelection
  <2>6. u[1] = Got("unsigned8", <<1>>)
    BY <2>4
  <2>7. PICK s : s = u \o v
    OBVIOUS
  <2>8. Reads(Selection(sel), <<OptionOf(SelectionType)>>, s)
    BY <2>1, <2>5, <2>7, RangeSelection DEF Selects
  <2>9. Together(s, u, 1, v, n) /\ Sized(s, 1 + n)
    BY <2>3, <2>5, <2>7, SizedBoth DEF Together
  <2>10. n \in Nat /\ n > 8
    BY <2>3 DEF Sized
  <2>11. s[1] = u[1]
    BY ONLY <2>9, JoinedFirst
  <2>12. s[8] = v[7]
    BY ONLY <2>9, <2>10, JoinedSecond
  <2>13. s[9] = v[8]
    BY ONLY <2>9, <2>10, JoinedSecond
  <2>14. 1 + n > 8
    BY <2>10
  <2>15. ShowsSelection(s, 1 + n, sel)
    BY <1>4, <2>3, <2>6, <2>9, <2>11, <2>12, <2>13, <2>14 DEF ShowsSelection
  <2> QED
    BY <2>8, <2>15
<1> QED
  BY <1>0, <1>2, <1>3, <1>4

\* The results of a normal request: two, the three of the descriptor, and those behind.
NormalResults(z, t, d, s, l) ==
    /\ Sized(z, 5 + l) /\ Sized(s, l)
    /\ z[1] = Got("cosem_pdu", <<t>>) /\ z[2] = Got("invoke_id_and_priority", <<255>>)
    /\ z[3] = Got("cosem_class_id", Short(d.class))
    /\ z[4] = Got("cosem_object_instance_id", d.obis)
    /\ z[5] = Got("cosem_object_attribute_id", <<d.attr>>)
    /\ \A i \in Nat : (1 <= i /\ i <= l) => z[5 + i] = s[i]

\* Where the parts of a request for one descriptor lie in its results.
LEMMA NormalPlaces ==
    ASSUME NEW p, NEW i, NEW r, NEW s, NEW l, NEW z, Sized(p, 1), Sized(i, 1), Sized(r, 3), Sized(s, l),
           NEW d, ShowsDescriptor(r, d), NEW t, p[1] = Got("cosem_pdu", <<t>>),
           i[1] = Got("invoke_id_and_priority", << 255 >>), Itemized(z, p, i, r, s)
    PROVE  NormalResults(z, t, d, s, l)
<1>0. l \in Nat
  BY DEF Sized
<1>1. PICK y : y = r \o s
  OBVIOUS
<1>2. Together(y, r, 3, s, l) /\ Sized(y, 3 + l)
  BY <1>1, SizedBoth DEF Together
<1>3. PICK w : w = i \o y
  OBVIOUS
<1>4. Together(w, i, 1, y, 3 + l) /\ Sized(w, 1 + (3 + l))
  BY <1>2, <1>3, SizedBoth DEF Together
<1>5. Together(z, p, 1, w, 1 + (3 + l)) /\ Sized(z, 1 + (1 + (3 + l)))
  BY <1>1, <1>3, <1>4, SizedBoth DEF Together, Itemized
<1>6. z[1] = p[1]
  BY ONLY <1>5, JoinedFirst
<1>7. z[2] = w[1]
  BY ONLY <1>0, <1>5, JoinedSecond
<1>8. w[1] = i[1]
  BY ONLY <1>4, JoinedFirst
<1>9. ASSUME NEW k \in Nat, 1 <= k, k <= 3 + l PROVE z[2 + k] = y[k]
  <2>1. 1 + k \in Nat /\ 1 <= 1 + k /\ 1 + k <= 1 + (3 + l) /\ 2 + k = 1 + (1 + k)
    BY ONLY <1>0, <1>9
  <2>2. z[2 + k] = w[1 + k]
    BY ONLY <1>5, <2>1, JoinedSecond
  <2>3. w[1 + k] = y[k]
    BY ONLY <1>4, <1>9, JoinedSecond
  <2> QED
    BY ONLY <2>2, <2>3
<1>10. z[3] = y[1] /\ z[4] = y[2] /\ z[5] = y[3]
  <2>1. /\ 1 \in Nat /\ 1 <= 1 /\ 1 <= 3 + l /\ 2 \in Nat /\ 1 <= 2 /\ 2 <= 3 + l /\ 3 \in Nat /\ 1 <= 3 /\ 3 <= 3 + l
        /\ 2 + 1 = 3 /\ 2 + 2 = 4 /\ 2 + 3 = 5
    BY ONLY <1>0
  <2> QED
    BY ONLY <1>9, <2>1
<1>11. y[1] = r[1] /\ y[2] = r[2] /\ y[3] = r[3]
  <2>1. y[1] = r[1]
    BY ONLY <1>2, JoinedFirst
  <2>2. y[2] = r[2]
    BY ONLY <1>2, JoinedFirst
  <2>3. y[3] = r[3]
    BY ONLY <1>2, JoinedFirst
  <2> QED
    BY ONLY <2>1, <2>2, <2>3
<1>12. ASSUME NEW k \in Nat, 1 <= k, k <= l PROVE z[5 + k] = s[k]
  <2>1. 3 + k \in Nat /\ 1 <= 3 + k /\ 3 + k <= 3 + l /\ 5 + k = 2 + (3 + k)
    BY ONLY <1>0, <1>12
  <2>2. z[5 + k] = y[3 + k]
    BY ONLY <1>9, <2>1
  <2>3. y[3 + k] = s[k]
    BY ONLY <1>2, <1>12, JoinedSecond
  <2> QED
    BY ONLY <2>2, <2>3
<1>13. Sized(z, 5 + l)
  <2>1. 5 + l = 1 + (1 + (3 + l))
    BY ONLY <1>0
  <2> QED
    BY ONLY <1>5, <2>1
<1> QED
  BY <1>6, <1>7, <1>8, <1>10, <1>11, <1>12, <1>13 DEF NormalResults, ShowsDescriptor

\* Bytes in front.
InThree(t, k, i, x) == <<t, k, i>> \o x = <<t>> \o (<<k>> \o (<<i>> \o x))

\* Three bytes in front are each in front of what follows.
LEMMA ThreeBytes ==
    ASSUME NEW t \in 0..255, NEW k \in 0..255, NEW i \in 0..255, NEW x \in Seq(0..255)
    PROVE  InThree(t, k, i, x) /\ <<t, k, i>> \in Seq(0..255)
<1> DEFINE S == 0..255
           f == <<t, k, i>>
           o == <<t>>
           g == <<k, i>>
<1>1. o \in Seq(S) /\ g \in Seq(S) /\ f \in Seq(S) /\ x \in Seq(S)
  OBVIOUS
<1>2. f = o \o g
  <2>1. Joins(o, g, f, 1, 2)
    BY DEF Joins
  <2> HIDE DEF S
  <2> QED
    BY <1>1, <2>1, JoinedIs
<1>3. g \o x = <<k>> \o (<<i>> \o x)
  BY TwoBytes, ZenonT(40)
<1> HIDE DEF S, f, o, g
<1>4. Grouped(o, g, x)
  BY ONLY <1>1, ThreeGrouped
<1>5. f \o x = o \o (g \o x)
  BY ONLY <1>2, <1>4 DEF Grouped
<1>6. f \o x = o \o (<<k>> \o (<<i>> \o x))
  BY ONLY <1>3, <1>5
<1> QED
  BY <1>1, <1>6 DEF f, o, InThree, S

TwoInFront(s, t, v) == <<s, t>> \o v = <<s>> \o (<<t>> \o v)

\* So are two.
LEMMA TwoInFrontOf ==
    ASSUME NEW s \in 0..255, NEW t \in 0..255, NEW v \in Seq(0..255)
    PROVE  TwoInFront(s, t, v)
  BY TwoBytes DEF TwoInFront

InFour(t, k, i, n, x) == <<t, k, i, n>> \o x = <<t>> \o (<<k>> \o (<<i>> \o (<<n>> \o x)))

\* So are four.
LEMMA FourInFront ==
    ASSUME NEW t \in 0..255, NEW k \in 0..255, NEW i \in 0..255, NEW n \in 0..255, NEW x \in Seq(0..255)
    PROVE  InFour(t, k, i, n, x)
<1> DEFINE S == 0..255
           f == <<t, k, i, n>>
           o == <<t, k>>
           g == <<i, n>>
           y == <<i>> \o (<<n>> \o x)
<1>1. o \in Seq(S) /\ g \in Seq(S) /\ f \in Seq(S) /\ x \in Seq(S)
  OBVIOUS
<1>2. f = o \o g
  <2>1. Joins(o, g, f, 2, 2)
    BY DEF Joins
  <2> HIDE DEF S
  <2> QED
    BY <1>1, <2>1, JoinedIs
<1>3. g \o x = y
  <2>1. TwoInFront(i, n, x)
    BY TwoInFrontOf
  <2> QED
    BY ONLY <2>1 DEF TwoInFront, g, y
<1>4. y \in Seq(0..255)
  BY NotEmpty
<1> HIDE DEF y
<1>5. o \o y = <<t>> \o (<<k>> \o y)
  <2>1. TwoInFront(t, k, y)
    BY <1>4, TwoInFrontOf
  <2> QED
    BY ONLY <2>1 DEF TwoInFront, o
<1> HIDE DEF S, f, o, g
<1>6. Grouped(o, g, x)
  BY ONLY <1>1, ThreeGrouped
<1>7. f \o x = o \o (g \o x)
  BY ONLY <1>2, <1>6 DEF Grouped
<1>8. f \o x = <<t>> \o (<<k>> \o y)
  BY ONLY <1>3, <1>5, <1>7
<1> QED
  BY <1>8 DEF f, y, InFour

Pdu(t) == <<Got("cosem_pdu", <<t>>)>>

\* The first byte leaves one result.
LEMMA PduSized ==
    ASSUME NEW t \in {192, 195}
    PROVE  Sized(Pdu(t), 1) /\ Pdu(t)[1] = Got("cosem_pdu", <<t>>)
<1>1. "cosem_pdu" \in Types /\ <<t>> \in Seq(0..255)
  BY DEF Types, ChoiceTypes
<1>2. Got("cosem_pdu", <<t>>) \in Result
  BY <1>1 DEF Got, Result
<1> QED
  BY <1>2, SizedOne DEF Pdu

\* A request for one descriptor with an option behind it.
LEMMA ReadsNormal ==
    ASSUME NEW t \in {192, 195}, NEW opt, NEW d, IsDescriptor(d), NEW e, NEW s, NEW l,
           Items(Requested(t, 1)) =
              <<Parse("invoke_id_and_priority"), Parse("cosem_attribute_descriptor"), OptionOf(opt)>>,
           Reads(e, <<OptionOf(opt)>>, s), Sized(s, l)
    PROVE  \E z : /\ Reads(<<t>> \o (<<1>> \o (<<255>> \o (Descriptor(d) \o e))), <<Parse("cosem_pdu")>>, z)
                  /\ NormalResults(z, t, d, s, l)
<1> DEFINE r == DescriptorResults(d)
           i == <<Got("invoke_id_and_priority", <<255>>)>>
           v == Descriptor(d)
           f0 == <<Parse("invoke_id_and_priority")>>
           f1 == <<Parse("cosem_attribute_descriptor")>>
           f2 == <<OptionOf(opt)>>
<1>1. Reads(v, f1, r) /\ Sized(r, 3) /\ ShowsDescriptor(r, d)
  BY ReadsDescriptor
<1>2. Reads(<<255>>, f0, i) /\ Sized(i, 1) /\ i[1] = Got("invoke_id_and_priority", <<255>>)
  <2>1. PICK n \in 0..255 : n = 255
    OBVIOUS
  <2>2. Reads(<<n>>, f0, <<Got("invoke_id_and_priority", <<n>>)>>) /\ Sized(<<Got("invoke_id_and_priority", <<n>>)>>, 1)
    BY ONLY n \in 0..255, ReadsInvoke DEF f0
  <2>3. i[1] = Got("invoke_id_and_priority", <<255>>)
    OBVIOUS
  <2> QED
    BY ONLY <2>1, <2>2, <2>3 DEF i
<1>3. Items(Requested(t, 1)) = f0 \o (f1 \o f2)
  BY Three
<1>4. t \in 0..255 /\ 1 \in 0..255 /\ 1 \in {1, 2, 3} /\ (t = 195 => 1 = 1)
  OBVIOUS
<1>5. Sized(Pdu(t), 1) /\ Pdu(t)[1] = Got("cosem_pdu", <<t>>)
  BY PduSized
<1>6. Reads(e, f2, s)
  OBVIOUS
<1> HIDE DEF r, i, v, f0, f1, f2
<1>7. Reads(v \o e, f1 \o f2, r \o s)
  BY ONLY <1>1, <1>6, ReadsBoth
<1>8. Reads(<<255>> \o (v \o e), f0 \o (f1 \o f2), i \o (r \o s))
  BY ONLY <1>2, <1>7, ReadsBoth
<1>9. PICK w, rs : w = <<255>> \o (v \o e) /\ rs = i \o (r \o s)
  OBVIOUS
<1>10. Reads(w, Items(Requested(t, 1)), rs)
  BY ONLY <1>3, <1>8, <1>9
<1>11. Reads(<<t>> \o (<<1>> \o w), <<Parse("cosem_pdu")>>, Pdu(t) \o rs)
  BY <1>4, <1>10, ReadsRequest DEF Pdu
<1>12. PICK z : z = Pdu(t) \o rs
  OBVIOUS
<1>13. Itemized(z, Pdu(t), i, r, s)
  BY ONLY <1>9, <1>12 DEF Itemized
<1>14. NormalResults(z, t, d, s, l)
  BY ONLY <1>1, <1>2, <1>5, <1>13, NormalPlaces, Sized(s, l)
<1>15. Reads(<<t>> \o (<<1>> \o (<<255>> \o (v \o e))), <<Parse("cosem_pdu")>>, z)
  BY ONLY <1>9, <1>11, <1>12
<1> QED
  BY <1>14, <1>15 DEF v

\* The results of a list.
ListResults(z, n, s, l) ==
    /\ Sized(z, 3 + l) /\ Sized(s, l)
    /\ z[1] = Got("cosem_pdu", <<192>>) /\ z[2] = Got("invoke_id_and_priority", <<193>>)
    /\ z[3] = Got(List3, CountOf(List3, n))
    /\ \A i \in Nat : (1 <= i /\ i <= l) => z[3 + i] = s[i]

\* Where the parts of a list lie in its results.
LEMMA ListPlaces ==
    ASSUME NEW p, NEW i, NEW h, NEW s, NEW l, NEW z, Sized(p, 1), Sized(i, 1), Sized(h, 1), Sized(s, l),
           NEW n, h[1] = Got(List3, CountOf(List3, n)), p[1] = Got("cosem_pdu", << 192 >>),
           i[1] = Got("invoke_id_and_priority", << 193 >>), Itemized(z, p, i, h, s)
    PROVE  ListResults(z, n, s, l)
<1>0. l \in Nat
  BY DEF Sized
<1>1. PICK y : y = h \o s
  OBVIOUS
<1>2. Together(y, h, 1, s, l) /\ Sized(y, 1 + l)
  BY <1>1, SizedBoth DEF Together
<1>3. PICK w : w = i \o y
  OBVIOUS
<1>4. Together(w, i, 1, y, 1 + l) /\ Sized(w, 1 + (1 + l))
  BY <1>2, <1>3, SizedBoth DEF Together
<1>5. Together(z, p, 1, w, 1 + (1 + l)) /\ Sized(z, 1 + (1 + (1 + l)))
  BY <1>1, <1>3, <1>4, SizedBoth DEF Together, Itemized
<1>6. z[1] = p[1]
  BY ONLY <1>5, JoinedFirst
<1>7. z[2] = w[1]
  BY ONLY <1>0, <1>5, JoinedSecond
<1>8. w[1] = i[1]
  BY ONLY <1>4, JoinedFirst
<1>9. z[3] = w[2]
  BY ONLY <1>0, <1>5, JoinedSecond
<1>10. w[2] = y[1]
  BY ONLY <1>0, <1>4, JoinedSecond
<1>11. y[1] = h[1]
  BY ONLY <1>2, JoinedFirst
<1>12. ASSUME NEW k \in Nat, 1 <= k, k <= l PROVE z[3 + k] = s[k]
  <2>1. /\ 1 + k \in Nat /\ 1 <= 1 + k /\ 1 + k <= 1 + l
        /\ 2 + k \in Nat /\ 1 <= 2 + k /\ 2 + k <= 1 + (1 + l)
        /\ 3 + k = 1 + (2 + k) /\ 2 + k = 1 + (1 + k)
    BY ONLY <1>0, <1>12
  <2>2. z[3 + k] = w[2 + k]
    BY ONLY <1>5, <2>1, JoinedSecond
  <2>3. w[2 + k] = y[1 + k]
    BY ONLY <1>4, <2>1, JoinedSecond
  <2>4. y[1 + k] = s[k]
    BY ONLY <1>2, <1>12, JoinedSecond
  <2> QED
    BY ONLY <2>2, <2>3, <2>4
<1>13. Sized(z, 3 + l)
  <2>1. 3 + l = 1 + (1 + (1 + l))
    BY ONLY <1>0
  <2> QED
    BY ONLY <1>5, <2>1
<1> QED
  BY <1>6, <1>7, <1>8, <1>9, <1>10, <1>11, <1>12, <1>13 DEF ListResults

\* A list of descriptors.
IsFlat(f, items) == f = FlattenSeq([i \in DOMAIN items |-> ItemBytes(items[i])])

ListRead(f, n, items) ==
    \E z, s, l : /\ Reads(<<192>> \o (<<3>> \o (<<193>> \o (<<n>> \o f))), <<Parse("cosem_pdu")>>, z)
                 /\ ListResults(z, n, s, l) /\ (PlainBeforeLast(items, n) => ItemsShown(s, items, n))

\* A list of descriptors is read to its end, and its items are shown.
LEMMA ReadsGetWithList ==
    ASSUME NEW n \in 0..127, NEW items, DOMAIN items = 1..n, \A i \in 1..n : IsItem(items[i], {"none", "range"}),
           NEW f, IsFlat(f, items)
    PROVE  f \in Seq(0..255) /\ ListRead(f, n, items)
<1>0. n \in Nat
  OBVIOUS
<1>1. PICK s, l : /\ Sized(s, l) /\ (PlainBeforeLast(items, n) => ItemsShown(s, items, n))
                  /\ Reads(f, <<Elements(List3, n)>>, s)
  BY <1>0, ReadsItems DEF IsFlat
<1>2. List3 \in Lists
  BY DEF Lists, List3
<1>3. PICK h : h = Head4(List3, n)
  OBVIOUS
<1>4. Reads(<<n>> \o f, <<Parse(List3)>>, h \o s)
  BY <1>1, <1>2, <1>3, ReadsList
<1>5. Sized(h, 1) /\ h[1] = Got(List3, CountOf(List3, n))
  <2>1. Got(List3, CountOf(List3, n)) \in Result
    BY <1>2, CountBytes
  <2>2. h = <<Got(List3, CountOf(List3, n))>>
    BY <1>3 DEF Head4
  <2> QED
    BY ONLY <2>1, <2>2, SizedOne
<1> DEFINE i == <<Got("invoke_id_and_priority", <<193>>)>>
           f0 == <<Parse("invoke_id_and_priority")>>
           f1 == <<Parse(List3)>>
<1>6. Reads(<<193>>, f0, i) /\ Sized(i, 1) /\ i[1] = Got("invoke_id_and_priority", <<193>>)
  <2>1. PICK k \in 0..255 : k = 193
    OBVIOUS
  <2>2. /\ Reads(<<k>>, f0, <<Got("invoke_id_and_priority", <<k>>)>>)
        /\ Sized(<<Got("invoke_id_and_priority", <<k>>)>>, 1)
    BY ONLY k \in 0..255, ReadsInvoke DEF f0
  <2>3. i[1] = Got("invoke_id_and_priority", <<193>>)
    OBVIOUS
  <2> QED
    BY ONLY <2>1, <2>2, <2>3 DEF i
<1>7. Items(Requested(192, 3)) = f0 \o f1
  <2>1. <<Parse("invoke_id_and_priority"), Parse(List3)>> = f0 \o f1
    OBVIOUS
  <2> QED
    BY <2>1, RequestSequences DEF Requested
<1>8. Sized(Pdu(192), 1) /\ Pdu(192)[1] = Got("cosem_pdu", <<192>>)
  <2>1. PICK t \in {192, 195} : t = 192
    OBVIOUS
  <2>2. Sized(Pdu(t), 1) /\ Pdu(t)[1] = Got("cosem_pdu", <<t>>)
    BY ONLY t \in {192, 195}, PduSized
  <2> QED
    BY ONLY <2>1, <2>2
<1> HIDE DEF i, f0, f1
<1>9. Reads(<<193>> \o (<<n>> \o f), f0 \o f1, i \o (h \o s))
  <2>1. Reads(<<n>> \o f, f1, h \o s)
    BY <1>4 DEF f1
  <2> QED
    BY ONLY <1>6, <2>1, ReadsBoth
<1>10. PICK w, rs : w = <<193>> \o (<<n>> \o f) /\ rs = i \o (h \o s)
  OBVIOUS
<1>11. PICK t \in {192, 195}, k \in 0..255 : t = 192 /\ k = 3 /\ k \in {1, 2, 3} /\ (t = 195 => k = 1)
  <2>1. 192 \in {192, 195} /\ 3 \in 0..255 /\ 3 \in {1, 2, 3} /\ (192 = 195 => 3 = 1)
    OBVIOUS
  <2> QED
    BY <2>1
<1>12. Reads(w, Items(Requested(t, k)), rs)
  BY ONLY <1>7, <1>9, <1>10, <1>11
<1>13. Reads(<<t>> \o (<<k>> \o w), <<Parse("cosem_pdu")>>, Pdu(t) \o rs)
  BY ONLY <1>11, <1>12, ReadsRequest DEF Pdu
<1>14. PICK z : z = Pdu(t) \o rs
  OBVIOUS
<1>15. Itemized(z, Pdu(192), i, h, s)
  BY ONLY <1>10, <1>11, <1>14 DEF Itemized
<1>16. ListResults(z, n, s, l)
  BY ONLY <1>1, <1>5, <1>6, <1>8, <1>15, ListPlaces
<1>17. Reads(<<192>> \o (<<3>> \o (<<193>> \o (<<n>> \o f))), <<Parse("cosem_pdu")>>, z)
  BY ONLY <1>10, <1>11, <1>13, <1>14
<1>18. f \in Seq(0..255)
  BY <1>1 DEF Reads
<1> QED
  BY <1>1, <1>16, <1>17, <1>18 DEF ListRead

\* The next block.
LEMMA ReadsGetNext ==
    \E z : Reads(<<192>> \o (<<2>> \o (<<255>> \o <<0, 0, 0, 1>>)), <<Parse("cosem_pdu")>>, z)
<1> DEFINE block == <<0, 0, 0, 1>>
           f0 == <<Parse("invoke_id_and_priority")>>
           f1 == <<Parse("unsigned32")>>
<1>1. block \in Seq(0..255) /\ Len(block) = 4 /\ 4 \in Nat
  OBVIOUS
<1>2. "unsigned32" \in DOMAIN FixedLength /\ FixedLength["unsigned32"] = 4
  BY DescriptorLengths DEF DescriptorTypes
<1>3. Items(Requested(192, 2)) = f0 \o f1
  <2>1. <<Parse("invoke_id_and_priority"), Parse("unsigned32")>> = f0 \o f1
    OBVIOUS
  <2> QED
    BY <2>1, RequestSequences DEF Requested
<1> HIDE DEF block
<1>4. Reads(block, f1, <<Got("unsigned32", block)>>)
  BY ONLY <1>1, <1>2, ReadsFixed DEF f1
<1>5. PICK n \in 0..255 : n = 255
  OBVIOUS
<1>6. Reads(<<n>>, f0, <<Got("invoke_id_and_priority", <<n>>)>>)
  BY ONLY n \in 0..255, ReadsInvoke DEF f0
<1>7. PICK r, s : Reads(<<n>>, f0, r) /\ Reads(block, f1, s)
  BY <1>4, <1>6
<1> HIDE DEF f0, f1
<1>8. Reads(<<n>> \o block, f0 \o f1, r \o s)
  BY ONLY <1>7, ReadsBoth
<1>9. PICK w, rs : w = <<n>> \o block /\ rs = r \o s
  OBVIOUS
<1>10. PICK t \in {192, 195}, k \in 0..255 : t = 192 /\ k = 2 /\ k \in {1, 2, 3} /\ (t = 195 => k = 1)
  <2>1. 192 \in {192, 195} /\ 2 \in 0..255 /\ 2 \in {1, 2, 3} /\ (192 = 195 => 2 = 1)
    OBVIOUS
  <2> QED
    BY <2>1
<1>11. Reads(w, Items(Requested(t, k)), rs)
  BY ONLY <1>3, <1>8, <1>9, <1>10
<1>12. Reads(<<t>> \o (<<k>> \o w), <<Parse("cosem_pdu")>>, Pdu(t) \o rs)
  BY ONLY <1>10, <1>11, ReadsRequest DEF Pdu
<1>13. Reads(<<192>> \o (<<2>> \o (<<255>> \o block)), <<Parse("cosem_pdu")>>, Pdu(t) \o rs)
  BY ONLY <1>5, <1>9, <1>10, <1>12
<1> QED
  BY <1>13 DEF block

Start == Place(<<Parse("cosem_pdu")>>, 0, <<>>)

\* The parser reads x, in front of y, to its end.
LEMMA ReadWhole ==
    ASSUME NEW x, NEW z, Reads(x, <<Parse("cosem_pdu")>>, z), NEW y \in Seq(0..255), NEW b, b = x \o y
    PROVE  /\ b \in Seq(0..255) /\ z \in Seq(Result)
           /\ \E q \in 0..Len(b) : (y = <<>> => q = Len(b)) /\ Gets(b, Start, Place(<<>>, q, z))
<1> DEFINE P == <<Parse("cosem_pdu")>>
<1>1. x \in Seq(0..255) /\ z \in Seq(Result) /\ P \in Seq(TodoItem)
  BY DEF Reads
<1>2. b \in Seq(0..255) /\ At(b, 0, x)
  BY ONLY <1>1, AtJoined, y \in Seq(0..255), b = x \o y
<1>3. Does(b, P, 0, 0 + Len(x), z)
  BY <1>2 DEF Reads
<1>4. 0 + Len(x) = Len(x) /\ Len(x) \in Nat
  BY <1>1
<1>5. Does(b, P, 0, Len(x), z)
  BY ONLY <1>3, <1>4
<1>6. Len(x) \in 0..Len(b)
  BY ONLY <1>5 DEF Does
<1>7. <<>> \in Seq(TodoItem) /\ <<>> \in Seq(Result)
  BY NoBytes
<1> HIDE DEF P
<1>8. Gets(b, Place(P \o <<>>, 0, <<>>), Place(<<>>, Len(x), <<>> \o z))
  BY ONLY <1>5, <1>7 DEF Does
<1>9. P \o <<>> = P /\ <<>> \o z = z
  BY ONLY <1>1, Joined1
<1>10. Gets(b, Place(P, 0, <<>>), Place(<<>>, Len(x), z))
  BY ONLY <1>8, <1>9
<1>11. y = <<>> => Len(x) = Len(b)
  <2>1. x \o <<>> = x
    BY ONLY <1>1, Joined1
  <2> QED
    BY ONLY <2>1, b = x \o y
<1> QED
  BY <1>1, <1>2, <1>6, <1>10, <1>11 DEF Start, P

Tags12(b, t, k) == b \in Seq(0..255) /\ Len(b) > 1 /\ b[1] = t /\ b[2] = k

Begins(b, t, k, w) == w \in Seq(0..255) /\ b = <<t>> \o (<<k>> \o w)

\* The first two bytes.
LEMMA FirstTwo ==
    ASSUME NEW t \in 0..255, NEW k \in 0..255, NEW w, NEW b, Begins(b, t, k, w)
    PROVE  Tags12(b, t, k)
<1>0. w \in Seq(0..255) /\ b = <<t>> \o (<<k>> \o w)
  BY DEF Begins
<1>1. PICK v : v = <<k>> \o w
  OBVIOUS
<1>2. v \in Seq(0..255) /\ Len(v) = 1 + Len(w) /\ v[1] = k /\ Len(w) \in Nat
  BY <1>0, <1>1
<1>3. b = <<t>> \o v
  BY <1>0, <1>1
<1>4. Len(b) = 1 + Len(v) /\ b[1] = t /\ b[2] = v[1] /\ b \in Seq(0..255)
  BY ONLY <1>2, <1>3, t \in 0..255
<1> QED
  BY <1>2, <1>4 DEF Tags12

\* Where the parser ends.
EndsNormal(t, d, sel, rs) ==
    \E s, l : NormalResults(rs, t, d, s, l) /\ (t = 192 => ShowsSelection(s, l, sel))

EndsList(items, rs) ==
    \E s, l : /\ ListResults(rs, Len(items), s, l)
              /\ (PlainBeforeLast(items, Len(items)) => ItemsShown(s, items, Len(items)))

Ends(r, b, d) ==
    \/ /\ r.kind = "get" /\ Tags12(b, 192, 1) /\ d.todo = <<>> /\ d.pos = Len(b)
       /\ EndsNormal(192, r.items[1].d, r.items[1].sel, d.results)
    \/ /\ r.kind = "list" /\ Tags12(b, 192, 3) /\ d.todo = <<>> /\ d.pos = Len(b)
       /\ EndsList(r.items, d.results)
    \/ /\ r.kind = "action" /\ Tags12(b, 195, 1) /\ d.todo = <<>>
       /\ (r.data = <<>> \/ r.data[1] # CompactArray) => d.pos = Len(b)
       /\ EndsNormal(195, r.items[1].d, r.items[1].sel, d.results)
    \/ r.kind = "next" /\ Tags12(b, 192, 2) /\ d.todo = <<>>
    \/ /\ r.kind = "action next" /\ Tags12(b, 195, 2) /\ d.pos = 1 /\ d.todo = <<Parse("action_request")>>

Written(r, b) ==
    b \in Seq(0..255) /\ \E d : Ends(r, b, d) /\ Gets(b, Start, d)

\* What the parser reads of a whole request.
LEMMA ReadsWhole ==
    ASSUME NEW t \in 0..255, NEW k \in 0..255, NEW w, NEW b, Begins(b, t, k, w), NEW z, Reads(b, <<Parse("cosem_pdu")>>, z)
    PROVE  Tags12(b, t, k) /\ Gets(b, Start, Place(<<>>, Len(b), z))
<1>1. Tags12(b, t, k)
  BY FirstTwo
<1>2. <<>> \in Seq(0..255) /\ b = b \o <<>>
  <2>1. b \in Seq(0..255)
    BY <1>1 DEF Tags12
  <2> QED
    BY <2>1, Joined1
<1>3. \E q \in 0..Len(b) : q = Len(b) /\ Gets(b, Start, Place(<<>>, q, z))
  BY <1>2, ReadWhole
<1> QED
  BY <1>1, <1>3

\* Seven bytes.
LEMMA SevenBytes ==
    ASSUME NEW t \in 0..255
    PROVE  Begins(<<t, 2, 255, 0, 0, 0, 1>>, t, 2, <<255>> \o <<0, 0, 0, 1>>)
<1> DEFINE S == 0..255
           x == <<t, 2, 255>>
           y == <<0, 0, 0, 1>>
           z == <<t, 2, 255, 0, 0, 0, 1>>
<1>1. x \in Seq(S) /\ y \in Seq(S) /\ z \in Seq(S)
  <2>1. x \in Seq(S)
    OBVIOUS
  <2>2. y \in Seq(S)
    OBVIOUS
  <2>3. z \in Seq(S)
    OBVIOUS
  <2> QED
    BY <2>1, <2>2, <2>3
<1>2. Joins(x, y, z, 3, 4)
  BY DEF Joins
<1>3. PICK k \in S, i \in S : k = 2 /\ i = 255
  OBVIOUS
<1> HIDE DEF y, z
<1>4. x = <<t, k, i>>
  BY <1>3
<1> HIDE DEF x
<1>5. x \o y = z
  BY ONLY <1>1, <1>2, 3 \in Nat, 4 \in Nat, JoinedIs
<1>6. InThree(t, k, i, y)
  BY <1>1, ThreeBytes
<1>7. z = <<t>> \o (<<k>> \o (<<i>> \o y))
  BY ONLY <1>4, <1>5, <1>6 DEF InThree
<1>8. <<i>> \o y \in Seq(S)
  BY ONLY <1>1, i \in S
<1>9. z = <<t>> \o (<<2>> \o (<<255>> \o y)) /\ <<255>> \o y \in Seq(S)
  BY ONLY <1>3, <1>7, <1>8
<1> QED
  BY <1>9 DEF Begins, z, y

\* The next block of a get is read to its end.
LEMMA NextEnds ==
    ASSUME NEW r, r.kind = "next"
    PROVE  Written(r, Encoded(r))
<1>1. PICK t \in 0..255, k \in 0..255 : t = 192 /\ k = 2
  OBVIOUS
<1>2. PICK b, w : b = Encoded(r) /\ w = <<255>> \o <<0, 0, 0, 1>>
  OBVIOUS
<1>3. Begins(b, t, k, w)
  <2>1. b = <<t, 2, 255, 0, 0, 0, 1>>
    BY <1>1, <1>2 DEF Encoded
  <2> QED
    BY ONLY <1>1, <1>2, <2>1, SevenBytes
<1>4. PICK z : Reads(b, <<Parse("cosem_pdu")>>, z)
  BY ONLY <1>1, <1>2, <1>3, ReadsGetNext DEF Begins
<1>5. Tags12(b, t, k) /\ Gets(b, Start, Place(<<>>, Len(b), z))
  BY <1>3, <1>4, ReadsWhole
<1>6. Ends(r, b, Place(<<>>, Len(b), z))
  BY <1>1, <1>5 DEF Ends, Place
<1> QED
  BY <1>2, <1>5, <1>6 DEF Written, Tags12

\* The bytes that requests begin with.
LEMMA TagBytes ==
    /\ 1 \in 0..255 /\ 2 \in 0..255 /\ 3 \in 0..255 /\ 255 \in 0..255 /\ 193 \in 0..255
    /\ 192 \in 0..255 /\ 195 \in 0..255 /\ {192, 195} \subseteq 0..255
OBVIOUS

\* One item to do.
LEMMA HeadOfOne ==
    ASSUME NEW x
    PROVE  <<x>> # <<>> /\ Head(<<x>>) = x /\ Tail(<<x>>) = <<>>
OBVIOUS

\* There is no parser for the next block of an action.
LEMMA ActionNextEnds ==
    ASSUME NEW r, r.kind = "action next"
    PROVE  Written(r, Encoded(r))
<1>1. PICK t \in 0..255, k \in 0..255 : t = 195 /\ k = 2
  BY ONLY TagBytes
<1>2. PICK b, w : b = Encoded(r) /\ w = <<255>> \o <<0, 0, 0, 1>>
  OBVIOUS
<1>3. Begins(b, t, k, w)
  <2>1. b = <<t, 2, 255, 0, 0, 0, 1>>
    BY <1>1, <1>2 DEF Encoded
  <2> QED
    BY ONLY <1>1, <1>2, <2>1, SevenBytes
<1>4. Tags12(b, t, k)
  BY <1>3, FirstTwo
<1>5. Len(b) \in Nat /\ 1 < Len(b)
  BY ONLY <1>4 DEF Tags12
<1>6. PICK x, y : x = Parse("cosem_pdu") /\ y = Parse("action_request")
  OBVIOUS
<1>7. x \in TodoItem /\ y \in TodoItem /\ <<x>> \in Seq(TodoItem) /\ <<y>> \in Seq(TodoItem)
  <2>1. "cosem_pdu" \in Types /\ "action_request" \in Types
    BY DEF Types, ChoiceTypes
  <2>2. x \in TodoItem /\ y \in TodoItem
    BY <1>6, <2>1, ParseItem
  <2> QED
    BY ONLY <2>2
<1>8. Pdu(195) \in Seq(Result) /\ <<>> \in Seq(Result) /\ <<>> \in Seq(TodoItem)
  BY PduSized, NoBytes DEF Sized
<1>9. Turns(b, x, 0, <<y>>, 1, Pdu(195))
  <2>1. Chosen("cosem_pdu", b[0 + 1]) = "action_request" /\ b[0 + 1] = 195
    <3>1. 0 + 1 = 1 /\ b[1] = 195
      BY ONLY <1>1, <1>4 DEF Tags12
    <3> QED
      BY ONLY <3>1, RequestChosen
  <2>2. "cosem_pdu" \in ChoiceTypes
    BY DEF ChoiceTypes
  <2>3. TurnsChoice(b, x, 0, <<y>>, 1, Pdu(195))
    <3>1. 1 = 0 + 1
      BY ONLY 1 \in Nat
    <3>2. Chosen("cosem_pdu", b[0 + 1]) # "none"
      BY ONLY <2>1
    <3> QED
      BY ONLY <1>6, <2>1, <2>2, <3>1, <3>2 DEF TurnsChoice, Pdu
  <2> QED
    BY ONLY <2>3 DEF Turns
<1>10. <<y>> \o <<>> = <<y>> /\ <<>> \o Pdu(195) = Pdu(195)
  BY <1>7, <1>8, Joined1
<1> DEFINE d == Place(<<y>>, 1, Pdu(195))
<1>11. Goes(b, Start, d)
  <2>1. Start.todo = <<x>> /\ Start.pos = 0 /\ Start.results = <<>>
    BY <1>6 DEF Start, Place
  <2>2. <<x>> # <<>> /\ Head(<<x>>) = x /\ Tail(<<x>>) = <<>>
    BY ONLY HeadOfOne
  <2>3. 1 \in 0..Len(b)
    BY ONLY <1>5
  <2>4. d = Place(<<y>> \o Tail(Start.todo), 1, Start.results \o Pdu(195))
    BY <2>1, <2>2, <1>10
  <2> QED
    <3>1. /\ <<y>> \in Seq(TodoItem) /\ 1 \in 0..Len(b) /\ Pdu(195) \in Seq(Result)
          /\ Turns(b, Head(Start.todo), Start.pos, <<y>>, 1, Pdu(195))
      BY ONLY <1>7, <1>8, <1>9, <2>1, <2>2, <2>3
    <3>2. Start.todo # <<>>
      BY ONLY <2>1, <2>2
    <3> HIDE DEF d
    <3> QED
      BY ONLY <2>4, <3>1, <3>2 DEF Goes
<1>12. Start \in Places(b) /\ d \in Places(b)
  <2>1. 0 \in 0..Len(b) /\ 1 \in 0..Len(b)
    BY ONLY <1>5
  <2> QED
    BY ONLY <1>6, <1>7, <1>8, <2>1 DEF Start, Places, Place
<1>13. Gets(b, Start, d)
  BY <1>11, <1>12, GetsFirst, GetsStays
<1>14. Ends(r, b, d)
  BY <1>1, <1>4, <1>6 DEF Ends, Place
<1> QED
  BY <1>2, <1>4, <1>13, <1>14 DEF Written, Tags12

\* A descriptor is bytes.
LEMMA DescriptorBytes ==
    ASSUME NEW d, IsDescriptor(d)
    PROVE  Descriptor(d) \in Seq(0..255)
<1> USE DEF IsBytes
<1>1. Short(d.class) \in Seq(0..255)
  BY ShortBytes DEF IsDescriptor
<1>2. <<d.attr>> \in Seq(0..255) /\ d.obis \in Seq(0..255)
  BY DEF IsDescriptor
<1>3. Short(d.class) \o d.obis \in Seq(0..255)
  BY ONLY <1>1, <1>2, Closed
<1>4. Short(d.class) \o d.obis \o <<d.attr>> \in Seq(0..255)
  BY ONLY <1>2, <1>3, Closed
<1> QED
  BY ONLY <1>4 DEF Descriptor

\* A request for one descriptor, whatever is read behind it.
Normal(b, t, d, e) == b = <<t, 1, 255>> \o Descriptor(d) \o e
NormalItems(t, opt) ==
    Items(Requested(t, 1)) = <<Parse("invoke_id_and_priority"), Parse("cosem_attribute_descriptor"), OptionOf(opt)>>
NormalRead(b, t, d, s, l) ==
    \E z : Reads(b, <<Parse("cosem_pdu")>>, z) /\ NormalResults(z, t, d, s, l) /\ Tags12(b, t, 1)

\* A request for one descriptor is read to its end.
LEMMA NormalReads ==
    ASSUME NEW t \in {192, 195}, NEW opt, NEW d, IsDescriptor(d), NEW e, NEW s, NEW l,
           NormalItems(t, opt), Reads(e, <<OptionOf(opt)>>, s), Sized(s, l), NEW b, Normal(b, t, d, e)
    PROVE  NormalRead(b, t, d, s, l)
<1>0. b = <<t, 1, 255>> \o Descriptor(d) \o e
  BY DEF Normal
<1>1. Descriptor(d) \in Seq(0..255)
  BY DescriptorBytes
<1>2. e \in Seq(0..255)
  BY DEF Reads
<1>3. PICK y : y = Descriptor(d) /\ y \in Seq(0..255)
  BY <1>1
<1>4. PICK k \in 0..255, i \in 0..255 : k = 1 /\ i = 255
  OBVIOUS
<1>5. t \in 0..255
  OBVIOUS
<1>6. PICK h : h = <<t, k, i>> /\ h \in Seq(0..255)
  BY ONLY <1>5, k \in 0..255, i \in 0..255, ThreeBytes, NoBytes
<1>7. PICK x : x = y \o e /\ x \in Seq(0..255)
  BY <1>2, <1>3, Closed
<1>8. (h \o y) \o e = h \o x
  BY ONLY <1>2, <1>3, <1>6, <1>7, ThreeGrouped, SMTT(30) DEF Grouped
<1>9. InThree(t, k, i, x)
  BY <1>5, <1>7, ThreeBytes
<1>10. b = <<t>> \o (<<k>> \o (<<i>> \o x))
  BY ONLY <1>3, <1>4, <1>6, <1>0, <1>8, <1>9, SMTT(30) DEF InThree
<1>11. b = <<t>> \o (<<1>> \o (<<255>> \o (Descriptor(d) \o e)))
  BY ONLY <1>3, <1>4, <1>7, <1>10
<1>12. PICK z : Reads(b, <<Parse("cosem_pdu")>>, z) /\ NormalResults(z, t, d, s, l)
  <2>1. PICK v : v = <<t>> \o (<<1>> \o (<<255>> \o (Descriptor(d) \o e)))
    OBVIOUS
  <2>2. \E z : Reads(v, <<Parse("cosem_pdu")>>, z) /\ NormalResults(z, t, d, s, l)
    BY <2>1, ReadsNormal, ZenonT(40) DEF NormalItems
  <2> QED
    BY ONLY <1>11, <2>1, <2>2
<1>13. <<i>> \o x \in Seq(0..255)
  BY <1>7
<1>14. Begins(b, t, k, <<i>> \o x)
  BY ONLY <1>10, <1>13 DEF Begins
<1>15. Tags12(b, t, k)
  BY <1>5, <1>14, FirstTwo
<1> QED
  BY <1>4, <1>12, <1>15 DEF NormalRead

\* Nothing behind it, the parser reads it to its end.
LEMMA ReadsAll ==
    ASSUME NEW b \in Seq(0..255), NEW z, Reads(b, <<Parse("cosem_pdu")>>, z)
    PROVE  Gets(b, Start, Place(<<>>, Len(b), z))
<1>1. <<>> \in Seq(0..255) /\ b = b \o <<>>
  BY Joined1
<1>2. \E q \in 0..Len(b) : q = Len(b) /\ Gets(b, Start, Place(<<>>, q, z))
  BY <1>1, ReadWhole
<1> QED
  BY <1>2

\* A single get is read to its end.
LEMMA GetEnds ==
    ASSUME NEW r, r.kind = "get", NEW item, r.items[1] = item, IsItem(item, {"none", "range", "entries"})
    PROVE  Written(r, Encoded(r))
<1>1. PICK b : b = Encoded(r)
  OBVIOUS
<1>2. PICK e, s, l : e = Selection(item.sel) /\ Reads(e, <<OptionOf(SelectionType)>>, s) /\ ShowsSelection(s, l, item.sel)
  BY ReadsGetSelection
<1>3. b = <<192, 1, 255>> \o Descriptor(item.d) \o e
  BY <1>1, <1>2 DEF Encoded
<1>4. PICK d : d = item.d /\ IsDescriptor(d)
  BY DEF IsItem
<1>5. PICK t \in {192, 195} : t = 192
  OBVIOUS
<1>6. NormalItems(t, SelectionType)
  BY <1>5, RequestSequences DEF Requested, NormalItems
<1>7. Normal(b, t, d, e) /\ Sized(s, l)
  BY <1>2, <1>3, <1>4, <1>5 DEF ShowsSelection, Normal
<1>8. PICK z : Reads(b, <<Parse("cosem_pdu")>>, z) /\ NormalResults(z, t, d, s, l) /\ Tags12(b, t, 1)
  <2>1. NormalRead(b, t, d, s, l)
    BY ONLY t \in {192, 195}, <1>2, <1>4, <1>6, <1>7, NormalReads
  <2> QED
    BY ONLY <2>1 DEF NormalRead
<1>9. b \in Seq(0..255)
  BY ONLY <1>8 DEF Tags12
<1>10. Gets(b, Start, Place(<<>>, Len(b), z))
  BY ONLY <1>8, <1>9, ReadsAll
<1>11. EndsNormal(192, r.items[1].d, r.items[1].sel, z)
  <2>1. NormalResults(z, 192, r.items[1].d, s, l) /\ ShowsSelection(s, l, r.items[1].sel)
    BY ONLY <1>2, <1>4, <1>5, <1>8, r.items[1] = item
  <2> QED
    BY ONLY <2>1 DEF EndsNormal
<1>12. Ends(r, b, Place(<<>>, Len(b), z))
  <2>1. Tags12(b, 192, 1)
    BY ONLY <1>5, <1>8
  <2> QED
    BY ONLY <1>11, <2>1, r.kind = "get" DEF Ends, Place
<1> QED
  BY ONLY <1>1, <1>9, <1>10, <1>12 DEF Written

\* With or without data.
ReadsMost(e, f, s, data) ==
    /\ Reads(f, <<OptionOf("data")>>, s)
    /\ \E y \in Seq(0..255) : e = f \o y /\ ((data = <<>> \/ data[1] # CompactArray) => y = <<>>)

Option(e, data) == e = IF data = <<>> THEN <<0>> ELSE <<1>> \o data

\* The data of an action, or none, is read to its end, but for a compact array.
LEMMA ReadsMostOfData ==
    ASSUME NEW data, IsData(data), NEW e, Option(e, data)
    PROVE  \E f, s : ReadsMost(e, f, s, data)
<1> USE DEF Option
<1>0. "data" \in Types
  BY DEF Types, ChoiceTypes
<1>1. CASE data = <<>>
  <2>1. Reads(<<0>>, <<OptionOf("data")>>, <<>>)
    BY <1>0, ReadsOption
  <2>2. <<0>> \in Seq(0..255) /\ <<>> \in Seq(0..255)
    OBVIOUS
  <2>3. <<0>> \o <<>> = <<0>>
    BY ONLY <2>2, Joined1
  <2>4. e = <<0>> \o <<>>
    BY <1>1, <2>3
  <2> QED
    BY <2>1, <2>2, <2>4 DEF ReadsMost
<1>2. CASE data # <<>>
  <2>1. PICK x, y, rs : /\ data = x \o y /\ y \in Seq(0..255) /\ ReadsSome(x, rs)
                        /\ (data[1] # CompactArray => y = <<>>)
    BY <1>2, ReadsActionData
  <2>2. Reads(x, <<Parse("data")>>, rs) /\ x \in Seq(0..255)
    BY <2>1 DEF ReadsSome, Reads
  <2>3. Reads(<<1>> \o x, <<OptionOf("data")>>, rs)
    BY <1>0, <2>2, ReadsOption
  <2>4. <<1>> \in Seq(0..255)
    OBVIOUS
  <2>5. Grouped(<<1>>, x, y)
    BY ONLY <2>1, <2>2, <2>4, ThreeGrouped
  <2>6. e = (<<1>> \o x) \o y
    BY <1>2, <2>1, <2>5 DEF Grouped
  <2> QED
    BY <1>2, <2>1, <2>3, <2>6 DEF ReadsMost
<1> QED
  BY <1>1, <1>2

\* An action is read to its end, but for a compact array.
LEMMA ActionEnds ==
    ASSUME NEW r, r.kind = "action", NEW item, r.items[1] = item, IsItem(item, {"none"}), IsData(r.data)
    PROVE  Written(r, Encoded(r))
<1>1. PICK b : b = Encoded(r)
  OBVIOUS
<1>2. PICK e : Option(e, r.data)
  BY DEF Option
<1>3. b = <<195, 1, 255>> \o Descriptor(item.d) \o e
  BY <1>1, <1>2, Zenon DEF Encoded, Option
<1>4. PICK d : d = item.d /\ IsDescriptor(d)
  BY DEF IsItem
<1>5. PICK t \in {192, 195} : t = 195
  OBVIOUS
<1>6. NormalItems(t, "data")
  BY <1>5, RequestSequences DEF Requested, NormalItems
<1>7. PICK f, s : ReadsMost(e, f, s, r.data)
  BY <1>2, ReadsMostOfData
<1>8. PICK y \in Seq(0..255) : e = f \o y /\ ((r.data = <<>> \/ r.data[1] # CompactArray) => y = <<>>)
  BY ONLY <1>7 DEF ReadsMost
<1>9. PICK l : Sized(s, l)
  <2>1. s \in Seq(Result)
    BY ONLY <1>7 DEF ReadsMost, Reads
  <2>2. Len(s) \in Nat
    BY ONLY <2>1
  <2> QED
    BY ONLY <2>1, <2>2 DEF Sized
<1>10. PICK a : Normal(a, t, d, f)
  BY DEF Normal
<1>11. Reads(f, <<OptionOf("data")>>, s)
  BY ONLY <1>7 DEF ReadsMost
<1>12. PICK z : Reads(a, <<Parse("cosem_pdu")>>, z) /\ NormalResults(z, t, d, s, l) /\ Tags12(a, t, 1)
  <2>1. NormalRead(a, t, d, s, l)
    BY ONLY t \in {192, 195}, <1>4, <1>6, <1>9, <1>10, <1>11, NormalReads
  <2> QED
    BY ONLY <2>1 DEF NormalRead
<1>13. b = a \o y
  <2>1. PICK h : h = <<t, 1, 255>> \o Descriptor(d) /\ h \in Seq(0..255)
    <3>1. <<t, 1, 255>> \in Seq(0..255)
      BY ONLY t \in {192, 195}
    <3>2. Descriptor(d) \in Seq(0..255)
      BY <1>4, DescriptorBytes
    <3> QED
      BY ONLY <3>1, <3>2, Closed
  <2>2. f \in Seq(0..255)
    BY ONLY <1>11 DEF Reads
  <2>3. Grouped(h, f, y)
    BY ONLY <2>1, <2>2, y \in Seq(0..255), ThreeGrouped
  <2>4. b = h \o e
    BY ONLY <1>3, <1>4, <1>5, <2>1
  <2> QED
    BY ONLY <1>8, <1>10, <2>1, <2>3, <2>4 DEF Grouped, Normal
<1>14. PICK q : b \in Seq(0..255) /\ (y = <<>> => q = Len(b)) /\ Gets(b, Start, Place(<<>>, q, z))
  BY <1>12, <1>13, ReadWhole, ZenonT(40)
<1>15. Tags12(b, t, 1)
  <2>1. a \in Seq(0..255) /\ Len(a) > 1
    BY ONLY <1>12 DEF Tags12
  <2>2. PICK n \in Nat, m \in Nat : n = Len(a) /\ m = Len(y)
    BY ONLY <2>1, y \in Seq(0..255)
  <2>3. Len(b) = Len(a) + Len(y) /\ b[1] = a[1] /\ b[2] = a[2]
    BY ONLY <1>13, <2>1, y \in Seq(0..255)
  <2>4. Len(b) > 1
    BY ONLY <2>1, <2>2, <2>3
  <2> QED
    BY ONLY <1>12, <1>14, <2>3, <2>4 DEF Tags12
<1>16. EndsNormal(195, r.items[1].d, r.items[1].sel, z)
  <2>1. NormalResults(z, 195, r.items[1].d, s, l) /\ 195 # 192
    BY ONLY <1>4, <1>5, <1>12, r.items[1] = item
  <2> QED
    BY ONLY <2>1 DEF EndsNormal
<1>17. Ends(r, b, Place(<<>>, q, z))
  <2>1. Tags12(b, 195, 1)
    BY ONLY <1>5, <1>15
  <2>2. (r.data = <<>> \/ r.data[1] # CompactArray) => q = Len(b)
    BY ONLY <1>8, <1>14
  <2> QED
    BY ONLY <1>16, <2>1, <2>2, r.kind = "action" DEF Ends, Place
<1> QED
  BY ONLY <1>1, <1>14, <1>17 DEF Written

\* A list is read to its end.
LEMMA ListEnds ==
    ASSUME NEW r, r.kind = "list", NEW items, r.items = items, NEW n \in 0..127, Len(items) = n,
           DOMAIN items = 1..n, \A i \in 1..n : IsItem(items[i], {"none", "range"})
    PROVE  Written(r, Encoded(r))
<1>1. PICK b, f : b = Encoded(r) /\ IsFlat(f, items)
  BY DEF IsFlat
<1>2. b = <<192, 3, 193, n>> \o f
  BY <1>1 DEF Encoded, ItemBytes, IsFlat
<1>3. f \in Seq(0..255) /\ ListRead(f, n, items)
  BY <1>1, ReadsGetWithList
<1>4. PICK t \in 0..255, k \in 0..255, i \in 0..255 : t = 192 /\ k = 3 /\ i = 193
  BY ONLY TagBytes
<1>5. PICK j \in 0..255 : j = n
  BY ONLY n \in 0..127
<1>6. InFour(t, k, i, j, f)
  BY ONLY <1>3, FourInFront, t \in 0..255, k \in 0..255, i \in 0..255, j \in 0..255
<1>7. b = <<192>> \o (<<3>> \o (<<193>> \o (<<n>> \o f)))
  BY ONLY <1>2, <1>4, <1>5, <1>6 DEF InFour
<1>8. PICK z, s, l : /\ Reads(b, <<Parse("cosem_pdu")>>, z)
                     /\ ListResults(z, n, s, l) /\ (PlainBeforeLast(items, n) => ItemsShown(s, items, n))
  BY ONLY <1>3, <1>7 DEF ListRead
<1>9. Begins(b, t, k, <<i>> \o (<<j>> \o f))
  <2>1. <<j>> \o f \in Seq(0..255)
    BY ONLY <1>3, j \in 0..255
  <2>2. <<i>> \o (<<j>> \o f) \in Seq(0..255)
    BY ONLY <2>1, i \in 0..255
  <2> QED
    BY ONLY <1>4, <1>5, <1>7, <2>2 DEF Begins
<1>10. Tags12(b, t, k) /\ Gets(b, Start, Place(<<>>, Len(b), z))
  BY ONLY <1>8, <1>9, t \in 0..255, k \in 0..255, ReadsWhole
<1>11. EndsList(r.items, z)
  BY ONLY <1>8, r.items = items, Len(items) = n DEF EndsList
<1>12. Ends(r, b, Place(<<>>, Len(b), z))
  <2>1. Tags12(b, 192, 3)
    BY ONLY <1>4, <1>10
  <2> QED
    BY ONLY <1>11, <2>1, r.kind = "list" DEF Ends, Place
<1> QED
  BY ONLY <1>1, <1>10, <1>12 DEF Written, Tags12

\* Whatever is asked is read as it was written.
LEMMA AllWritten ==
    ASSUME NEW r, IsRequest(r)
    PROVE  Written(r, Encoded(r))
<1>1. CASE r.kind = "get" /\ IsItem(r.items[1], {"none", "range", "entries"})
  BY ONLY <1>1, GetEnds
<1>2. CASE /\ r.kind = "list" /\ Len(r.items) \in 0..127
           /\ r.items = [i \in 1..Len(r.items) |-> r.items[i]]
           /\ \A i \in DOMAIN r.items : IsItem(r.items[i], {"none", "range"})
  <2>1. PICK n, items : n \in 0..127 /\ n = Len(r.items) /\ items = r.items
    BY ONLY <1>2
  <2>2. DOMAIN items = 1..n /\ \A i \in 1..n : IsItem(items[i], {"none", "range"})
    BY ONLY <1>2, <2>1
  <2> QED
    BY ONLY <1>2, <2>1, <2>2, ListEnds
<1>3. CASE r.kind = "action" /\ IsItem(r.items[1], {"none"}) /\ IsData(r.data)
  BY ONLY <1>3, ActionEnds
<1>4. CASE r.kind \in {"next", "action next"}
  BY ONLY <1>4, NextEnds, ActionNextEnds
<1> QED
  BY <1>1, <1>2, <1>3, <1>4 DEF IsRequest

-----------------------------------------------------------------------------
(* The steps of the parser.                                                *)

Here == Place(todo, pos, results)

\* No two parsers are for the same type.
LEMMA Disjoint ==
    /\ \A tid \in DOMAIN FixedLength :
          tid \notin Unfixed /\ tid \notin DOMAIN Sequences /\ tid \notin ChoiceTypes /\ tid \notin Lists
    /\ \A tid \in Unfixed : tid \notin DOMAIN Sequences /\ tid \notin ChoiceTypes /\ tid \notin Lists
    /\ \A tid \in DOMAIN Sequences : tid \notin ChoiceTypes /\ tid \notin Lists
    /\ \A tid \in ChoiceTypes : tid \notin Lists
BY DEF FixedLength, Unfixed, Sequences, ChoiceTypes, Lists

\* What an item to do turns into depends on the item.
LEMMA TurnsBy ==
    ASSUME NEW b, NEW x, NEW p, NEW front, NEW q, NEW rs, Turns(b, x, p, front, q, rs)
    PROVE  /\ (x.op = "parse" /\ x.tid \in DOMAIN FixedLength) => TurnsFixed(b, x, p, front, q, rs)
           /\ (x.op = "parse" /\ x.tid \in Unfixed) => TurnsUnfixed(b, x, p, front, q, rs)
           /\ (x.op = "parse" /\ x.tid \in DOMAIN Sequences) => TurnsSequence(b, x, p, front, q, rs)
           /\ (x.op = "parse" /\ x.tid \in ChoiceTypes) => TurnsChoice(b, x, p, front, q, rs)
           /\ (x.op = "parse" /\ x.tid \in Lists) => TurnsList(b, x, p, front, q, rs)
           /\ x.op = "option" => TurnsOption(b, x, p, front, q, rs)
           /\ x.op = "elements" => TurnsElement(b, x, p, front, q, rs)
           /\ x.op = "element" => TurnsEnd(b, x, p, front, q, rs)
           /\ x.op = "access" => TurnsAccess(b, x, p, front, q, rs)
<1>1. TurnsFixed(b, x, p, front, q, rs) => x.op = "parse" /\ x.tid \in DOMAIN FixedLength
  BY DEF TurnsFixed, Parse
<1>2. TurnsUnfixed(b, x, p, front, q, rs) => x.op = "parse" /\ x.tid \in Unfixed
  BY DEF TurnsUnfixed, Parse
<1>3. TurnsSequence(b, x, p, front, q, rs) => x.op = "parse" /\ x.tid \in DOMAIN Sequences
  BY DEF TurnsSequence, Parse
<1>4. TurnsChoice(b, x, p, front, q, rs) => x.op = "parse" /\ x.tid \in ChoiceTypes
  BY DEF TurnsChoice, Parse
<1>5. TurnsList(b, x, p, front, q, rs) => x.op = "parse" /\ x.tid \in Lists
  BY DEF TurnsList, Parse
<1>6. TurnsOption(b, x, p, front, q, rs) => x.op = "option"
  BY DEF TurnsOption
<1>7. TurnsElement(b, x, p, front, q, rs) => x.op = "elements"
  BY DEF TurnsElement
<1>8. TurnsEnd(b, x, p, front, q, rs) => x.op = "element"
  BY DEF TurnsEnd
<1>9. TurnsAccess(b, x, p, front, q, rs) => x.op = "access"
  BY DEF TurnsAccess
<1> QED
  BY ONLY <1>1, <1>2, <1>3, <1>4, <1>5, <1>6, <1>7, <1>8, <1>9, Disjoint, Turns(b, x, p, front, q, rs) DEF Turns

\* On the way to d the parser is at d, or goes on.
LEMMA GetsThen ==
    ASSUME NEW b, NEW c, NEW d, Gets(b, c, d), c # d
    PROVE  \E y : Goes(b, c, y) /\ Gets(b, y, d)
BY DEF Gets

\* A step of the parser to where it goes.
StepsTo(d) ==
    /\ Place(todo', pos', results') = d
    /\ request' = request /\ buf' = buf /\ verdict' = verdict /\ asked' = asked

\* What is to be shown of each step, from the turn that its item makes.
Turning(front, q, rs) ==
    /\ buf \in Seq(0..255) /\ todo \in Seq(TodoItem) /\ pos \in 0..Len(buf) /\ results \in Seq(Result)
    /\ front \in Seq(TodoItem) /\ q \in 0..Len(buf) /\ rs \in Seq(Result) /\ todo # <<>>
    /\ Turns(buf, Head(todo), pos, front, q, rs)

Turned(front, q, rs) == StepsTo(Place(front \o Tail(todo), q, results \o rs))

\* What joining nothing or one result does here.
LEMMA TurningFacts ==
    ASSUME NEW front, NEW q, NEW rs, Turning(front, q, rs)
    PROVE  /\ <<>> \o Tail(todo) = Tail(todo) /\ results \o <<>> = results
           /\ \A x \in Result : results \o <<x>> = Append(results, x)
           /\ pos \in Nat /\ Len(buf) \in Nat /\ q \in Nat
<1>1. Tail(todo) \in Seq(TodoItem)
  BY DEF Turning
<1>2. results \in Seq(Result)
  BY DEF Turning
<1>3. \A x \in Result : results \o <<x>> = Append(results, x)
  BY ONLY <1>2
<1>4. pos \in Nat /\ Len(buf) \in Nat /\ q \in Nat
  BY DEF Turning
<1> QED
  BY ONLY <1>1, <1>2, <1>3, <1>4, Joined1

\* The step of a type of fixed length.
LEMMA FixedStep ==
    ASSUME NEW front, NEW q, NEW rs, Turning(front, q, rs), ParseFixed
    PROVE  Turned(front, q, rs)
<1>1. TurnsFixed(buf, Head(todo), pos, front, q, rs)
  BY TurnsBy DEF Turning, ParseFixed, Parsing, Next1
<1>2. PICK tid \in DOMAIN FixedLength :
         /\ Head(todo) = Parse(tid) /\ front = <<>> /\ q = pos + FixedLength[tid] /\ q <= Len(buf)
         /\ rs = <<Got(tid, SubSeq(buf, pos + 1, q))>>
  BY ONLY <1>1 DEF TurnsFixed
<1>3. PICK n \in Nat : n = FixedLength[tid]
  BY DEF FixedLength
<1>4. ~(Left < n)
  BY <1>2, <1>3, TurningFacts DEF Left
<1>5. Next1.tid = tid
  BY <1>2 DEF Next1, Parse
<1>6. Got(tid, SubSeq(buf, pos + 1, q)) \in Result
  BY <1>2 DEF Turning, Result
<1>7. /\ results' = Append(results, Got(tid, SubSeq(buf, pos + 1, q))) /\ pos' = q
      /\ todo' = Tail(todo) /\ UNCHANGED <<request, buf, verdict, asked>>
  BY ONLY <1>2, <1>3, <1>4, <1>5, ParseFixed DEF ParseFixed, Put, Got
<1> QED
  BY ONLY <1>2, <1>6, <1>7, TurningFacts, Turning(front, q, rs) DEF Turned, StepsTo, Place

\* The step of a type of any length.
LEMMA UnfixedStep ==
    ASSUME NEW front, NEW q, NEW rs, Turning(front, q, rs), ParseUnfixed
    PROVE  Turned(front, q, rs)
<1>1. TurnsUnfixed(buf, Head(todo), pos, front, q, rs)
  BY TurnsBy DEF Turning, ParseUnfixed, Parsing, Next1
<1>2. PICK tid \in Unfixed :
         /\ Head(todo) = Parse(tid) /\ front = <<>> /\ LengthInfo.size # 0
         /\ q = pos + LengthInfo.size + LengthInfo.value /\ q <= Len(buf)
         /\ rs = <<Got(tid, SubSeq(buf, pos + LengthInfo.size + 1, q))>>
  BY ONLY <1>1 DEF TurnsUnfixed, LengthInfo
<1>3. PICK size, value : size = LengthInfo.size /\ value = LengthInfo.value
  OBVIOUS
<1>4. ~(size = 0 \/ Len(buf) < q)
  BY ONLY <1>2, <1>3, TurningFacts, Turning(front, q, rs)
<1>5. Next1.tid = tid
  BY <1>2 DEF Next1, Parse
<1>6. Got(tid, SubSeq(buf, pos + size + 1, q)) \in Result
  <2>1. <<Got(tid, SubSeq(buf, pos + size + 1, q))>> \in Seq(Result)
    BY ONLY <1>2, <1>3, Turning(front, q, rs) DEF Turning
  <2> QED
    BY ONLY <2>1
<1>7. /\ results' = Append(results, Got(tid, SubSeq(buf, pos + size + 1, q))) /\ pos' = q
      /\ todo' = Tail(todo) /\ UNCHANGED <<request, buf, verdict, asked>>
  <2>1. q = pos + size + value
    BY ONLY <1>2, <1>3
  <2> QED
    BY ONLY <1>3, <1>4, <1>5, <2>1, ParseUnfixed DEF ParseUnfixed, Put, Got
<1> QED
  BY ONLY <1>2, <1>3, <1>6, <1>7, TurningFacts, Turning(front, q, rs) DEF Turned, StepsTo, Place

\* The step of a sequence.
LEMMA SequenceStep ==
    ASSUME NEW front, NEW q, NEW rs, Turning(front, q, rs), ParseSequence
    PROVE  Turned(front, q, rs)
<1>1. TurnsSequence(buf, Head(todo), pos, front, q, rs)
  BY TurnsBy DEF Turning, ParseSequence, Parsing, Next1
<1>2. PICK tid \in DOMAIN Sequences : Head(todo) = Parse(tid) /\ front = Items(tid) /\ q = pos /\ rs = <<>>
  BY ONLY <1>1 DEF TurnsSequence
<1>3. Next1.tid = tid
  BY <1>2 DEF Next1, Parse
<1>4. todo' = Items(tid) \o Tail(todo) /\ UNCHANGED <<request, buf, pos, results, verdict, asked>>
  BY ONLY <1>3, ParseSequence DEF ParseSequence
<1> QED
  BY ONLY <1>2, <1>4, TurningFacts, Turning(front, q, rs) DEF Turned, StepsTo, Place

\* The step of an option.
LEMMA OptionStep ==
    ASSUME NEW front, NEW q, NEW rs, Turning(front, q, rs), ParseOption
    PROVE  Turned(front, q, rs)
<1>1. TurnsOption(buf, Head(todo), pos, front, q, rs)
  BY TurnsBy DEF Turning, ParseOption, Next1
<1>2. /\ todo' = (IF buf[pos + 1] = 0 THEN <<>> ELSE <<Parse(Head(todo).tid)>>) \o Tail(todo)
      /\ pos' = pos + 1 /\ UNCHANGED <<request, buf, results, verdict, asked>>
  BY ONLY ParseOption DEF ParseOption, Byte, Next1
<1> QED
  BY ONLY <1>1, <1>2, TurningFacts, Turning(front, q, rs) DEF TurnsOption, Turned, StepsTo, Place

\* The step of a choice.
LEMMA ChoiceStep ==
    ASSUME NEW front, NEW q, NEW rs, Turning(front, q, rs), ParseChoice
    PROVE  Turned(front, q, rs)
<1>1. TurnsChoice(buf, Head(todo), pos, front, q, rs)
  BY TurnsBy DEF Turning, ParseChoice, Parsing, Next1
<1>2. PICK tid \in ChoiceTypes :
         /\ Head(todo) = Parse(tid) /\ Chosen(tid, buf[pos + 1]) # "none"
         /\ front = <<Parse(Chosen(tid, buf[pos + 1]))>> /\ q = pos + 1
         /\ rs = IF tid = "cosem_pdu" THEN <<Got("cosem_pdu", <<buf[pos + 1]>>)>> ELSE <<>>
  BY ONLY <1>1 DEF TurnsChoice
<1>3. Next1.tid = tid
  BY <1>2 DEF Next1, Parse
<1>4. PICK to : to = Chosen(tid, buf[pos + 1])
  OBVIOUS
<1>5. /\ IF tid = "cosem_pdu" THEN results' = Append(results, Got("cosem_pdu", <<buf[pos + 1]>>))
         ELSE results' = results
      /\ pos' = pos + 1 /\ todo' = <<Parse(to)>> \o Tail(todo) /\ UNCHANGED <<request, buf, verdict, asked>>
  BY ONLY <1>2, <1>3, <1>4, ParseChoice DEF ParseChoice, Byte, Put, Got
<1>6. results' = results \o rs
  <2>1. CASE tid = "cosem_pdu"
    <3>1. rs = <<Got("cosem_pdu", <<buf[pos + 1]>>)>>
      BY ONLY <1>2, <2>1
    <3>2. Got("cosem_pdu", <<buf[pos + 1]>>) \in Result
      <4>1. <<Got("cosem_pdu", <<buf[pos + 1]>>)>> \in Seq(Result)
        BY ONLY <3>1, Turning(front, q, rs) DEF Turning
      <4> QED
        BY ONLY <4>1
    <3> QED
      BY ONLY <1>5, <2>1, <3>1, <3>2, TurningFacts, Turning(front, q, rs)
  <2>2. CASE tid # "cosem_pdu"
    BY ONLY <1>2, <1>5, <2>2, TurningFacts, Turning(front, q, rs)
  <2> QED
    BY ONLY <2>1, <2>2
<1> QED
  BY ONLY <1>2, <1>4, <1>5, <1>6 DEF Turned, StepsTo, Place

\* The step of a list, to the loop over its elements.
LEMMA ListStepsOn ==
    ASSUME NEW front, NEW q, NEW rs, Turning(front, q, rs), ParseList
    PROVE  Turned(front, q, rs)
<1>1. TurnsList(buf, Head(todo), pos, front, q, rs)
  BY TurnsBy DEF Turning, ParseList, Parsing, Next1
<1>2. PICK tid \in Lists :
         /\ Head(todo) = Parse(tid) /\ LengthInfo.size # 0 /\ q = pos + LengthInfo.size
         /\ front = <<[op |-> "elements", tid |-> tid, left |-> LengthInfo.value]>>
         /\ rs = <<Got(tid, CountOf(tid, LengthInfo.value))>>
  BY ONLY <1>1 DEF TurnsList, LengthInfo, CountOf
<1>3. Next1.tid = tid
  BY <1>2 DEF Next1, Parse
<1>4. PICK size, value : size = LengthInfo.size /\ value = LengthInfo.value
  OBVIOUS
<1>5. /\ results' = Append(results, Got(tid, CountOf(tid, value))) /\ pos' = pos + size
      /\ todo' = <<[op |-> "elements", tid |-> tid, left |-> value]>> \o Tail(todo)
      /\ UNCHANGED <<request, buf, verdict, asked>>
  BY ONLY <1>2, <1>3, <1>4, ParseList DEF ParseList, Put, Got, Count, CountOf
<1>6. Got(tid, CountOf(tid, value)) \in Result
  <2>1. <<Got(tid, CountOf(tid, value))>> \in Seq(Result)
    BY ONLY <1>2, <1>4, Turning(front, q, rs) DEF Turning
  <2> QED
    BY ONLY <2>1
<1> QED
  BY ONLY <1>2, <1>4, <1>5, <1>6, TurningFacts, Turning(front, q, rs) DEF Turned, StepsTo, Place

\* A round of that loop.
LEMMA ElementStep ==
    ASSUME NEW front, NEW q, NEW rs, Turning(front, q, rs), ParseElement
    PROVE  Turned(front, q, rs)
<1>1. TurnsElement(buf, Head(todo), pos, front, q, rs)
  BY TurnsBy DEF Turning, ParseElement, Next1
<1>2. todo' = front \o Tail(todo) /\ UNCHANGED <<request, buf, pos, results, verdict, asked>>
  BY ONLY <1>1, ParseElement DEF ParseElement, TurnsElement, Next1, Left
<1>3. q = pos /\ rs = <<>>
  BY ONLY <1>1 DEF TurnsElement
<1> QED
  BY ONLY <1>2, <1>3, TurningFacts, Turning(front, q, rs) DEF Turned, StepsTo, Place

\* The end of a round.
LEMMA EndStep ==
    ASSUME NEW front, NEW q, NEW rs, Turning(front, q, rs), EndElement
    PROVE  Turned(front, q, rs)
<1>1. TurnsEnd(buf, Head(todo), pos, front, q, rs)
  BY TurnsBy DEF Turning, EndElement, Next1
<1>2. todo' = Tail(todo) /\ UNCHANGED <<request, buf, pos, results, verdict, asked>>
  BY ONLY EndElement DEF EndElement
<1> QED
  BY ONLY <1>1, <1>2, TurningFacts, Turning(front, q, rs) DEF TurnsEnd, Turned, StepsTo, Place

\* The step of a selective access.
LEMMA AccessStep ==
    ASSUME NEW front, NEW q, NEW rs, Turning(front, q, rs), ParseAccess
    PROVE  Turned(front, q, rs)
<1>1. TurnsAccess(buf, Head(todo), pos, front, q, rs)
  BY TurnsBy DEF Turning, ParseAccess, Next1
<1>2. PICK byte : byte = buf[pos + 1]
  OBVIOUS
<1>3. /\ rs = <<Got("selective_access_descriptor", <<byte>>)>>
      /\ q = (IF byte = 0 THEN pos + 1 ELSE pos)
      /\ front = IF byte = 1 THEN <<Parse("data"), [op |-> "element", at |-> pos]>> ELSE <<>>
  BY ONLY <1>1, <1>2 DEF TurnsAccess
<1>4. /\ results' = Append(results, Got("selective_access_descriptor", <<byte>>))
      /\ pos' = q /\ todo' = front \o Tail(todo) /\ UNCHANGED <<request, buf, verdict, asked>>
  BY ONLY <1>2, <1>3, ParseAccess DEF ParseAccess, Put, Got, Byte, AccessAt
<1>5. Got("selective_access_descriptor", <<byte>>) \in Result
  <2>1. <<Got("selective_access_descriptor", <<byte>>)>> \in Seq(Result)
    BY ONLY <1>3, Turning(front, q, rs) DEF Turning
  <2> QED
    BY ONLY <2>1
<1> QED
  BY ONLY <1>3, <1>4, <1>5, TurningFacts, Turning(front, q, rs) DEF Turned, StepsTo, Place

Parses ==
    \/ ParseFixed \/ ParseUnfixed \/ ParseSequence \/ ParseOption \/ ParseChoice
    \/ ParseList \/ ParseElement \/ EndElement \/ ParseAccess

\* On its way to d, the parser goes on to it.
LEMMA ParsesOn ==
    ASSUME NEW d, buf \in Seq(0..255), Gets(buf, Here, d), Here # d, Parses
    PROVE  /\ Gets(buf, Place(todo', pos', results'), d)
           /\ request' = request /\ buf' = buf /\ verdict' = verdict /\ asked' = asked
<1>1. PICK y : Goes(buf, Here, y) /\ Gets(buf, y, d)
  BY GetsThen
<1>2. Here \in Places(buf)
  BY DEF Gets
<1>3. /\ todo \in Seq(TodoItem) /\ pos \in 0..Len(buf) /\ results \in Seq(Result)
      /\ Here.todo = todo /\ Here.pos = pos /\ Here.results = results
  BY <1>2 DEF Here, Place, Places
<1>4. PICK front \in Seq(TodoItem), q \in 0..Len(buf), rs \in Seq(Result) :
         /\ todo # <<>> /\ Turns(buf, Head(todo), pos, front, q, rs)
         /\ y = Place(front \o Tail(todo), q, results \o rs)
  BY ONLY <1>1, <1>3 DEF Goes
<1>5. Turning(front, q, rs)
  BY <1>3, <1>4 DEF Turning
<1>6. Turned(front, q, rs)
  BY ONLY <1>5, Parses, FixedStep, UnfixedStep, SequenceStep, OptionStep, ChoiceStep, ListStepsOn, ElementStep,
          EndStep, AccessStep DEF Parses
<1> QED
  BY ONLY <1>1, <1>4, <1>6 DEF Turned, StepsTo

-----------------------------------------------------------------------------
(* What is looked up in the results.                                       *)

\* The first result of a type.
LEMMA FindIs ==
    ASSUME NEW tid, NEW n \in Nat, Len(results) = n, NEW k \in Nat, 1 <= k, k <= n, results[k].tid = tid,
           \A j \in Nat : (1 <= j /\ j < k) => results[j].tid # tid
    PROVE  Find(tid) = k
<1> DEFINE I == {i \in 1..Len(results) : results[i].tid = tid}
<1>1. k \in I /\ (\A i \in I : k <= i) /\ I # {} /\ I \subseteq Nat
  OBVIOUS
<1>2. Find(tid) = CHOOSE x \in I : \A y \in I : x <= y
  BY <1>1 DEF Find, SelectInSeq, Min
<1> HIDE DEF I
<1>3. PICK x \in I : x = Find(tid) /\ \A y \in I : x <= y
  BY <1>1, <1>2
<1> QED
  BY ONLY <1>1, <1>3

\* A type of which there is no result.
LEMMA FindNone ==
    ASSUME NEW tid, NEW n \in Nat, Len(results) = n,
           \A j \in Nat : (1 <= j /\ j <= n) => results[j].tid # tid
    PROVE  Find(tid) = 0
<1> DEFINE I == {i \in 1..Len(results) : results[i].tid = tid}
<1>1. I = {}
  OBVIOUS
<1> QED
  BY <1>1 DEF Find, SelectInSeq

\* The bytes of a result that has as many.
LEMMA BytesAre ==
    ASSUME NEW i, NEW x, results[i].val = x, NEW n \in Nat, x \in Seq(0..255), Len(x) = n
    PROVE  Bytes(i, n) = x
<1> DEFINE y == [k \in 1..n |-> x[k]]
<1>1. Bytes(i, n) = y
  BY DEF Bytes
<1>2. y = x
  OBVIOUS
<1> QED
  BY <1>1, <1>2

\* What is asked for with an item's descriptor.
DescriptorAt(i, d) ==
    /\ results[i] = Got("cosem_class_id", Short(d.class))
    /\ results[i + 1] = Got("cosem_object_instance_id", d.obis)
    /\ results[i + 2] = Got("cosem_object_attribute_id", <<d.attr>>)

\* What is asked for is the descriptor.
LEMMA DescriptorAsked ==
    ASSUME NEW i \in Nat, NEW d, IsDescriptor(d), DescriptorAt(i, d), NEW s, NEW e
    PROVE  AskedFor(i, i + 1, i + 2, s, e) =
              [class |-> d.class, obis |-> d.obis, attr |-> d.attr, start |-> s, end |-> e]
<1>1. Bytes(i, 2)[1] * 256 + Bytes(i, 2)[2] = d.class
  <2>1. PICK x : x = Short(d.class)
    OBVIOUS
  <2>2. x \in Seq(0..255) /\ Len(x) = 2 /\ x[1] * 256 + x[2] = d.class
    BY <2>1, ShortBytes DEF IsDescriptor
  <2>3. results[i].val = x
    BY <2>1 DEF DescriptorAt, Got
  <2>4. Bytes(i, 2) = x
    BY ONLY <2>2, <2>3, 2 \in Nat, BytesAre, Zenon
  <2> QED
    BY ONLY <2>2, <2>4
<1>2. Bytes(i + 1, 6) = d.obis
  <2>1. d.obis \in Seq(0..255) /\ Len(d.obis) = 6
    BY DEF IsDescriptor, IsBytes
  <2>2. results[i + 1].val = d.obis
    BY DEF DescriptorAt, Got
  <2> QED
    BY ONLY <2>1, <2>2, 6 \in Nat, BytesAre
<1>3. Bytes(i + 2, 1)[1] = d.attr
  <2>1. d.attr \in 0..255
    BY DEF IsDescriptor
  <2>2. PICK x : x = <<d.attr>>
    OBVIOUS
  <2>3. x \in Seq(0..255) /\ Len(x) = 1 /\ x[1] = d.attr
    BY ONLY <2>1, <2>2
  <2>4. results[i + 2].val = x
    BY <2>2 DEF DescriptorAt, Got
  <2>5. Bytes(i + 2, 1) = x
    BY ONLY <2>3, <2>4, 1 \in Nat, BytesAre
  <2> QED
    BY ONLY <2>3, <2>5
<1> QED
  BY ONLY <1>1, <1>2, <1>3 DEF AskedFor

\* A selection that says which time it means.
SaysTime(sel) ==
    /\ sel.status = "zero" => InStandardTime(sel)
    /\ sel.status = "unknown" => Unambiguous(sel.start) /\ Unambiguous(sel.end)

\* The hour and the status that are shown are those of one time.
LEMMA TimeShown ==
    ASSUME NEW sel, IsRange(sel), SaysTime(sel), NEW time \in {sel.start, sel.end}
    PROVE  TimeOf(LocalHour(time), Status(sel, time)) = time
<1>0. time \in 0..254
  BY DEF IsRange
<1>1. CASE sel.status = "zero"
  <2>1. time \notin Summer
    BY <1>1 DEF SaysTime, InStandardTime, IsRange
  <2> QED
    BY <1>0, <1>1, <2>1 DEF TimeOf, LocalHour, Status
<1>2. CASE sel.status = "set"
  BY <1>0, <1>2 DEF TimeOf, LocalHour, Status
<1>3. CASE sel.status = "unknown"
  <2>1. PICK hour : hour = LocalHour(time)
    OBVIOUS
  <2>2. Status(sel, time) = 255
    BY <1>3 DEF Status
  <2>3. hour = time \/ hour - 1 = time
    BY ONLY <1>0, <2>1 DEF LocalHour
  <2>4. \A t \in {hour - 1, hour} \ {time} : LocalHour(t) # hour
    BY <1>3, <2>1 DEF SaysTime, Unambiguous
  <2>5. \A t \in {hour - 1, hour} : LocalHour(t) = hour <=> t = time
    BY ONLY <2>1, <2>4
  <2>6. (CHOOSE t \in {hour - 1, hour} : LocalHour(t) = hour) = time
    BY ONLY <2>3, <2>5
  <2> QED
    BY ONLY <2>1, <2>2, <2>6 DEF TimeOf
<1> QED
  BY ONLY <1>1, <1>2, <1>3, IsRange(sel) DEF IsRange

\* The time that a result shows.
LEMMA DateAsked ==
    ASSUME NEW sel, IsRange(sel), SaysTime(sel), NEW time \in {sel.start, sel.end}, NEW i, Dated(results[i], sel, time)
    PROVE  /\ IsDate(i) /\ Time(i) = time /\ (sel.asDate => results[i].tid = "datetime")
           /\ (~sel.asDate => IsOctetDate(i) /\ results[i].tid # "datetime")
<1>0. time \in 0..254
  BY DEF IsRange
<1>1. PICK x : x = Date(sel, time)
  OBVIOUS
<1>2. x \in Seq(0..255) /\ Len(x) = 12 /\ x[6] = LocalHour(time) /\ x[12] = Status(sel, time)
  BY <1>0, <1>1, DateBytes, Zenon DEF IsDateTime
<1>3. results[i].val = x /\ results[i].tid = IF sel.asDate THEN "datetime" ELSE "octet_string"
  BY <1>1 DEF Dated, Got
<1>4. Bytes(i, 12) = x
  BY ONLY <1>2, <1>3, 12 \in Nat, BytesAre
<1>5. Time(i) = TimeOf(LocalHour(time), Status(sel, time))
  BY ONLY <1>2, <1>4 DEF Time
<1>6. Time(i) = time
  BY <1>5, TimeShown
<1>7. sel.asDate \in BOOLEAN
  BY DEF IsRange
<1> QED
  BY ONLY <1>2, <1>3, <1>6, <1>7 DEF IsDate, IsOctetDate

\* What a normal request is about.
LEMMA NormalAsked ==
    ASSUME NEW t, NEW d, IsDescriptor(d), NEW s, NEW l, NormalResults(results, t, d, s, l), NEW b, NEW e
    PROVE  Asked(b, e) = [class |-> d.class, obis |-> d.obis, attr |-> d.attr, start |-> b, end |-> e]
<1>1. PICK n \in Nat : n = 5 + l /\ Len(results) = n /\ 5 <= n
  BY DEF NormalResults, Sized
<1>2. /\ results[1].tid = "cosem_pdu" /\ results[2].tid = "invoke_id_and_priority"
      /\ results[3].tid = "cosem_class_id" /\ results[4].tid = "cosem_object_instance_id"
      /\ results[5].tid = "cosem_object_attribute_id"
  BY DEF NormalResults, Got
<1>3. \A j \in Nat : 1 <= j /\ j < 5 => j \in {1, 2, 3, 4}
  OBVIOUS
<1>4. Find("cosem_class_id") = 3
  <2>1. \A j \in Nat : (1 <= j /\ j < 3) => results[j].tid # "cosem_class_id"
    BY ONLY <1>2, <1>3
  <2> QED
    BY ONLY <1>1, <1>2, <2>1, 3 \in Nat, FindIs
<1>5. Find("cosem_object_instance_id") = 4
  <2>1. \A j \in Nat : (1 <= j /\ j < 4) => results[j].tid # "cosem_object_instance_id"
    BY ONLY <1>2, <1>3
  <2> QED
    BY ONLY <1>1, <1>2, <2>1, 4 \in Nat, FindIs
<1>6. Find("cosem_object_attribute_id") = 5
  <2>1. \A j \in Nat : (1 <= j /\ j < 5) => results[j].tid # "cosem_object_attribute_id"
    BY ONLY <1>2, <1>3
  <2> QED
    BY ONLY <1>1, <1>2, <2>1, 5 \in Nat, FindIs
<1>7. PICK i \in Nat : i = 3 /\ i + 1 = 4 /\ i + 2 = 5
  OBVIOUS
<1>8. DescriptorAt(i, d)
  BY ONLY <1>7, NormalResults(results, t, d, s, l) DEF NormalResults, DescriptorAt
<1>9. AskedFor(i, i + 1, i + 2, b, e) =
         [class |-> d.class, obis |-> d.obis, attr |-> d.attr, start |-> b, end |-> e]
  BY ONLY <1>8, IsDescriptor(d), i \in Nat, DescriptorAsked
<1> QED
  BY ONLY <1>4, <1>5, <1>6, <1>7, <1>9 DEF Asked

\* The selector of a normal get.
LEMMA SelectorOf ==
    ASSUME NEW d, NEW s, NEW l, NormalResults(results, 192, d, s, l), NEW sel, ShowsSelection(s, l, sel)
    PROVE  /\ sel.kind = "none" => ~HasSelector
           /\ sel.kind = "range" =>
                 /\ HasSelector /\ Selector = 6 /\ InResults(14)
                 /\ Dated(results[13], sel, sel.start) /\ Dated(results[14], sel, sel.end)
<1>1. PICK n \in Nat : l \in Nat /\ n = 5 + l /\ Len(results) = n /\ 5 <= n
  BY DEF NormalResults, Sized
<1>2. /\ results[1].tid = "cosem_pdu" /\ results[2].tid = "invoke_id_and_priority"
      /\ results[3].tid = "cosem_class_id" /\ results[4].tid = "cosem_object_instance_id"
      /\ results[5].tid = "cosem_object_attribute_id"
  BY DEF NormalResults, Got
<1>3. \A j \in Nat : 1 <= j /\ j < 6 => j \in {1, 2, 3, 4, 5}
  OBVIOUS
<1>4. \A j \in Nat : (1 <= j /\ j < 6) => results[j].tid # "unsigned8"
  BY ONLY <1>2, <1>3
<1>5. ASSUME sel.kind = "none"
      PROVE  ~HasSelector
  <2>1. l = 0
    BY <1>5 DEF ShowsSelection
  <2>2. \A j \in Nat : (1 <= j /\ j <= n) => results[j].tid # "unsigned8"
    BY ONLY <1>1, <1>4, <2>1
  <2>3. Find("unsigned8") = 0
    BY ONLY <1>1, <2>2, FindNone
  <2> QED
    BY ONLY <2>3 DEF HasSelector, Selector
<1>6. ASSUME sel.kind = "range"
      PROVE  /\ HasSelector /\ Selector = 6 /\ InResults(14)
             /\ Dated(results[13], sel, sel.start) /\ Dated(results[14], sel, sel.end)
  <2>1. /\ l > 8 /\ s[1] = Got("unsigned8", <<1>>)
        /\ Dated(s[8], sel, sel.start) /\ Dated(s[9], sel, sel.end)
    BY <1>6 DEF ShowsSelection
  <2>2. \A i \in Nat : (1 <= i /\ i <= l) => results[5 + i] = s[i]
    BY DEF NormalResults
  <2>3. results[6] = s[1] /\ results[13] = s[8] /\ results[14] = s[9]
    <3>1. results[5 + 1] = s[1] /\ results[5 + 8] = s[8] /\ results[5 + 9] = s[9]
      BY ONLY <1>1, <2>1, <2>2
    <3> QED
      BY ONLY <3>1
  <2>4. results[6].tid = "unsigned8" /\ results[6].val = <<1>>
    BY ONLY <2>1, <2>3 DEF Got
  <2>5. 1 <= 6 /\ 6 <= n /\ 6 \in Nat
    BY ONLY <1>1, <2>1
  <2>6. Selector = 6
    <3>1. Find("unsigned8") = 6
      BY ONLY <1>1, <1>4, <2>4, <2>5, FindIs
    <3> QED
      BY ONLY <3>1 DEF Selector
  <2> DEFINE x == <<1>>
  <2>7. x \in Seq(0..255) /\ Len(x) = 1 /\ x[1] = 1
    BY ONLY TagBytes DEF x
  <2> HIDE DEF x
  <2>8. Bytes(6, 1) = x
    BY ONLY <2>4, <2>7, 1 \in Nat, BytesAre DEF x
  <2>9. HasSelector
    BY ONLY <2>6, <2>7, <2>8 DEF HasSelector
  <2>10. InResults(14)
    BY ONLY <1>1, <2>1 DEF InResults
  <2> QED
    BY ONLY <2>1, <2>3, <2>6, <2>9, <2>10
<1> QED
  BY ONLY <1>5, <1>6

\* What the meter is asked for in a normal get.
GetAsks ==
    <<IF HasSelector
        THEN Asked(TimeAt(Selector + StartOffset), TimeAt(Selector + StartOffset + 1))
        ELSE Asked(0, 0)>>

\* A single get asks for the item that was meant.
LEMMA GetAsked ==
    ASSUME NEW item, IsItem(item, {"none", "range", "entries"}), item.sel.kind \in {"none", "range"},
           item.sel.kind = "range" => SaysTime(item.sel),
           EndsNormal(192, item.d, item.sel, results)
    PROVE  /\ HasSelector => InResults(Selector + StartOffset + 1)
           /\ GetAsks = <<Meant(item)>>
<1>1. PICK s, l : NormalResults(results, 192, item.d, s, l) /\ ShowsSelection(s, l, item.sel)
  BY DEF EndsNormal
<1>2. IsDescriptor(item.d)
  BY DEF IsItem
<1>3. \A b, e : Asked(b, e) =
         [class |-> item.d.class, obis |-> item.d.obis, attr |-> item.d.attr, start |-> b, end |-> e]
  BY ONLY <1>1, <1>2, NormalAsked
<1>4. CASE item.sel.kind = "none"
  <2>1. ~HasSelector
    BY ONLY <1>1, <1>4, SelectorOf
  <2>2. Asked(0, 0) = Meant(item)
    BY ONLY <1>3, <1>4 DEF Meant
  <2> QED
    BY ONLY <2>1, <2>2 DEF GetAsks
<1>5. CASE item.sel.kind = "range"
  <2>1. /\ HasSelector /\ Selector = 6 /\ InResults(14)
        /\ Dated(results[13], item.sel, item.sel.start) /\ Dated(results[14], item.sel, item.sel.end)
    BY ONLY <1>1, <1>5, SelectorOf
  <2>2. IsRange(item.sel) /\ SaysTime(item.sel)
    BY <1>5 DEF IsItem
  <2>3. IsDate(13) /\ Time(13) = item.sel.start
    BY <2>1, <2>2, DateAsked
  <2>4. IsDate(14) /\ Time(14) = item.sel.end
    BY <2>1, <2>2, DateAsked
  <2>5. Selector + StartOffset = 13 /\ Selector + StartOffset + 1 = 14
    BY ONLY <2>1 DEF StartOffset
  <2>6. TimeAt(13) = item.sel.start /\ TimeAt(14) = item.sel.end
    BY ONLY <2>3, <2>4 DEF TimeAt
  <2>7. Asked(item.sel.start, item.sel.end) = Meant(item)
    BY ONLY <1>3, <1>5 DEF Meant
  <2> QED
    BY ONLY <2>1, <2>5, <2>6, <2>7 DEF GetAsks
<1> QED
  BY ONLY <1>4, <1>5, item.sel.kind \in {"none", "range"}

\* An action asks for the item that was meant.
LEMMA ActionAsked ==
    ASSUME NEW item, IsItem(item, {"none"}), EndsNormal(195, item.d, item.sel, results)
    PROVE  <<Asked(0, 0)>> = <<Meant(item)>>
<1>1. PICK s, l : NormalResults(results, 195, item.d, s, l)
  BY DEF EndsNormal
<1>2. IsDescriptor(item.d) /\ item.sel.kind = "none"
  BY DEF IsItem
<1>3. Asked(0, 0) =
         [class |-> item.d.class, obis |-> item.d.obis, attr |-> item.d.attr, start |-> 0, end |-> 0]
  BY ONLY <1>1, <1>2, NormalAsked
<1> QED
  BY ONLY <1>2, <1>3 DEF Meant

-----------------------------------------------------------------------------
(* What is understood of a list.                                           *)

Sofar(at, meant) == [at |-> at, asked |-> meant, end |-> "more"]

\* The places of an item in the results.
LEMMA ListItemPlaces ==
    ASSUME NEW n, NEW s, NEW l, ListResults(results, n, s, l), NEW p, NEW item, Shown(s, p, item),
           NEW at, at = 4 + p
    PROVE  /\ p \in Nat /\ at \in Nat /\ DescriptorAt(at, item.d)
           /\ item.sel.kind = "none" => results[at + 3] = AccessResult(0) /\ InResults(at + 3)
           /\ item.sel.kind = "range" =>
                 /\ results[at + 3] = AccessResult(1) /\ InResults(at + 3) /\ InResults(at + 12)
                 /\ Dated(results[at + 11], item.sel, item.sel.start)
                 /\ Dated(results[at + 12], item.sel, item.sel.end)
<1>1. p \in Nat /\ at \in Nat
  BY DEF Shown
<1>2. l \in Nat /\ Len(results) = 3 + l /\ Len(s) = l
  BY DEF ListResults, Sized
<1>3. p + ItemSize(item.sel) <= l
  BY <1>2 DEF Shown
<1>4. \A i \in Nat : (1 <= i /\ i <= l) => results[3 + i] = s[i]
  BY DEF ListResults
<1>5. ItemSize(item.sel) = (IF item.sel.kind = "none" THEN 4 ELSE 14)
  BY DEF ItemSize
<1>6. \A k \in Nat : (1 <= k /\ k <= ItemSize(item.sel)) => results[at + (k - 1)] = s[p + k]
  <2>1. ASSUME NEW k \in Nat, 1 <= k, k <= ItemSize(item.sel)
        PROVE  results[at + (k - 1)] = s[p + k]
    <3>1. PICK m \in Nat : m = p + k /\ 1 <= m /\ m <= l
      BY ONLY <1>1, <1>2, <1>3, <1>5, <2>1, k \in Nat
    <3>2. at + (k - 1) = 3 + m
      BY ONLY <1>1, <3>1, k \in Nat, at = 4 + p
    <3>3. results[3 + m] = s[m]
      BY ONLY <1>4, <3>1
    <3> QED
      BY ONLY <3>1, <3>2, <3>3
  <2> QED
    BY ONLY <2>1
<1>7. /\ results[at] = s[p + 1] /\ results[at + 1] = s[p + 2] /\ results[at + 2] = s[p + 3]
      /\ results[at + 3] = s[p + 4]
  <2>1. at + (1 - 1) = at /\ at + (2 - 1) = at + 1 /\ at + (3 - 1) = at + 2 /\ at + (4 - 1) = at + 3
    BY ONLY <1>1
  <2>2. 1 <= ItemSize(item.sel) /\ 2 <= ItemSize(item.sel) /\ 3 <= ItemSize(item.sel) /\ 4 <= ItemSize(item.sel)
    BY ONLY <1>5
  <2>3. /\ results[at + (1 - 1)] = s[p + 1] /\ results[at + (2 - 1)] = s[p + 2]
        /\ results[at + (3 - 1)] = s[p + 3] /\ results[at + (4 - 1)] = s[p + 4]
    BY ONLY <1>6, <2>2
  <2> QED
    BY ONLY <2>1, <2>3
<1>8. DescriptorAt(at, item.d)
  BY ONLY <1>7, Shown(s, p, item) DEF Shown, DescriptorAt
<1>9. ASSUME item.sel.kind = "none"
      PROVE  results[at + 3] = AccessResult(0) /\ InResults(at + 3)
  <2>1. results[at + 3] = AccessResult(0)
    BY ONLY <1>7, <1>9, Shown(s, p, item) DEF Shown
  <2>2. at + 3 <= 3 + l
    BY ONLY <1>1, <1>2, <1>3, <1>5, <1>9, at = 4 + p
  <2> QED
    BY ONLY <1>2, <2>1, <2>2 DEF InResults
<1>10. ASSUME item.sel.kind = "range"
       PROVE  /\ results[at + 3] = AccessResult(1) /\ InResults(at + 3) /\ InResults(at + 12)
              /\ Dated(results[at + 11], item.sel, item.sel.start)
              /\ Dated(results[at + 12], item.sel, item.sel.end)
  <2>1. /\ s[p + 4] = AccessResult(1)
        /\ Dated(s[p + 12], item.sel, item.sel.start) /\ Dated(s[p + 13], item.sel, item.sel.end)
    BY ONLY <1>10, Shown(s, p, item) DEF Shown
  <2>2. at + 3 <= 3 + l /\ at + 12 <= 3 + l
    BY ONLY <1>1, <1>2, <1>3, <1>5, <1>10, at = 4 + p
  <2>3. results[at + 11] = s[p + 12] /\ results[at + 12] = s[p + 13]
    <3>1. at + (12 - 1) = at + 11 /\ at + (13 - 1) = at + 12
      BY ONLY <1>1
    <3>2. 12 <= ItemSize(item.sel) /\ 13 <= ItemSize(item.sel)
      BY ONLY <1>5, <1>10
    <3>3. results[at + (12 - 1)] = s[p + 12] /\ results[at + (13 - 1)] = s[p + 13]
      BY ONLY <1>6, <3>2
    <3> QED
      BY ONLY <3>1, <3>3
  <2> QED
    BY ONLY <1>2, <1>7, <2>1, <2>2, <2>3 DEF InResults
<1> QED
  BY ONLY <1>1, <1>8, <1>9, <1>10

\* The one byte of a selective access.
LEMMA AccessByte ==
    ASSUME NEW i, NEW byte \in {0, 1}, results[i] = AccessResult(byte)
    PROVE  Bytes(i, 1)[1] = byte
<1>1. <<byte>> \in Seq(0..255) /\ Len(<<byte>>) = 1 /\ <<byte>>[1] = byte
  BY TagBytes
<1>2. results[i].val = <<byte>>
  BY DEF AccessResult, Got
<1>3. Bytes(i, 1) = <<byte>>
  BY ONLY <1>1, <1>2, 1 \in Nat, BytesAre
<1> QED
  BY ONLY <1>1, <1>3

\* A round of get_list_data understands an item as it was meant.
LEMMA RoundAsked ==
    ASSUME NEW n, NEW s, NEW l, ListResults(results, n, s, l), NEW p, NEW item, Shown(s, p, item),
           IsItem(item, {"none", "range"}), item.sel.kind = "range" => SaysTime(item.sel),
           NEW meant, NEW at, at = 4 + p
    PROVE  ListStep(Sofar(at, meant)) = Sofar(at + ItemSize(item.sel), Append(meant, Meant(item)))
<1>1. /\ p \in Nat /\ at \in Nat /\ DescriptorAt(at, item.d)
      /\ item.sel.kind = "none" => results[at + 3] = AccessResult(0) /\ InResults(at + 3)
      /\ item.sel.kind = "range" =>
            /\ results[at + 3] = AccessResult(1) /\ InResults(at + 3) /\ InResults(at + 12)
            /\ Dated(results[at + 11], item.sel, item.sel.start)
            /\ Dated(results[at + 12], item.sel, item.sel.end)
  BY ListItemPlaces
<1>2. IsDescriptor(item.d) /\ item.sel.kind \in {"none", "range"}
  BY DEF IsItem
<1>3. \A b, e : AskedFor(at, at + 1, at + 2, b, e) =
         [class |-> item.d.class, obis |-> item.d.obis, attr |-> item.d.attr, start |-> b, end |-> e]
  BY ONLY <1>1, <1>2, DescriptorAsked
<1>4. Sofar(at, meant).at = at /\ Sofar(at, meant).asked = meant /\ Sofar(at, meant).end = "more"
  BY DEF Sofar
<1>5. CASE item.sel.kind = "none"
  <2>1. Bytes(at + 3, 1)[1] = 0 /\ InResults(at + 3)
    <3>1. 0 \in {0, 1}
      OBVIOUS
    <3> QED
      BY ONLY <1>1, <1>5, <3>1, AccessByte
  <2>2. AskedFor(at, at + 1, at + 2, 0, 0) = Meant(item)
    BY ONLY <1>3, <1>5 DEF Meant
  <2>3. ItemSize(item.sel) = 4
    BY ONLY <1>5 DEF ItemSize
  <2>4. ListStep(Sofar(at, meant)) =
           [Sofar(at, meant) EXCEPT !.at = at + 4, !.asked = Append(meant, AskedFor(at, at + 1, at + 2, 0, 0))]
    BY ONLY <1>4, <2>1 DEF ListStep
  <2> QED
    BY ONLY <2>2, <2>3, <2>4 DEF Sofar
<1>6. CASE item.sel.kind = "range"
  <2>1. Bytes(at + 3, 1)[1] = 1 /\ InResults(at + 3) /\ InResults(at + 12)
    <3>1. 1 \in {0, 1}
      OBVIOUS
    <3> QED
      BY ONLY <1>1, <1>6, <3>1, AccessByte
  <2>2. IsRange(item.sel) /\ SaysTime(item.sel)
    BY <1>6 DEF IsItem
  <2>3. PICK b, e : b = item.sel.start /\ e = item.sel.end
    OBVIOUS
  <2>4. PICK from : from = at + 4 + StartOffset
    OBVIOUS
  <2>5. from = at + 11 /\ from + 1 = at + 12 /\ from + 3 = at + 14
    BY ONLY <1>1, <2>4 DEF StartOffset
  <2>6. /\ IsDate(from) /\ Time(from) = b /\ (item.sel.asDate => results[from].tid = "datetime")
        /\ (~item.sel.asDate => IsOctetDate(from) /\ results[from].tid # "datetime")
    <3>1. b \in {item.sel.start, item.sel.end} /\ Dated(results[from], item.sel, b)
      BY ONLY <1>1, <1>6, <2>3, <2>5
    <3> QED
      BY ONLY <2>2, <3>1, DateAsked
  <2>7. /\ IsDate(from + 1) /\ Time(from + 1) = e
        /\ (~item.sel.asDate => IsOctetDate(from + 1))
    <3>1. e \in {item.sel.start, item.sel.end} /\ Dated(results[from + 1], item.sel, e)
      BY ONLY <1>1, <1>6, <2>3, <2>5
    <3> QED
      BY ONLY <2>2, <3>1, DateAsked
  <2>8. (IsOctetDate(from) /\ IsOctetDate(from + 1)) \/ results[from].tid = "datetime"
    BY ONLY <2>2, <2>6, <2>7 DEF IsRange
  <2>9. AskedFor(at, at + 1, at + 2, b, e) = Meant(item)
    BY ONLY <1>3, <1>6, <2>3 DEF Meant
  <2>10. ItemSize(item.sel) = 14
    BY ONLY <1>6 DEF ItemSize
  <2>11. ~(Bytes(at + 3, 1)[1] = 0) /\ InResults(from + 1)
    BY ONLY <2>1, <2>5
  <2>12. ListStep(Sofar(at, meant)) =
            [Sofar(at, meant) EXCEPT !.at = from + 3,
                                     !.asked = Append(meant, AskedFor(at, at + 1, at + 2, Time(from), Time(from + 1)))]
    BY ONLY <1>4, <2>1, <2>4, <2>8, <2>11 DEF ListStep
  <2> QED
    BY ONLY <2>5, <2>6, <2>7, <2>9, <2>10, <2>12 DEF Sofar
<1> QED
  BY ONLY <1>2, <1>5, <1>6

\* What is understood, round by round.
Rounds(f, count, at) ==
    f = [n \in 0..count |-> IF n = 0 THEN Sofar(at, <<>>) ELSE ListStep(f[n - 1])]

\* What get_list_data understands is where its rounds lead.
LEMMA ListIs ==
    ASSUME NEW list, list = Find("attribute_descriptor_list"), NEW count, count = results[list].val[1]
    PROVE  List = (CHOOSE f : Rounds(f, count, list + 1))[count]
BY DEF List, Rounds, Sofar

\* There is one way to go through the rounds.
LEMMA RoundsAgree ==
    ASSUME NEW count \in Nat, NEW at, NEW f, NEW g, Rounds(f, count, at), Rounds(g, count, at)
    PROVE  f = g
<1> DEFINE T == {k \in Nat : k <= count => f[k] = g[k]}
<1>1. f[0] = Sofar(at, <<>>) /\ g[0] = Sofar(at, <<>>)
  BY DEF Rounds
<1>2. \A k \in Nat : k + 1 <= count => f[k + 1] = ListStep(f[k]) /\ g[k + 1] = ListStep(g[k])
  <2>1. ASSUME NEW k \in Nat, k + 1 <= count
        PROVE  f[k + 1] = ListStep(f[k]) /\ g[k + 1] = ListStep(g[k])
    <3>1. k + 1 \in 0..count /\ k + 1 # 0 /\ (k + 1) - 1 = k
      BY ONLY <2>1, k \in Nat, count \in Nat
    <3>2. f[k + 1] = ListStep(f[(k + 1) - 1]) /\ g[k + 1] = ListStep(g[(k + 1) - 1])
      BY ONLY <3>1, Rounds(f, count, at), Rounds(g, count, at) DEF Rounds
    <3> QED
      BY ONLY <3>1, <3>2
  <2> QED
    BY ONLY <2>1
<1>3. 0 \in T
  BY <1>1
<1>4. \A k \in Nat : k \in T => k + 1 \in T
  <2>1. ASSUME NEW k \in Nat, k \in T, k + 1 <= count
        PROVE  f[k + 1] = g[k + 1]
    BY <1>2, <2>1
  <2> QED
    BY <2>1
<1>5. Nat \subseteq T
  <2> HIDE DEF T
  <2> QED
    BY ONLY <1>3, <1>4, Induction
<1>6. \A k \in 0..count : f[k] = g[k]
  BY <1>5
<1>7. /\ f = [k \in 0..count |-> f[k]]
      /\ g = [k \in 0..count |-> g[k]]
  BY ONLY Rounds(f, count, at), Rounds(g, count, at) DEF Rounds
<1> QED
  BY ONLY <1>6, <1>7

\* A list whose items are shown one behind the other is understood as it was meant.
LEMMA ListAsked ==
    ASSUME NEW n \in 0..127, NEW items, DOMAIN items = 1..n,
           \A i \in 1..n : IsItem(items[i], {"none", "range"}),
           \A i \in 1..n : items[i].sel.kind = "range" => SaysTime(items[i].sel),
           NEW s, NEW l, ListResults(results, n, s, l), ItemsShown(s, items, n)
    PROVE  List.end = "more" /\ List.asked = [i \in 1..n |-> Meant(items[i])]
<1>1. PICK off : Offsets(off, items, n) /\ \A j \in 1..n : Shown(s, off[j - 1], items[j])
  BY DEF ItemsShown
<1>2. n \in Nat
  OBVIOUS
<1> DEFINE meant(k) == [i \in 1..k |-> Meant(items[i])]
           f == [k \in 0..n |-> Sofar(4 + off[k], meant(k))]
<1>3. \A k \in 0..n : off[k] \in Nat
  BY <1>1 DEF Offsets
<1>4. ASSUME NEW k \in 1..n
      PROVE  f[k] = ListStep(f[k - 1])
  <2>1. k - 1 \in 0..n /\ k \in 0..n /\ k \in Nat /\ k - 1 \in Nat /\ (k - 1) + 1 = k
    BY ONLY <1>2, k \in 1..n
  <2>2. PICK at, p : p = off[k - 1] /\ at = 4 + p
    OBVIOUS
  <2>3. ListStep(Sofar(at, meant(k - 1))) =
           Sofar(at + ItemSize(items[k].sel), Append(meant(k - 1), Meant(items[k])))
    <3>1. Shown(s, p, items[k]) /\ IsItem(items[k], {"none", "range"})
          /\ (items[k].sel.kind = "range" => SaysTime(items[k].sel))
      BY <1>1, <2>2
    <3> HIDE DEF meant
    <3> QED
      BY ONLY <2>2, <3>1, ListResults(results, n, s, l), RoundAsked
  <2>4. Append(meant(k - 1), Meant(items[k])) = meant(k)
    <3>1. PICK m \in Nat : m = k - 1 /\ m + 1 = k
      BY ONLY <2>1
    <3>2. Append(meant(m), Meant(items[m + 1])) = meant(m + 1)
      <4> DEFINE val == [i \in Nat |-> Meant(items[i])]
      <4>1. meant(m) = [i \in 1..m |-> val[i]] /\ meant(m + 1) = [i \in 1..(m + 1) |-> val[i]] /\ val[m + 1] = Meant(items[m + 1])
        OBVIOUS
      <4> HIDE DEF val, meant
      <4>2. Append([i \in 1..m |-> val[i]], val[m + 1]) = [i \in 1..(m + 1) |-> val[i]]
        BY ONLY m \in Nat
      <4> QED
        BY ONLY <4>1, <4>2
    <3> QED
      BY ONLY <3>1, <3>2
  <2>5. off[k] = off[k - 1] + ItemSize(items[k].sel) /\ off[k - 1] \in Nat /\ ItemSize(items[k].sel) \in Nat
    <3>1. ItemSize(items[k].sel) \in Nat
      BY DEF ItemSize
    <3> QED
      BY ONLY <1>1, <1>3, <2>1, <3>1, k \in 1..n DEF Offsets
  <2>6. at + ItemSize(items[k].sel) = 4 + off[k]
    BY ONLY <2>2, <2>5
  <2>7. f[k - 1] = Sofar(4 + off[k - 1], meant(k - 1)) /\ f[k] = Sofar(4 + off[k], meant(k))
    BY ONLY <2>1 DEF f
  <2> HIDE DEF f, meant
  <2> QED
    BY ONLY <2>2, <2>3, <2>4, <2>6, <2>7
<1>5. f[0] = Sofar(4, <<>>)
  <2>1. off[0] = 0
    BY <1>1 DEF Offsets
  <2>2. meant(0) = <<>>
    OBVIOUS
  <2>3. 0 \in 0..n
    BY ONLY <1>2
  <2> QED
    BY ONLY <2>1, <2>2, <2>3 DEF f
<1>6. f[n] = Sofar(4 + off[n], meant(n))
  BY ONLY <1>2 DEF f
<1>7. Rounds(f, n, 4)
  <2>1. DOMAIN f = 0..n /\ f = [k \in 0..n |-> f[k]]
    OBVIOUS
  <2> HIDE DEF f
  <2>2. \A k \in 0..n : f[k] = IF k = 0 THEN Sofar(4, <<>>) ELSE ListStep(f[k - 1])
    BY ONLY <1>2, <1>4, <1>5
  <2> QED
    BY ONLY <2>1, <2>2 DEF Rounds
<1> HIDE DEF f
<1>8. (CHOOSE g : Rounds(g, n, 4)) = f
  <2>1. PICK h : h = CHOOSE g : Rounds(g, n, 4)
    OBVIOUS
  <2>2. Rounds(h, n, 4)
    BY ONLY <1>7, <2>1
  <2>3. h = f
    BY ONLY <1>2, <1>7, <2>2, RoundsAgree
  <2> QED
    BY ONLY <2>1, <2>3
<1>9. Find("attribute_descriptor_list") = 3
  <2>1. PICK k \in Nat : l \in Nat /\ k = 3 + l /\ Len(results) = k /\ 3 <= k
    BY DEF ListResults, Sized
  <2>2. results[1].tid = "cosem_pdu" /\ results[2].tid = "invoke_id_and_priority" /\ results[3].tid = "attribute_descriptor_list"
    BY DEF ListResults, Got, List3
  <2>3. \A j \in Nat : (1 <= j /\ j < 3) => results[j].tid # "attribute_descriptor_list"
    <3>1. \A j \in Nat : (1 <= j /\ j < 3) => j \in {1, 2}
      OBVIOUS
    <3> QED
      BY ONLY <2>2, <3>1
  <2> QED
    BY ONLY <2>1, <2>2, <2>3, 3 \in Nat, FindIs
<1>10. results[3].val[1] = n
  <2>1. results[3].val = <<n % 256>>
    BY DEF ListResults, Got, CountOf, List3
  <2>2. n % 256 = n
    OBVIOUS
  <2> QED
    BY ONLY <2>1, <2>2
<1>11. List = (CHOOSE g : Rounds(g, n, 4))[n]
  <2>1. PICK list, count : list = Find("attribute_descriptor_list") /\ count = results[list].val[1]
    OBVIOUS
  <2>2. List = (CHOOSE g : Rounds(g, count, list + 1))[count]
    BY ONLY <2>1, ListIs
  <2>3. list + 1 = 4 /\ count = n
    BY ONLY <1>9, <1>10, <2>1
  <2> QED
    BY ONLY <2>2, <2>3
<1>12. List = Sofar(4 + off[n], meant(n))
  BY ONLY <1>6, <1>8, <1>11
<1> QED
  BY ONLY <1>12 DEF Sofar, meant

-----------------------------------------------------------------------------
(* What is done with what was read.                                        *)

AsMeant(items) == [i \in DOMAIN items |-> Meant(items[i])]

\* What a request for one item means.
LEMMA OneMeant ==
    ASSUME NEW items, items = <<items[1]>>
    PROVE  AsMeant(items) = <<Meant(items[1])>> /\ DOMAIN items = {1} /\ Len(items) = 1
<1>1. PICK x : x = items[1]
  OBVIOUS
<1>2. items = <<x>>
  BY ONLY <1>1, items = <<items[1]>>
<1>3. DOMAIN <<x>> = {1} /\ Len(<<x>>) = 1
  OBVIOUS
<1>4. DOMAIN items = {1} /\ Len(items) = 1
  BY ONLY <1>2, <1>3
<1>5. AsMeant(items) = [i \in {1} |-> Meant(items[i])]
  BY ONLY <1>4 DEF AsMeant
<1>6. [i \in {1} |-> Meant(items[i])] = [i \in {1} |-> Meant(items[1])]
  OBVIOUS
<1>7. \A m : [i \in {1} |-> m] = <<m>>
  OBVIOUS
<1> QED
  BY ONLY <1>4, <1>5, <1>6, <1>7

\* What the client of a request that is supported says of its selections.
LEMMA SupportedSays ==
    ASSUME NEW r, Supported(r)
    PROVE  \A i \in DOMAIN r.items :
              /\ r.items[i].sel.kind \in {"none", "range"}
              /\ r.items[i].sel.kind = "range" =>
                    SaysTime(r.items[i].sel) /\ (i = Len(r.items) \/ r.items[i].sel.columns = 0)
BY DEF Supported, SaysTime

\* Where a request that is supported leaves the parser, it is asked as it was meant, and
\* in no other way.
LEMMA GetMeant ==
    ASSUME NEW r, r = request, IsRequest(r), Supported(r), r.kind = "get", Ends(r, buf, Here)
    PROVE  /\ pos = Len(buf) /\ todo = <<>> /\ Tags12(buf, 192, 1)
           /\ HasSelector => InResults(Selector + StartOffset + 1)
           /\ GetAsks = AsMeant(r.items)
<1>1. r.items = <<r.items[1]>> /\ IsItem(r.items[1], {"none", "range", "entries"})
  BY DEF IsRequest
<1>2. /\ Tags12(buf, 192, 1) /\ Here.todo = <<>> /\ Here.pos = Len(buf)
      /\ EndsNormal(192, r.items[1].d, r.items[1].sel, Here.results)
  BY DEF Ends
<1>3. Here.todo = todo /\ Here.pos = pos /\ Here.results = results
  BY DEF Here, Place
<1>4. 1 \in DOMAIN r.items /\ AsMeant(r.items) = <<Meant(r.items[1])>>
  BY <1>1, OneMeant
<1>5. /\ r.items[1].sel.kind \in {"none", "range"}
      /\ r.items[1].sel.kind = "range" => SaysTime(r.items[1].sel)
  BY ONLY <1>4, Supported(r), SupportedSays
<1>6. PICK item : item = r.items[1]
  OBVIOUS
<1>7. /\ HasSelector => InResults(Selector + StartOffset + 1)
      /\ GetAsks = <<Meant(item)>>
  BY ONLY <1>1, <1>2, <1>3, <1>5, <1>6, GetAsked
<1> QED
  BY ONLY <1>2, <1>3, <1>4, <1>6, <1>7

\* Of an action, too.
LEMMA ActionMeant ==
    ASSUME NEW r, r = request, IsRequest(r), Supported(r), r.kind = "action", Ends(r, buf, Here)
    PROVE  /\ pos = Len(buf) /\ todo = <<>> /\ Tags12(buf, 195, 1)
           /\ <<Asked(0, 0)>> = AsMeant(r.items)
<1>1. r.items = <<r.items[1]>> /\ IsItem(r.items[1], {"none"})
  BY DEF IsRequest
<1>2. /\ Tags12(buf, 195, 1) /\ Here.todo = <<>>
      /\ (r.data = <<>> \/ r.data[1] # CompactArray) => Here.pos = Len(buf)
      /\ EndsNormal(195, r.items[1].d, r.items[1].sel, Here.results)
  BY DEF Ends
<1>3. Here.todo = todo /\ Here.pos = pos /\ Here.results = results
  BY DEF Here, Place
<1>4. AsMeant(r.items) = <<Meant(r.items[1])>>
  BY <1>1, OneMeant
<1>5. r.data = <<>> \/ r.data[1] # CompactArray
  BY DEF Supported
<1>6. PICK item : item = r.items[1]
  OBVIOUS
<1>7. <<Asked(0, 0)>> = <<Meant(item)>>
  BY ONLY <1>1, <1>2, <1>3, <1>6, ActionAsked
<1> QED
  BY ONLY <1>2, <1>3, <1>4, <1>5, <1>6, <1>7

\* And of a list.
LEMMA ListMeant ==
    ASSUME NEW r, r = request, IsRequest(r), Supported(r), r.kind = "list", Ends(r, buf, Here)
    PROVE  /\ pos = Len(buf) /\ todo = <<>> /\ Tags12(buf, 192, 3)
           /\ List.end = "more" /\ List.asked = AsMeant(r.items) /\ List.asked # <<>>
<1>1. /\ Len(r.items) \in 0..127 /\ r.items = [i \in 1..Len(r.items) |-> r.items[i]]
      /\ \A i \in DOMAIN r.items : IsItem(r.items[i], {"none", "range"})
  BY DEF IsRequest
<1>2. /\ Tags12(buf, 192, 3) /\ Here.todo = <<>> /\ Here.pos = Len(buf)
      /\ EndsList(r.items, Here.results)
  BY DEF Ends
<1>3. Here.todo = todo /\ Here.pos = pos /\ Here.results = results
  BY DEF Here, Place
<1>4. PICK n, items : n \in 0..127 /\ n = Len(r.items) /\ items = r.items
  BY ONLY <1>1
<1>4a. n \in 0..127
  BY ONLY <1>4
<1>5. items = [i \in 1..n |-> items[i]] /\ DOMAIN items = 1..n
  BY ONLY <1>1, <1>4
<1>6. \A i \in 1..n : IsItem(items[i], {"none", "range"})
  BY ONLY <1>1, <1>4, <1>5
<1>7. \A i \in 1..n : items[i].sel.kind = "range" => SaysTime(items[i].sel) /\ (i = n \/ items[i].sel.columns = 0)
  BY ONLY <1>4, <1>5, Supported(r), SupportedSays
<1>8. PlainBeforeLast(items, n)
  BY ONLY <1>7 DEF PlainBeforeLast, Plain
<1>9. PICK s, l : ListResults(results, n, s, l) /\ ItemsShown(s, items, n)
  BY ONLY <1>2, <1>3, <1>4, <1>8 DEF EndsList
<1>10. List.end = "more" /\ List.asked = [i \in 1..n |-> Meant(items[i])]
  <2>1. \A i \in 1..n : items[i].sel.kind = "range" => SaysTime(items[i].sel)
    BY ONLY <1>7
  <2> QED
    BY ONLY <1>5, <1>6, <1>9, <2>1, <1>4a, ListAsked
<1>11. List.asked = AsMeant(items)
  BY ONLY <1>5, <1>10 DEF AsMeant
<1>12. n # 0
  <2>1. SUFFICES ASSUME n = 0 PROVE FALSE
    OBVIOUS
  <2>2. items = [i \in 1..0 |-> items[i]]
    BY ONLY <1>5, <2>1
  <2>3. [i \in 1..0 |-> items[i]] = <<>>
    OBVIOUS
  <2>4. items # <<>>
    BY ONLY <1>4, Supported(r) DEF Supported
  <2> QED
    BY ONLY <2>2, <2>3, <2>4
<1>13. List.asked # <<>>
  <2>1. 1 \in 1..n
    BY ONLY <1>4a, <1>12
  <2>2. DOMAIN List.asked = 1..n
    BY ONLY <1>10
  <2>3. DOMAIN <<>> = {}
    OBVIOUS
  <2> QED
    BY ONLY <2>1, <2>2, <2>3
<1> QED
  BY ONLY <1>2, <1>3, <1>4, <1>10, <1>11, <1>13

Finishes == Refuse \/ AskNormal \/ Fault \/ AskList \/ AskAction \/ Leave

\* A request that is supported is asked as it was meant.
LEMMA FinishMeant ==
    ASSUME IsRequest(request), Supported(request), Ends(request, buf, Here), Finishes
    PROVE  verdict' = "asked" /\ asked' = AsMeant(request.items)
<1>1. PICK r : r = request
  OBVIOUS
<1>2. IsRequest(r) /\ Supported(r) /\ Ends(r, buf, Here)
  BY <1>1
<1>3. CASE r.kind = "get"
  <2>1. /\ pos = Len(buf) /\ Tags12(buf, 192, 1)
        /\ HasSelector => InResults(Selector + StartOffset + 1)
        /\ GetAsks = AsMeant(r.items)
    BY ONLY <1>1, <1>2, <1>3, GetMeant
  <2>2. buf[1] = 192 /\ buf[2] = 1 /\ ~(pos < Len(buf))
    BY ONLY <2>1 DEF Tags12
  <2>3. AskNormal
    BY ONLY <2>1, <2>2, Finishes DEF Finishes, Refuse, Fault, AskList, AskAction, Leave, Parsed
  <2> QED
    BY ONLY <1>1, <2>1, <2>3 DEF AskNormal, Ask, GetAsks
<1>4. CASE r.kind = "list"
  <2>1. /\ pos = Len(buf) /\ Tags12(buf, 192, 3)
        /\ List.end = "more" /\ List.asked = AsMeant(r.items) /\ List.asked # <<>>
    BY ONLY <1>1, <1>2, <1>4, ListMeant
  <2>2. buf[1] = 192 /\ buf[2] = 3 /\ ~(pos < Len(buf))
    BY ONLY <2>1 DEF Tags12
  <2>3. Understood /\ List.end # "fault"
    BY ONLY <2>1 DEF Understood
  <2>4. AskList
    BY ONLY <2>2, <2>3, Finishes DEF Finishes, Refuse, Fault, AskNormal, AskAction, Leave, Parsed
  <2> QED
    BY ONLY <1>1, <2>1, <2>4 DEF AskList, Ask
<1>5. CASE r.kind = "action"
  <2>1. pos = Len(buf) /\ Tags12(buf, 195, 1) /\ <<Asked(0, 0)>> = AsMeant(r.items)
    BY ONLY <1>1, <1>2, <1>5, ActionMeant
  <2>2. buf[1] = 195 /\ buf[2] = 1 /\ ~(pos < Len(buf))
    BY ONLY <2>1 DEF Tags12
  <2>3. AskAction
    BY ONLY <2>2, Finishes DEF Finishes, Refuse, Fault, AskNormal, AskList, Leave, Parsed
  <2> QED
    BY ONLY <1>1, <2>1, <2>3 DEF AskAction, Ask
<1> QED
  BY ONLY <1>2, <1>3, <1>4, <1>5 DEF Supported

\* What is done in the end changes nothing but the verdict and what is asked.
LEMMA FinishFacts ==
    ASSUME Finishes
    PROVE  /\ todo = <<>> /\ UNCHANGED <<request, buf, todo, pos, results>>
           /\ verdict' \in {"refused", "unanswered", "fault", "asked"}
           /\ asked = <<>> => (verdict' = "asked" <=> asked' # <<>>)
<1>1. CASE Refuse
  BY ONLY <1>1 DEF Refuse, Finished
<1>2. CASE AskNormal
  <2>1. \A x : <<x>> # <<>>
    OBVIOUS
  <2> QED
    BY ONLY <1>2, <2>1 DEF AskNormal, Ask, Parsed, Finished
<1>3. CASE Fault
  BY ONLY <1>3 DEF Fault, Parsed, Finished
<1>4. CASE AskList
  BY ONLY <1>4 DEF AskList, Ask, Parsed, Finished, Understood
<1>5. CASE AskAction
  <2>1. \A x : <<x>> # <<>>
    OBVIOUS
  <2> QED
    BY ONLY <1>5, <2>1 DEF AskAction, Ask, Parsed, Finished
<1>6. CASE Leave
  BY ONLY <1>6 DEF Leave, Parsed, Finished
<1> QED
  BY ONLY <1>1, <1>2, <1>3, <1>4, <1>5, <1>6, Finishes DEF Finishes

\* There is no loop over elements that a failure is handed up to.
LEMMA FailsAlone ==
    ASSUME NEW x, todo = <<x>>, x.op # "element", Fail
    PROVE  verdict' = "refused" /\ todo' = <<>> /\ pos' = pos
<1>1. {i \in 1..Len(todo) : todo[i].op = "element"} = {}
  OBVIOUS
<1>2. SelectInSeq(todo, LAMBDA t : t.op = "element") = 0
  BY <1>1 DEF SelectInSeq
<1> QED
  BY <1>2 DEF Fail

\* The next block of an action is refused.
LEMMA ActionNextStep ==
    ASSUME Tags12(buf, 195, 2), todo = <<Parse("action_request")>>, pos = 1, Parses
    PROVE  /\ verdict' = "refused" /\ todo' = <<>> /\ pos' = pos
           /\ UNCHANGED <<request, buf, results, asked>>
<1>1. PICK x : x = Parse("action_request")
  OBVIOUS
<1>2. todo = <<x>> /\ Next1 = x /\ x.op = "parse" /\ x.tid = "action_request"
  <2>1. todo = <<x>> /\ x.op = "parse" /\ x.tid = "action_request"
    BY <1>1 DEF Parse
  <2> QED
    BY ONLY <2>1, HeadOfOne DEF Next1
<1>3. "action_request" \in ChoiceTypes
  BY DEF ChoiceTypes
<1>4. ParseChoice
  BY ONLY <1>2, <1>3, Parses, Disjoint
     DEF Parses, ParseFixed, ParseUnfixed, ParseSequence, ParseOption, ParseList, ParseElement, EndElement,
         ParseAccess, Parsing
<1>5. Byte(pos) = 2
  <2>1. pos + 1 = 2
    BY ONLY pos = 1
  <2> QED
    BY ONLY <2>1, Tags12(buf, 195, 2) DEF Byte, Tags12
<1>6. Chosen("action_request", 2) = "none"
  BY DEF Chosen
<1>7. Fail /\ UNCHANGED results /\ UNCHANGED <<request, buf, asked>>
  BY ONLY <1>2, <1>4, <1>5, <1>6 DEF ParseChoice
<1>8. verdict' = "refused" /\ todo' = <<>> /\ pos' = pos
  BY ONLY <1>2, <1>7, FailsAlone
<1> QED
  BY ONLY <1>7, <1>8

-----------------------------------------------------------------------------
(* The invariant.                                                          *)

\* The parser is on its way to where the request leads it.
OnTheWay == verdict = "parsing" => \E d : Ends(request, buf, d) /\ Gets(buf, Here, d)

Inv ==
    /\ request \in Requests /\ buf = Encoded(request)
    /\ Here \in Places(buf)
    /\ verdict \in {"parsing", "refused", "unanswered", "fault", "asked"}
    /\ (verdict = "asked") <=> (asked # <<>>)
    /\ OnTheWay
    /\ UnderstoodAsMeant

\* Every request can be read from its start.
LEMMA InvBytes ==
    ASSUME request \in Requests, buf = Encoded(request)
    PROVE  IsRequest(request) /\ buf \in Seq(0..255) /\ \E d : Ends(request, buf, d) /\ Gets(buf, Start, d)
<1>1. IsRequest(request)
  BY CosemRequestAssumption
<1>2. Written(request, Encoded(request))
  BY <1>1, AllWritten
<1> QED
  BY <1>1, <1>2 DEF Written

\* The parser starts on its way.
LEMMA InvInit ==
    Init => Inv
<1> SUFFICES ASSUME Init PROVE Inv
  OBVIOUS
<1>1. Here = Start /\ request \in Requests /\ buf = Encoded(request) /\ verdict = "parsing" /\ asked = <<>>
  BY DEF Init, Here, Start, Parse
<1>2. PICK d : Ends(request, buf, d) /\ Gets(buf, Start, d)
  BY <1>1, InvBytes
<1>3. Start \in Places(buf)
  BY ONLY <1>2 DEF Gets
<1> QED
  BY ONLY <1>1, <1>2, <1>3 DEF Inv, OnTheWay, UnderstoodAsMeant

\* The parser, where it does not get any further.
LEMMA EndTodo ==
    ASSUME Ends(request, buf, Here)
    PROVE  todo = <<>> \/ (request.kind = "action next" /\ Tags12(buf, 195, 2) /\ pos = 1 /\ todo = <<Parse("action_request")>>)
<1>1. Here.todo = todo /\ Here.pos = pos
  BY DEF Here, Place
<1> QED
  BY ONLY <1>1, Ends(request, buf, Here) DEF Ends

\* Every step keeps the invariant.
LEMMA InvNext ==
    Inv /\ [Next]_vars => Inv'
<1> SUFFICES ASSUME Inv, [Next]_vars PROVE Inv'
  OBVIOUS
<1>1. /\ IsRequest(request) /\ buf \in Seq(0..255)
      /\ request \in Requests /\ buf = Encoded(request) /\ Here \in Places(buf)
  BY InvBytes DEF Inv
<1>2. Here' = Place(todo', pos', results')
  BY DEF Here, Place
<1>3. CASE UNCHANGED vars
  <2>1. Here' = Here
    BY ONLY <1>3 DEF Here, vars
  <2> QED
    BY ONLY <1>3, <2>1, Inv DEF Inv, OnTheWay, UnderstoodAsMeant, vars
<1>4. CASE Parses
  <2>1. verdict = "parsing"
    BY ONLY <1>4 DEF Parses, ParseFixed, ParseUnfixed, ParseSequence, ParseOption, ParseChoice, ParseList,
            ParseElement, EndElement, ParseAccess, Parsing
  <2>2. PICK d : Ends(request, buf, d) /\ Gets(buf, Here, d)
    BY ONLY <2>1, Inv DEF Inv, OnTheWay
  <2>3. CASE Here # d
    <3>1. /\ Gets(buf, Here', d)
          /\ request' = request /\ buf' = buf /\ verdict' = verdict /\ asked' = asked
      BY ONLY <1>1, <1>2, <1>4, <2>2, <2>3, ParsesOn
    <3>2. Here' \in Places(buf)
      BY ONLY <3>1 DEF Gets
    <3>3. OnTheWay'
      BY ONLY <2>2, <3>1 DEF OnTheWay
    <3> QED
      BY ONLY <1>1, <2>1, <3>1, <3>2, <3>3, Inv DEF Inv, UnderstoodAsMeant
  <2>4. CASE Here = d
    <3>1. todo # <<>>
      BY ONLY <1>4 DEF Parses, ParseFixed, ParseUnfixed, ParseSequence, ParseOption, ParseChoice, ParseList,
              ParseElement, EndElement, ParseAccess, Parsing
    <3>2. request.kind = "action next" /\ Tags12(buf, 195, 2) /\ pos = 1 /\ todo = <<Parse("action_request")>>
      BY ONLY <2>2, <2>4, <3>1, EndTodo
    <3>3. /\ verdict' = "refused" /\ todo' = <<>> /\ pos' = pos
          /\ UNCHANGED <<request, buf, results, asked>>
      BY ONLY <1>4, <3>2, ActionNextStep
    <3>4. Here' \in Places(buf)
      BY ONLY <1>1, <1>2, <3>3, NoBytes DEF Here, Place, Places
    <3>5. ~Supported(request)
      BY ONLY <3>2 DEF Supported
    <3> QED
      BY ONLY <1>1, <2>1, <3>3, <3>4, <3>5, Inv DEF Inv, OnTheWay, UnderstoodAsMeant
  <2> QED
    BY ONLY <2>3, <2>4
<1>5. CASE Finishes
  <2>1. verdict = "parsing"
    BY ONLY <1>5 DEF Finishes, Refuse, AskNormal, Fault, AskList, AskAction, Leave, Parsed, Finished
  <2>2. PICK d : Ends(request, buf, d) /\ Gets(buf, Here, d)
    BY ONLY <2>1, Inv DEF Inv, OnTheWay
  <2>3. /\ todo = <<>> /\ UNCHANGED <<request, buf, todo, pos, results>>
        /\ verdict' \in {"refused", "unanswered", "fault", "asked"}
        /\ asked = <<>> => (verdict' = "asked" <=> asked' # <<>>)
    BY ONLY <1>5, FinishFacts
  <2>4. Here = d
    <3>1. SUFFICES ASSUME Here # d PROVE FALSE
      OBVIOUS
    <3>2. PICK y : Goes(buf, Here, y)
      BY ONLY <2>2, <3>1, GetsThen
    <3> QED
      BY ONLY <2>3, <3>2 DEF Goes, Here, Place
  <2>5. Here' = Here
    BY ONLY <2>3 DEF Here
  <2>6. asked = <<>>
    BY ONLY <2>1, Inv DEF Inv
  <2>7. Supported(request) => verdict' = "asked" /\ asked' = AsMeant(request.items)
    BY ONLY <1>1, <1>5, <2>2, <2>4, FinishMeant
  <2>8. UnderstoodAsMeant'
    BY ONLY <2>3, <2>7 DEF UnderstoodAsMeant, AsMeant
  <2> QED
    BY ONLY <1>1, <2>3, <2>5, <2>6, <2>8 DEF Inv, OnTheWay
<1> QED
  BY ONLY <1>3, <1>4, <1>5, [Next]_vars DEF Next, Parses, Finishes

\* So it always holds.
LEMMA InvAlways == Spec => []Inv
BY InvInit, InvNext, PTL DEF Spec

\* Every variable has its type, and no parser reads over the end of a request.
THEOREM TypeOKTheorem == Spec => []TypeOK
<1>1. Inv => TypeOK
  <2> SUFFICES ASSUME Inv PROVE TypeOK
    OBVIOUS
  <2>1. buf \in Seq(0..255)
    BY InvBytes DEF Inv
  <2>2. pos \in 0..Len(buf) /\ results \in Seq(Result)
    BY DEF Inv, Here, Place, Places
  <2>3. \A i \in DOMAIN results : results[i] \in Result
    BY ONLY <2>2
  <2>4. \A i \in DOMAIN results : results[i].val \in Seq(0..255)
    BY ONLY <2>3 DEF Result
  <2> QED
    BY ONLY <2>1, <2>2, <2>4, Inv DEF TypeOK, Inv
<1> QED
  BY <1>1, InvAlways, PTL

\* What a client wrote in a request is what the meter is asked for, for every request
\* that clients make and whatever hours daylight saving time is in force in.
THEOREM UnderstoodTheorem == Spec => []UnderstoodAsMeant
<1>1. Inv => UnderstoodAsMeant
  BY DEF Inv
<1> QED
  BY <1>1, InvAlways, PTL

=============================================================================
