-------------------------- MODULE StreamDecodeProofs --------------------------
(***************************************************************************)
(* Proofs about dictionaries and the decoding of streams, for any number of  *)
(* keys, objects and filters and any capacities.  The two buffers never      *)
(* meet (BInv).  A dictionary that exists is DictOK, and the heap holds      *)
(* exactly what the dictionaries hold, each object for one key (DictInv):    *)
(* from this follow what lookups find, who owns an object and that the       *)
(* dictionaries are independent maps.  What decoding gives is shown for rows *)
(* of any length: of a byte, a row, the rows, and then of all filters, which *)
(* are left to make what the writer meant of the data at hand (RightInv).    *)
(***************************************************************************)
EXTENDS StreamDecode, FiniteSetTheorems, TLAPS

\* Induction over the natural numbers.
Numbers == INSTANCE XrefFormatProofs

\* Before a stream is decoded no buffer is allocated; source and out differ at all times.
BInv ==
  /\ out \in Buffers
  /\ source # out
  /\ status = "idle" => live = {}
  /\ OneBufferLeft

LEMMA OtherBuffer == ASSUME NEW b \in Buffers PROVE Other(b) \in Buffers /\ Other(b) # b
<1>1. \E c \in Buffers : c # b
  BY DEF Buffers
<1>2. QED
  BY <1>1 DEF Other

\* The buffer that a filter reads is not the one that it writes.
LEMMA WriteStep ==
  ASSUME BInv, status = "decoding", NEW data, NEW cap, Write(data, cap)
  PROVE  BInv'
<1>1. source' = Source /\ out' = Target /\ live' = live /\ status' = status
  BY DEF Write
<1>2. out \in Buffers /\ live = Buffers
  BY DEF BInv, OneBufferLeft
<1>3. CASE done = 0
  BY <1>1, <1>2, <1>3 DEF Source, Target, BInv, OneBufferLeft, Buffers
<1>4. CASE done # 0
  <2>1. source' = out /\ out' = Other(out)
    BY <1>1, <1>4 DEF Source, Target
  <2>2. QED
    BY <1>1, <1>2, <2>1, OtherBuffer DEF BInv, OneBufferLeft
<1>5. QED
  BY <1>3, <1>4

LEMMA FailStep ==
  ASSUME BInv, NEW st \in {"error", "crash", "overflow", "undefined"}, Fail(st)
  PROVE  BInv'
BY DEF BInv, OneBufferLeft, Fail, bvars

LEMMA EditStep == BInv /\ Edit => BInv'
BY DEF Edit, BInv, OneBufferLeft, bvars

LEMMA DecodeStep == ASSUME BInv, NEW meaning \in Meanings, Decode(meaning) PROVE BInv'
<1>1. status = "idle" /\ live = {} /\ out \in Buffers /\ source # out
  BY DEF Decode, BInv
<1>2. ASSUME NEW st \in {"undefined", "error", "alias"}, Return(st) PROVE BInv'
  BY <1>1, <1>2 DEF Return, bvars, BInv, OneBufferLeft
<1>3. \/ Return("undefined") \/ Return("error") \/ Return("alias")
      \/ status' = "decoding" /\ live' = Buffers /\ UNCHANGED <<caps, done, source, out>>
  BY DEF Decode
<1>4. CASE status' = "decoding" /\ live' = Buffers /\ UNCHANGED <<caps, done, source, out>>
  BY <1>1, <1>4 DEF BInv, OneBufferLeft
<1>5. QED
  BY <1>2, <1>3, <1>4

LEMMA FilterStep == BInv /\ Filter => BInv'
<1> SUFFICES ASSUME BInv, Filter PROVE BInv'
  OBVIOUS
<1> DEFINE next == chain[done + 1]
           data == held[Source]
           cap == caps[Target]
<1>1. status = "decoding"
  BY DEF Filter
<1>2. CASE Inflate(next.parms, data, cap)
  BY <1>1, <1>2, WriteStep, FailStep DEF Inflate
<1>3. CASE InflateRows(next.parms, data, cap)
  BY <1>1, <1>3, WriteStep, FailStep DEF InflateRows
<1>4. CASE OtherPredictor(next.parms) \/ Fail("error") \/ Fail("crash")
  BY <1>4, FailStep DEF OtherPredictor
<1>5. QED
  BY <1>2, <1>3, <1>4 DEF Filter

LEMMA FinishStep == BInv /\ Finish => BInv'
BY DEF Finish, BInv, OneBufferLeft

LEMMA DoneStep == BInv /\ Done => BInv'
BY DEF Done, BInv, OneBufferLeft, Buffers

\* Whatever filters a stream names, none reads the buffer that it writes, and the caller
\* of pindf_stream_decode gets the one buffer that is still allocated.
THEOREM BuffersNeverMeet == StreamSpec => []OneBufferLeft
<1>1. StreamInit => BInv
  BY DEF StreamInit, BInv, OneBufferLeft, Buffers
<1>2. BInv /\ [StreamNext]_svars => BInv'
  <2> SUFFICES ASSUME BInv, [StreamNext]_svars PROVE BInv'
    OBVIOUS
  <2>1. CASE UNCHANGED svars
    BY <2>1 DEF svars, bvars, BInv, OneBufferLeft
  <2>2. CASE StreamNext
    BY <2>2, EditStep, DecodeStep, FilterStep, FinishStep, DoneStep DEF StreamNext
  <2>3. QED
    BY <2>1, <2>2
<1>3. BInv => OneBufferLeft
  BY DEF BInv
<1>4. QED
  BY <1>1, <1>2, <1>3, PTL DEF StreamSpec

-----------------------------------------------------------------------------
(* Dictionaries                                                            *)

Pointers == Cells \union {Null}

\* A dictionary that exists.  A slot of a value was written, one behind the last value has
\* no pointer, and it is cleared until the vectors have grown.
DictOK(dict) ==
  /\ dict \in [cap : Nat \ {0}, born : Nat \ {0}, keys : Seq(Keys),
               vals : [1..(dict.cap + 1) -> Pointers \union {Junk}]]
  /\ dict.born <= dict.cap /\ Len(dict.keys) <= dict.cap
  /\ \A i \in 1..Len(dict.keys) : dict.vals[i] \in Pointers
  /\ \A i \in (Len(dict.keys) + 1)..(dict.cap + 1) :
       dict.vals[i] \in {Null, Junk} /\ (dict.cap = dict.born => dict.vals[i] = Null)

LEMMA NewDictOK ==
  ASSUME NEW cap \in Nat \ {0}
  PROVE  DictOK(NewDict(cap)) /\ NewDict(cap).keys = <<>>
BY DEF DictOK, NewDict, Slots, Pointers

LEMMA ExpandOK ==
  ASSUME NEW dict, DictOK(dict)
  PROVE  /\ DictOK(Expand(dict)) /\ Expand(dict).keys = dict.keys /\ HasGrown(Expand(dict))
         /\ Expand(dict).cap = 2 * dict.cap
         /\ \A i \in 1..Len(dict.keys) : Expand(dict).vals[i] = dict.vals[i]
<1> DEFINE e == Expand(dict)
           v == [i \in 1..Slots(2 * dict.cap) |-> IF i \in DOMAIN dict.vals THEN dict.vals[i] ELSE Junk]
<1>1. /\ dict \in [cap : Nat \ {0}, born : Nat \ {0}, keys : Seq(Keys),
                   vals : [1..(dict.cap + 1) -> Pointers \union {Junk}]]
      /\ dict.born <= dict.cap /\ Len(dict.keys) <= dict.cap
      /\ \A i \in 1..Len(dict.keys) : dict.vals[i] \in Pointers
  BY DEF DictOK
<1>2. dict.cap \in Nat \ {0} /\ dict.born \in Nat \ {0} /\ Len(dict.keys) \in Nat
      /\ dict.vals \in [1..(dict.cap + 1) -> Pointers \union {Junk}] /\ DOMAIN dict.vals = 1..(dict.cap + 1)
  BY <1>1
<1>3. e = [cap |-> 2 * dict.cap, born |-> dict.born, keys |-> dict.keys, vals |-> v]
  <2>1. dict = [cap |-> dict.cap, born |-> dict.born, keys |-> dict.keys, vals |-> dict.vals]
    BY <1>1
  <2>2. e = [dict EXCEPT !.cap = 2 * @, !.vals = v]
    BY DEF Expand
  <2> HIDE DEF v, e
  <2>3. QED
    BY <2>1, <2>2
<1>4. v \in [1..(2 * dict.cap + 1) -> Pointers \union {Junk}]
  BY <1>2 DEF Slots
<1>5. \A i \in 1..Len(dict.keys) : v[i] = dict.vals[i]
  BY <1>1, <1>2 DEF Slots
<1>6. 2 * dict.cap \in Nat \ {0} /\ dict.born <= 2 * dict.cap /\ dict.born # 2 * dict.cap
      /\ Len(dict.keys) <= 2 * dict.cap
  BY <1>1, <1>2
<1>9. \A i \in (Len(dict.keys) + 1)..(2 * dict.cap + 1) : v[i] \in {Null, Junk}
  <2>1. \A i \in (Len(dict.keys) + 1)..(dict.cap + 1) : dict.vals[i] \in {Null, Junk}
    BY DEF DictOK
  <2> SUFFICES ASSUME NEW i \in (Len(dict.keys) + 1)..(2 * dict.cap + 1) PROVE v[i] \in {Null, Junk}
    OBVIOUS
  <2>2. v[i] = IF i \in 1..(dict.cap + 1) THEN dict.vals[i] ELSE Junk
    BY <1>2 DEF Slots
  <2>3. i \in 1..(dict.cap + 1) => i \in (Len(dict.keys) + 1)..(dict.cap + 1)
    BY <1>2
  <2>4. QED
    BY <2>1, <2>2, <2>3
<1> HIDE DEF v
<1>7. DictOK(e)
  <2>1. e \in [cap : Nat \ {0}, born : Nat \ {0}, keys : Seq(Keys),
               vals : [1..(e.cap + 1) -> Pointers \union {Junk}]]
    BY <1>1, <1>3, <1>4, <1>6
  <2>2. e.cap = 2 * dict.cap /\ e.born = dict.born /\ e.keys = dict.keys /\ e.vals = v
    BY <1>3
  <2>3. QED
    BY <1>1, <1>5, <1>6, <1>9, <2>1, <2>2 DEF DictOK
<1>8. QED
  BY <1>3, <1>5, <1>6, <1>7 DEF HasGrown

LEMMA AppendOK ==
  ASSUME NEW dict, DictOK(dict), NEW key \in Keys, NEW val \in Pointers
  PROVE  LET new == AppendPair(dict, key, val) IN
         /\ DictOK(new) /\ new.keys = Append(dict.keys, key)
         /\ \A i \in 1..Len(dict.keys) : new.vals[i] = dict.vals[i]
         /\ new.vals[Len(dict.keys) + 1] = val
<1> DEFINE room == IF IsFull(dict) THEN Expand(dict) ELSE dict
           n == Len(dict.keys)
           new == AppendPair(dict, key, val)
<1>1. /\ DictOK(room) /\ room.keys = dict.keys /\ n < room.cap
      /\ \A i \in 1..n : room.vals[i] = dict.vals[i]
  <2>1. dict.cap \in Nat \ {0} /\ n \in Nat /\ n <= dict.cap
    BY DEF DictOK
  <2>2. CASE IsFull(dict)
    BY <2>1, <2>2, ExpandOK DEF IsFull
  <2>3. CASE ~IsFull(dict)
    BY <2>1, <2>3 DEF IsFull
  <2>4. QED
    BY <2>2, <2>3
<1>2. new = [room EXCEPT !.keys = Append(@, key), !.vals[n + 1] = val]
  BY DEF AppendPair
<1> HIDE DEF room, new
<1>3. /\ room \in [cap : Nat \ {0}, born : Nat \ {0}, keys : Seq(Keys),
                   vals : [1..(room.cap + 1) -> Pointers \union {Junk}]]
      /\ room.born <= room.cap /\ n \in Nat
      /\ \A i \in 1..n : room.vals[i] \in Pointers
      /\ \A i \in (n + 1)..(room.cap + 1) : room.vals[i] \in {Null, Junk} /\ (room.cap = room.born => room.vals[i] = Null)
  BY <1>1 DEF DictOK
<1>4. /\ new.keys = Append(dict.keys, key) /\ new.cap = room.cap /\ new.born = room.born
      /\ new.vals = [room.vals EXCEPT ![n + 1] = val]
      /\ new = [cap |-> room.cap, born |-> room.born, keys |-> new.keys, vals |-> new.vals]
  BY <1>1, <1>2, <1>3
<1>5. /\ new.keys \in Seq(Keys) /\ Len(new.keys) = n + 1
      /\ n + 1 \in 1..(room.cap + 1) /\ room.cap \in Nat \ {0} /\ room.born \in Nat \ {0}
  BY <1>1, <1>3, <1>4
<1>6. /\ new.vals \in [1..(room.cap + 1) -> Pointers \union {Junk}]
      /\ new.vals[n + 1] = val
      /\ \A i \in 1..(room.cap + 1) : i # n + 1 => new.vals[i] = room.vals[i]
  BY <1>3, <1>4, <1>5
<1>7. DictOK(new)
  <2>1. new \in [cap : Nat \ {0}, born : Nat \ {0}, keys : Seq(Keys),
                 vals : [1..(new.cap + 1) -> Pointers \union {Junk}]]
    BY <1>4, <1>5, <1>6
  <2>2. ASSUME NEW i \in 1..Len(new.keys) PROVE new.vals[i] \in Pointers
    <3>1. CASE i = n + 1
      BY <1>6, <3>1
    <3>2. CASE i # n + 1
      <4>1. i \in 1..n /\ i \in 1..(room.cap + 1)
        BY <1>1, <1>3, <1>5, <3>2
      <4>2. QED
        BY <1>3, <1>6, <3>2, <4>1
    <3>3. QED
      BY <3>1, <3>2
  <2>3. \A i \in (Len(new.keys) + 1)..(new.cap + 1) :
          new.vals[i] \in {Null, Junk} /\ (new.cap = new.born => new.vals[i] = Null)
    BY <1>3, <1>4, <1>5, <1>6
  <2>4. QED
    BY <1>1, <1>3, <1>4, <1>5, <2>1, <2>2, <2>3 DEF DictOK
<1>8. \A i \in 1..n : new.vals[i] = dict.vals[i]
  BY <1>1, <1>3, <1>5, <1>6
<1>9. QED
  BY <1>4, <1>6, <1>7, <1>8 DEF new

LEMMA FilledOK ==
  ASSUME NEW cap \in Nat \ {0}, NEW keys \in Seq(Keys), NEW vals,
         \A i \in 1..Len(keys) : vals[i] \in Pointers
  PROVE  LET new == Filled(cap, keys, vals) IN
         /\ DictOK(new) /\ new.keys = keys
         /\ \A i \in 1..Len(keys) : new.vals[i] = vals[i]
<1> DEFINE N0 == Len(keys)
           Step(f, n) == IF n = 0 THEN NewDict(cap) ELSE AppendPair(f[n - 1], keys[n], vals[n])
           Is(d, n) == /\ DictOK(d) /\ d.keys = SubSeq(keys, 1, n)
                       /\ \A i \in 1..n : d.vals[i] = vals[i]
           T == {m \in Nat : m <= N0 => \E g : g = [n \in 0..m |-> Step(g, n)]}
<1>1. N0 \in Nat /\ DOMAIN keys = 1..N0 /\ \A n \in 1..N0 : keys[n] \in Keys
  OBVIOUS
<1> HIDE DEF N0
<1>2. 0 \in T
  <2> DEFINE g == [n \in 0..0 |-> NewDict(cap)]
  <2>1. g = [n \in 0..0 |-> Step(g, n)]
    OBVIOUS
  <2> HIDE DEF g
  <2>2. QED
    BY <2>1
<1>3. ASSUME NEW m \in T PROVE m + 1 \in T
  <2>1. ASSUME m + 1 <= N0 PROVE \E h : h = [n \in 0..(m + 1) |-> Step(h, n)]
    <3>1. m \in Nat /\ m <= N0
      BY <2>1, <1>1
    <3>2. PICK g : g = [n \in 0..m |-> Step(g, n)]
      BY <3>1
    <3> DEFINE last == AppendPair(g[m], keys[m + 1], vals[m + 1])
               h == [n \in 0..(m + 1) |-> IF n <= m THEN g[n] ELSE last]
    <3> HIDE DEF last
    <3>3. ASSUME NEW n \in 0..(m + 1) PROVE h[n] = Step(h, n)
      <4>1. CASE n <= m
        <5>1. h[n] = g[n] /\ g[n] = Step(g, n)
          BY <4>1, <3>1, <3>2
        <5>2. n # 0 => h[n - 1] = g[n - 1]
          BY <4>1, <3>1
        <5>3. QED
          BY <5>1, <5>2
      <4>2. CASE n = m + 1
        BY <4>2, <3>1 DEF last
      <4>3. QED
        BY <4>1, <4>2, <3>1
    <3>4. h = [n \in 0..(m + 1) |-> h[n]]
      OBVIOUS
    <3> HIDE DEF h
    <3>5. h = [n \in 0..(m + 1) |-> Step(h, n)]
      BY <3>3, <3>4
    <3>6. QED
      BY <3>5
  <2>2. QED
    BY <2>1
<1>4. T = Nat
  <2> HIDE DEF T
  <2>1. T \in SUBSET Nat
    BY DEF T
  <2>2. QED
    BY <2>1, <1>2, <1>3, Numbers!SetInductionOnNat
<1> DEFINE upto == CHOOSE g : g = [n \in 0..N0 |-> Step(g, n)]
<1>5. upto = [n \in 0..N0 |-> Step(upto, n)]
  <2>1. N0 \in T
    BY <1>1, <1>4
  <2>2. \E g : g = [n \in 0..N0 |-> Step(g, n)]
    BY <1>1, <2>1
  <2> HIDE DEF Step
  <2>3. QED
    BY <2>2
<1>6. Filled(cap, keys, vals) = upto[N0]
  BY DEF Filled, N0
<1> HIDE DEF upto
<1> DEFINE U == {m \in Nat : m <= N0 => Is(upto[m], m)}
<1>7. 0 \in U
  <2>1. upto[0] = NewDict(cap)
    BY <1>1, <1>5
  <2>2. SubSeq(keys, 1, 0) = <<>>
    OBVIOUS
  <2>3. DictOK(NewDict(cap)) /\ NewDict(cap).keys = <<>>
    BY NewDictOK
  <2> HIDE DEF upto
  <2>4. Is(upto[0], 0)
    BY <2>1, <2>2, <2>3
  <2>5. QED
    BY <2>4
<1>8. ASSUME NEW m \in U PROVE m + 1 \in U
  <2>1. ASSUME m + 1 <= N0 PROVE Is(upto[m + 1], m + 1)
    <3>1. m \in Nat /\ m <= N0 /\ Is(upto[m], m) /\ m + 1 \in 1..N0 /\ m + 1 \in 0..N0
      BY <2>1, <1>1
    <3>2. upto[m + 1] = AppendPair(upto[m], keys[m + 1], vals[m + 1])
      BY <3>1, <1>5
    <3>3. keys[m + 1] \in Keys /\ vals[m + 1] \in Pointers
      BY <3>1, <1>1 DEF N0
    <3>4. Len(SubSeq(keys, 1, m)) = m /\ Append(SubSeq(keys, 1, m), keys[m + 1]) = SubSeq(keys, 1, m + 1)
      BY <3>1, <1>1 DEF N0
    <3> DEFINE new == upto[m + 1]
    <3>5. /\ DictOK(new) /\ new.keys = SubSeq(keys, 1, m + 1)
          /\ \A i \in 1..m : new.vals[i] = vals[i]
          /\ new.vals[m + 1] = vals[m + 1]
      <4> DEFINE d == upto[m]
                 k == keys[m + 1]
                 v == vals[m + 1]
      <4>1. DictOK(d) /\ d.keys = SubSeq(keys, 1, m) /\ (\A i \in 1..m : d.vals[i] = vals[i])
            /\ k \in Keys /\ v \in Pointers /\ new = AppendPair(d, k, v) /\ Len(d.keys) = m
        BY <3>1, <3>2, <3>3, <3>4
      <4>2. Append(d.keys, k) = SubSeq(keys, 1, m + 1)
        BY <3>4, <4>1
      <4> HIDE DEF d, k, v, new
      <4>3. DictOK(new) /\ new.keys = Append(d.keys, k) /\ (\A i \in 1..m : new.vals[i] = d.vals[i])
            /\ new.vals[m + 1] = v
        <5>1. DictOK(d) /\ k \in Keys /\ v \in Pointers
          BY <4>1
        <5>2. /\ DictOK(AppendPair(d, k, v)) /\ AppendPair(d, k, v).keys = Append(d.keys, k)
              /\ \A i \in 1..Len(d.keys) : AppendPair(d, k, v).vals[i] = d.vals[i]
              /\ AppendPair(d, k, v).vals[Len(d.keys) + 1] = v
          BY ONLY <5>1, AppendOK
        <5>3. QED
          BY <4>1, <5>2
      <4>4. QED
        BY <4>1, <4>2, <4>3 DEF v
    <3> HIDE DEF new
    <3>6. \A i \in 1..(m + 1) : new.vals[i] = vals[i]
      BY <3>1, <3>5
    <3>7. QED
      BY <3>5, <3>6 DEF new
  <2>2. QED
    BY <2>1
<1>9. U = Nat
  <2> HIDE DEF U
  <2>1. U \in SUBSET Nat
    BY DEF U
  <2>2. QED
    BY <2>1, <1>7, <1>8, Numbers!SetInductionOnNat
<1>10. Is(upto[N0], N0) /\ SubSeq(keys, 1, N0) = keys
  BY <1>1, <1>9 DEF N0
<1>11. QED
  BY <1>6, <1>10 DEF N0

LEMMA PositionIs ==
  ASSUME NEW dict, DictOK(dict), NEW key
  PROVE  LET p == Position(dict, key)
             n == Len(dict.keys) IN
         /\ n \in Nat
         /\ HasKey(dict, key) => /\ p \in 1..n /\ dict.keys[p] = key
                                 /\ \A i \in 1..(p - 1) : dict.keys[i] # key
         /\ ~HasKey(dict, key) => p = n + 1 /\ \A i \in 1..n : dict.keys[i] # key
<1> DEFINE n == Len(dict.keys)
           places == {i \in 1..n : dict.keys[i] = key}
<1>1. n \in Nat /\ DOMAIN dict.keys = 1..n
  BY DEF DictOK
<1>2. HasKey(dict, key) <=> places # {}
  BY <1>1 DEF HasKey
<1>3. CASE HasKey(dict, key)
  <2>1. places \in SUBSET Nat /\ places # {}
    BY <1>1, <1>2, <1>3
  <2>2. \E m \in places : \A i \in places : m <= i
    BY <2>1, Numbers!LeastNumber
  <2>3. Position(dict, key) = Min(places)
    BY <1>2, <1>3 DEF Position, SelectInSeq
  <2> HIDE DEF places
  <2>4. Min(places) \in places /\ \A i \in places : Min(places) <= i
    BY <2>2 DEF Min
  <2> DEFINE p == Position(dict, key)
  <2> HIDE DEF p
  <2>5. p \in places /\ \A i \in places : p <= i
    BY <2>3, <2>4 DEF p
  <2>6. p \in 1..n /\ dict.keys[p] = key
    BY <2>5 DEF places
  <2>7. ASSUME NEW i \in 1..(p - 1) PROVE dict.keys[i] # key
    <3>1. i \in 1..n /\ ~(p <= i)
      BY <1>1, <2>6
    <3>2. QED
      BY <2>5, <3>1 DEF places
  <2>8. QED
    BY <1>1, <1>3, <2>6, <2>7 DEF p
<1>4. CASE ~HasKey(dict, key)
  BY <1>1, <1>4 DEF Position, HasKey
<1>5. QED
  BY <1>1, <1>3, <1>4

\* A lookup gives the value of the first such key, or the cleared slot.
LEMMA GetValueIs ==
  ASSUME NEW dict, DictOK(dict), NEW key
  PROVE  /\ HasKey(dict, key) => GetValue2(dict, key) = dict.vals[Position(dict, key)]
         /\ HasKey(dict, key) => GetValue2(dict, key) \in Pointers
         /\ ~HasKey(dict, key) => Position(dict, key) \in DOMAIN dict.vals
         /\ ~HasKey(dict, key) => GetValue2(dict, key) \in {Null, Junk}
         /\ ~HasKey(dict, key) /\ ~HasGrown(dict) => GetValue2(dict, key) = Null
<1> DEFINE p == Position(dict, key)
           n == Len(dict.keys)
<1>1. /\ dict.vals \in [1..(dict.cap + 1) -> Pointers \union {Junk}] /\ dict.cap \in Nat
      /\ n \in Nat /\ n <= dict.cap
      /\ \A i \in 1..n : dict.vals[i] \in Pointers
      /\ \A i \in (n + 1)..(dict.cap + 1) : dict.vals[i] \in {Null, Junk} /\ (dict.cap = dict.born => dict.vals[i] = Null)
  BY DEF DictOK
<1>2. /\ HasKey(dict, key) => p \in 1..n
      /\ ~HasKey(dict, key) => p = n + 1
  BY PositionIs
<1>3. HasKey(dict, key) => dict.keys # <<>>
  BY <1>2, <1>1
<1> HIDE DEF p
<1>4. p \in 1..(dict.cap + 1)
  BY <1>1, <1>2
<1>5. QED
  BY <1>1, <1>2, <1>3, <1>4 DEF GetValue2, HasGrown, p

LEMMA PutOK ==
  ASSUME NEW dict, DictOK(dict), NEW i \in 1..Len(dict.keys), NEW val \in Pointers
  PROVE  LET new == [dict EXCEPT !.vals[i] = val] IN
         /\ DictOK(new) /\ new.keys = dict.keys
         /\ \A j \in 1..Len(dict.keys) : new.vals[j] = IF j = i THEN val ELSE dict.vals[j]
<1> DEFINE new == [dict EXCEPT !.vals[i] = val]
           n == Len(dict.keys)
<1>1. /\ dict \in [cap : Nat \ {0}, born : Nat \ {0}, keys : Seq(Keys),
                   vals : [1..(dict.cap + 1) -> Pointers \union {Junk}]]
      /\ dict.born <= dict.cap /\ n <= dict.cap /\ n \in Nat
      /\ \A j \in 1..n : dict.vals[j] \in Pointers
      /\ \A j \in (n + 1)..(dict.cap + 1) : dict.vals[j] \in {Null, Junk} /\ (dict.cap = dict.born => dict.vals[j] = Null)
  BY DEF DictOK
<1>2. new = [cap |-> dict.cap, born |-> dict.born, keys |-> dict.keys, vals |-> [dict.vals EXCEPT ![i] = val]]
  <2>1. dict = [cap |-> dict.cap, born |-> dict.born, keys |-> dict.keys, vals |-> dict.vals]
    BY <1>1
  <2>2. QED
    BY <2>1
<1>3. i \in 1..(dict.cap + 1)
  BY <1>1
<1> DEFINE v == [dict.vals EXCEPT ![i] = val]
<1>4. /\ v \in [1..(dict.cap + 1) -> Pointers \union {Junk}]
      /\ \A j \in 1..(dict.cap + 1) : v[j] = IF j = i THEN val ELSE dict.vals[j]
  BY <1>1, <1>3
<1> HIDE DEF v
<1>5. new.cap = dict.cap /\ new.born = dict.born /\ new.keys = dict.keys /\ new.vals = v
  BY <1>2 DEF v
<1>6. new \in [cap : Nat \ {0}, born : Nat \ {0}, keys : Seq(Keys),
               vals : [1..(new.cap + 1) -> Pointers \union {Junk}]]
  BY <1>1, <1>2, <1>4 DEF v
<1> HIDE DEF new
<1>7. \A j \in 1..n : j \in 1..(dict.cap + 1)
  BY <1>1
<1>8. \A j \in 1..n : v[j] = IF j = i THEN val ELSE dict.vals[j]
  BY <1>4, <1>7
<1>9. \A j \in (n + 1)..(dict.cap + 1) : j \in 1..(dict.cap + 1) /\ j # i
  BY <1>1
<1>10. \A j \in (n + 1)..(dict.cap + 1) : v[j] \in {Null, Junk} /\ (dict.cap = dict.born => v[j] = Null)
  BY <1>1, <1>4, <1>9
<1>11. \A j \in 1..n : v[j] \in Pointers
  BY <1>1, <1>8
<1>12. DictOK(new)
  BY <1>1, <1>5, <1>6, <1>10, <1>11 DEF DictOK
<1>13. QED
  BY <1>5, <1>8, <1>12 DEF new

-----------------------------------------------------------------------------
(* The heap                                                                *)

IsMade(content) == content \in Objects /\ content # Free

HeapOK ==
  /\ heap = [c \in Cells |-> heap[c]]
  /\ \A c \in Cells : heap[c] # Free => heap[c] \in Objects
  /\ \A c \in Cells :
       heap[c] # Free <=> \E d \in Names : \E i \in 1..Len(dicts[d].keys) : dicts[d].vals[i] = c

\* No two keys have the same value.
Unshared ==
  \A d, e \in Names :
    \A i \in 1..Len(dicts[d].keys), j \in 1..Len(dicts[e].keys) :
      dicts[d].vals[i] = dicts[e].vals[j] /\ dicts[d].vals[i] # Null => d = e /\ i = j

DictInv ==
  /\ dicts = [d \in Names |-> dicts[d]]
  /\ \A d \in Names : dicts[d] = NoDict \/ DictOK(dicts[d])
  /\ HeapOK /\ Unshared

LEMMA NoDictIsEmpty ==
  /\ NoDict.keys = <<>> /\ ~DictOK(NoDict)
  /\ \A i : i \notin 1..Len(NoDict.keys)
<1>1. NoDict.keys = <<>> /\ NoDict.cap = 0
  BY DEF NoDict
<1>2. QED
  BY <1>1 DEF DictOK

\* What malloc gives is free and different for each place.
LEMMA FreshCellsAre ==
  ASSUME NEW places \in SUBSET Nat, NEW cs \in FreshCells(places)
  PROVE  /\ DOMAIN cs = places
         /\ \A i \in places : cs[i] \in Cells /\ heap[cs[i]] = Free
         /\ \A i, j \in places : cs[i] = cs[j] => i = j
<1>1. cs \in [places -> FreeCells] /\ \A i, j \in places : i < j => cs[i] < cs[j]
  BY DEF FreshCells
<1>2. \A i \in places : cs[i] \in Cells /\ heap[cs[i]] = Free
  BY <1>1 DEF FreeCells
<1>3. \A i \in places : cs[i] \in Nat
  BY <1>2, CellsAssumption DEF Cells
<1>4. ASSUME NEW i \in places, NEW j \in places, cs[i] = cs[j] PROVE i = j
  <2>1. ~(i < j) /\ ~(j < i)
    BY <1>1, <1>3, <1>4
  <2>2. QED
    BY <2>1
<1>5. QED
  BY <1>1, <1>2, <1>4

LEMMA MadeIs ==
  ASSUME NEW places \in SUBSET Nat, NEW cs \in FreshCells(places), NEW content
  PROVE  /\ Made(cs, content) = [c \in Cells |-> Made(cs, content)[c]]
         /\ \A i \in places : Made(cs, content)[cs[i]] = content[i]
         /\ \A c \in Cells : (\A i \in places : cs[i] # c) => Made(cs, content)[c] = heap[c]
<1>1. /\ DOMAIN cs = places
      /\ \A i \in places : cs[i] \in Cells
      /\ \A i, j \in places : cs[i] = cs[j] => i = j
  BY FreshCellsAre
<1>2. ASSUME NEW i \in places PROVE Made(cs, content)[cs[i]] = content[i]
  <2>1. (CHOOSE j \in places : cs[j] = cs[i]) = i
    BY <1>1
  <2>2. QED
    BY <1>1, <2>1 DEF Made
<1>3. QED
  BY <1>1, <1>2 DEF Made

\* A dictionary whose values are in cells that were just made, or NULL.
LEMMA FillStep ==
  ASSUME DictInv, NEW d \in Names, dicts[d] = NoDict, NEW new, DictOK(new),
         NEW places \in SUBSET (1..Len(new.keys)), NEW cs \in FreshCells(places),
         NEW contents, \A i \in places : IsMade(contents[i]),
         \A i \in 1..Len(new.keys) : new.vals[i] = IF i \in places THEN cs[i] ELSE Null,
         heap' = Made(cs, contents), dicts' = [dicts EXCEPT ![d] = new]
  PROVE  DictInv'
<1> DEFINE n == Len(new.keys)
<1>1. /\ dicts = [e \in Names |-> dicts[e]]
      /\ \A e \in Names : dicts[e] = NoDict \/ DictOK(dicts[e])
      /\ HeapOK /\ Unshared
  BY DEF DictInv
<1>2. n \in Nat /\ places \in SUBSET Nat
  BY DEF DictOK
<1>3. /\ dicts' = [e \in Names |-> dicts'[e]] /\ dicts'[d] = new
      /\ \A e \in Names : e # d => dicts'[e] = dicts[e]
  BY <1>1
<1>4. /\ \A i \in places : cs[i] \in Cells /\ heap[cs[i]] = Free /\ heap'[cs[i]] = contents[i]
      /\ \A i, j \in places : cs[i] = cs[j] => i = j
      /\ heap' = [c \in Cells |-> heap'[c]]
      /\ \A c \in Cells : (\A i \in places : cs[i] # c) => heap'[c] = heap[c]
  BY <1>2, FreshCellsAre, MadeIs
<1>5. Null \notin Cells
  BY CellsAssumption DEF Cells
<1>6. \A e \in Names : \A i \in 1..Len(dicts[e].keys) :
        dicts[e].vals[i] \in Pointers /\ (dicts[e].vals[i] # Null => heap[dicts[e].vals[i]] # Free)
  <2> SUFFICES ASSUME NEW e \in Names, NEW i \in 1..Len(dicts[e].keys)
               PROVE  dicts[e].vals[i] \in Pointers /\ (dicts[e].vals[i] # Null => heap[dicts[e].vals[i]] # Free)
    OBVIOUS
  <2>1. DictOK(dicts[e])
    BY <1>1, NoDictIsEmpty
  <2>2. dicts[e].vals[i] \in Pointers
    BY <2>1 DEF DictOK
  <2>3. QED
    BY <1>1, <2>2 DEF Pointers, HeapOK
<1>7. \A e \in Names : \A i \in 1..Len(dicts[e].keys) : e # d
  BY NoDictIsEmpty
<1>8. HeapOK'
  <2>1. ASSUME NEW c \in Cells
        PROVE  /\ heap'[c] # Free => heap'[c] \in Objects
               /\ heap'[c] # Free <=>
                    \E e \in Names : \E i \in 1..Len(dicts'[e].keys) : dicts'[e].vals[i] = c
    <3>1. CASE \E i \in places : cs[i] = c
      <4>1. PICK i \in places : cs[i] = c
        BY <3>1
      <4>2. heap'[c] = contents[i] /\ IsMade(contents[i])
        BY <1>4, <4>1
      <4>3. i \in 1..Len(dicts'[d].keys) /\ dicts'[d].vals[i] = c
        BY <1>3, <4>1
      <4>4. QED
        BY <4>2, <4>3 DEF IsMade
    <3>2. CASE \A i \in places : cs[i] # c
      <4>1. heap'[c] = heap[c]
        BY <1>4, <3>2
      <4>2. \A i \in 1..n : new.vals[i] # c
        BY <1>5, <3>2
      <4>3. ASSUME NEW e \in Names
            PROVE  (\E i \in 1..Len(dicts'[e].keys) : dicts'[e].vals[i] = c)
                     <=> \E i \in 1..Len(dicts[e].keys) : dicts[e].vals[i] = c
        <5>1. CASE e = d
          BY <5>1, <1>3, <1>7, <4>2
        <5>2. CASE e # d
          BY <5>2, <1>3
        <5>3. QED
          BY <5>1, <5>2
      <4>4. QED
        BY <1>1, <4>1, <4>3 DEF HeapOK
    <3>3. QED
      BY <3>1, <3>2
  <2>2. QED
    BY <1>4, <2>1 DEF HeapOK
<1>9. Unshared'
  <2>1. SUFFICES ASSUME NEW e \in Names, NEW g \in Names,
                        NEW i \in 1..Len(dicts'[e].keys), NEW j \in 1..Len(dicts'[g].keys),
                        dicts'[e].vals[i] = dicts'[g].vals[j], dicts'[e].vals[i] # Null
                 PROVE  e = g /\ i = j
    BY DEF Unshared
  <2>2. ASSUME NEW k \in 1..n, NEW g1 \in Names, g1 # d, NEW l \in 1..Len(dicts[g1].keys), new.vals[k] # Null
        PROVE  new.vals[k] # dicts[g1].vals[l]
    BY <1>4, <1>6, <2>2
  <2>3. CASE e = d /\ g = d
    <3>1. i \in places /\ j \in places /\ cs[i] = cs[j]
      BY <1>3, <2>1, <2>3
    <3>2. QED
      BY <1>4, <2>3, <3>1
  <2>4. CASE e # d /\ g # d
    BY <1>1, <1>3, <2>1, <2>4 DEF Unshared
  <2>5. CASE e = d /\ g # d
    BY <1>3, <2>1, <2>2, <2>5
  <2>6. CASE e # d /\ g = d
    BY <1>3, <2>1, <2>2, <2>6
  <2>7. QED
    BY <2>3, <2>4, <2>5, <2>6
<1>10. QED
  BY <1>1, <1>3, <1>8, <1>9 DEF DictInv

LEMMA ParseStep ==
  ASSUME DictInv, NEW d \in Names, NEW pairs \in ParsedDicts, Parse(d, pairs)
  PROVE  DictInv'
<1> DEFINE keys == [i \in 1..Len(pairs) |-> pairs[i][1]]
           contents == [i \in 1..Len(pairs) |-> pairs[i][2]]
           new(cs) == Filled(Len(pairs) + 2, keys, cs)
<1>1. Len(pairs) \in Nat /\ \A i \in 1..Len(pairs) : pairs[i][1] \in Keys /\ IsMade(contents[i])
  BY ContentsAssumption DEF IsMade, Objects
<1>2. dicts[d] = NoDict
  BY DEF Parse, Alone
<1>3. PICK cs \in FreshCells(1..Len(pairs)) :
        heap' = Made(cs, contents) /\ dicts' = [dicts EXCEPT ![d] = new(cs)]
  BY DEF Parse
<1>4. keys \in Seq(Keys) /\ Len(keys) = Len(pairs)
  BY <1>1
<1>5. \A i \in 1..Len(pairs) : cs[i] \in Cells
  BY FreshCellsAre
<1> HIDE DEF keys, contents
<1>6. /\ DictOK(new(cs)) /\ new(cs).keys = keys
      /\ \A i \in 1..Len(keys) : new(cs).vals[i] = cs[i]
  <2> DEFINE cap == Len(pairs) + 2
  <2>1. cap \in Nat \ {0} /\ \A i \in 1..Len(keys) : cs[i] \in Pointers
    BY <1>1, <1>4, <1>5 DEF Pointers
  <2> HIDE DEF cap
  <2>2. LET filled == Filled(cap, keys, cs) IN
        DictOK(filled) /\ filled.keys = keys /\ \A i \in 1..Len(keys) : filled.vals[i] = cs[i]
    BY <1>4, <2>1, FilledOK
  <2>3. QED
    BY <2>2 DEF cap
<1> HIDE DEF new
<1>7. QED
  BY <1>1, <1>2, <1>3, <1>4, <1>6, FillStep

LEMMA NewStep == ASSUME DictInv, NEW d \in Names, New(d) PROVE DictInv'
<1> DEFINE new == NewDict(FreshCap)
           none == [i \in {} |-> Null]
<1>1. DictOK(new) /\ new.keys = <<>>
  BY NewDictOK, FreshCapAssumption
<1>2. dicts[d] = NoDict /\ dicts' = [dicts EXCEPT ![d] = new] /\ heap' = heap
  BY DEF New, Alone
<1>3. none \in FreshCells({})
  BY DEF FreshCells
<1>4. Made(none, none) = heap
  <2>1. heap = [c \in Cells |-> heap[c]]
    BY DEF DictInv, HeapOK
  <2>2. QED
    BY <2>1 DEF Made
<1>5. \A i : i \notin 1..Len(new.keys)
  BY <1>1
<1> HIDE DEF new, none
<1>6. QED
  BY <1>1, <1>2, <1>3, <1>4, <1>5, FillStep

LEMMA DeepCopyStep ==
  ASSUME DictInv, NEW d \in Names, NEW s \in Names, DeepCopy(s, d)
  PROVE  DictInv'
<1> DEFINE src == dicts[s]
           valued == {i \in DOMAIN src.keys : src.vals[i] # Null}
           contents == [i \in valued |-> heap[src.vals[i]]]
           vals(cs) == [i \in DOMAIN src.keys |-> IF i \in valued THEN cs[i] ELSE Null]
           new(cs) == Filled(FreshCap, src.keys, vals(cs))
<1>1. /\ DictOK(src) /\ dicts[d] = NoDict
      /\ \A c \in Values(src) : heap[c] \in Contents
  BY DEF DeepCopy, DictInv
<1>2. PICK cs \in FreshCells(valued) :
        heap' = Made(cs, contents) /\ dicts' = [dicts EXCEPT ![d] = new(cs)]
  BY DEF DeepCopy
<1>3. src.keys \in Seq(Keys) /\ DOMAIN src.keys = 1..Len(src.keys) /\ valued \in SUBSET (1..Len(src.keys))
      /\ Len(src.keys) \in Nat
  BY <1>1 DEF DictOK
<1>4. \A i \in valued : IsMade(contents[i])
  <2>1. \A i \in valued : src.vals[i] \in Values(src)
    BY DEF Values
  <2>2. QED
    BY <1>1, <2>1, ContentsAssumption DEF IsMade, Objects
<1>5. \A i \in valued : cs[i] \in Cells
  BY <1>3, FreshCellsAre
<1>6. \A i \in 1..Len(src.keys) : vals(cs)[i] \in Pointers /\ vals(cs)[i] = IF i \in valued THEN cs[i] ELSE Null
  BY <1>3, <1>5 DEF Pointers
<1> HIDE DEF vals, valued, contents
<1>7. /\ DictOK(new(cs)) /\ new(cs).keys = src.keys
      /\ \A i \in 1..Len(src.keys) : new(cs).vals[i] = vals(cs)[i]
  BY <1>3, <1>6, FilledOK, FreshCapAssumption
<1> HIDE DEF new
<1>8. QED
  BY <1>1, <1>2, <1>3, <1>4, <1>6, <1>7, FillStep

LEMMA DestroyStep == ASSUME DictInv, NEW d \in Names, Destroy(d) PROVE DictInv'
<1>1. /\ heap' = [c \in Cells |-> IF c \in Values(dicts[d]) THEN Free ELSE heap[c]]
      /\ dicts' = [dicts EXCEPT ![d] = NoDict] /\ DictOK(dicts[d])
      /\ dicts = [e \in Names |-> dicts[e]]
      /\ \A e \in Names : dicts[e] = NoDict \/ DictOK(dicts[e])
      /\ HeapOK /\ Unshared
  BY DEF Destroy, DictInv
<1>2. /\ dicts' = [e \in Names |-> dicts'[e]] /\ dicts'[d] = NoDict
      /\ \A e \in Names : e # d => dicts'[e] = dicts[e]
  BY <1>1
<1>3. \A i : i \notin 1..Len(dicts'[d].keys)
  BY <1>2, NoDictIsEmpty
<1>4. Null \notin Cells
  BY CellsAssumption DEF Cells
<1>5. \A c \in Cells : c \in Values(dicts[d]) <=> \E i \in 1..Len(dicts[d].keys) : dicts[d].vals[i] = c
  <2>1. DOMAIN dicts[d].keys = 1..Len(dicts[d].keys)
    BY <1>1 DEF DictOK
  <2>2. QED
    BY <1>4, <2>1 DEF Values
<1>6. Unshared'
  <2>1. SUFFICES ASSUME NEW e \in Names, NEW g \in Names,
                        NEW i \in 1..Len(dicts'[e].keys), NEW j \in 1..Len(dicts'[g].keys),
                        dicts'[e].vals[i] = dicts'[g].vals[j], dicts'[e].vals[i] # Null
                 PROVE  e = g /\ i = j
    BY DEF Unshared
  <2>2. e # d /\ g # d
    BY <1>3
  <2>3. QED
    BY <1>1, <1>2, <2>1, <2>2 DEF Unshared
<1>7. HeapOK'
  <2>1. ASSUME NEW c \in Cells
        PROVE  /\ heap'[c] # Free => heap'[c] \in Objects
               /\ heap'[c] # Free <=>
                    \E e \in Names : \E i \in 1..Len(dicts'[e].keys) : dicts'[e].vals[i] = c
    <3>1. CASE c \in Values(dicts[d])
      <4>1. PICK k \in 1..Len(dicts[d].keys) : dicts[d].vals[k] = c
        BY <1>5, <3>1
      <4>2. heap'[c] = Free
        BY <1>1, <3>1
      <4>3. ASSUME NEW e \in Names, NEW i \in 1..Len(dicts'[e].keys), dicts'[e].vals[i] = c PROVE FALSE
        <5>1. e # d
          BY <1>3
        <5>2. i \in 1..Len(dicts[e].keys) /\ dicts[e].vals[i] = c
          BY <1>2, <4>3, <5>1
        <5>3. QED
          BY <1>1, <1>4, <4>1, <5>1, <5>2 DEF Unshared
      <4>4. QED
        BY <4>2, <4>3
    <3>2. CASE c \notin Values(dicts[d])
      <4>1. heap'[c] = heap[c]
        BY <1>1, <3>2
      <4>2. ASSUME NEW e \in Names
            PROVE  (\E i \in 1..Len(dicts'[e].keys) : dicts'[e].vals[i] = c)
                     <=> \E i \in 1..Len(dicts[e].keys) : dicts[e].vals[i] = c
        <5>1. CASE e = d
          BY <5>1, <1>3, <1>5, <3>2
        <5>2. CASE e # d
          BY <5>2, <1>2
        <5>3. QED
          BY <5>1, <5>2
      <4>3. QED
        BY <1>1, <4>1, <4>2 DEF HeapOK
    <3>3. QED
      BY <3>1, <3>2
  <2>2. heap' = [c \in Cells |-> heap'[c]]
    BY <1>1
  <2>3. QED
    BY <2>1, <2>2 DEF HeapOK
<1>8. QED
  BY <1>1, <1>2, <1>6, <1>7 DEF DictInv

\* A key is set to an object that was made for it, to the object that it has, or to NULL.
LEMMA SetStep ==
  ASSUME DictInv, NEW d \in Names, DictOK(dicts[d]), NEW key \in Keys, NEW val \in Pointers, NEW made,
         SetPointer(d, key, val, made),
         made = [c \in Cells |-> made[c]], \A c \in Cells : c # val => made[c] = heap[c],
         \/ val = Null
         \/ val \in Cells /\ heap[val] = Free /\ IsMade(made[val])
         \/ HasKey(dicts[d], key) /\ val = GetValue2(dicts[d], key) /\ made = heap
  PROVE  DictInv'
<1> DEFINE p == Position(dicts[d], key)
           n == Len(dicts[d].keys)
           Is(c) == val = c /\ c \in Cells
           new == IF HasKey(dicts[d], key) THEN [dicts[d] EXCEPT !.vals[p] = val]
                  ELSE AppendPair(dicts[d], key, val)
           old == IF HasKey(dicts[d], key) THEN dicts[d].vals[p] ELSE Null
           q == IF HasKey(dicts[d], key) THEN p ELSE n + 1
<1>1. /\ dicts = [e \in Names |-> dicts[e]]
      /\ \A e \in Names : dicts[e] = NoDict \/ DictOK(dicts[e])
      /\ HeapOK /\ Unshared
  BY DEF DictInv
<1>2. /\ n \in Nat
      /\ HasKey(dicts[d], key) => p \in 1..n
      /\ HasKey(dicts[d], key) => GetValue2(dicts[d], key) = dicts[d].vals[p]
      /\ \A i \in 1..n : dicts[d].vals[i] \in Pointers
  <2>1. n \in Nat /\ \A i \in 1..n : dicts[d].vals[i] \in Pointers
    BY DEF DictOK
  <2>2. HasKey(dicts[d], key) => p \in 1..n /\ GetValue2(dicts[d], key) = dicts[d].vals[p]
    BY PositionIs, GetValueIs
  <2>3. QED
    BY <2>1, <2>2
<1>3. Null \notin Cells
  BY CellsAssumption DEF Cells
\* The slot q has the value, the others are as before.
<1>4. /\ DictOK(new) /\ q \in 1..Len(new.keys)
      /\ new.vals[q] = val
      /\ \A i : i \in 1..Len(new.keys) /\ i # q <=> i \in 1..n /\ i # q
      /\ \A i \in 1..n : i # q => new.vals[i] = dicts[d].vals[i]
  <2>1. CASE HasKey(dicts[d], key)
    <3>1. new = [dicts[d] EXCEPT !.vals[p] = val] /\ q = p /\ p \in 1..n
      BY <2>1, <1>2
    <3> HIDE DEF new, p, q
    <3>2. DictOK(new) /\ new.keys = dicts[d].keys
          /\ \A j \in 1..n : new.vals[j] = IF j = p THEN val ELSE dicts[d].vals[j]
      BY <3>1, PutOK
    <3>3. QED
      BY <3>1, <3>2
  <2>2. CASE ~HasKey(dicts[d], key)
    <3>1. new = AppendPair(dicts[d], key, val) /\ q = n + 1
      BY <2>2
    <3> HIDE DEF new, q
    <3>2. /\ DictOK(new) /\ new.keys = Append(dicts[d].keys, key)
          /\ \A i \in 1..n : new.vals[i] = dicts[d].vals[i]
          /\ new.vals[n + 1] = val
      BY <3>1, AppendOK
    <3>3. Len(new.keys) = n + 1
      BY <3>2 DEF DictOK
    <3>4. QED
      BY <1>2, <3>1, <3>2, <3>3
  <2>3. QED
    BY <2>1, <2>2
<1>5. /\ heap' = [c \in Cells |-> IF c = old /\ c # val THEN Free ELSE made[c]]
      /\ dicts' = [dicts EXCEPT ![d] = new]
  <2>1. CASE HasKey(dicts[d], key)
    <3>1. /\ heap' = [c \in Cells |-> IF c \in Replaced(dicts[d].vals[p], val) THEN Free ELSE made[c]]
          /\ dicts' = [dicts EXCEPT ![d].vals[p] = val]
      BY <2>1 DEF SetPointer
    <3>2. \A c \in Cells : c \in Replaced(dicts[d].vals[p], val) <=> c = old /\ c # val
      BY <1>3, <2>1 DEF Replaced
    <3>3. dicts' = [dicts EXCEPT ![d] = new]
      BY <2>1, <3>1
    <3> HIDE DEF old, new
    <3>4. QED
      BY <3>1, <3>2, <3>3
  <2>2. CASE ~HasKey(dicts[d], key)
    <3>1. heap' = made /\ dicts' = [dicts EXCEPT ![d] = AppendPair(@, key, val)]
      BY <2>2 DEF SetPointer
    <3>2. \A c \in Cells : c # old
      BY <1>3, <2>2
    <3>3. dicts' = [dicts EXCEPT ![d] = new]
      BY <2>2, <3>1
    <3> HIDE DEF old, new
    <3>4. QED
      BY <3>1, <3>2, <3>3
  <2>3. QED
    BY <2>1, <2>2
\* What the slot q had before.
<1>6. /\ q \in 1..n => dicts[d].vals[q] = old
      /\ q \notin 1..n => old = Null
  <2>1. HasKey(dicts[d], key) => q = p /\ p \in 1..n
    BY <1>2
  <2>2. ~HasKey(dicts[d], key) => q = n + 1
    OBVIOUS
  <2>3. QED
    BY <1>2, <2>1, <2>2
<1>7. \/ val = Null
      \/ val \in Cells /\ heap[val] = Free /\ IsMade(made[val])
      \/ q \in 1..n /\ val = old /\ made = heap
  BY <1>2
<1> HIDE DEF new, old, q, p
<1>8. /\ dicts' = [e \in Names |-> dicts'[e]] /\ dicts'[d] = new
      /\ \A e \in Names : e # d => dicts'[e] = dicts[e]
  BY <1>1, <1>5
\* A slot that is another one, before and after, has a pointer to another cell.
<1>9. ASSUME NEW e \in Names, NEW i \in 1..Len(dicts[e].keys), ~(e = d /\ i = q), dicts[e].vals[i] # Null
      PROVE  dicts[e].vals[i] # val /\ dicts[e].vals[i] # old /\ dicts[e].vals[i] \in Cells
  <2>1. DictOK(dicts[e])
    BY <1>1, NoDictIsEmpty
  <2>2. dicts[e].vals[i] \in Cells
    BY <1>9, <2>1 DEF DictOK, Pointers
  <2>3. heap[dicts[e].vals[i]] # Free
    BY <1>1, <2>2 DEF HeapOK
  <2>4. dicts[e].vals[i] # old
    BY <1>1, <1>6, <1>9 DEF Unshared
  <2>5. QED
    BY <1>7, <1>9, <2>2, <2>3, <2>4
<1>10. ASSUME NEW e \in Names, NEW i
       PROVE  /\ i \in 1..Len(dicts'[e].keys) /\ ~(e = d /\ i = q) <=> i \in 1..Len(dicts[e].keys) /\ ~(e = d /\ i = q)
              /\ i \in 1..Len(dicts[e].keys) /\ ~(e = d /\ i = q) => dicts'[e].vals[i] = dicts[e].vals[i]
  BY <1>4, <1>8
<1>11. Unshared'
  <2>1. SUFFICES ASSUME NEW e \in Names, NEW g \in Names,
                        NEW i \in 1..Len(dicts'[e].keys), NEW j \in 1..Len(dicts'[g].keys),
                        dicts'[e].vals[i] = dicts'[g].vals[j], dicts'[e].vals[i] # Null
                 PROVE  e = g /\ i = j
    BY DEF Unshared
  <2>2. CASE e = d /\ i = q
    <3>1. dicts'[e].vals[i] = val
      BY <1>4, <1>8, <2>2
    <3>2. QED
      BY <1>9, <1>10, <2>1, <2>2, <3>1
  <2>3. CASE g = d /\ j = q
    <3>1. dicts'[g].vals[j] = val
      BY <1>4, <1>8, <2>3
    <3>2. QED
      BY <1>9, <1>10, <2>1, <2>3, <3>1
  <2>4. CASE ~(e = d /\ i = q) /\ ~(g = d /\ j = q)
    <3>1. /\ i \in 1..Len(dicts[e].keys) /\ dicts'[e].vals[i] = dicts[e].vals[i]
          /\ j \in 1..Len(dicts[g].keys) /\ dicts'[g].vals[j] = dicts[g].vals[j]
      BY <1>10, <2>4
    <3>2. dicts[e].vals[i] = dicts[g].vals[j] /\ dicts[e].vals[i] # Null
      BY <2>1, <3>1
    <3>3. Unshared
      BY <1>1
    <3>4. QED
      BY <3>1, <3>2, <3>3 DEF Unshared
  <2>5. QED
    BY <2>2, <2>3, <2>4
<1>12. ASSUME NEW c \in Cells
       PROVE  /\ heap'[c] # Free => heap'[c] \in Objects
              /\ heap'[c] # Free <=>
                   \E e \in Names : \E i \in 1..Len(dicts'[e].keys) : dicts'[e].vals[i] = c
  <2>1. CASE c = val
    <3>1. q \in 1..Len(dicts'[d].keys) /\ dicts'[d].vals[q] = c
      BY <1>4, <1>8, <2>1
    <3>2. heap'[c] = made[c]
      BY <1>5, <2>1
    <3>3. made[c] # Free /\ made[c] \in Objects
      <4>1. CASE IsMade(made[val])
        BY <2>1, <4>1 DEF IsMade
      <4>2. CASE q \in 1..n /\ val = old /\ made = heap
        BY <1>1, <1>6, <2>1, <4>2 DEF HeapOK
      <4>3. QED
        BY <1>3, <1>7, <2>1, <4>1, <4>2
    <3>4. QED
      BY <3>1, <3>2, <3>3
  <2>2. CASE c # val
    <3>1. (\E e \in Names : \E i \in 1..Len(dicts'[e].keys) : dicts'[e].vals[i] = c)
            <=> \E e \in Names : \E i \in 1..Len(dicts[e].keys) : ~(e = d /\ i = q) /\ dicts[e].vals[i] = c
      <4>1. dicts'[d].vals[q] # c
        BY <1>4, <1>8, <2>2
      <4>2. QED
        BY <1>10, <4>1
    <3>2. CASE c = old
      <4>1. heap'[c] = Free
        BY <1>5, <2>2, <3>2
      <4>2. ASSUME NEW e \in Names, NEW i \in 1..Len(dicts[e].keys), ~(e = d /\ i = q), dicts[e].vals[i] = c
            PROVE  FALSE
        BY <1>3, <1>9, <3>2, <4>2
      <4>3. QED
        BY <3>1, <4>1, <4>2
    <3>3. CASE c # old
      <4>1. heap'[c] = heap[c]
        BY <1>5, <2>2, <3>3
      <4>2. ASSUME NEW e \in Names, NEW i \in 1..Len(dicts[e].keys), dicts[e].vals[i] = c
            PROVE  ~(e = d /\ i = q)
        BY <1>6, <3>3, <4>2
      <4>3. QED
        BY <1>1, <3>1, <4>1, <4>2 DEF HeapOK
    <3>4. QED
      BY <3>2, <3>3
  <2>3. QED
    BY <2>1, <2>2
<1>13. HeapOK'
  <2>1. heap' = [c \in Cells |-> heap'[c]]
    BY <1>5
  <2>2. QED
    BY <1>12, <2>1 DEF HeapOK
<1>14. \A e \in Names : dicts'[e] = NoDict \/ DictOK(dicts'[e])
  BY <1>1, <1>4, <1>8
<1>15. QED
  BY <1>8, <1>11, <1>13, <1>14 DEF DictInv

LEMMA SetNewStep ==
  ASSUME DictInv, NEW d \in Names, NEW key \in EditKeys, NEW content \in Contents, SetNew(d, key, content)
  PROVE  DictInv'
<1>1. DictOK(dicts[d])
  BY DEF SetNew, DictInv
<1>2. PICK cs \in FreshCells({1}) : SetPointer(d, key, cs[1], [heap EXCEPT ![cs[1]] = content])
  BY DEF SetNew
<1>3. cs[1] \in Cells /\ heap[cs[1]] = Free
  BY <1>2, FreshCellsAre
<1> DEFINE val == cs[1]
           made == [heap EXCEPT ![val] = content]
<1>4. heap = [c \in Cells |-> heap[c]]
  BY DEF DictInv, HeapOK
<1>5. /\ made = [c \in Cells |-> made[c]] /\ made[val] = content
      /\ \A c \in Cells : c # val => made[c] = heap[c]
  BY <1>3, <1>4
<1>6. IsMade(content) /\ key \in Keys /\ SetPointer(d, key, val, made)
  BY <1>2, ContentsAssumption DEF IsMade, Objects
<1>7. val \in Pointers /\ val \in Cells /\ heap[val] = Free
  BY <1>3 DEF Pointers
<1> HIDE DEF val, made
<1>8. QED
  BY <1>1, <1>5, <1>6, <1>7, SetStep

LEMMA SetOldStep ==
  ASSUME DictInv, NEW d \in Names, NEW key \in EditKeys, SetSame(d, key) \/ SetNull(d, key)
  PROVE  DictInv'
<1>1. key \in Keys /\ heap = [c \in Cells |-> heap[c]] /\ Null \in Pointers
  BY ContentsAssumption DEF DictInv, HeapOK, Pointers
<1>2. CASE SetSame(d, key)
  <2>1. HasKey(dicts[d], key) /\ SetPointer(d, key, GetValue2(dicts[d], key), heap)
    BY <1>2 DEF SetSame
  <2>2. dicts[d] # NoDict
    <3>1. ~HasKey(NoDict, key)
      BY DEF HasKey, NoDict
    <3>2. QED
      BY <2>1, <3>1
  <2>3. DictOK(dicts[d])
    BY <2>2 DEF DictInv
  <2>4. GetValue2(dicts[d], key) \in Pointers
    BY <2>1, <2>3, GetValueIs
  <2>5. QED
    BY <1>1, <2>1, <2>3, <2>4, SetStep
<1>3. CASE SetNull(d, key)
  <2>1. DictOK(dicts[d]) /\ SetPointer(d, key, Null, heap)
    BY <1>3 DEF SetNull, DictInv
  <2>2. QED
    BY <1>1, <2>1, SetStep
<1>4. QED
  BY <1>2, <1>3

LEMMA DictInitInv == DictInit => DictInv
<1> SUFFICES ASSUME DictInit PROVE DictInv
  OBVIOUS
<1>1. heap = [c \in Cells |-> Free] /\ dicts = [d \in Names |-> NoDict]
  BY DEF DictInit
<1>2. \A d \in Names : \A i : i \notin 1..Len(dicts[d].keys)
  BY <1>1, NoDictIsEmpty
<1>3. HeapOK
  BY <1>1, <1>2 DEF HeapOK
<1>4. Unshared
  BY <1>2 DEF Unshared
<1>5. QED
  BY <1>1, <1>3, <1>4 DEF DictInv

LEMMA DictStep == DictInv /\ DictNext => DictInv'
<1> SUFFICES ASSUME DictInv, DictNext PROVE DictInv'
  OBVIOUS
<1>1. PICK d \in Names :
        \/ \E pairs \in ParsedDicts : Parse(d, pairs)
        \/ New(d)
        \/ \E key \in EditKeys :
             (\E content \in Contents : SetNew(d, key, content)) \/ SetSame(d, key) \/ SetNull(d, key)
        \/ \E s \in Names \ {d} : DeepCopy(s, d)
        \/ Destroy(d)
  BY DEF DictNext
<1>2. QED
  BY <1>1, ParseStep, NewStep, SetNewStep, SetOldStep, DeepCopyStep, DestroyStep

LEMMA DictUnchanged == DictInv /\ UNCHANGED dvars => DictInv'
BY DEF dvars, DictInv, HeapOK, Unshared

\* Only edits touch a dictionary.
LEMMA StreamStepOfDict == [StreamNext]_svars => DictNext \/ UNCHANGED dvars
BY DEF StreamNext, svars, Edit, Decode, Filter, Finish, Done

LEMMA DictInvariant == StreamSpec => []DictInv
<1>1. StreamInit => DictInv
  BY DictInitInv DEF StreamInit
<1>2. DictInv /\ [StreamNext]_svars => DictInv'
  BY DictStep, DictUnchanged, StreamStepOfDict
<1>3. QED
  BY <1>1, <1>2, PTL DEF StreamSpec

\* A lookup of a key that is missing reads a slot that exists, and NULL in it as long as
\* the vectors never grew, whatever was set, copied and parsed, and for any capacity.
THEOREM MissingKeysReadNull == StreamSpec => []MissingIsNull
<1>1. DictInv => MissingIsNull
  <2> SUFFICES ASSUME DictInv, NEW d \in Names, NEW key \in Keys, dicts[d] # NoDict, ~HasKey(dicts[d], key)
               PROVE  /\ Position(dicts[d], key) \in DOMAIN dicts[d].vals
                      /\ HasGrown(dicts[d]) \/ GetValue2(dicts[d], key) = Null
    BY DEF MissingIsNull
  <2>1. DictOK(dicts[d])
    BY DEF DictInv
  <2>2. QED
    BY <2>1, GetValueIs
<1>2. QED
  BY <1>1, DictInvariant, PTL

\* Every object on the heap is the value of one key of one dictionary: pindf_dict_set_value
\* and pindf_dict_deepcopy leak nothing and free nothing that is still held.
THEOREM ValuesAreOwnedOnce == StreamSpec => []ValueOwnedOnce
<1>1. DictInv => ValueOwnedOnce
  <2> SUFFICES ASSUME DictInv, NEW c \in Cells
               PROVE  heap[c] # Free <=> Cardinality(Holders(c)) = 1
    BY DEF ValueOwnedOnce
  <2>1. \A e \in Names : DOMAIN dicts[e].keys = 1..Len(dicts[e].keys)
    <3> SUFFICES ASSUME NEW e \in Names PROVE DOMAIN dicts[e].keys = 1..Len(dicts[e].keys)
      OBVIOUS
    <3>1. CASE dicts[e] = NoDict
      BY <3>1 DEF NoDict
    <3>2. CASE DictOK(dicts[e])
      BY <3>2 DEF DictOK
    <3>3. QED
      BY <3>1, <3>2 DEF DictInv
  <2>2. \A p : p \in Holders(c) <=> \E e \in Names : \E i \in 1..Len(dicts[e].keys) :
                                      p = <<e, i>> /\ dicts[e].vals[i] = c
    BY <2>1 DEF Holders
  <2>3. Null # c
    BY CellsAssumption DEF Cells
  <2>4. CASE heap[c] = Free
    <3>1. Holders(c) = {}
      BY <2>2, <2>4 DEF DictInv, HeapOK
    <3>2. Cardinality(Holders(c)) = 0
      BY <3>1, FS_EmptySet
    <3>3. QED
      BY <2>4, <3>2
  <2>5. CASE heap[c] # Free
    <3>0. PICK e \in Names : \E i \in 1..Len(dicts[e].keys) : dicts[e].vals[i] = c
      BY <2>5 DEF DictInv, HeapOK
    <3>1. PICK i \in 1..Len(dicts[e].keys) : dicts[e].vals[i] = c
      BY <3>0
    <3>2. <<e, i>> \in Holders(c)
      BY <2>2, <3>1
    <3>3. ASSUME NEW p \in Holders(c) PROVE p = <<e, i>>
      <4>0. PICK g \in Names : \E j \in 1..Len(dicts[g].keys) : p = <<g, j>> /\ dicts[g].vals[j] = c
        BY <2>2
      <4>1. PICK j \in 1..Len(dicts[g].keys) : p = <<g, j>> /\ dicts[g].vals[j] = c
        BY <4>0
      <4>2. e = g /\ i = j
        BY <2>3, <3>1, <4>1 DEF DictInv, Unshared
      <4>3. QED
        BY <4>1, <4>2
    <3>4. Holders(c) = {<<e, i>>}
      BY <3>2, <3>3
    <3>5. QED
      BY <2>5, <3>4, FS_Singleton
  <2>6. QED
    BY <2>4, <2>5
<1>2. QED
  BY <1>1, DictInvariant, PTL

-----------------------------------------------------------------------------
(* Types                                                                   *)

\* Every try doubles the capacity.
LEMMA DoubledIs ==
  ASSUME NEW cap \in Nat
  PROVE  /\ MaxRetry \in Nat
         /\ DoubledTimes(cap)[0] = cap
         /\ \A r \in 0..(MaxRetry - 1) : DoubledTimes(cap)[r + 1] = 2 * DoubledTimes(cap)[r]
<1> DEFINE Step(f, r) == IF r = 0 THEN cap ELSE 2 * f[r - 1]
           T == {m \in Nat : \E g : g = [r \in 0..m |-> Step(g, r)]}
<1>1. 0 \in T
  <2> DEFINE g == [r \in 0..0 |-> cap]
  <2>1. g = [r \in 0..0 |-> Step(g, r)]
    OBVIOUS
  <2> HIDE DEF g
  <2>2. QED
    BY <2>1
<1>2. ASSUME NEW m \in T PROVE m + 1 \in T
  <2>1. m \in Nat
    OBVIOUS
  <2>2. PICK g : g = [r \in 0..m |-> Step(g, r)]
    OBVIOUS
  <2> DEFINE last == 2 * g[m]
             h == [r \in 0..(m + 1) |-> IF r <= m THEN g[r] ELSE last]
  <2> HIDE DEF last
  <2>3. ASSUME NEW r \in 0..(m + 1) PROVE h[r] = Step(h, r)
    <3>1. CASE r <= m
      <4>1. h[r] = g[r] /\ g[r] = Step(g, r)
        BY <3>1, <2>1, <2>2
      <4>2. r # 0 => h[r - 1] = g[r - 1]
        BY <3>1, <2>1
      <4>3. QED
        BY <4>1, <4>2
    <3>2. CASE r = m + 1
      BY <3>2, <2>1 DEF last
    <3>3. QED
      BY <3>1, <3>2, <2>1
  <2>4. h = [r \in 0..(m + 1) |-> h[r]]
    OBVIOUS
  <2> HIDE DEF h
  <2>5. h = [r \in 0..(m + 1) |-> Step(h, r)]
    BY <2>3, <2>4
  <2>6. QED
    BY <2>1, <2>5
<1>3. T = Nat
  <2> HIDE DEF T
  <2>1. T \in SUBSET Nat
    BY DEF T
  <2>2. QED
    BY <2>1, <1>1, <1>2, Numbers!SetInductionOnNat
<1>4. MaxRetry \in Nat
  BY StreamAssumption
<1> DEFINE d == CHOOSE g : g = [r \in 0..MaxRetry |-> Step(g, r)]
<1>5. d = [r \in 0..MaxRetry |-> Step(d, r)]
  <2>1. MaxRetry \in T
    BY <1>3, <1>4
  <2>2. \E g : g = [r \in 0..MaxRetry |-> Step(g, r)]
    BY <2>1
  <2> HIDE DEF Step
  <2>3. QED
    BY <2>2
<1>6. DoubledTimes(cap) = d
  BY DEF DoubledTimes
<1> HIDE DEF d, T
<1>7. d[0] = cap
  BY <1>4, <1>5
<1>8. ASSUME NEW r \in 0..(MaxRetry - 1) PROVE d[r + 1] = 2 * d[r]
  <2>1. r + 1 \in 0..MaxRetry /\ r + 1 # 0 /\ (r + 1) - 1 = r
    BY <1>4
  <2>2. QED
    BY <1>5, <2>1
<1>9. QED
  BY <1>4, <1>6, <1>7, <1>8

\* Trying again only enlarges a buffer, and a larger one gets as large as a smaller one.
LEMMA TriedIs ==
  ASSUME NEW cap \in Nat, NEW less \in Nat, less <= cap
  PROVE  \A r \in 0..MaxRetry :
           /\ DoubledTimes(cap)[r] \in Nat /\ DoubledTimes(cap)[r] >= cap
           /\ DoubledTimes(less)[r] \in Nat /\ DoubledTimes(less)[r] <= DoubledTimes(cap)[r]
<1> DEFINE d == DoubledTimes(cap)
           e == DoubledTimes(less)
           U == {r \in Nat : r <= MaxRetry => /\ d[r] \in Nat /\ d[r] >= cap
                                            /\ e[r] \in Nat /\ e[r] <= d[r]}
<1>1. /\ MaxRetry \in Nat /\ d[0] = cap /\ e[0] = less
      /\ \A r \in 0..(MaxRetry - 1) : d[r + 1] = 2 * d[r] /\ e[r + 1] = 2 * e[r]
  BY DoubledIs
<1> HIDE DEF d, e
<1>2. 0 \in U
  BY <1>1
<1>3. ASSUME NEW r \in U PROVE r + 1 \in U
  <2>1. ASSUME r + 1 <= MaxRetry
        PROVE  d[r + 1] \in Nat /\ d[r + 1] >= cap /\ e[r + 1] \in Nat /\ e[r + 1] <= d[r + 1]
    <3>1. r \in 0..(MaxRetry - 1) /\ d[r] \in Nat /\ d[r] >= cap /\ e[r] \in Nat /\ e[r] <= d[r]
      BY <1>1, <2>1
    <3>2. d[r + 1] = 2 * d[r] /\ e[r + 1] = 2 * e[r]
      BY <1>1, <3>1
    <3>3. QED
      BY <3>1, <3>2
  <2>2. QED
    BY <2>1
<1>4. U = Nat
  <2> HIDE DEF U
  <2>1. U \in SUBSET Nat
    BY DEF U
  <2>2. QED
    BY <2>1, <1>2, <1>3, Numbers!SetInductionOnNat
<1>5. ASSUME NEW r \in 0..MaxRetry
      PROVE  d[r] \in Nat /\ d[r] >= cap /\ e[r] \in Nat /\ e[r] <= d[r]
  BY <1>1, <1>4
<1>6. QED
  BY <1>5 DEF d, e

LEMMA ExpandedIs ==
  ASSUME NEW cap \in Nat, NEW data, Inflates(data, cap), NEW size, size = Size(Inflated(data))
  PROVE  Expanded(cap, size) \in Nat /\ Expanded(cap, size) >= cap /\ Expanded(cap, size) >= size
<1> DEFINE enough == {c \in Tried(cap) : c >= size}
<1>1. \A c \in Tried(cap) : c \in Nat /\ c >= cap
  <2>1. \A r \in 0..MaxRetry : DoubledTimes(cap)[r] \in Nat /\ DoubledTimes(cap)[r] >= cap
    BY TriedIs
  <2>2. QED
    BY <2>1 DEF Tried
<1>2. enough # {} /\ enough \in SUBSET Nat
  BY <1>1 DEF Inflates, Inflated
<1>3. \E c \in enough : \A d \in enough : c <= d
  BY <1>2, Numbers!LeastNumber
<1>4. \E c \in Tried(cap) : c >= size /\ \A d \in Tried(cap) : d >= size => c <= d
  BY <1>3
<1>5. Expanded(cap, size) \in Tried(cap) /\ Expanded(cap, size) >= size
  BY <1>4 DEF Expanded
<1>6. QED
  BY <1>1, <1>5

Statuses == {"idle", "decoding", "ok", "alias", "error", "crash", "overflow", "undefined"}

\* No filter was applied before decoding starts, and a buffer never shrinks.
TypeInv ==
  /\ source \in Buffers \union {"stream"} /\ out \in Buffers /\ live \subseteq Buffers
  /\ Len(chain) \in Nat
  /\ done \in 0..Len(chain) /\ (status = "idle" => done = 0)
  /\ caps \in [Buffers -> {c \in Nat : c >= BufLen}]
  /\ status \in Statuses

LEMMA SourceTarget ==
  ASSUME TypeInv PROVE Source \in Buffers \union {"stream"} /\ Target \in Buffers
BY OtherBuffer DEF TypeInv, Source, Target, Buffers

\* What a lookup finds is an object, or NULL, or nothing that was written.
LEMMA ContentIs ==
  ASSUME DictInv, dicts["a"] # NoDict, NEW key, GetValue2(dicts["a"], key) # Junk
  PROVE  LET val == GetValue2(dicts["a"], key) IN val # Null => Content(val) \in Objects
<1> DEFINE dict == dicts["a"]
           val == GetValue2(dict, key)
<1>1. "a" \in Names /\ DictOK(dict)
  BY DEF DictInv, Names
<1>2. ASSUME val # Null PROVE heap[val] \in Objects
  <2>1. HasKey(dict, key) /\ val \in Pointers /\ val = dict.vals[Position(dict, key)]
    BY <1>1, <1>2, GetValueIs
  <2>2. Position(dict, key) \in 1..Len(dict.keys)
    BY <2>1, <1>1, PositionIs
  <2>3. val \in Cells /\ heap[val] # Free
    BY <1>1, <1>2, <2>1, <2>2 DEF Pointers, DictInv, HeapOK
  <2>4. QED
    BY <2>3 DEF DictInv, HeapOK
<1>3. QED
  BY <1>2 DEF Content

LEMMA ChainIs ==
  ASSUME DictInv, dicts["a"] # NoDict,
         NEW filter, filter = Content(FilterOf(dicts["a"])), IsFilter(filter), FilterOf(dicts["a"]) # Junk,
         NEW parms
  PROVE  /\ Len(Items(filter)) \in Nat
         /\ \A i \in 1..Len(Items(filter)) : Items(filter)[i].name \in FilterNames
         /\ Len(Chain(filter, parms)) = Len(Items(filter))
<1> DEFINE val == FilterOf(dicts["a"])
<1>1. CASE val = Null
  <2>1. Items(filter) = <<>>
    BY <1>1 DEF Content, Items
  <2>2. QED
    BY <2>1 DEF Chain
<1>2. CASE val # Null
  <2>1. filter \in Objects
    BY <1>2, ContentIs DEF FilterOf
  <2> HIDE DEF val
  <2>2. CASE filter.t = "array"
    <3>1. Items(filter) = filter.items
      BY <2>2 DEF Items
    <3>2. /\ Len(filter.items) \in 0..FilterSlots
          /\ \A i \in 1..Len(filter.items) : IsItem(filter.items[i])
      BY <2>1, <2>2, FiltersAssumption
    <3>3. Len(filter.items) \in Nat
      BY <3>2 DEF FilterSlots
    <3>4. \A i \in 1..Len(filter.items) : filter.items[i].t = "name"
      BY <3>1 DEF IsFilter, AllAre
    <3>5. QED
      BY <3>1, <3>2, <3>3, <3>4 DEF IsItem, Chain
  <2>3. CASE filter.t # "array"
    <3>1. IsItem(filter)
      BY <2>1, <2>3, FiltersAssumption
    <3>2. filter.t = "name" /\ filter.name \in FilterNames
      BY <2>3, <3>1 DEF IsItem, IsFilter
    <3>3. Items(filter) = <<filter>>
      BY <3>2 DEF Items
    <3>4. Len(Items(filter)) = 1 /\ Items(filter)[1] = filter
      BY <3>3
    <3>5. QED
      BY <3>2, <3>4 DEF Chain
  <2>4. QED
    BY <2>2, <2>3
<1>3. QED
  BY <1>1, <1>2

LEMMA WriteTypeStep ==
  ASSUME TypeInv, done < Len(chain), status = "decoding", UNCHANGED chain,
         NEW data, NEW cap \in {c \in Nat : c >= BufLen}, Write(data, cap)
  PROVE  TypeInv'
<1>1. /\ caps' = [caps EXCEPT ![Target] = cap]
      /\ done' = done + 1 /\ source' = Source /\ out' = Target
      /\ UNCHANGED <<live, status, chain>>
  BY DEF Write
<1>2. done' \in 0..Len(chain)
  BY <1>1 DEF TypeInv
<1>3. caps' \in [Buffers -> {c \in Nat : c >= BufLen}]
  BY <1>1, SourceTarget DEF TypeInv
<1>4. QED
  BY <1>1, <1>2, <1>3, SourceTarget DEF TypeInv

LEMMA FailTypeStep == ASSUME TypeInv, NEW st \in Statuses \ {"idle"}, Fail(st), UNCHANGED chain PROVE TypeInv'
BY DEF TypeInv, Fail, bvars

LEMMA DecodeTypeStep ==
  ASSUME TypeInv, DictInv, NEW meaning \in Meanings, Decode(meaning)
  PROVE  TypeInv'
<1> DEFINE filter == Content(FilterOf(dicts["a"]))
           parms == Content(ParmsOf(dicts["a"]))
           refused == ~IsFilter(filter) \/ ~Agree(filter, parms)
           undefined == Junk \in {FilterOf(dicts["a"]), ParmsOf(dicts["a"])}
<1>1. status = "idle" /\ dicts["a"] # NoDict /\ done = 0
  BY DEF Decode, TypeInv
<1>2. CASE undefined \/ refused
  <2>1. (Return("undefined") \/ Return("error")) /\ chain' = chain
    BY <1>2 DEF Decode
  <2>2. QED
    BY <2>1 DEF Return, bvars, TypeInv, Statuses
<1>3. CASE ~(undefined \/ refused)
  <2>1. chain' = Chain(filter, parms)
    BY <1>3 DEF Decode
  <2>2. \/ Return("alias")
        \/ status' = "decoding" /\ live' = Buffers /\ UNCHANGED <<caps, done, source, out>>
    BY <1>3 DEF Decode
  <2>3. IsFilter(filter) /\ FilterOf(dicts["a"]) # Junk
    BY <1>3
  <2> HIDE DEF filter, parms
  <2>4. Len(chain') \in Nat
    BY <1>1, <2>1, <2>3, ChainIs DEF filter
  <2>5. UNCHANGED <<caps, done, source, out>> /\ live' \in {live, Buffers} /\ status' \in {"alias", "decoding"}
    BY <2>2 DEF Return, bvars
  <2>6. QED
    BY <1>1, <2>4, <2>5 DEF TypeInv, Statuses
<1>4. QED
  BY <1>2, <1>3

LEMMA FilterTypeStep == ASSUME TypeInv, Filter PROVE TypeInv'
<1> DEFINE next == chain[done + 1]
           data == held[Source]
           cap == caps[Target]
<1>1. status = "decoding" /\ done < Len(chain) /\ UNCHANGED chain
  BY DEF Filter
<1>2. cap \in Nat /\ cap >= BufLen
  BY SourceTarget DEF TypeInv
<1>3. \A st \in {"error", "crash", "overflow"} : Fail(st) => TypeInv'
  BY <1>1, FailTypeStep DEF Statuses
<1> HIDE DEF next, data, cap
<1>4. CASE Inflate(next.parms, data, cap)
  <2>1. CASE Inflates(data, cap) /\ Write(Inflated(data), Expanded(cap, Size(Inflated(data))))
    <3>1. Expanded(cap, Size(Inflated(data))) \in {c \in Nat : c >= BufLen}
      BY <1>2, <2>1, ExpandedIs, StreamAssumption
    <3>2. QED
      BY <1>1, <2>1, <3>1, WriteTypeStep
  <2>2. QED
    BY <1>3, <1>4, <2>1 DEF Inflate
<1>5. CASE InflateRows(next.parms, data, cap)
  BY <1>1, <1>2, <1>3, <1>5, WriteTypeStep DEF InflateRows
<1>6. CASE OtherPredictor(next.parms) \/ Fail("error") \/ Fail("crash")
  BY <1>3, <1>6 DEF OtherPredictor
<1>7. QED
  BY <1>4, <1>5, <1>6 DEF Filter, next, data, cap

LEMMA TypeInvariant == StreamSpec => []TypeInv
<1>1. StreamInit => TypeInv
  <2> SUFFICES ASSUME StreamInit PROVE TypeInv
    OBVIOUS
  <2>1. caps \in [Buffers -> {c \in Nat : c >= BufLen}]
    BY StreamAssumption DEF StreamInit
  <2>2. Len(chain) = 0
    BY DEF StreamInit
  <2>3. QED
    BY <2>1, <2>2 DEF StreamInit, TypeInv, Buffers, Statuses
<1>2. TypeInv /\ DictInv /\ [StreamNext]_svars => TypeInv'
  <2> SUFFICES ASSUME TypeInv, DictInv, [StreamNext]_svars PROVE TypeInv'
    OBVIOUS
  <2>1. CASE Edit \/ UNCHANGED svars
    BY <2>1 DEF Edit, svars, bvars, TypeInv
  <2>2. CASE Finish
    BY <2>2 DEF Finish, TypeInv, Statuses
  <2>3. CASE Done
    <3>1. caps' \in [Buffers -> {c \in Nat : c >= BufLen}]
      BY <2>3, StreamAssumption DEF Done
    <3>2. Len(chain') = 0
      BY <2>3 DEF Done
    <3>3. QED
      BY <2>3, <3>1, <3>2 DEF Done, TypeInv, Buffers, Statuses
  <2>4. QED
    BY <2>1, <2>2, <2>3, DecodeTypeStep, FilterTypeStep DEF StreamNext
<1>3. QED
  BY <1>1, <1>2, DictInvariant, PTL DEF StreamSpec

\* Through any edits and any filters the variables keep their types: no index leaves the
\* chain of filters, and no buffer gets smaller than the code allocates it.
THEOREM TypeCorrect == StreamSpec => []TypeOK
<1>1. TypeInv /\ DictInv => TypeOK
  <2> SUFFICES ASSUME TypeInv, DictInv PROVE TypeOK
    OBVIOUS
  <2>1. ASSUME NEW d \in Names
        PROVE  /\ dicts[d].keys \in Seq(Keys)
               /\ dicts[d].cap \in Nat /\ Len(dicts[d].keys) <= dicts[d].cap
               /\ \A i \in DOMAIN dicts[d].vals : dicts[d].vals[i] \in Cells \union {Null, Junk}
    <3>1. CASE dicts[d] = NoDict
      <4>1. NoDict.keys = <<>> /\ NoDict.cap = 0 /\ NoDict.vals = <<>>
        BY DEF NoDict
      <4>2. QED
        BY <3>1, <4>1
    <3>2. CASE DictOK(dicts[d])
      BY <3>2 DEF DictOK, Pointers
    <3>3. QED
      BY <3>1, <3>2 DEF DictInv
  <2>2. DOMAIN heap = Cells
    BY DEF DictInv, HeapOK
  <2>3. DictTypeOK
    BY <2>1, <2>2 DEF DictTypeOK
  <2>4. \A b \in Buffers : caps[b] \in Nat /\ caps[b] >= BufLen
    BY DEF TypeInv
  <2>5. QED
    BY <2>3, <2>4 DEF TypeInv, TypeOK, Statuses
<1>2. QED
  BY <1>1, TypeInvariant, DictInvariant, PTL

-----------------------------------------------------------------------------
(* Dictionaries are maps                                                   *)

\* The map that a dictionary stands for in a heap.
MapIn(h, dict) ==
  [key \in {k \in Keys : HasKey(dict, k)} |->
     LET val == GetValue2(dict, key) IN IF val = Null THEN Null ELSE h[val]]

MapNow(d) == IF dicts[d] = NoDict THEN NoMap ELSE MapIn(heap, dicts[d])

LEMMA MapsNow == AllMaps = [d \in Names |-> MapNow(d)]
BY DEF AllMaps, MapOf, MapNow, MapIn

LEMMA PositionIsFirst ==
  ASSUME NEW dict, DictOK(dict), NEW key, NEW i \in 1..Len(dict.keys), dict.keys[i] = key,
         \A j \in 1..(i - 1) : dict.keys[j] # key
  PROVE  HasKey(dict, key) /\ Position(dict, key) = i
<1> DEFINE p == Position(dict, key)
           n == Len(dict.keys)
<1>1. HasKey(dict, key)
  BY DEF HasKey, DictOK
<1>2. n \in Nat /\ p \in 1..n /\ dict.keys[p] = key /\ \A j \in 1..(p - 1) : dict.keys[j] # key
  BY <1>1, PositionIs
<1> HIDE DEF p
<1>3. ~(i < p) /\ ~(p < i)
  <2>1. i < p => i \in 1..(p - 1)
    BY <1>2
  <2>2. p < i => p \in 1..(i - 1)
    BY <1>2
  <2>3. QED
    BY <1>2, <2>1, <2>2
<1>4. QED
  BY <1>1, <1>2, <1>3 DEF p

\* What pindf_dict_set_value makes of a dictionary.
Put(dict, key, val) ==
  IF HasKey(dict, key) THEN [dict EXCEPT !.vals[Position(dict, key)] = val] ELSE AppendPair(dict, key, val)

\* Only the key that is set is looked up with another result.
LEMMA PutIs ==
  ASSUME NEW dict, DictOK(dict), NEW key \in Keys, NEW val \in Pointers
  PROVE  LET new == Put(dict, key, val) IN
         /\ \A k : HasKey(new, k) <=> HasKey(dict, k) \/ k = key
         /\ \A k : HasKey(new, k) => GetValue2(new, k) = IF k = key THEN val ELSE GetValue2(dict, k)
<1> DEFINE new == Put(dict, key, val)
           n == Len(dict.keys)
           p == Position(dict, key)
<1>1. n \in Nat /\ DOMAIN dict.keys = 1..n /\ dict.keys \in Seq(Keys)
  BY DEF DictOK
<1>2. CASE HasKey(dict, key)
  <2>1. p \in 1..n /\ dict.keys[p] = key
    BY <1>2, PositionIs
  <2>2. new = [dict EXCEPT !.vals[p] = val]
    BY <1>2 DEF Put
  <2> HIDE DEF new, p
  <2>3. DictOK(new) /\ new.keys = dict.keys
        /\ \A j \in 1..n : new.vals[j] = IF j = p THEN val ELSE dict.vals[j]
    BY <2>1, <2>2, PutOK
  <2>4. ASSUME NEW k PROVE (HasKey(new, k) <=> HasKey(dict, k)) /\ Position(new, k) = Position(dict, k)
    BY <2>3 DEF HasKey, Position
  <2>5. ASSUME NEW k, HasKey(new, k) PROVE GetValue2(new, k) = IF k = key THEN val ELSE GetValue2(dict, k)
    <3> DEFINE q == Position(dict, k)
    <3>1. q \in 1..n /\ dict.keys[q] = k
      BY <2>4, <2>5, PositionIs
    <3>2. GetValue2(new, k) = new.vals[q] /\ GetValue2(dict, k) = dict.vals[q]
      BY <2>3, <2>4, <2>5, GetValueIs
    <3>3. q = p <=> k = key
      BY <2>1, <3>1 DEF p
    <3> HIDE DEF q
    <3>4. QED
      BY <2>3, <3>1, <3>2, <3>3
  <2>6. QED
    BY <1>2, <2>4, <2>5 DEF new
<1>3. CASE ~HasKey(dict, key)
  <2>1. new = AppendPair(dict, key, val)
    BY <1>3 DEF Put
  <2>2. \A i \in 1..n : dict.keys[i] # key
    BY <1>3, PositionIs
  <2> HIDE DEF new
  <2>3. /\ DictOK(new) /\ new.keys = Append(dict.keys, key)
        /\ \A i \in 1..n : new.vals[i] = dict.vals[i]
        /\ new.vals[n + 1] = val
    BY <2>1, AppendOK
  <2>4. /\ Len(new.keys) = n + 1 /\ new.keys[n + 1] = key /\ n + 1 \in 1..(n + 1)
        /\ \A i \in 1..n : new.keys[i] = dict.keys[i] /\ i \in 1..(n + 1)
    BY <1>1, <2>3
  <2>5. HasKey(new, key) /\ GetValue2(new, key) = val
    <3>1. \A j \in 1..((n + 1) - 1) : new.keys[j] # key
      BY <1>1, <2>2, <2>4
    <3>2. HasKey(new, key) /\ Position(new, key) = n + 1
      BY <2>3, <2>4, <3>1, PositionIsFirst
    <3>3. QED
      BY <2>3, <3>2, GetValueIs
  <2>6. ASSUME NEW k, HasKey(dict, k) PROVE HasKey(new, k) /\ GetValue2(new, k) = GetValue2(dict, k)
    <3> DEFINE q == Position(dict, k)
    <3>1. q \in 1..n /\ dict.keys[q] = k /\ \A j \in 1..(q - 1) : dict.keys[j] # k
      BY <2>6, PositionIs
    <3> HIDE DEF q
    <3>2. \A j \in 1..(q - 1) : j \in 1..n
      BY <1>1, <3>1
    <3>3. q \in 1..Len(new.keys) /\ new.keys[q] = k /\ \A j \in 1..(q - 1) : new.keys[j] # k
      BY <2>4, <3>1, <3>2
    <3>4. HasKey(new, k) /\ Position(new, k) = q
      BY <2>3, <3>3, PositionIsFirst
    <3>5. GetValue2(new, k) = new.vals[q] /\ GetValue2(dict, k) = dict.vals[q]
      BY <2>3, <2>6, <3>4, GetValueIs DEF q
    <3>6. QED
      BY <2>3, <3>1, <3>4, <3>5
  <2>7. ASSUME NEW k, HasKey(new, k), k # key PROVE HasKey(dict, k)
    <3>1. PICK i \in 1..(n + 1) : new.keys[i] = k
      BY <2>3, <2>4, <2>7 DEF HasKey, DictOK
    <3>2. i \in 1..n
      BY <1>1, <2>4, <2>7, <3>1
    <3>3. QED
      BY <1>1, <2>4, <3>1, <3>2 DEF HasKey
  <2>8. QED
    BY <1>3, <2>5, <2>6, <2>7 DEF new
<1>4. QED
  BY <1>2, <1>3

\* The objects that lookups find are on the heap.
AllUsed ==
  \A d \in Names : \A k :
    HasKey(dicts[d], k) /\ GetValue2(dicts[d], k) # Null =>
      /\ GetValue2(dicts[d], k) \in Cells
      /\ heap[GetValue2(dicts[d], k)] \in Objects /\ heap[GetValue2(dicts[d], k)] # Free

LEMMA ValuesAreUsed == DictInv => AllUsed
<1> SUFFICES ASSUME DictInv, NEW d \in Names, NEW k, HasKey(dicts[d], k), GetValue2(dicts[d], k) # Null
             PROVE  LET v == GetValue2(dicts[d], k) IN v \in Cells /\ heap[v] \in Objects /\ heap[v] # Free
  BY DEF AllUsed
<1> DEFINE dict == dicts[d]
           p == Position(dict, k)
           v == GetValue2(dict, k)
<1>1. DictOK(dict)
  <2>1. ~HasKey(NoDict, k)
    BY DEF HasKey, NoDict
  <2>2. QED
    BY <2>1 DEF DictInv
<1>2. p \in 1..Len(dict.keys) /\ v = dict.vals[p] /\ v \in Pointers
  BY <1>1, PositionIs, GetValueIs
<1> HIDE DEF p, v
<1>3. v \in Cells
  BY <1>2 DEF Pointers, v
<1>4. heap[v] # Free
  BY <1>2, <1>3 DEF DictInv, HeapOK
<1>5. heap[v] \in Objects
  BY <1>3, <1>4 DEF DictInv, HeapOK
<1>6. QED
  BY <1>3, <1>4, <1>5 DEF v

\* No step writes to an object that stays.
ObjectsStay == \A c \in Cells : heap[c] # Free /\ heap'[c] # Free => heap'[c] = heap[c]

LEMMA MapsAre ==
  ASSUME DictInv, NEW d \in Names
  PROVE  MapNow(d) = NoMap <=> dicts[d] = NoDict
<1>1. AllUsed
  BY ValuesAreUsed
<1> DEFINE ks == {k \in Keys : HasKey(dicts[d], k)}
<1>2. \A k \in ks : MapIn(heap, dicts[d])[k] \in MapValues
  BY <1>1 DEF MapIn, AllUsed, MapValues
<1>3. MapIn(heap, dicts[d]) \in [ks -> MapValues]
  BY <1>2 DEF MapIn
<1>4. ks \in SUBSET Keys
  OBVIOUS
<1> HIDE DEF ks
<1>5. MapIn(heap, dicts[d]) # NoMap
  BY <1>3, <1>4, NoMapAssumption
<1>6. QED
  BY <1>5 DEF MapNow

\* A dictionary that a step leaves alone stands for the same map.
LEMMA OthersStay ==
  ASSUME AllUsed, AllUsed', ObjectsStay, NEW d \in Names, dicts'[d] = dicts[d]
  PROVE  MapNow(d)' = MapNow(d)
<1> DEFINE dict == dicts[d]
           dict2 == dicts'[d]
<1>1. ASSUME NEW k, HasKey(dict, k), GetValue2(dict, k) # Null
      PROVE  heap'[GetValue2(dict, k)] = heap[GetValue2(dict, k)]
  <2>1. GetValue2(dict, k) \in Cells /\ heap[GetValue2(dict, k)] # Free
    BY <1>1 DEF AllUsed
  <2>2. heap'[GetValue2(dict, k)] # Free
    BY <1>1 DEF AllUsed
  <2>3. QED
    BY <2>1, <2>2 DEF ObjectsStay
<1>2. MapIn(heap', dict) = MapIn(heap, dict)
  BY <1>1 DEF MapIn
<1>3. MapNow(d)' = IF dicts'[d] = NoDict THEN NoMap ELSE MapIn(heap', dicts'[d])
  BY DEF MapNow, MapIn
<1>4. QED
  BY <1>2, <1>3 DEF MapNow

\* One dictionary changes.
LEMMA OneChanges ==
  ASSUME AllUsed, AllUsed', ObjectsStay, NEW d \in Names, NEW m, MapNow(d)' = m,
         \A e \in Names : e # d => dicts'[e] = dicts[e]
  PROVE  AllMaps' = [AllMaps EXCEPT ![d] = m]
<1>1. \A e \in Names : e # d => MapNow(e)' = MapNow(e)
  BY OthersStay
<1>2. AllMaps = [e \in Names |-> MapNow(e)] /\ AllMaps' = [e \in Names |-> MapNow(e)']
  <2>1. AllMaps' = [e \in Names |-> MapNow(e)']
    BY DEF AllMaps, MapOf, MapNow, MapIn
  <2>2. QED
    BY <2>1, MapsNow
<1>3. QED
  BY <1>1, <1>2

LEMMA MadeStays ==
  ASSUME NEW places \in SUBSET Nat, NEW cs \in FreshCells(places), NEW content, heap' = Made(cs, content)
  PROVE  ObjectsStay
<1>1. /\ \A i \in places : heap[cs[i]] = Free
      /\ \A c \in Cells : (\A i \in places : cs[i] # c) => heap'[c] = heap[c]
  BY FreshCellsAre, MadeIs
<1>2. QED
  BY <1>1 DEF ObjectsStay

LEMMA ParseMap ==
  ASSUME DictInv, NEW d \in Names, NEW pairs \in ParsedDicts, Parse(d, pairs)
  PROVE  /\ ObjectsStay /\ MapNow(d)' \in FileMaps
         /\ \A e \in Names : e # d => dicts'[e] = dicts[e]
<1> DEFINE keys == [i \in 1..Len(pairs) |-> pairs[i][1]]
           contents == [i \in 1..Len(pairs) |-> pairs[i][2]]
           n == Len(pairs)
           cap == Len(pairs) + 2
           new(cs) == Filled(cap, keys, cs)
<1>1. n \in Nat /\ \A i \in 1..n : pairs[i][1] \in Keys
  BY ContentsAssumption
<1>2. PICK cs \in FreshCells(1..n) :
        heap' = Made(cs, contents) /\ dicts' = [dicts EXCEPT ![d] = new(cs)]
  BY DEF Parse
<1>3. keys \in Seq(Keys) /\ Len(keys) = n /\ cap \in Nat \ {0}
      /\ \A i \in 1..n : keys[i] = pairs[i][1] /\ contents[i] = pairs[i][2]
  BY <1>1
<1>4. \A i \in 1..n : cs[i] \in Cells /\ heap'[cs[i]] = pairs[i][2]
  BY <1>2, <1>3, FreshCellsAre, MadeIs
<1>5. ObjectsStay
  <2> HIDE DEF contents
  <2>1. QED
    BY <1>1, <1>2, MadeStays
<1> HIDE DEF keys, contents, cap
<1> DEFINE dict == new(cs)
<1>6. /\ DictOK(dict) /\ dict.keys = keys
      /\ \A i \in 1..n : dict.vals[i] = cs[i]
  <2>1. \A i \in 1..Len(keys) : cs[i] \in Pointers
    BY <1>3, <1>4 DEF Pointers
  <2>2. LET filled == Filled(cap, keys, cs) IN
        DictOK(filled) /\ filled.keys = keys /\ \A i \in 1..Len(keys) : filled.vals[i] = cs[i]
    BY <1>3, <2>1, FilledOK
  <2>3. QED
    BY <1>3, <2>2
<1>7. /\ dicts'[d] = dict
      /\ \A e \in Names : e # d => dicts'[e] = dicts[e]
  BY <1>2 DEF DictInv
<1> HIDE DEF dict
<1> DEFINE m == [k \in {pairs[i][1] : i \in 1..n} |-> pairs[FirstOf(pairs, k)][2]]
<1>8. ASSUME NEW k, HasKey(dict, k)
      PROVE  /\ k \in {pairs[i][1] : i \in 1..n}
             /\ GetValue2(dict, k) \in Cells /\ heap'[GetValue2(dict, k)] = pairs[FirstOf(pairs, k)][2]
  <2> DEFINE p == Position(dict, k)
  <2>1. p \in 1..n /\ keys[p] = k /\ \A j \in 1..(p - 1) : keys[j] # k
    BY <1>3, <1>6, <1>8, PositionIs
  <2>2. GetValue2(dict, k) = dict.vals[p]
    BY <1>6, <1>8, GetValueIs
  <2> HIDE DEF p
  <2>3. \A j \in 1..(p - 1) : j \in 1..n
    BY <1>1, <2>1
  <2>4. p \in 1..n /\ pairs[p][1] = k /\ \A j \in 1..(p - 1) : pairs[j][1] # k
    BY <1>3, <2>1, <2>3
  <2> DEFINE First(i) == pairs[i][1] = k /\ \A j \in 1..(i - 1) : pairs[j][1] # k
             f == CHOOSE i \in 1..n : First(i)
  <2>5. f \in 1..n /\ First(f)
    BY <2>4
  <2>6. f = p
    <3>1. f \in 1..n /\ pairs[f][1] = k /\ \A j \in 1..(f - 1) : pairs[j][1] # k
      BY <2>5
    <3> HIDE DEF f, First
    <3>2. ~(f < p) /\ ~(p < f)
      <4>1. f < p => f \in 1..(p - 1)
        BY <1>1, <2>4, <3>1
      <4>2. p < f => p \in 1..(f - 1)
        BY <1>1, <2>4, <3>1
      <4>3. QED
        BY <2>4, <3>1, <4>1, <4>2
    <3>3. QED
      BY <1>1, <2>4, <3>1, <3>2
  <2>7. FirstOf(pairs, k) = p
    BY <2>6 DEF FirstOf
  <2>8. QED
    BY <1>4, <1>6, <2>2, <2>4, <2>7
<1>9. ASSUME NEW i \in 1..n PROVE HasKey(dict, pairs[i][1]) /\ pairs[i][1] \in Keys
  <2>1. DOMAIN dict.keys = 1..n
    BY <1>3, <1>6
  <2>2. QED
    BY <1>1, <1>3, <1>6, <2>1 DEF HasKey
<1>10. {k \in Keys : HasKey(dict, k)} = {pairs[i][1] : i \in 1..n}
  BY <1>8, <1>9
<1>11. MapIn(heap', dict) = m
  <2>1. Null \notin Cells
    BY CellsAssumption DEF Cells
  <2> DEFINE ks == {k \in Keys : HasKey(dict, k)}
  <2>2. \A k \in ks : (LET val == GetValue2(dict, k) IN IF val = Null THEN Null ELSE heap'[val])
                        = pairs[FirstOf(pairs, k)][2]
    BY <1>8, <2>1
  <2>3. MapIn(heap', dict) = [k \in ks |-> pairs[FirstOf(pairs, k)][2]]
    BY <2>2 DEF MapIn
  <2> HIDE DEF ks
  <2>4. ks = {pairs[i][1] : i \in 1..n}
    BY <1>10 DEF ks
  <2>5. QED
    BY <2>3, <2>4
<1>12. dict # NoDict
  BY <1>6, NoDictIsEmpty
<1>13. MapNow(d)' = MapIn(heap', dict)
  BY <1>7, <1>12 DEF MapNow, MapIn
<1>14. m \in FileMaps
  BY DEF FileMaps
<1>15. QED
  BY <1>5, <1>7, <1>11, <1>13, <1>14

LEMMA NewMap ==
  ASSUME DictInv, NEW d \in Names, New(d)
  PROVE  /\ ObjectsStay /\ MapNow(d)' = [k \in {} |-> Null]
         /\ \A e \in Names : e # d => dicts'[e] = dicts[e]
<1> DEFINE new == NewDict(FreshCap)
<1>1. new.keys = <<>> /\ new # NoDict
  BY NewDictOK, FreshCapAssumption, NoDictIsEmpty
<1>2. heap' = heap /\ dicts'[d] = new /\ \A e \in Names : e # d => dicts'[e] = dicts[e]
  BY DEF New, DictInv
<1>3. {k \in Keys : HasKey(new, k)} = {}
  BY <1>1 DEF HasKey
<1> HIDE DEF new
<1>4. MapIn(heap', new) = [k \in {} |-> Null]
  BY <1>3 DEF MapIn
<1>5. MapNow(d)' = MapIn(heap', new)
  BY <1>1, <1>2 DEF MapNow, MapIn
<1>6. QED
  BY <1>2, <1>4, <1>5 DEF ObjectsStay

\* A key that is set stands for what its new object holds, the others for what they did.
LEMMA SetMap ==
  ASSUME DictInv, AllUsed, AllUsed', NEW d \in Names, DictOK(dicts[d]), NEW key \in Keys,
         NEW val \in Pointers, NEW made, SetPointer(d, key, val, made),
         \A c \in Cells : c # val => made[c] = heap[c],
         val # Null => heap[val] = Free, made = [c \in Cells |-> made[c]]
  PROVE  /\ ObjectsStay
         /\ MapNow(d)' = Maps!Update(MapNow(d), key, IF val = Null THEN Null ELSE made[val])
         /\ \A e \in Names : e # d => dicts'[e] = dicts[e]
<1> DEFINE dict == dicts[d]
           new == Put(dict, key, val)
           held0 == IF val = Null THEN Null ELSE made[val]
<1>1. Null \notin Cells /\ dicts = [e \in Names |-> dicts[e]] /\ dict # NoDict
  BY CellsAssumption, NoDictIsEmpty DEF DictInv, Cells
<1>2. /\ dicts' = [dicts EXCEPT ![d] = new]
      /\ \A c \in Cells : heap'[c] = Free \/ heap'[c] = made[c]
      /\ val # Null => heap'[val] = made[val]
  <2>1. CASE HasKey(dict, key)
    <3> DEFINE p == Position(dict, key)
    <3>1. /\ heap' = [c \in Cells |-> IF c \in Replaced(dict.vals[p], val) THEN Free ELSE made[c]]
          /\ dicts' = [dicts EXCEPT ![d].vals[p] = val]
      BY <2>1 DEF SetPointer
    <3>2. val \notin Replaced(dict.vals[p], val)
      BY DEF Replaced
    <3>3. val # Null => val \in Cells
      BY DEF Pointers
    <3>4. dicts' = [dicts EXCEPT ![d] = new]
      BY <2>1, <3>1 DEF Put
    <3> HIDE DEF p, new
    <3>5. QED
      BY <3>1, <3>2, <3>3, <3>4
  <2>2. CASE ~HasKey(dict, key)
    <3>1. heap' = made /\ dicts' = [dicts EXCEPT ![d] = AppendPair(@, key, val)]
      BY <2>2 DEF SetPointer
    <3>2. dicts' = [dicts EXCEPT ![d] = new]
      BY <2>2, <3>1 DEF Put
    <3> HIDE DEF new
    <3>3. QED
      BY <3>1, <3>2
  <2>3. QED
    BY <2>1, <2>2
<1>3. ObjectsStay
  <2> SUFFICES ASSUME NEW c \in Cells, heap[c] # Free, heap'[c] # Free PROVE heap'[c] = heap[c]
    BY DEF ObjectsStay
  <2>1. c # val
    BY <1>1
  <2>2. QED
    BY <1>2, <2>1
<1>4. /\ \A k : HasKey(new, k) <=> HasKey(dict, k) \/ k = key
      /\ \A k : HasKey(new, k) => GetValue2(new, k) = IF k = key THEN val ELSE GetValue2(dict, k)
  BY PutIs
<1>5. new # NoDict
  <2>1. HasKey(new, key)
    BY <1>4
  <2>2. ~HasKey(NoDict, key)
    BY DEF HasKey, NoDict
  <2>3. QED
    BY <2>1, <2>2
<1>6. dicts'[d] = new /\ \A e \in Names : e # d => dicts'[e] = dicts[e]
  BY <1>1, <1>2
<1> HIDE DEF new
<1>7. MapNow(d)' = MapIn(heap', new)
  BY <1>5, <1>6 DEF MapNow, MapIn
<1> DEFINE At(k) == LET v == GetValue2(dict, k) IN IF v = Null THEN Null ELSE heap[v]
           At2(k) == LET v == GetValue2(new, k) IN IF v = Null THEN Null ELSE heap'[v]
           ks == {k \in Keys : HasKey(dict, k)}
           ks2 == {k \in Keys : HasKey(new, k)}
<1>8. MapNow(d) = [k \in ks |-> At(k)] /\ MapIn(heap', new) = [k \in ks2 |-> At2(k)]
  BY <1>1 DEF MapNow, MapIn
<1>9. ks2 = ks \union {key}
  BY <1>4
<1>10. ASSUME NEW k \in ks2 PROVE At2(k) = IF k = key THEN held0 ELSE At(k)
  <2>1. HasKey(new, k)
    OBVIOUS
  <2>2. CASE k = key
    <3>1. GetValue2(new, k) = val
      BY <1>4, <2>1, <2>2
    <3>2. QED
      BY <1>2, <2>2, <3>1
  <2>3. CASE k # key
    <3> DEFINE v == GetValue2(dict, k)
    <3>1. GetValue2(new, k) = v /\ HasKey(dict, k)
      BY <1>4, <2>1, <2>3
    <3>2. ASSUME v # Null PROVE heap'[v] = heap[v]
      <4>1. v \in Cells /\ heap[v] # Free
        BY <3>1, <3>2 DEF AllUsed
      <4>2. heap'[v] # Free
        BY <1>6, <2>1, <3>1, <3>2 DEF AllUsed
      <4>3. QED
        BY <1>3, <4>1, <4>2 DEF ObjectsStay
    <3> HIDE DEF v
    <3>3. At2(k) = IF v = Null THEN Null ELSE heap'[v]
      BY <3>1
    <3>4. At(k) = IF v = Null THEN Null ELSE heap[v]
      BY DEF v
    <3> HIDE DEF At, At2
    <3>5. QED
      BY <2>3, <3>2, <3>3, <3>4
  <2>4. QED
    BY <2>2, <2>3
<1> HIDE DEF At, At2, ks, ks2, held0
<1>11. MapIn(heap', new) = [k \in ks \union {key} |-> IF k = key THEN held0 ELSE At(k)]
  BY <1>8, <1>9, <1>10
<1>12. Maps!Update(MapNow(d), key, held0) = [k \in ks \union {key} |-> IF k = key THEN held0 ELSE At(k)]
  BY <1>8 DEF Maps!Update
<1>13. QED
  BY <1>3, <1>6, <1>7, <1>11, <1>12 DEF held0

LEMMA SetNewMap ==
  ASSUME DictInv, AllUsed, AllUsed', NEW d \in Names, NEW key \in EditKeys, NEW content \in Contents,
         SetNew(d, key, content)
  PROVE  /\ ObjectsStay /\ MapNow(d)' = Maps!Update(MapNow(d), key, content)
         /\ \A e \in Names : e # d => dicts'[e] = dicts[e]
<1>1. DictOK(dicts[d])
  BY DEF SetNew, DictInv
<1>2. PICK cs \in FreshCells({1}) : SetPointer(d, key, cs[1], [heap EXCEPT ![cs[1]] = content])
  BY DEF SetNew
<1>3. cs[1] \in Cells /\ heap[cs[1]] = Free
  BY <1>2, FreshCellsAre
<1> DEFINE val == cs[1]
           made == [heap EXCEPT ![val] = content]
<1>4. heap = [c \in Cells |-> heap[c]] /\ Null \notin Cells
  BY CellsAssumption DEF DictInv, HeapOK, Cells
<1>5. /\ made = [c \in Cells |-> made[c]] /\ made[val] = content /\ val # Null
      /\ \A c \in Cells : c # val => made[c] = heap[c]
  BY <1>3, <1>4
<1>6. key \in Keys /\ SetPointer(d, key, val, made)
  BY <1>2, ContentsAssumption
<1>7. val \in Pointers /\ heap[val] = Free
  BY <1>3 DEF Pointers
<1> HIDE DEF val, made
<1>8. QED
  BY <1>1, <1>5, <1>6, <1>7, SetMap

LEMMA SetNullMap ==
  ASSUME DictInv, AllUsed, AllUsed', NEW d \in Names, NEW key \in EditKeys, SetNull(d, key)
  PROVE  /\ ObjectsStay /\ MapNow(d)' = Maps!Update(MapNow(d), key, Null)
         /\ \A e \in Names : e # d => dicts'[e] = dicts[e]
<1>1. DictOK(dicts[d]) /\ SetPointer(d, key, Null, heap)
  BY DEF SetNull, DictInv
<1>2. key \in Keys /\ heap = [c \in Cells |-> heap[c]] /\ Null \in Pointers
  BY ContentsAssumption DEF DictInv, HeapOK, Pointers
<1>3. QED
  BY <1>1, <1>2, SetMap

\* An object that is set where it is already is neither freed nor moved.
LEMMA SetSameStutters ==
  ASSUME DictInv, NEW d \in Names, NEW key, SetSame(d, key)
  PROVE  UNCHANGED dvars
<1> DEFINE dict == dicts[d]
           p == Position(dict, key)
           val == GetValue2(dict, key)
<1>1. HasKey(dict, key) /\ SetPointer(d, key, val, heap)
  BY DEF SetSame
<1>2. DictOK(dict)
  <2>1. ~HasKey(NoDict, key)
    BY DEF HasKey, NoDict
  <2>2. QED
    BY <1>1, <2>1 DEF DictInv
<1>3. val = dict.vals[p] /\ p \in 1..(dict.cap + 1) /\ p \in 1..Len(dict.keys)
  <2>1. val = dict.vals[p] /\ p \in 1..Len(dict.keys)
    BY <1>1, <1>2, PositionIs, GetValueIs
  <2>2. dict.cap \in Nat /\ Len(dict.keys) \in Nat /\ Len(dict.keys) <= dict.cap
    BY <1>2 DEF DictOK
  <2> HIDE DEF p, val
  <2>3. QED
    BY <2>1, <2>2
<1>4. /\ heap' = [c \in Cells |-> IF c \in Replaced(dict.vals[p], val) THEN Free ELSE heap[c]]
      /\ dicts' = [dicts EXCEPT ![d].vals[p] = val]
  BY <1>1 DEF SetPointer
<1> HIDE DEF p, val
<1>5. Replaced(dict.vals[p], val) = {}
  BY <1>3 DEF Replaced
<1>6. heap' = heap
  BY <1>4, <1>5 DEF DictInv, HeapOK
<1>7. [dict EXCEPT !.vals[p] = val] = dict
  <2>1. dict = [cap |-> dict.cap, born |-> dict.born, keys |-> dict.keys, vals |-> dict.vals]
        /\ dict.vals \in [1..(dict.cap + 1) -> Pointers \union {Junk}]
    BY <1>2 DEF DictOK
  <2>2. [dict.vals EXCEPT ![p] = val] = dict.vals
    BY <1>3, <2>1
  <2>3. QED
    BY <2>1, <2>2
<1>8. dicts' = dicts
  <2>1. dicts' = [dicts EXCEPT ![d] = [dict EXCEPT !.vals[p] = val]]
    BY <1>4
  <2>2. QED
    BY <1>7, <2>1 DEF DictInv
<1>9. QED
  BY <1>6, <1>8 DEF dvars

LEMMA DeepCopyMap ==
  ASSUME DictInv, NEW d \in Names, NEW s \in Names, DeepCopy(s, d)
  PROVE  /\ ObjectsStay /\ MapNow(d)' = MapNow(s)
         /\ \A e \in Names : e # d => dicts'[e] = dicts[e]
<1> DEFINE src == dicts[s]
           n == Len(src.keys)
           valued == {i \in DOMAIN src.keys : src.vals[i] # Null}
           contents == [i \in valued |-> heap[src.vals[i]]]
           vals(cs) == [i \in DOMAIN src.keys |-> IF i \in valued THEN cs[i] ELSE Null]
           new(cs) == Filled(FreshCap, src.keys, vals(cs))
<1>1. DictOK(src) /\ src # NoDict
  BY DEF DeepCopy, DictInv
<1>2. PICK cs \in FreshCells(valued) :
        heap' = Made(cs, contents) /\ dicts' = [dicts EXCEPT ![d] = new(cs)]
  BY DEF DeepCopy
<1>3. src.keys \in Seq(Keys) /\ DOMAIN src.keys = 1..n /\ valued \in SUBSET Nat
  BY <1>1 DEF DictOK
<1>4. \A i \in valued : cs[i] \in Cells /\ heap'[cs[i]] = heap[src.vals[i]]
  BY <1>2, <1>3, FreshCellsAre, MadeIs
<1>5. ObjectsStay
  <2> HIDE DEF contents, valued
  <2>1. QED
    BY <1>2, <1>3, MadeStays
<1>6. /\ \A i \in 1..n : vals(cs)[i] \in Pointers
      /\ \A i \in 1..n : IF src.vals[i] = Null THEN vals(cs)[i] = Null
                         ELSE vals(cs)[i] \in Cells /\ heap'[vals(cs)[i]] = heap[src.vals[i]]
  BY <1>3, <1>4 DEF Pointers
<1> HIDE DEF vals, valued, contents
<1> DEFINE dict == new(cs)
<1>7. /\ DictOK(dict) /\ dict.keys = src.keys
      /\ \A i \in 1..n : dict.vals[i] = vals(cs)[i]
  BY <1>3, <1>6, FilledOK, FreshCapAssumption
<1>8. /\ dicts'[d] = dict
      /\ \A e \in Names : e # d => dicts'[e] = dicts[e]
  BY <1>2 DEF DictInv
<1> HIDE DEF dict
<1>9. \A k : (HasKey(dict, k) <=> HasKey(src, k)) /\ Position(dict, k) = Position(src, k)
  BY <1>7 DEF HasKey, Position
<1> DEFINE At(k) == LET v == GetValue2(src, k) IN IF v = Null THEN Null ELSE heap[v]
           At2(k) == LET v == GetValue2(dict, k) IN IF v = Null THEN Null ELSE heap'[v]
<1>10. ASSUME NEW k, HasKey(src, k) PROVE At2(k) = At(k)
  <2> DEFINE p == Position(src, k)
             v == GetValue2(src, k)
             w == GetValue2(dict, k)
  <2>1. p \in 1..n /\ v = src.vals[p] /\ w = dict.vals[p]
    BY <1>1, <1>7, <1>9, <1>10, PositionIs, GetValueIs
  <2> HIDE DEF p
  <2>2. w = vals(cs)[p]
    BY <1>7, <2>1
  <2>3. Null \notin Cells
    BY CellsAssumption DEF Cells
  <2> HIDE DEF v, w
  <2>4. IF v = Null THEN w = Null ELSE w # Null /\ heap'[w] = heap[v]
    BY <1>6, <2>1, <2>2, <2>3
  <2>5. QED
    BY <2>4 DEF v, w
<1>11. MapIn(heap', dict) = MapIn(heap, src)
  <2> DEFINE ks == {k \in Keys : HasKey(src, k)}
             ks2 == {k \in Keys : HasKey(dict, k)}
  <2>1. ks = ks2
    BY <1>9
  <2>2. MapIn(heap, src) = [k \in ks |-> At(k)] /\ MapIn(heap', dict) = [k \in ks2 |-> At2(k)]
    BY DEF MapIn
  <2>3. \A k \in ks : At2(k) = At(k)
    BY <1>10
  <2> HIDE DEF ks, ks2, At, At2
  <2>4. QED
    BY <2>1, <2>2, <2>3
<1>12. dict # NoDict
  BY <1>7, NoDictIsEmpty
<1>13. MapNow(d)' = MapIn(heap', dict) /\ MapNow(s) = MapIn(heap, src)
  BY <1>1, <1>8, <1>12 DEF MapNow, MapIn
<1>14. QED
  BY <1>5, <1>8, <1>11, <1>13

LEMMA DestroyMap ==
  ASSUME DictInv, NEW d \in Names, Destroy(d)
  PROVE  /\ ObjectsStay /\ MapNow(d)' = NoMap
         /\ \A e \in Names : e # d => dicts'[e] = dicts[e]
<1>1. /\ heap' = [c \in Cells |-> IF c \in Values(dicts[d]) THEN Free ELSE heap[c]]
      /\ dicts' = [dicts EXCEPT ![d] = NoDict] /\ dicts = [e \in Names |-> dicts[e]]
  BY DEF Destroy, DictInv
<1>2. QED
  BY <1>1 DEF ObjectsStay, MapNow

LEMMA MapStep ==
  ASSUME DictInv, DictInv', DictNext
  PROVE  Maps!Next \/ UNCHANGED AllMaps
<1>1. AllUsed /\ AllUsed'
  <2>1. AllUsed'
    BY ValuesAreUsed, PTL
  <2>2. QED
    BY <2>1, ValuesAreUsed
<1>2. \A d \in Names : AllMaps[d] = MapNow(d) /\ (AllMaps[d] = NoMap <=> dicts[d] = NoDict)
  BY MapsNow, MapsAre
<1>3. PICK d \in Names :
        \/ \E pairs \in ParsedDicts : Parse(d, pairs)
        \/ New(d)
        \/ \E key \in EditKeys :
             (\E content \in Contents : SetNew(d, key, content)) \/ SetSame(d, key) \/ SetNull(d, key)
        \/ \E s \in Names \ {d} : DeepCopy(s, d)
        \/ Destroy(d)
  BY DEF DictNext
<1> DEFINE Put1(m) == AllMaps' = [AllMaps EXCEPT ![d] = m]
<1>4. ASSUME ObjectsStay, \A e \in Names : e # d => dicts'[e] = dicts[e], NEW m, MapNow(d)' = m
      PROVE  Put1(m)
  BY <1>1, <1>4, OneChanges
<1>5. ASSUME NEW ms, NEW m \in ms, Put1(m) PROVE Maps!Becomes(d, ms)
  BY <1>5 DEF Maps!Becomes
<1> HIDE DEF Put1
<1>6. ASSUME NEW pairs \in ParsedDicts, Parse(d, pairs) PROVE Maps!Create(d)
  <2>1. AllMaps[d] = NoMap
    BY <1>2, <1>6 DEF Parse, Alone
  <2>2. PICK m \in FileMaps : Put1(m)
    BY <1>4, <1>6, ParseMap
  <2>3. QED
    BY <1>5, <2>1, <2>2 DEF Maps!Create
<1>7. ASSUME New(d) PROVE Maps!Create(d)
  <2>1. AllMaps[d] = NoMap
    BY <1>2, <1>7 DEF New, Alone
  <2>2. Put1([k \in {} |-> Null])
    BY <1>4, <1>7, NewMap
  <2>3. QED
    BY <1>5, <2>1, <2>2 DEF Maps!Create
<1>8. ASSUME NEW key \in EditKeys, NEW content \in Contents \union {Null}, dicts[d] # NoDict,
             Put1(Maps!Update(MapNow(d), key, content))
      PROVE  Maps!Set(d)
  <2>1. AllMaps[d] # NoMap /\ AllMaps[d] = MapNow(d) /\ key \in Keys
    BY <1>2, <1>8, ContentsAssumption
  <2> DEFINE ms == {Maps!Update(AllMaps[d], k, v) : k \in Keys, v \in Contents \union {Null}}
             m == Maps!Update(MapNow(d), key, content)
  <2>2. m \in ms
    BY <2>1
  <2> HIDE DEF m
  <2>3. Maps!Becomes(d, ms)
    BY <1>5, <1>8, <2>2 DEF m
  <2>4. QED
    BY <2>1, <2>3 DEF Maps!Set
<1>9. ASSUME NEW key \in EditKeys, NEW content \in Contents, SetNew(d, key, content) PROVE Maps!Set(d)
  <2>1. dicts[d] # NoDict
    BY <1>9 DEF SetNew
  <2>2. Put1(Maps!Update(MapNow(d), key, content))
    BY <1>1, <1>4, <1>9, SetNewMap
  <2>3. QED
    BY <1>8, <2>1, <2>2
<1>10. ASSUME NEW key \in EditKeys, SetNull(d, key) PROVE Maps!Set(d)
  <2>1. dicts[d] # NoDict
    BY <1>10 DEF SetNull
  <2>2. Put1(Maps!Update(MapNow(d), key, Null))
    BY <1>1, <1>4, <1>10, SetNullMap
  <2>3. QED
    BY <1>8, <2>1, <2>2
<1>11. ASSUME NEW key, SetSame(d, key) PROVE UNCHANGED AllMaps
  BY <1>11, SetSameStutters DEF dvars, AllMaps, MapOf
<1>12. ASSUME NEW s \in Names \ {d}, DeepCopy(s, d) PROVE Maps!Copy(s, d)
  <2>1. AllMaps[s] # NoMap /\ AllMaps[d] = NoMap /\ MapNow(s) = AllMaps[s]
    BY <1>2, <1>12 DEF DeepCopy
  <2>2. Put1(MapNow(s))
    BY <1>4, <1>12, DeepCopyMap
  <2>3. QED
    BY <1>5, <2>1, <2>2 DEF Maps!Copy
<1>13. ASSUME Destroy(d) PROVE Maps!Drop(d)
  <2>1. AllMaps[d] # NoMap
    BY <1>2, <1>13 DEF Destroy
  <2>2. Put1(NoMap)
    BY <1>4, <1>13, DestroyMap
  <2>3. QED
    BY <1>5, <2>1, <2>2 DEF Maps!Drop
<1>14. QED
  BY <1>3, <1>6, <1>7, <1>9, <1>10, <1>11, <1>12, <1>13 DEF Maps!Next

\* The dictionaries, with the heap that they share, are maps that are independent of each
\* other: a key that is set has one value, the first of a key that a file repeats counts,
\* a copy is as its source was, and nothing that is done to one reaches the other.
THEOREM DictionariesAreMaps == StreamSpec => ImplementsMap
<1>1. StreamInit => Maps!Init
  BY NoDictIsEmpty DEF StreamInit, DictInit, Maps!Init, AllMaps
<1>2. DictInv /\ DictInv' /\ [StreamNext]_svars => [Maps!Next]_AllMaps
  <2>1. CASE DictInv /\ DictInv' /\ DictNext
    BY <2>1, MapStep
  <2>2. CASE UNCHANGED dvars
    BY <2>2 DEF dvars, AllMaps, MapOf
  <2>3. QED
    BY <2>1, <2>2, StreamStepOfDict
<1>3. QED
  BY <1>1, <1>2, DictInvariant, PTL DEF StreamSpec, ImplementsMap, Maps!Spec

-----------------------------------------------------------------------------
(* What is written row by row comes back: sequences of the same length,     *)
(* strung together, and PNG prediction.                                     *)

LEMMA FlattenAppend ==
  ASSUME NEW S, NEW ss \in Seq(Seq(S)), NEW s \in Seq(S)
  PROVE  /\ FlattenSeq(ss) \in Seq(S)
         /\ FlattenSeq(Append(ss, s)) = FlattenSeq(ss) \o s
<1>1. \A seqs : FlattenSeq(seqs) = Numbers!FlattenSeq(seqs)
  BY DEF FlattenSeq, Numbers!FlattenSeq
<1>2. QED
  BY <1>1, Numbers!FlattenAppend

LEMMA SameItems ==
  ASSUME NEW S, NEW s \in Seq(S), NEW t \in Seq(S), NEW n \in Nat, Len(s) = n, Len(t) = n,
         \A k \in 1..n : s[k] = t[k]
  PROVE  s = t
OBVIOUS

\* Item k of rows of w items each.
LEMMA RowOfItem ==
  ASSUME NEW n \in Nat, NEW w \in Nat \ {0}, NEW k \in Nat, k < n * w
  PROVE  k \div w \in 0..(n - 1) /\ k % w \in 0..(w - 1) /\ k = (k \div w) * w + (k % w)
<1> DEFINE q == k \div w
           r == k % w
<1>1. q \in Nat /\ r \in 0..(w - 1) /\ k = q * w + r
  OBVIOUS
<1> HIDE DEF q, r
<1>2. ASSUME q >= n PROVE FALSE
  <2>1. PICK d \in Nat : q = n + d
    BY <1>1, <1>2
  <2>2. d * w \in Nat /\ q * w = n * w + d * w
    BY <2>1
  <2>3. QED
    BY <1>1, <2>2
<1>3. q \in 0..(n - 1)
  BY <1>1, <1>2
<1>4. q \in 0..(n - 1) /\ r \in 0..(w - 1) /\ k = q * w + r
  BY <1>1, <1>3
<1>5. QED
  BY <1>4 DEF q, r

\* The items of rows of w items each, strung together: item j of row i.
InRows(s, ss, w) == \A i \in 1..Len(ss), j \in 1..w : s[(i - 1) * w + j] = ss[i][j]
EachLen(ss, w) == \A i \in 1..Len(ss) : Len(ss[i]) = w

LEMMA FlattenRows ==
  ASSUME NEW S, NEW ss \in Seq(Seq(S)), NEW w \in Nat, EachLen(ss, w)
  PROVE  /\ FlattenSeq(ss) \in Seq(S) /\ Len(FlattenSeq(ss)) = Len(ss) * w
         /\ InRows(FlattenSeq(ss), ss, w)
<1>0. \A a, b \in Seq(S) : \A p \in Nat :
        Len(a) = p /\ Len(b) = w =>
          /\ a \o b \in Seq(S) /\ Len(a \o b) = p + w
          /\ \A j \in 1..w : (a \o b)[p + j] = b[j]
          /\ \A k \in 1..p : (a \o b)[k] = a[k]
  <2> SUFFICES ASSUME NEW a \in Seq(S), NEW b \in Seq(S), NEW p \in Nat, Len(a) = p, Len(b) = w
               PROVE  /\ a \o b \in Seq(S) /\ Len(a \o b) = p + w
                      /\ \A j \in 1..w : (a \o b)[p + j] = b[j]
                      /\ \A k \in 1..p : (a \o b)[k] = a[k]
    OBVIOUS
  <2>0. a \o b \in Seq(S)
    OBVIOUS
  <2>1. Len(a \o b) = p + w
    <3>1. \A s, t \in Seq(S) : Len(s \o t) = Len(s) + Len(t)
      OBVIOUS
    <3>2. QED
      BY <3>1
  <2>2. ASSUME NEW j \in 1..w PROVE (a \o b)[p + j] = b[j]
    OBVIOUS
  <2>3. ASSUME NEW k \in 1..p PROVE (a \o b)[k] = a[k]
    OBVIOUS
  <2>4. QED
    BY <2>0, <2>1, <2>2, <2>3
<1> DEFINE n == Len(ss)
           front(m) == SubSeq(ss, 1, m)
           flat(m) == FlattenSeq(front(m))
           U == {m \in Nat : m <= n =>
                   /\ flat(m) \in Seq(S) /\ Len(flat(m)) = m * w
                   /\ \A i \in 1..m, j \in 1..w : flat(m)[(i - 1) * w + j] = ss[i][j]}
<1>1. n \in Nat /\ \A i \in 1..n : ss[i] \in Seq(S) /\ Len(ss[i]) = w
  BY DEF EachLen
<1>2. \A m \in 0..n : front(m) \in Seq(Seq(S)) /\ Len(front(m)) = m
  BY <1>1
<1>3. 0 \in U
  <2>1. front(0) = <<>>
    OBVIOUS
  <2>2. flat(0) = <<>>
    BY <2>1 DEF FlattenSeq
  <2>3. <<>> \in Seq(S) /\ Len(<<>>) = 0 * w
    OBVIOUS
  <2>4. flat(0) \in Seq(S) /\ Len(flat(0)) = 0 * w
    BY <2>2, <2>3
  <2> HIDE DEF flat
  <2>5. \A i \in 1..0, j \in 1..w : flat(0)[(i - 1) * w + j] = ss[i][j]
    OBVIOUS
  <2>6. QED
    BY <2>4, <2>5
<1>4. ASSUME NEW m \in U PROVE m + 1 \in U
  <2>1. m \in Nat
    OBVIOUS
  <2> SUFFICES ASSUME m + 1 <= n
               PROVE  /\ flat(m + 1) \in Seq(S) /\ Len(flat(m + 1)) = (m + 1) * w
                      /\ \A i \in 1..(m + 1), j \in 1..w : flat(m + 1)[(i - 1) * w + j] = ss[i][j]
    BY <2>1
  <2>2. /\ flat(m) \in Seq(S) /\ Len(flat(m)) = m * w
        /\ \A i \in 1..m, j \in 1..w : flat(m)[(i - 1) * w + j] = ss[i][j]
    <3> HIDE DEF flat
    <3>1. m <= n
      BY <1>1, <2>1
    <3>2. QED
      BY <3>1
  <2>3. m + 1 \in 1..n /\ ss[m + 1] \in Seq(S) /\ Len(ss[m + 1]) = w
    BY <1>1, <2>1
  <2>4. front(m + 1) = Append(front(m), ss[m + 1])
    BY <1>1, <2>1
  <2>5. front(m) \in Seq(Seq(S))
    BY <1>1, <1>2, <2>1
  <2> HIDE DEF front
  <2>6. flat(m + 1) = flat(m) \o ss[m + 1]
    <3> HIDE DEF n
    <3>1. FlattenSeq(Append(front(m), ss[m + 1])) = FlattenSeq(front(m)) \o ss[m + 1]
      BY <2>3, <2>5, FlattenAppend
    <3>2. QED
      BY <2>4, <3>1
  <2> HIDE DEF flat, U
  <2>7. m * w \in Nat /\ m * w + w = (m + 1) * w
    BY <2>1
  <2>8. /\ flat(m + 1) \in Seq(S) /\ Len(flat(m + 1)) = (m + 1) * w
        /\ \A j \in 1..w : flat(m + 1)[m * w + j] = ss[m + 1][j]
        /\ \A k \in 1..(m * w) : flat(m + 1)[k] = flat(m)[k]
    <3>1. /\ flat(m) \o ss[m + 1] \in Seq(S) /\ Len(flat(m) \o ss[m + 1]) = m * w + w
          /\ \A j \in 1..w : (flat(m) \o ss[m + 1])[m * w + j] = ss[m + 1][j]
          /\ \A k \in 1..(m * w) : (flat(m) \o ss[m + 1])[k] = flat(m)[k]
      <4>2. m * w \in Nat /\ flat(m) \in Seq(S) /\ Len(flat(m)) = m * w /\ ss[m + 1] \in Seq(S) /\ Len(ss[m + 1]) = w
        BY <2>2, <2>3, <2>7
      <4>3. QED
        BY <1>0, <4>2
    <3>2. QED
      BY <2>6, <2>7, <3>1
  <2>9. ASSUME NEW i \in 1..(m + 1), NEW j \in 1..w PROVE flat(m + 1)[(i - 1) * w + j] = ss[i][j]
    <3>1. CASE i = m + 1
      <4>1. (i - 1) * w + j = m * w + j
        BY <2>1, <3>1
      <4>2. QED
        BY <2>8, <3>1, <4>1
    <3>2. CASE i \in 1..m
      <4>1. (i - 1) * w + w = i * w /\ i * w <= m * w /\ (i - 1) * w \in Nat
        BY <2>1, <3>2
      <4>2. (i - 1) * w + j \in 1..(m * w)
        <5> DEFINE p == (i - 1) * w
                   q == m * w
        <5>1. p \in Nat /\ q \in Nat /\ p + w <= q
          BY <4>1, <2>7
        <5> HIDE DEF p, q
        <5>2. p + j \in 1..q
          BY <5>1
        <5>3. QED
          BY <5>2 DEF p, q
      <4>3. QED
        BY <2>2, <2>8, <3>2, <4>2
    <3>3. QED
      BY <2>1, <3>1, <3>2
  <2>10. QED
    BY <2>8, <2>9
<1>5. U = Nat
  <2> HIDE DEF U
  <2>1. U \in SUBSET Nat
    BY DEF U
  <2>2. QED
    BY <2>1, <1>3, <1>4, Numbers!SetInductionOnNat
<1>6. front(n) = ss
  BY <1>1
<1>7. n \in U
  BY <1>1, <1>5
<1> HIDE DEF front
<1>8. QED
  BY <1>1, <1>6, <1>7 DEF InRows

\* A sequence of n * w items is its rows strung together.
LEMMA RowsFlatten ==
  ASSUME NEW S, NEW ss \in Seq(Seq(S)), NEW w \in Nat, EachLen(ss, w),
         NEW s \in Seq(S), Len(s) = w * Len(ss), InRows(s, ss, w)
  PROVE  FlattenSeq(ss) = s
<1> DEFINE n == Len(ss)
           flat == FlattenSeq(ss)
<1>1. flat \in Seq(S) /\ Len(flat) = n * w /\ InRows(flat, ss, w)
  BY FlattenRows
<1>2. n \in Nat /\ n * w = w * n
  OBVIOUS
<1> HIDE DEF flat, n
<1>3. ASSUME NEW k \in 1..(n * w) PROVE flat[k] = s[k]
  <2>1. w # 0
    BY <1>2
  <2> DEFINE i == (k - 1) \div w + 1
             j == ((k - 1) % w) + 1
  <2>2. n * w \in Nat /\ k - 1 \in Nat /\ k - 1 < n * w
    BY <1>2
  <2>3. /\ (k - 1) \div w \in 0..(n - 1) /\ (k - 1) % w \in 0..(w - 1)
        /\ k - 1 = ((k - 1) \div w) * w + ((k - 1) % w)
    BY <1>2, <2>1, <2>2, RowOfItem
  <2>4. i \in 1..n /\ j \in 1..w /\ k = (i - 1) * w + j
    BY <2>3, <1>2
  <2> HIDE DEF i, j
  <2>5. s[(i - 1) * w + j] = ss[i][j] /\ flat[(i - 1) * w + j] = ss[i][j]
    BY <1>1, <2>4 DEF n, InRows
  <2>6. QED
    BY <2>4, <2>5
<1>4. Len(s) = n * w /\ Len(flat) = n * w /\ n * w \in Nat
  BY <1>1, <1>2 DEF n
<1>5. s \in Seq(S) /\ flat \in Seq(S)
  BY <1>1
<1>6. flat = s
  <2>1. s = [k \in 1..(n * w) |-> s[k]] /\ flat = [k \in 1..(n * w) |-> flat[k]]
    BY <1>4, <1>5
  <2>2. QED
    BY <1>3, <2>1
<1>7. QED
  BY <1>6 DEF flat


LEMMA ByteBack ==
  ASSUME NEW x \in Bytes, NEW p \in Bytes
  PROVE  (((x - p) % ByteRange) + p) % ByteRange = x
<1>1. ByteRange \in Nat \ {0} /\ x \in 0..(ByteRange - 1) /\ p \in 0..(ByteRange - 1)
  BY StreamAssumption DEF Bytes
<1>2. CASE x >= p
  <2>1. (x - p) % ByteRange = x - p
    BY <1>1, <1>2
  <2>2. QED
    BY <1>1, <2>1
<1>3. CASE x < p
  <2>1. (x - p) % ByteRange = x - p + ByteRange
    BY <1>1, <1>3
  <2>2. (x + ByteRange) % ByteRange = x
    BY <1>1, SMTT(20)
  <2>3. QED
    BY <1>1, <2>1, <2>2
<1>4. QED
  BY <1>1, <1>2, <1>3

LEMMA PredictedIs ==
  ASSUME NEW t \in Supported, NEW left \in Bytes, NEW up \in Bytes
  PROVE  /\ Predicted(t, left, up) \in Bytes
         /\ t \in {0, 2} => \A l : Predicted(t, l, up) = Predicted(t, left, up)
<1>1. left \in Nat /\ up \in Nat /\ left <= ByteRange - 1 /\ up <= ByteRange - 1 /\ ByteRange \in Nat \ {0}
  BY StreamAssumption DEF Bytes
<1>2. (left + up) \div 2 \in 0..(ByteRange - 1)
  BY <1>1
<1>3. t \in 0..3
  BY DEF Supported
<1>4. Predicted(t, left, up) \in {0, left, up, (left + up) \div 2}
  BY DEF Predicted
<1>5. 0 \in Bytes
  BY <1>1 DEF Bytes
<1>6. t \in {0, 2} => \A l : Predicted(t, l, up) = Predicted(t, left, up)
  BY DEF Predicted
<1>7. QED
  BY <1>2, <1>4, <1>5, <1>6 DEF Bytes

\* A filter type and what is left of the bytes of a row, predicted from their neighbours.
Behind(x, left, t, above) == [j \in 1..Len(x) |-> (x[j] - Predicted(t, left[j], above[j])) % ByteRange]
RowOf(x, left, t, above) == <<t>> \o Behind(x, left, t, above)
LeftOf(x) == [j \in 1..Len(x) |-> IF j = 1 THEN 0 ELSE x[j - 1]]

\* The bytes of a row come back, if the row above did and if the left neighbours are those
\* that buffer holds, or do not matter.
LEMMA DecodedRowIs ==
  ASSUME NEW x \in Seq(Bytes), NEW above \in Seq(Bytes), NEW t \in Supported,
         NEW left \in [1..Len(x) -> Bytes], Len(above) = Len(x), t \in {0, 2} \/ left = LeftOf(x)
  PROVE  LET row == RowOf(x, left, t, above)
         IN  row \in Seq(Nat) /\ Len(row) = Len(x) + 1 /\ row[1] = t /\ DecodedRow(row, above) = x
<1> DEFINE size == Len(x)
           row == RowOf(x, left, t, above)
           rest == Behind(x, left, t, above)
<1>01. size \in Nat /\ Len(above) = size /\ ByteRange \in Nat \ {0} /\ Bytes \subseteq Int /\ t \in Nat
  BY StreamAssumption DEF Bytes, Supported
<1>02. ASSUME NEW j \in 1..size PROVE rest[j] \in Nat
  <2> DEFINE p == Predicted(t, left[j], above[j])
  <2>1. left[j] \in Bytes /\ above[j] \in Bytes /\ x[j] \in Bytes
    OBVIOUS
  <2>2. p \in Bytes
    BY <2>1, PredictedIs
  <2>3. rest[j] = (x[j] - p) % ByteRange
    BY DEF Behind
  <2> HIDE DEF p, rest
  <2>4. \A b, c \in Bytes : (b - c) % ByteRange \in Nat
    BY <1>01
  <2>5. QED
    BY <2>1, <2>2, <2>3, <2>4
<1>03. rest \in Seq(Nat) /\ Len(rest) = size
  <2>1. rest = [j \in 1..size |-> rest[j]]
    BY DEF Behind
  <2> HIDE DEF rest, size
  <2>2. rest \in [1..size -> Nat]
    BY <1>02, <2>1
  <2>3. QED
    BY <1>01, <2>2
<1>04. row \in Seq(Nat) /\ Len(row) = size + 1 /\ row[1] = t /\ \A j \in 1..size : row[j + 1] = rest[j]
  <2>1. row = <<t>> \o rest
    BY DEF RowOf
  <2> HIDE DEF rest, row, size
  <2>2. /\ <<t>> \o rest \in Seq(Nat) /\ Len(<<t>> \o rest) = size + 1 /\ (<<t>> \o rest)[1] = t
        /\ \A j \in 1..size : (<<t>> \o rest)[j + 1] = rest[j]
    BY <1>01, <1>03
  <2>3. QED
    BY <2>1, <2>2
<1>05. \A j \in 1..size : row[j + 1] = (x[j] - Predicted(t, left[j], above[j])) % ByteRange
  BY <1>04 DEF Behind
<1>06. \A j \in 1..size : x[j] \in Bytes /\ above[j] \in Bytes /\ left[j] \in Bytes
  BY <1>01
<1>07. t \in {0, 2} \/ \A j \in 1..size : left[j] = IF j = 1 THEN 0 ELSE x[j - 1]
  BY DEF LeftOf
<1>08. x = [j \in 1..size |-> x[j]] /\ Len(above) = size
  OBVIOUS
<1> HIDE DEF rest, row, size
<1> DEFINE g == [j \in 0..size |-> IF j = 0 THEN 0 ELSE x[j]]
           Step(f, j) == IF j = 0 THEN 0 ELSE (row[j + 1] + Predicted(row[1], f[j - 1], above[j])) % ByteRange
<1>0. \A j \in 1..size : x[j] \in Bytes /\ above[j] \in Bytes /\ left[j] \in Bytes /\ j - 1 \in 0..size
  BY <1>01, <1>06
<1>1. ASSUME NEW j \in 0..size PROVE g[j] = Step(g, j)
  <2>1. CASE j = 0
    BY <2>1
  <2>2. CASE j # 0
    <3>1. j \in 1..size /\ j - 1 \in 0..size
      BY <1>01, <2>2
    <3> DEFINE p == Predicted(t, left[j], above[j])
    <3>2. g[j] = x[j] /\ g[j - 1] = IF j = 1 THEN 0 ELSE x[j - 1]
      BY <3>1
    <3> HIDE DEF g
    <3>3. p \in Bytes
      BY <1>0, <3>1, PredictedIs
    <3>4. Predicted(t, g[j - 1], above[j]) = p
      <4>1. CASE t \in {0, 2}
        BY <1>0, <3>1, <4>1, PredictedIs
      <4>2. CASE t \notin {0, 2}
        BY <1>07, <3>1, <3>2, <4>2
      <4>3. QED
        BY <4>1, <4>2
    <3>5. Step(g, j) = (((x[j] - p) % ByteRange) + p) % ByteRange
      BY <1>04, <1>05, <3>1, <3>4, <2>2
    <3> HIDE DEF p, Step
    <3>6. QED
      BY <1>0, <3>1, <3>2, <3>3, <3>5, ByteBack
  <2>3. QED
    BY <2>1, <2>2
<1>2. g = [j \in 0..size |-> g[j]]
  OBVIOUS
<1> HIDE DEF g
<1>3. g = [j \in 0..size |-> Step(g, j)]
  <2> HIDE DEF Step
  <2>1. QED
    BY <1>1, <1>2
<1> DEFINE byte == CHOOSE f : f = [j \in 0..size |-> Step(f, j)]
<1>4. byte = [j \in 0..size |-> Step(byte, j)]
  <2> HIDE DEF Step
  <2>1. QED
    BY <1>3
<1>5. DecodedRow(row, above) = [j \in 1..size |-> byte[j]]
  BY <1>08 DEF DecodedRow
<1> HIDE DEF byte
<1> DEFINE U == {j \in Nat : j <= size => byte[j] = g[j]}
<1>6. 0 \in U
  <2>1. 0 \in 0..size
    BY <1>01
  <2>2. byte[0] = Step(byte, 0) /\ g[0] = Step(g, 0)
    <3> HIDE DEF Step
    <3>1. QED
      BY <1>3, <1>4, <2>1
  <2>3. QED
    BY <2>2
<1>7. ASSUME NEW j \in U PROVE j + 1 \in U
  <2>1. ASSUME j + 1 <= size PROVE byte[j + 1] = g[j + 1]
    <3>1. j \in Nat /\ byte[j] = g[j] /\ j + 1 \in 0..size /\ j + 1 # 0 /\ (j + 1) - 1 = j
      BY <1>01, <2>1
    <3>2. byte[j + 1] = Step(byte, j + 1) /\ g[j + 1] = Step(g, j + 1)
      <4> HIDE DEF Step
      <4>1. QED
        BY <1>3, <1>4, <3>1
    <3>3. Step(byte, j + 1) = Step(g, j + 1)
      BY <3>1
    <3>4. QED
      BY <3>2, <3>3
  <2>2. QED
    BY <2>1
<1>8. U = Nat
  <2> HIDE DEF U
  <2>1. U \in SUBSET Nat
    BY DEF U
  <2>2. QED
    BY <2>1, <1>6, <1>7, Numbers!SetInductionOnNat
<1>9. ASSUME NEW j \in 1..size PROVE byte[j] = x[j]
  <2>1. j \in Nat /\ j <= size /\ j \in 0..size /\ j # 0
    BY <1>01
  <2>2. byte[j] = g[j]
    BY <1>8, <2>1
  <2>3. QED
    BY <2>1, <2>2 DEF g
<1>10. QED
  BY <1>04, <1>08, <1>5, <1>9 DEF row, size


\* What a writer of streams can mean, and a place of its bytes in rows of this size.
MeaningType == [plain : Seq(Bytes), types : Seq(Nat), cut : Nat]

LEMMA PlaceOfByte ==
  ASSUME NEW n \in Nat, NEW size \in Nat, NEW r \in 1..n, NEW j \in 1..size
  PROVE  (r - 1) * size + j \in 1..(size * n)
<1>1. (r - 1) * size \in Nat /\ (r - 1) * size + size = r * size
  OBVIOUS
<1>2. r * size <= n * size /\ n * size = size * n
  OBVIOUS
<1>3. QED
  BY <1>1, <1>2

\* Rows that are complete, of filter types that the code knows, and of neighbours that it
\* takes for the left ones.
PngMeaning(meaning, parms) ==
  /\ Len(meaning.plain) = RowSize(parms) * Len(meaning.types)
  /\ \A i \in 1..Len(meaning.types) : meaning.types[i] \in Supported
  /\ parms.sample = 1 \/ \A i \in 1..Len(meaning.types) : meaning.types[i] \in {0, 2}

PlainRow(meaning, size, r) == [j \in 1..size |-> IF r = 0 THEN 0 ELSE meaning.plain[(r - 1) * size + j]]

LEMMA PlainRowIs ==
  ASSUME NEW meaning \in MeaningType, NEW parms \in Parameters, PngMeaning(meaning, parms)
  PROVE  LET size == RowSize(parms)
         IN  /\ size \in Nat
             /\ \A r \in 0..Len(meaning.types) : /\ PlainRow(meaning, size, r) \in Seq(Bytes)
                                                 /\ Len(PlainRow(meaning, size, r)) = size
<1> DEFINE size == RowSize(parms)
           n == Len(meaning.types)
<1>1. size \in Nat /\ n \in Nat /\ meaning.plain \in Seq(Bytes) /\ Len(meaning.plain) = size * n
  BY DEF RowSize, Parameters, MeaningType, PngMeaning
<1> HIDE DEF size, n
<1>2. 0 \in Bytes
  BY StreamAssumption DEF Bytes
<1>3. ASSUME NEW r \in 0..n, NEW j \in 1..size
      PROVE (IF r = 0 THEN 0 ELSE meaning.plain[(r - 1) * size + j]) \in Bytes
  <2>1. CASE r # 0
    <3>1. r \in 1..n
      BY <1>1, <2>1
    <3>2. (r - 1) * size + j \in 1..(size * n)
      BY <1>1, <3>1, PlaceOfByte
    <3>3. QED
      BY <1>1, <2>1, <3>2
  <2>2. QED
    BY <1>2, <2>1
<1>4. ASSUME NEW r \in 0..n
      PROVE PlainRow(meaning, size, r) \in Seq(Bytes) /\ Len(PlainRow(meaning, size, r)) = size
  <2>1. PlainRow(meaning, size, r) \in [1..size -> Bytes]
    BY <1>3 DEF PlainRow
  <2>2. QED
    BY <1>1, <2>1
<1>5. QED
  BY <1>1, <1>4 DEF size, n

\* A row as its writer encodes it.
LEMMA EncodedRowIs ==
  ASSUME NEW meaning \in MeaningType, NEW parms \in Parameters, PngMeaning(meaning, parms),
         NEW r \in 1..Len(meaning.types)
  PROVE  LET size == RowSize(parms)
             row == EncodedRow(r, meaning, parms)
         IN  /\ row \in Seq(Nat) /\ Len(row) = size + 1
             /\ row[1] = meaning.types[r]
             /\ DecodedRow(row, PlainRow(meaning, size, r - 1)) = PlainRow(meaning, size, r)
<1> DEFINE size == RowSize(parms)
           n == Len(meaning.types)
           row == EncodedRow(r, meaning, parms)
           x == PlainRow(meaning, size, r)
           above == PlainRow(meaning, size, r - 1)
           t == meaning.types[r]
           At(i, j) == IF i < 1 \/ j < 1 THEN 0 ELSE meaning.plain[(i - 1) * size + j]
           left == [j \in 1..size |-> At(r, j - parms.sample)]
           rest == [j \in 1..size |-> (At(r, j) - Predicted(t, At(r, j - parms.sample), At(r - 1, j))) % ByteRange]
<1>1. /\ size \in Nat /\ n \in Nat /\ parms.sample \in Nat /\ ByteRange \in Nat \ {0}
      /\ t \in Supported /\ t \in Nat
      /\ parms.sample = 1 \/ t \in {0, 2}
  BY StreamAssumption DEF RowSize, Parameters, MeaningType, PngMeaning
<1>2. row = <<t>> \o rest
  BY DEF EncodedRow
<1>3. /\ x \in Seq(Bytes) /\ Len(x) = size
      /\ above \in Seq(Bytes) /\ Len(above) = size
  <2>1. r \in 0..n /\ r - 1 \in 0..n
    BY <1>1
  <2>2. QED
    BY <2>1, PlainRowIs
<1>4. 0 \in Bytes /\ Bytes \subseteq Int
  BY <1>1 DEF Bytes
<1>5. ASSUME NEW j \in 1..size PROVE At(r, j) = x[j] /\ At(r - 1, j) = above[j]
  <2>1. ~(j < 1) /\ r \in Nat /\ ~(r < 1) /\ r # 0 /\ (r - 1 < 1 <=> r - 1 = 0)
    BY <1>1
  <2>2. QED
    BY <2>1 DEF PlainRow
<1> HIDE DEF x, above
<1>6. ASSUME NEW j \in 1..size PROVE left[j] \in Bytes
  <2>1. CASE j - parms.sample < 1
    BY <1>4, <2>1
  <2>2. CASE ~(j - parms.sample < 1)
    <3>1. j - parms.sample \in 1..size
      BY <1>1, <2>2
    <3>2. left[j] = x[j - parms.sample]
      <4> HIDE DEF At
      <4>1. QED
        BY <1>5, <3>1
    <3>3. QED
      BY <1>3, <3>1, <3>2
  <2>3. QED
    BY <2>1, <2>2
<1>7. ASSUME parms.sample = 1 PROVE left = LeftOf(x)
  <2>1. ASSUME NEW j \in 1..size PROVE left[j] = IF j = 1 THEN 0 ELSE x[j - 1]
    <3>1. CASE j = 1
      BY <1>7, <3>1
    <3>2. CASE j # 1
      <4>1. j - 1 \in 1..size
        BY <1>1, <3>2
      <4> HIDE DEF At
      <4>2. QED
        BY <1>5, <1>7, <3>2, <4>1
    <3>3. QED
      BY <3>1, <3>2
  <2>2. left = [j \in 1..size |-> left[j]]
    OBVIOUS
  <2> HIDE DEF left
  <2>3. QED
    BY <1>3, <2>1, <2>2 DEF LeftOf
<1>8. left \in [1..size -> Bytes]
  <2>1. left = [j \in 1..size |-> left[j]]
    OBVIOUS
  <2> HIDE DEF left
  <2>2. QED
    BY <1>6, <2>1
<1>9. row = RowOf(x, left, t, above)
  <2>1. ASSUME NEW j \in 1..size PROVE rest[j] = (x[j] - Predicted(t, left[j], above[j])) % ByteRange
    <3> HIDE DEF At
    <3>1. QED
      BY <1>5
  <2>2. rest = [j \in 1..size |-> rest[j]]
    OBVIOUS
  <2> HIDE DEF rest, left
  <2>3. rest = Behind(x, left, t, above)
    BY <1>3, <2>1, <2>2 DEF Behind
  <2>4. QED
    BY <1>2, <2>3 DEF RowOf
<1> HIDE DEF left, row, rest, t, size, At
<1>10. row \in Seq(Nat) /\ Len(row) = size + 1 /\ row[1] = t /\ DecodedRow(row, above) = x
  <2>1. t \in {0, 2} \/ left = LeftOf(x)
    BY <1>1, <1>7
  <2>2. left \in [1..Len(x) -> Bytes] /\ Len(above) = Len(x)
    BY <1>3, <1>8
  <2>3. QED
    BY <2>1, <2>2, <1>1, <1>3, <1>9, DecodedRowIs
<1>11. QED
  BY <1>10 DEF size, row, x, above, t


\* Rows finds the rows that were strung together.
LEMMA RowsAre ==
  ASSUME NEW S, NEW ss \in Seq(Seq(S)), NEW size \in Nat, EachLen(ss, size + 1)
  PROVE  Rows(FlattenSeq(ss), size) = ss
<1> DEFINE n == Len(ss)
           w == size + 1
           flat == FlattenSeq(ss)
           rows == Rows(flat, size)
           slice(r) == SubSeq(flat, (r - 1) * w + 1, r * w)
<1>1. /\ flat \in Seq(S) /\ Len(flat) = n * w
      /\ \A i \in 1..n, j \in 1..w : flat[(i - 1) * w + j] = ss[i][j]
  <2>1. w \in Nat /\ EachLen(ss, w)
    OBVIOUS
  <2> HIDE DEF w
  <2>2. flat \in Seq(S) /\ Len(flat) = n * w /\ InRows(flat, ss, w)
    BY <2>1, FlattenRows
  <2> HIDE DEF flat
  <2>3. QED
    BY <2>2 DEF InRows
<1>2. n \in Nat /\ w \in Nat \ {0} /\ \A i \in 1..n : ss[i] \in Seq(S) /\ Len(ss[i]) = w
  BY DEF EachLen
<1> HIDE DEF n, flat
<1>3. (n * w) \div w = n
  <2> HIDE DEF w
  <2>1. QED
    BY <1>2
<1>4. rows = [r \in 1..n |-> slice(r)]
  BY <1>1, <1>3 DEF Rows
<1> HIDE DEF rows, w
<1>5. ASSUME NEW r \in 1..n PROVE slice(r) = ss[r]
  <2>1. (r - 1) * w \in Nat /\ (r - 1) * w + w = r * w /\ r * w <= n * w /\ n * w \in Nat /\ r * w \in Nat
    BY <1>2
  <2> DEFINE p == (r - 1) * w
  <2> HIDE DEF p
  <2>2. /\ slice(r) \in Seq(S) /\ Len(slice(r)) = w
        /\ \A j \in 1..w : slice(r)[j] = flat[p + j]
    <3>1. p \in Nat /\ p + w = r * w /\ p + w <= Len(flat) /\ flat \in Seq(S)
      BY <1>1, <2>1 DEF p
    <3>2. slice(r) = SubSeq(flat, p + 1, p + w)
      BY <2>1 DEF p
    <3>3. /\ SubSeq(flat, p + 1, p + w) \in Seq(S) /\ Len(SubSeq(flat, p + 1, p + w)) = w
          /\ \A j \in 1..w : SubSeq(flat, p + 1, p + w)[j] = flat[p + j]
      BY <1>2, <3>1
    <3> HIDE DEF slice
    <3>4. QED
      BY <3>2, <3>3
  <2>3. ss[r] \in Seq(S) /\ Len(ss[r]) = w /\ \A j \in 1..w : flat[p + j] = ss[r][j]
    BY <1>1, <1>2 DEF p
  <2> HIDE DEF slice
  <2>4. \A j \in 1..w : slice(r)[j] = ss[r][j]
    BY <2>2, <2>3
  <2>5. w \in Nat
    BY <1>2
  <2>6. QED
    BY <2>2, <2>3, <2>4, <2>5, SameItems
<1>6. ss = [r \in 1..n |-> ss[r]]
  BY DEF n
<1> HIDE DEF slice
<1>7. rows = ss
  BY <1>4, <1>5, <1>6
<1>8. QED
  BY <1>7 DEF rows, flat

EncodedRows(meaning, parms) == [r \in 1..Len(meaning.types) |-> EncodedRow(r, meaning, parms)]
PlainRows(meaning, size) == [r \in 1..Len(meaning.types) |-> PlainRow(meaning, size, r)]

\* Row by row, each with the one before it.
LEMMA DecodedRowsAre ==
  ASSUME NEW meaning \in MeaningType, NEW parms \in Parameters, PngMeaning(meaning, parms)
  PROVE  DecodedRows(EncodedRows(meaning, parms), RowSize(parms)) = PlainRows(meaning, RowSize(parms))
<1> DEFINE size == RowSize(parms)
           n == Len(meaning.types)
           rows == EncodedRows(meaning, parms)
           X(r) == PlainRow(meaning, size, r)
           g == [r \in 0..n |-> X(r)]
           Step(f, r) == IF r = 0 THEN FirstAbove(size) ELSE DecodedRow(rows[r], f[r - 1])
<1>1. n \in Nat /\ Len(rows) = n /\ \A r \in 1..n : rows[r] = EncodedRow(r, meaning, parms)
  BY DEF MeaningType, EncodedRows
<1>2. X(0) = FirstAbove(size)
  BY DEF PlainRow, FirstAbove
<1>3. \A r \in 1..n : DecodedRow(rows[r], X(r - 1)) = X(r)
  BY <1>1, EncodedRowIs
<1> HIDE DEF n, rows, X, size
<1>4. ASSUME NEW r \in 0..n PROVE g[r] = Step(g, r)
  <2>1. CASE r = 0
    BY <2>1, <1>2
  <2>2. CASE r # 0
    <3>1. r \in 1..n /\ r - 1 \in 0..n
      BY <1>1, <2>2
    <3>2. g[r] = X(r) /\ g[r - 1] = X(r - 1)
      BY <3>1
    <3>3. QED
      BY <1>3, <2>2, <3>1, <3>2
  <2>3. QED
    BY <2>1, <2>2
<1>5. g = [r \in 0..n |-> g[r]]
  OBVIOUS
<1>6. \A r \in 0..n : g[r] = X(r)
  OBVIOUS
<1> HIDE DEF g
<1>7. g = [r \in 0..n |-> Step(g, r)]
  <2> HIDE DEF Step
  <2>1. QED
    BY <1>4, <1>5
<1> DEFINE decoded == CHOOSE f : f = [r \in 0..n |-> Step(f, r)]
<1>8. decoded = [r \in 0..n |-> Step(decoded, r)]
  <2> HIDE DEF Step
  <2>1. QED
    BY <1>7
<1>9. DecodedRows(rows, size) = [r \in 1..n |-> decoded[r]]
  BY <1>1 DEF DecodedRows
<1> HIDE DEF decoded
<1> DEFINE U == {r \in Nat : r <= n => decoded[r] = g[r]}
<1>10. 0 \in U
  <2>1. 0 \in 0..n
    BY <1>1
  <2>2. decoded[0] = Step(decoded, 0) /\ g[0] = Step(g, 0)
    <3> HIDE DEF Step
    <3>1. QED
      BY <1>7, <1>8, <2>1
  <2>3. QED
    BY <2>2
<1>11. ASSUME NEW r \in U PROVE r + 1 \in U
  <2>1. ASSUME r + 1 <= n PROVE decoded[r + 1] = g[r + 1]
    <3>1. r \in Nat /\ decoded[r] = g[r] /\ r + 1 \in 0..n /\ r + 1 # 0 /\ (r + 1) - 1 = r
      BY <1>1, <2>1
    <3>2. decoded[r + 1] = Step(decoded, r + 1) /\ g[r + 1] = Step(g, r + 1)
      <4> HIDE DEF Step
      <4>1. QED
        BY <1>7, <1>8, <3>1
    <3>3. Step(decoded, r + 1) = Step(g, r + 1)
      BY <3>1
    <3>4. QED
      BY <3>2, <3>3
  <2>2. QED
    BY <2>1
<1>12. U = Nat
  <2> HIDE DEF U
  <2>1. U \in SUBSET Nat
    BY DEF U
  <2>2. QED
    BY <2>1, <1>10, <1>11, Numbers!SetInductionOnNat
<1>13. ASSUME NEW r \in 1..n PROVE decoded[r] = X(r)
  <2>1. r \in Nat /\ r <= n /\ r \in 0..n
    BY <1>1
  <2>2. QED
    BY <1>6, <1>12, <2>1
<1>14. DecodedRows(rows, size) = [r \in 1..n |-> X(r)]
  BY <1>9, <1>13
<1>15. QED
  BY <1>14 DEF PlainRows, n, rows, X, size

\* What the code decodes is what was encoded.
LEMMA UnpredictedIs ==
  ASSUME NEW meaning \in MeaningType, NEW parms \in Parameters, IsPng(parms), PngMeaning(meaning, parms)
  PROVE  /\ EncodedBytes(meaning, parms) \in Seq(Nat)
         /\ Unpredicted(EncodedBytes(meaning, parms), parms) = meaning.plain
         /\ RowsSupported(EncodedBytes(meaning, parms), parms)
<1> DEFINE size == RowSize(parms)
           n == Len(meaning.types)
           enc == EncodedRows(meaning, parms)
           plain == PlainRows(meaning, size)
           bytes == EncodedBytes(meaning, parms)
<1>1. /\ size \in Nat /\ n \in Nat /\ meaning.plain \in Seq(Bytes) /\ Len(meaning.plain) = size * n
      /\ DOMAIN meaning.types = 1..n
      /\ \A r \in 1..n : meaning.types[r] \in Supported
  BY DEF RowSize, Parameters, MeaningType, PngMeaning
<1>2. bytes = FlattenSeq(enc)
  BY <1>1 DEF EncodedBytes, EncodedRows, PngMeaning
<1>3. \A r \in 1..n : /\ EncodedRow(r, meaning, parms) \in Seq(Nat)
                      /\ Len(EncodedRow(r, meaning, parms)) = size + 1
                      /\ EncodedRow(r, meaning, parms)[1] = meaning.types[r]
  BY EncodedRowIs
<1>4. /\ enc \in Seq(Seq(Nat)) /\ Len(enc) = n
      /\ \A r \in 1..n : Len(enc[r]) = size + 1 /\ enc[r][1] = meaning.types[r]
  BY <1>1, <1>3 DEF EncodedRows
<1>5. /\ plain \in Seq(Seq(Bytes)) /\ Len(plain) = n
      /\ \A r \in 1..n : /\ Len(plain[r]) = size
                         /\ \A j \in 1..size : plain[r][j] = meaning.plain[(r - 1) * size + j]
  <2>1. \A r \in 1..n : /\ PlainRow(meaning, size, r) \in Seq(Bytes)
                        /\ Len(PlainRow(meaning, size, r)) = size
    BY <1>1, PlainRowIs
  <2>2. \A r \in 1..n : \A j \in 1..size : PlainRow(meaning, size, r)[j] = meaning.plain[(r - 1) * size + j]
    BY <1>1 DEF PlainRow
  <2> HIDE DEF size
  <2>3. QED
    BY <1>1, <2>1, <2>2 DEF PlainRows
<1>6. DecodedRows(enc, size) = plain
  BY DecodedRowsAre
<1> HIDE DEF size, n, enc, plain, bytes
<1>7. Rows(bytes, size) = enc
  <2>1. EachLen(enc, size + 1)
    BY <1>4 DEF EachLen
  <2>2. QED
    BY <2>1, <1>1, <1>2, <1>4, RowsAre
<1>8. FlattenSeq(plain) = meaning.plain
  <2>1. EachLen(plain, size) /\ InRows(meaning.plain, plain, size)
    BY <1>5 DEF EachLen, InRows
  <2>2. Len(meaning.plain) = size * Len(plain)
    BY <1>1, <1>5
  <2>3. QED
    BY <2>1, <2>2, <1>1, <1>5, RowsFlatten
<1>9. Unpredicted(bytes, parms) = meaning.plain
  BY <1>6, <1>7, <1>8 DEF Unpredicted, size
<1>10. RowsSupported(bytes, parms)
  <2>1. DOMAIN enc = 1..n
    BY <1>1, <1>4
  <2>2. \A i \in DOMAIN Rows(bytes, size) : Rows(bytes, size)[i][1] \in Supported
    BY <1>1, <1>4, <1>7, <2>1
  <2>3. QED
    BY <2>2 DEF RowsSupported, size
<1>11. bytes \in Seq(Nat)
  <2>1. size + 1 \in Nat
    BY <1>1
  <2>2. EachLen(enc, size + 1)
    BY <1>4 DEF EachLen
  <2>3. QED
    BY <2>1, <2>2, <1>2, <1>4, FlattenRows
<1>12. QED
  BY <1>9, <1>10, <1>11 DEF bytes


-----------------------------------------------------------------------------
(* What is decoded is what was meant                                        *)

OneFilter == [filter : FilterNames, parms : Parameters]
Filters == Seq(OneFilter)
FiltersNow == Chain(Content(FilterOf(dicts["a"])), Content(ParmsOf(dicts["a"])))
Accepted ==
  /\ Junk \notin {FilterOf(dicts["a"]), ParmsOf(dicts["a"])}
  /\ IsFilter(Content(FilterOf(dicts["a"])))
  /\ Agree(Content(FilterOf(dicts["a"])), Content(ParmsOf(dicts["a"])))

\* After done filters a buffer holds what is encoded in all layers but as many.
Decoded(filters, n, meaning) ==
  IF n = Len(filters) THEN Data(0, meaning.plain)
  ELSE Data(Len(filters) - n, EncodedBytes(meaning, Last(filters).parms))

\* The inductive invariant: while a stream is decoded, what the next filter reads is what
\* its writer encoded in the layers that are left.
RightInv ==
  /\ meant \in MeaningType
  /\ DOMAIN held = Buffers \union {"stream"}
  /\ chain \in Filters
  /\ status = "decoding" =>
       /\ Accepted /\ chain = FiltersNow /\ Len(chain) > 0
       /\ PromisedFor(chain, meant) => held[Source] = Decoded(chain, done, meant)
  /\ DecodesRight

\* A lookup that is promised finds its key, or the slot that was cleared.
LEMMA PromisedLookup ==
  ASSUME DictInv, dicts["a"] # NoDict, NEW key, LookupPromised(dicts["a"], key)
  PROVE  GetValue2(dicts["a"], key) # Junk
<1>1. DictOK(dicts["a"])
  BY DEF DictInv, Names
<1>2. Junk \notin Pointers /\ Null # Junk
  BY CellsAssumption DEF Pointers, Cells
<1>3. QED
  BY <1>1, <1>2, GetValueIs DEF LookupPromised

LEMMA FiltersStay ==
  ASSUME UNCHANGED dvars
  PROVE  FiltersNow' = FiltersNow /\ (Accepted' <=> Accepted)
BY DEF dvars, FiltersNow, Accepted, Content, FilterOf, ParmsOf

\* Every name of a filter that is accepted comes with parameters.
LEMMA FiltersTyped ==
  ASSUME DictInv, dicts["a"] # NoDict, Accepted
  PROVE  FiltersNow \in Filters
<1> DEFINE filter == Content(FilterOf(dicts["a"]))
           parms == Content(ParmsOf(dicts["a"]))
           n == Len(Items(filter))
<1>1. IsFilter(filter) /\ Agree(filter, parms)
  BY DEF Accepted
<1>2. n \in Nat /\ \A i \in 1..n : Items(filter)[i].name \in FilterNames
  BY <1>1, ChainIs DEF Accepted
<1>3. ParmsOf(dicts["a"]) = Null \/ parms \in Objects
  BY ContentIs DEF Accepted, ParmsOf
<1>4. filter.t = "none" => n = 0
  BY DEF Items
<1>5. NoParms \in Parameters
  BY DEF NoParms, Parameters
<1>6. ASSUME NEW i \in 1..n, parms.t # "none" PROVE Items(parms)[i].parms \in Parameters
  <2>1. parms \in Objects
    BY <1>3, <1>6 DEF Content
  <2>2. filter.t \in {"name", "array"}
    BY <1>1, <1>2, <1>4, <1>6 DEF IsFilter
  <2>3. Len(Items(parms)) = n /\ AllAre(parms, "dict") /\ parms.t \in {"dict", "array"}
    BY <1>1, <1>6, <2>2 DEF Agree
  <2> HIDE DEF n, parms, filter
  <2>4. Items(parms)[i].t = "dict"
    BY <1>6, <2>3 DEF AllAre
  <2>5. IsItem(Items(parms)[i])
    <3>1. CASE parms.t = "array"
      BY <3>1, <1>6, <2>1, <2>3, FiltersAssumption DEF Items
    <3>2. CASE parms.t = "dict"
      <4>1. Items(parms) = <<parms>> /\ IsItem(parms)
        BY <3>2, <2>1, FiltersAssumption DEF Items
      <4>2. n = 1
        BY <2>3, <4>1
      <4>3. QED
        BY <1>6, <4>1, <4>2
    <3>3. QED
      BY <2>3, <3>1, <3>2
  <2>6. QED
    BY <2>4, <2>5 DEF IsItem
<1> HIDE DEF n, filter, parms
<1>7. Chain(filter, parms) \in Filters
  <2> DEFINE item(i) == [filter |-> Items(filter)[i].name,
                         parms |-> IF parms.t = "none" THEN NoParms ELSE Items(parms)[i].parms]
  <2>1. \A i \in 1..n : item(i) \in OneFilter
    BY <1>2, <1>5, <1>6 DEF OneFilter
  <2>2. Chain(filter, parms) = [i \in 1..n |-> item(i)]
    BY DEF Chain, n
  <2> HIDE DEF item
  <2>3. QED
    BY <1>2, <2>1, <2>2 DEF Filters
<1>8. QED
  BY <1>7 DEF FiltersNow, filter, parms


\* A layer is taken off if what is under it fits in the largest buffer that is tried.
LEMMA InflatesIs ==
  ASSUME NEW cap \in Nat, cap >= BufLen, NEW k \in Nat \ {0}, NEW bytes, Len(bytes) \in Nat,
         k = 1 => Len(bytes) <= DoubledTimes(BufLen)[MaxRetry]
  PROVE  Inflates(Data(k, bytes), cap) /\ Inflated(Data(k, bytes)) = Data(k - 1, bytes)
<1>1. BufLen \in Nat \ {0} /\ MaxRetry \in Nat /\ 0 \in 0..MaxRetry /\ MaxRetry \in 0..MaxRetry
  BY StreamAssumption
<1>2. Data(k, bytes).z = k /\ Data(k, bytes).bytes = bytes
  BY DEF Data
<1>3. /\ DoubledTimes(cap)[0] \in Nat /\ DoubledTimes(cap)[0] >= 1
      /\ DoubledTimes(BufLen)[MaxRetry] \in Nat /\ DoubledTimes(cap)[MaxRetry] \in Nat
      /\ DoubledTimes(BufLen)[MaxRetry] <= DoubledTimes(cap)[MaxRetry]
  <2>1. \A r \in 0..MaxRetry :
           /\ DoubledTimes(cap)[r] \in Nat /\ DoubledTimes(cap)[r] >= cap
           /\ DoubledTimes(BufLen)[r] \in Nat /\ DoubledTimes(BufLen)[r] <= DoubledTimes(cap)[r]
    BY <1>1, TriedIs
  <2>2. cap >= 1
    BY <1>1
  <2>3. QED
    BY <1>1, <2>1, <2>2
<1>4. CASE k = 1
  <2>1. Size(Data(k - 1, bytes)) = Len(bytes)
    BY <1>4 DEF Size, Data
  <2>2. DoubledTimes(cap)[MaxRetry] \in Tried(cap) /\ DoubledTimes(cap)[MaxRetry] >= Len(bytes)
    BY <1>1, <1>3, <1>4 DEF Tried
  <2>3. QED
    BY <1>2, <2>1, <2>2 DEF Inflates, Inflated
<1>5. CASE k # 1
  <2>1. Size(Data(k - 1, bytes)) = 1
    BY <1>5 DEF Size, Data
  <2>2. DoubledTimes(cap)[0] \in Tried(cap) /\ DoubledTimes(cap)[0] >= 1
    BY <1>1, <1>3 DEF Tried
  <2>3. QED
    BY <1>2, <2>1, <2>2 DEF Inflates, Inflated
<1>6. QED
  BY <1>4, <1>5

\* What the last filter leaves under its layer, if it is promised.
LEMMA PromisedLast ==
  ASSUME NEW filters \in Filters, NEW meaning \in MeaningType, Len(filters) > 0, PromisedFor(filters, meaning)
  PROVE  LET parms == Last(filters).parms
             bytes == EncodedBytes(meaning, parms)
         IN  /\ Last(filters) = filters[Len(filters)]
             /\ Len(bytes) \in Nat /\ Len(bytes) <= DoubledTimes(BufLen)[MaxRetry]
             /\ parms.predictor = 1 => bytes = meaning.plain
             /\ parms.predictor # 1 =>
                  /\ IsPng(parms)
                  /\ Unpredicted(bytes, parms) = meaning.plain /\ RowsSupported(bytes, parms)
                  /\ Len(meaning.plain) \in Nat /\ Len(meaning.plain) <= BufLen
<1> DEFINE n == Len(filters)
           parms == Last(filters).parms
           bytes == EncodedBytes(meaning, parms)
<1>1. n \in Nat \ {0} /\ Last(filters) = filters[n] /\ filters[n].parms = parms
  BY DEF Filters, Last
<1>2. parms \in Parameters
  <2>1. filters \in Seq(OneFilter) /\ n \in 1..Len(filters)
    BY <1>1 DEF Filters
  <2>2. filters[n] \in OneFilter
    BY <2>1
  <2> HIDE DEF n, parms
  <2>3. QED
    BY <1>1, <2>2 DEF OneFilter
<1>3. filters # <<>>
  BY <1>1
<1>4. Encoded(filters, meaning).bytes = bytes
  BY <1>3 DEF Encoded, Data
<1>5. Len(bytes) <= DoubledTimes(BufLen)[MaxRetry] /\ (parms.predictor = 1 \/ IsPng(parms))
  BY <1>1, <1>4 DEF PromisedFor
<1>6. CASE parms.predictor = 1
  <2>1. bytes = meaning.plain
    BY <1>6 DEF EncodedBytes, IsPng
  <2>2. Len(bytes) \in Nat
    BY <2>1 DEF MeaningType
  <2>3. QED
    BY <1>1, <1>5, <1>6, <2>1, <2>2
<1>7. CASE parms.predictor # 1
  <2>1. /\ IsPng(parms)
        /\ Len(meaning.plain) = RowSize(parms) * Len(meaning.types)
        /\ Len(meaning.plain) <= BufLen
        /\ Range(meaning.types) \subseteq Supported
        /\ parms.sample = 1 \/ Range(meaning.types) \subseteq {0, 2}
    BY <1>1, <1>5, <1>7 DEF PromisedFor
  <2>2. \A i \in 1..Len(meaning.types) : meaning.types[i] \in Range(meaning.types)
    BY DEF MeaningType, Range
  <2>3. PngMeaning(meaning, parms)
    BY <2>1, <2>2 DEF PngMeaning
  <2> HIDE DEF parms
  <2>4. /\ bytes \in Seq(Nat) /\ Unpredicted(bytes, parms) = meaning.plain /\ RowsSupported(bytes, parms)
    BY <1>2, <2>1, <2>3, UnpredictedIs
  <2> HIDE DEF bytes
  <2>5. Len(bytes) \in Nat /\ Len(meaning.plain) \in Nat
    BY <2>4 DEF MeaningType
  <2>6. QED
    BY <1>1, <1>5, <1>7, <2>1, <2>4, <2>5 DEF parms, bytes
<1>8. QED
  BY <1>6, <1>7

\* A filter of a stream that is promised succeeds, and leaves a layer less or the plain data.
LEMMA FilterDecodes ==
  ASSUME TypeInv, RightInv, Filter, PromisedFor(chain, meant)
  PROVE  \E cap : Write(Decoded(chain, done + 1, meant), cap)
<1> DEFINE n == Len(chain)
           next == chain[done + 1]
           data == held[Source]
           cap == caps[Target]
           parms == Last(chain).parms
           bytes == EncodedBytes(meant, parms)
           k == n - done
<1>1. /\ status = "decoding" /\ done < n /\ done \in Nat /\ n \in Nat /\ chain \in Filters
      /\ meant \in MeaningType /\ n > 0
      /\ data = Decoded(chain, done, meant)
  BY DEF Filter, TypeInv, RightInv
<1>2. cap \in Nat /\ cap >= BufLen
  BY SourceTarget DEF TypeInv
<1>3. next.filter = "flate" /\ (done + 1 < n => next.parms.predictor = 1)
  BY <1>1 DEF PromisedFor
<1>4. \/ Inflate(next.parms, data, cap)
      \/ InflateRows(next.parms, data, cap)
      \/ OtherPredictor(next.parms)
  BY <1>3 DEF Filter
<1>5. /\ Last(chain) = chain[n]
      /\ Len(bytes) \in Nat /\ Len(bytes) <= DoubledTimes(BufLen)[MaxRetry]
      /\ parms.predictor = 1 => bytes = meant.plain
      /\ parms.predictor # 1 =>
           /\ IsPng(parms)
           /\ Unpredicted(bytes, parms) = meant.plain /\ RowsSupported(bytes, parms)
           /\ Len(meant.plain) \in Nat /\ Len(meant.plain) <= BufLen
  BY <1>1, PromisedLast
<1>6. k \in Nat \ {0} /\ data = Data(k, bytes)
  BY <1>1 DEF Decoded
<1> HIDE DEF k, bytes, data, cap, next, parms
<1>7. Inflates(data, cap) /\ Inflated(data) = Data(k - 1, bytes) /\ data.bytes = bytes
  BY <1>2, <1>5, <1>6, InflatesIs DEF Data
<1>8. CASE next.parms.predictor = 1
  <2>1. ~IsPng(next.parms)
    BY <1>8 DEF IsPng
  <2>2. Inflate(next.parms, data, cap)
    BY <1>4, <1>8, <2>1 DEF InflateRows, OtherPredictor
  <2>3. \E c : Write(Data(k - 1, bytes), c)
    BY <1>7, <2>2 DEF Inflate
  <2>4. Data(k - 1, bytes) = Decoded(chain, done + 1, meant)
    <3>1. CASE done + 1 = n
      <4>1. next.parms = parms /\ k - 1 = 0
        BY <1>1, <1>5, <3>1 DEF next, parms, k
      <4>2. QED
        BY <1>5, <1>8, <3>1, <4>1 DEF Decoded
    <3>2. CASE done + 1 # n
      BY <1>1, <3>2 DEF Decoded, k, bytes, parms
    <3>3. QED
      BY <3>1, <3>2
  <2>5. QED
    BY <2>3, <2>4
<1>9. CASE next.parms.predictor # 1
  <2>1. done + 1 = n
    BY <1>1, <1>3, <1>9
  <2>2. next.parms = parms
    BY <1>1, <1>5, <2>1 DEF next, parms
  <2>3. /\ IsPng(parms) /\ Unpredicted(bytes, parms) = meant.plain /\ RowsSupported(bytes, parms)
        /\ Len(meant.plain) \in Nat /\ Len(meant.plain) <= BufLen
    BY <1>5, <1>9, <2>2
  <2>4. InflateRows(parms, data, cap)
    BY <1>4, <1>9, <2>2, <2>3 DEF Inflate, OtherPredictor
  <2>5. ~(Len(meant.plain) > cap)
    BY <1>2, <2>3, StreamAssumption
  <2>6. data.z = 1 /\ ~(data.z > 1)
    <3>1. k = 1
      BY <1>1, <2>1 DEF k
    <3>2. QED
      BY <1>6, <3>1 DEF Data
  <2>7. Write(Data(0, meant.plain), cap)
    BY <1>7, <2>3, <2>4, <2>5, <2>6 DEF InflateRows
  <2>8. Decoded(chain, done + 1, meant) = Data(0, meant.plain)
    BY <2>1 DEF Decoded
  <2>9. QED
    BY <2>7, <2>8
<1>10. QED
  BY <1>8, <1>9


LEMMA NothingMeant == Nothing \in MeaningType /\ <<>> \in Filters
BY DEF Nothing, MeaningType, Filters

LEMMA DecodeRight ==
  ASSUME TypeInv, RightInv, DictInv, NEW meaning \in Meanings, Decode(meaning)
  PROVE  RightInv'
<1> DEFINE filter == Content(FilterOf(dicts["a"]))
           parms == Content(ParmsOf(dicts["a"]))
           refused == ~IsFilter(filter) \/ ~Agree(filter, parms)
           undefined == Junk \in {FilterOf(dicts["a"]), ParmsOf(dicts["a"])}
<1>1. /\ status = "idle" /\ dicts["a"] # NoDict /\ done = 0 /\ meant' = meaning /\ UNCHANGED dvars
      /\ meaning \in MeaningType
  BY MeaningsAssumption DEF Decode, TypeInv, MeaningType
<1>2. FiltersNow' = FiltersNow /\ (Accepted' <=> Accepted)
  BY <1>1, FiltersStay
<1>3. (undefined \/ refused) <=> ~Accepted
  BY DEF Accepted
<1>4. Promised' => Accepted /\ PromisedFor(FiltersNow, meaning)
  <2>1. ASSUME Promised' PROVE Accepted /\ PromisedFor(FiltersNow, meaning)
    <3>1. PromisedFor(FiltersNow', meant')
      BY <2>1 DEF Promised, FiltersNow
    <3>2. LookupPromised(dicts["a"], "/Filter") /\ LookupPromised(dicts["a"], "/DecodeParms")
      BY <2>1, <1>1 DEF Promised, dvars
    <3>3. Junk \notin {FilterOf(dicts["a"]), ParmsOf(dicts["a"])}
      BY <1>1, <3>2, PromisedLookup DEF FilterOf, ParmsOf
    <3>4. ~refused
      BY <2>1, <1>1 DEF Promised, dvars, Content, FilterOf, ParmsOf
    <3>5. QED
      BY <1>1, <1>2, <3>1, <3>3, <3>4 DEF Accepted
  <2>2. QED
    BY <2>1
<1>5. CASE undefined \/ refused
  <2>1. (Return("undefined") \/ Return("error")) /\ UNCHANGED <<held, chain>>
    BY <1>5 DEF Decode
  <2>2. status' # "decoding" /\ ~Promised'
    BY <1>3, <1>4, <1>5, <2>1 DEF Return
  <2>3. QED
    BY <1>1, <2>1, <2>2 DEF RightInv, DecodesRight
<1>6. CASE ~(undefined \/ refused)
  <2>1. /\ chain' = Chain(filter, parms)
        /\ held' = [held EXCEPT !["stream"] = Encoded(chain', meaning)]
        /\ IF chain' = <<>> THEN Return("alias")
           ELSE status' = "decoding" /\ live' = Buffers /\ UNCHANGED <<caps, done, source, out>>
    BY <1>6 DEF Decode
  <2>2. chain' = FiltersNow /\ Accepted
    BY <1>3, <1>6, <2>1 DEF FiltersNow
  <2>3. chain' \in Filters
    BY <1>1, <2>2, FiltersTyped
  <2>4. DOMAIN held' = Buffers \union {"stream"} /\ held'["stream"] = Encoded(chain', meaning)
    BY <2>1 DEF RightInv
  <2> HIDE DEF filter, parms
  <2>5. CASE chain' = <<>>
    <3>1. status' = "alias"
      BY <2>1, <2>5 DEF Return
    <3>2. held'["stream"] = Data(0, meaning.plain)
      BY <2>4, <2>5 DEF Encoded
    <3>3. QED
      BY <1>1, <2>3, <2>4, <3>1, <3>2 DEF RightInv, DecodesRight
  <2>6. CASE chain' # <<>>
    <3>1. status' = "decoding" /\ done' = done
      BY <2>1, <2>6
    <3>2. Len(chain') \in Nat \ {0}
      BY <2>3, <2>6 DEF Filters
    <3>3. Source' = "stream"
      BY <1>1, <3>1 DEF Source
    <3>4. PromisedFor(chain', meaning) => held'["stream"] = Decoded(chain', 0, meaning)
      BY <2>4, <2>6, <3>2 DEF PromisedFor, Encoded, Decoded
    <3>5. PromisedFor(chain', meant') => held'[Source'] = Decoded(chain', done', meant')
      BY <1>1, <3>1, <3>3, <3>4
    <3>6. chain' = FiltersNow' /\ Accepted'
      BY <1>2, <2>2
    <3>7. DecodesRight'
      BY <3>1 DEF DecodesRight
    <3>8. QED
      BY <1>1, <2>3, <2>4, <3>1, <3>2, <3>5, <3>6, <3>7 DEF RightInv
  <2>7. QED
    BY <2>5, <2>6
<1>7. QED
  BY <1>5, <1>6

LEMMA FilterRight ==
  ASSUME TypeInv, RightInv, Filter
  PROVE  RightInv'
<1>1. /\ status = "decoding" /\ done < Len(chain) /\ done \in Nat /\ Len(chain) \in Nat
      /\ UNCHANGED <<chain, meant>> /\ UNCHANGED dvars
      /\ meant \in MeaningType /\ chain \in Filters
      /\ DOMAIN held = Buffers \union {"stream"}
      /\ Accepted /\ chain = FiltersNow /\ Len(chain) > 0
  BY DEF Filter, RightInv, TypeInv
<1>2. FiltersNow' = FiltersNow /\ (Accepted' <=> Accepted)
  BY <1>1, FiltersStay
<1>3. Promised' => PromisedFor(chain, meant)
  <2>1. Promised' => PromisedFor(FiltersNow', meant')
    BY DEF Promised, FiltersNow
  <2>2. QED
    BY <1>1, <1>2, <2>1
<1>4. DOMAIN held' = DOMAIN held
  BY DEF Filter, Inflate, InflateRows, OtherPredictor, Write, Fail
<1>5. CASE PromisedFor(chain, meant)
  <2>1. PICK cap : Write(Decoded(chain, done + 1, meant), cap)
    BY <1>5, FilterDecodes
  <2>2. /\ status' = "decoding" /\ done' = done + 1 /\ out' = Target
        /\ held' = [held EXCEPT ![Target] = Decoded(chain, done + 1, meant)]
    BY <1>1, <2>1 DEF Write
  <2>3. Source' = Target
    <3>1. Source' = IF done' = 0 THEN "stream" ELSE out'
      BY DEF Source
    <3>2. QED
      BY <1>1, <2>2, <3>1
  <2>4. Target \in DOMAIN held
    BY <1>1, SourceTarget
  <2>5. held'[Source'] = Decoded(chain', done', meant')
    BY <1>1, <2>2, <2>3, <2>4
  <2>6. DecodesRight'
    BY <2>2 DEF DecodesRight
  <2>7. QED
    BY <1>1, <1>2, <1>4, <2>2, <2>5, <2>6 DEF RightInv
<1>6. CASE ~PromisedFor(chain, meant)
  <2>1. DecodesRight'
    BY <1>3, <1>6 DEF DecodesRight
  <2>2. ~PromisedFor(chain', meant')
    BY <1>1, <1>6
  <2>3. chain' = FiltersNow' /\ Accepted' /\ Len(chain') > 0
    BY <1>1, <1>2
  <2>4. QED
    BY <1>1, <1>4, <2>1, <2>2, <2>3 DEF RightInv
<1>7. QED
  BY <1>5, <1>6

LEMMA FinishRight ==
  ASSUME TypeInv, RightInv, Finish
  PROVE  RightInv'
<1>1. /\ status = "decoding" /\ done = Len(chain) /\ status' = "ok"
      /\ UNCHANGED <<held, chain, done, out, meant>> /\ UNCHANGED dvars
      /\ Accepted /\ chain = FiltersNow /\ Len(chain) > 0
  BY DEF Finish, RightInv
<1>2. FiltersNow' = FiltersNow /\ (Accepted' <=> Accepted)
  BY <1>1, FiltersStay
<1>3. Promised' => PromisedFor(chain, meant)
  <2>1. Promised' => PromisedFor(FiltersNow', meant')
    BY DEF Promised, FiltersNow
  <2>2. QED
    BY <1>1, <1>2, <2>1
<1>4. PromisedFor(chain, meant) => held[out] = Data(0, meant.plain)
  BY <1>1 DEF RightInv, Source, Decoded
<1>5. DecodesRight'
  BY <1>1, <1>3, <1>4 DEF DecodesRight
<1>6. QED
  BY <1>1, <1>5 DEF RightInv

\* A stream whose filters the code supports decodes to what its writer meant, for every
\* number of filters, every PNG row, every capacity of the buffers and every dictionary that
\* has both keys or whose vectors never grew.
THEOREM StreamsDecodeRight == StreamSpec => []DecodesRight
<1>1. StreamInit => RightInv
  BY NothingMeant DEF StreamInit, RightInv, DecodesRight, Empty
<1>2. RightInv /\ TypeInv /\ DictInv /\ [StreamNext]_svars => RightInv'
  <2> SUFFICES ASSUME RightInv, TypeInv, DictInv, [StreamNext]_svars PROVE RightInv'
    OBVIOUS
  <2>1. CASE Edit
    <3>1. status = "idle" /\ UNCHANGED <<held, status, chain, meant>>
      BY <2>1 DEF Edit
    <3>2. QED
      BY <3>1 DEF RightInv, DecodesRight
  <2>2. CASE Done
    BY <2>2, NothingMeant DEF Done, RightInv, DecodesRight, Empty
  <2>3. CASE UNCHANGED svars
    <3>1. /\ UNCHANGED <<held, status, chain, meant, done, out>> /\ UNCHANGED dvars
      BY <2>3 DEF svars, bvars
    <3>2. FiltersNow' = FiltersNow /\ (Accepted' <=> Accepted)
      BY <3>1, FiltersStay
    <3>3. Promised' <=> Promised
      BY <3>1 DEF Promised, LookupPromised, HasKey, HasGrown, Content, FilterOf, ParmsOf, dvars
    <3>4. Source' = Source
      BY <3>1 DEF Source
    <3>5. QED
      BY <3>1, <3>2, <3>3, <3>4 DEF RightInv, DecodesRight
  <2>4. QED
    BY <2>1, <2>2, <2>3, DecodeRight, FilterRight, FinishRight DEF StreamNext
<1>3. RightInv => DecodesRight
  BY DEF RightInv
<1>4. QED
  BY <1>1, <1>2, <1>3, TypeInvariant, DictInvariant, PTL DEF StreamSpec
=============================================================================
