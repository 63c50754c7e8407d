----------------------- MODULE PackageManagerCommands -----------------------
(***************************************************************************)
(* The commands of PackageManager and the start-up list: what a command    *)
(* has still to call, what it has unloaded and loaded so far, and which    *)
(* lines the list keeps.  CommandInv is the invariant; that every step     *)
(* keeps it needs GraphInv, which PackageManagerProofs proves.             *)
(***************************************************************************)
EXTENDS PackageManager, SequenceTheorems, FiniteSetTheorems, TLAPS

USE ZenonT(30)

(* Sets with the same members are equal.                                   *)
LEMMA SameMembers ==
  ASSUME NEW A, NEW B, \A x : x \in A <=> x \in B
  PROVE  A = B
OBVIOUS

(* An index that is not the last is below it.                              *)
LEMMA BelowLast ==
  ASSUME NEW n \in Nat, NEW i \in 1..n, i # n
  PROVE  i < n /\ n \in 1..n
BY SMTT(30)

-----------------------------------------------------------------------------
(* The call stack after a call.                                            *)
LEMMA PushStack ==
  ASSUME stack \in Seq(Packages), NEW d \in Packages, stack' = Append(stack, d)
  PROVE  /\ stack' \in Seq(Packages)
         /\ Len(stack) \in Nat
         /\ DOMAIN stack = 1..Len(stack) /\ DOMAIN stack' = 1..(Len(stack) + 1)
         /\ \A i \in DOMAIN stack : stack'[i] = stack[i] /\ stack[i] \in Packages
         /\ stack'[Len(stack) + 1] = d
         /\ CheckStack' = CheckStack \cup {d}
<1>1. /\ stack' \in Seq(Packages) /\ Len(stack') = Len(stack) + 1
      /\ \A i \in 1..Len(stack) : stack'[i] = stack[i]
      /\ stack'[Len(stack) + 1] = d
  BY SMTT(30), AppendProperties
<1>2. DOMAIN stack = 1..Len(stack) /\ Len(stack) \in Nat /\ DOMAIN stack' = 1..Len(stack')
  BY <1>1, LenProperties
<1>3. CheckStack' = CheckStack \cup {d}
  BY SMTT(30), <1>1, <1>2 DEF CheckStack
<1>4. \A i \in 1..Len(stack) : stack[i] \in Packages
  BY ElementOfSeq
<1> QED BY <1>1, <1>2, <1>3, <1>4

(* The call stack after a return.                                          *)
LEMMA PopStack ==
  ASSUME stack \in Seq(Packages), stack # << >>, stack' = SubSeq(stack, 1, Len(stack) - 1),
         \A i, j \in DOMAIN stack : stack[i] = stack[j] => i = j
  PROVE  /\ stack' \in Seq(Packages)
         /\ Len(stack) \in Nat
         /\ DOMAIN stack = 1..Len(stack) /\ DOMAIN stack' = 1..(Len(stack) - 1)
         /\ \A i \in DOMAIN stack' :
              /\ i \in DOMAIN stack /\ stack'[i] = stack[i]
              /\ stack[i] \in Packages /\ stack[i] # stack[Len(stack)]
         /\ CheckStack' = CheckStack \ {stack[Len(stack)]}
         /\ stack[Len(stack)] \in CheckStack
<1>1. DOMAIN stack = 1..Len(stack) /\ Len(stack) \in Nat /\ Len(stack) # 0
  BY LenProperties, EmptySeq
<1>2. /\ stack' \in Seq(Packages) /\ Len(stack') = Len(stack) - 1
      /\ \A i \in 1..(Len(stack) - 1) : stack'[i] = stack[i]
  BY SMTT(30), <1>1, SubSeqProperties
<1>3. DOMAIN stack' = 1..(Len(stack) - 1)
  BY <1>2, LenProperties
<1>4. Len(stack) \in DOMAIN stack
  BY SMTT(30), <1>1
<1>5. CheckStack' = CheckStack \ {stack[Len(stack)]}
  <2>1. \A x : x \in CheckStack <=> \E i \in 1..Len(stack) : x = stack[i]
    BY <1>1 DEF CheckStack
  <2>2. \A x : x \in CheckStack' <=> \E i \in 1..(Len(stack) - 1) : x = stack[i]
    BY <1>2, <1>3 DEF CheckStack
  <2>3. \A i \in 1..Len(stack) : stack[i] = stack[Len(stack)] <=> i = Len(stack)
    BY <1>1, <1>4
  <2>4. \A i : i \in 1..(Len(stack) - 1) <=> i \in 1..Len(stack) /\ i # Len(stack)
    BY SMTT(30), <1>1
  <2>5. \A x : x \in CheckStack' <=> x \in CheckStack \ {stack[Len(stack)]}
    BY <2>1, <2>2, <2>3, <2>4
  <2> QED BY <2>5, SameMembers
<1>6. stack[Len(stack)] \in CheckStack
  BY <1>4 DEF CheckStack
<1>7. \A i \in 1..(Len(stack) - 1) :
        i \in DOMAIN stack /\ stack[i] \in Packages /\ stack[i] # stack[Len(stack)]
  <2>1. \A i : i \in 1..(Len(stack) - 1) <=> i \in 1..Len(stack) /\ i # Len(stack)
    BY SMTT(30), <1>1
  <2>2. \A i \in 1..Len(stack) : stack[i] \in Packages
    BY ElementOfSeq
  <2> QED BY <2>1, <2>2, <1>1, <1>4
<1> QED BY <1>1, <1>2, <1>3, <1>5, <1>6, <1>7

(* Between calls no package is being loaded or unloaded.                   *)
LEMMA EmptyStack ==
  ASSUME GraphInv, stack = << >>
  PROVE  CheckStack = {} /\ \A q \in Packages : act[q].pc = "none"
<1>1. DOMAIN stack = {}
  BY SMTT(30), LenProperties, EmptySeq DEF GraphInv, GraphTypes
<1>2. CheckStack = {}
  BY <1>1 DEF CheckStack
<1> QED BY <1>2 DEF GraphInv, CallsInv

USE DEF LoadPC, UnloadPC

-----------------------------------------------------------------------------
(* Sequences of any elements.                                              *)

(* Functions on 1..n are sequences.                                        *)
LEMMA InSeq ==
  ASSUME NEW T, NEW n \in Nat, NEW s \in [1..n -> T]
  PROVE  s \in Seq(T)
<1>1. Seq(T) = UNION {[1..k -> T] : k \in Nat}
  BY SeqDef
<1> QED BY <1>1

(* A sequence of elements of a set is one.                                 *)
LEMMA SeqIs ==
  ASSUME NEW S, NEW s \in Seq(S)
  PROVE  IsSequence(s)
<1>1. Len(s) \in Nat /\ DOMAIN s = 1..Len(s) /\ s \in [1..Len(s) -> S]
  BY LenProperties
<1>2. s \in [1..Len(s) -> {s[i] : i \in DOMAIN s}]
  BY <1>1
<1> QED BY <1>1, <1>2, InSeq DEF IsSequence

(* So is a function on 1..n.                                               *)
LEMMA FunctionIs ==
  ASSUME NEW n \in Nat, NEW s, DOMAIN s = 1..n, s = [i \in 1..n |-> s[i]]
  PROVE  IsSequence(s) /\ Len(s) = n
<1>1. s \in [1..n -> {s[i] : i \in DOMAIN s}]
  OBVIOUS
<1>2. s \in Seq({s[i] : i \in DOMAIN s})
  BY <1>1, InSeq
<1>3. 1..n = 1..Len(s) /\ Len(s) \in Nat
  BY <1>2, LenProperties
<1>4. Len(s) = n
  BY SMTT(30), <1>3
<1> QED BY <1>2, <1>4 DEF IsSequence

(* The indices of a sequence.                                              *)
LEMMA Indices ==
  ASSUME NEW s, IsSequence(s)
  PROVE  /\ Len(s) \in Nat /\ DOMAIN s = 1..Len(s)
         /\ s = << >> => DOMAIN s = {}
         /\ s # << >> => 1 \in DOMAIN s /\ Head(s) = s[1] /\ Len(s) # 0
<1>1. Len(s) \in Nat /\ DOMAIN s = 1..Len(s)
  BY LenProperties DEF IsSequence
<1>2. s = << >> <=> Len(s) = 0
  BY EmptySeq DEF IsSequence
<1>3. s # << >> => Head(s) = s[1]
  BY SMTT(30) DEF IsSequence
<1>4. Len(s) = 0 => 1..Len(s) = {}
  BY SMTT(30)
<1>5. Len(s) # 0 => 1 \in 1..Len(s)
  BY SMTT(30), <1>1
<1> QED BY <1>1, <1>2, <1>3, <1>4, <1>5

(* What remains of a sequence.                                             *)
LEMMA TailIs ==
  ASSUME NEW s, IsSequence(s), s # << >>
  PROVE  /\ IsSequence(Tail(s)) /\ Len(Tail(s)) = Len(s) - 1
         /\ \A i \in DOMAIN Tail(s) : i + 1 \in DOMAIN s /\ Tail(s)[i] = s[i + 1]
         /\ \A i \in DOMAIN s : i = 1 \/ (i - 1 \in DOMAIN Tail(s) /\ Tail(s)[i - 1] = s[i])
<1> DEFINE S == {s[i] : i \in DOMAIN s}
<1>1. s \in Seq(S)
  BY DEF IsSequence
<1> HIDE DEF S
<1>2. /\ Tail(s) \in Seq(S) /\ Len(Tail(s)) = Len(s) - 1
      /\ \A i \in 1..Len(Tail(s)) : Tail(s)[i] = s[i + 1]
  BY <1>1, HeadTailProperties
<1>3. Len(s) \in Nat /\ DOMAIN s = 1..Len(s) /\ DOMAIN Tail(s) = 1..Len(Tail(s))
  BY <1>1, <1>2, LenProperties
<1>4. \A i \in 1..(Len(s) - 1) : i + 1 \in 1..Len(s)
  BY SMTT(30), <1>3
<1>5. \A i \in 1..Len(s) : i = 1 \/ (i - 1 \in 1..(Len(s) - 1) /\ (i - 1) + 1 = i)
  BY SMTT(30), <1>3
<1>6. ASSUME NEW i \in DOMAIN s, i # 1 PROVE i - 1 \in DOMAIN Tail(s) /\ Tail(s)[i - 1] = s[i]
  <2>1. i - 1 \in 1..Len(Tail(s)) /\ (i - 1) + 1 = i
    BY <1>2, <1>3, <1>5, <1>6
  <2>2. Tail(s)[i - 1] = s[(i - 1) + 1]
    BY <1>2, <2>1
  <2> QED BY <1>3, <2>1, <2>2
<1> QED BY <1>2, <1>3, <1>4, <1>6, SeqIs

(* u is s with t behind it.                                                *)
Joined(s, t, u) ==
  /\ IsSequence(u) /\ Len(u) = Len(s) + Len(t)
  /\ \A i \in DOMAIN s : i \in DOMAIN u /\ u[i] = s[i]
  /\ \A j \in DOMAIN t : Len(s) + j \in DOMAIN u /\ u[Len(s) + j] = t[j]
  /\ \A i \in DOMAIN u : i \in DOMAIN s \/ \E j \in DOMAIN t : i = Len(s) + j

(* Two sequences, one behind the other.                                    *)
LEMMA ConcatIs ==
  ASSUME NEW s, NEW t, IsSequence(s), IsSequence(t)
  PROVE  Joined(s, t, s \o t)
<1> DEFINE S == {s[i] : i \in DOMAIN s} \cup {t[i] : i \in DOMAIN t}
<1>1. s \in Seq(S) /\ t \in Seq(S)
  <2>1. \A A, B, x : A \subseteq B /\ x \in Seq(A) => x \in Seq(B)
    BY SeqMonotonic
  <2> QED BY <2>1 DEF IsSequence
<1> HIDE DEF S
<1>2. /\ s \o t \in Seq(S) /\ Len(s \o t) = Len(s) + Len(t)
      /\ \A i \in 1..(Len(s) + Len(t)) : (s \o t)[i] = IF i <= Len(s) THEN s[i] ELSE t[i - Len(s)]
  BY <1>1, ConcatProperties
<1>3. /\ Len(s) \in Nat /\ Len(t) \in Nat
      /\ DOMAIN s = 1..Len(s) /\ DOMAIN t = 1..Len(t) /\ DOMAIN (s \o t) = 1..(Len(s) + Len(t))
  BY <1>1, <1>2, LenProperties
<1>4. \A i \in 1..Len(s) : i \in 1..(Len(s) + Len(t)) /\ i <= Len(s)
  BY SMTT(30), <1>3
<1>5. \A j \in 1..Len(t) :
        Len(s) + j \in 1..(Len(s) + Len(t)) /\ ~(Len(s) + j <= Len(s)) /\ (Len(s) + j) - Len(s) = j
  BY SMTT(30), <1>3
<1>6. \A i \in 1..(Len(s) + Len(t)) :
        i \in 1..Len(s) \/ (i - Len(s) \in 1..Len(t) /\ i = Len(s) + (i - Len(s)))
  BY SMTT(30), <1>3
<1>7. ASSUME NEW j \in DOMAIN t PROVE (s \o t)[Len(s) + j] = t[j]
  <2>1. (s \o t)[Len(s) + j] = t[(Len(s) + j) - Len(s)]
    BY <1>2, <1>3, <1>5
  <2> QED BY <1>3, <1>5, <2>1
<1>8. IsSequence(s \o t)
  BY <1>2, SeqIs
<1>9. \A i \in DOMAIN s : i \in DOMAIN (s \o t) /\ (s \o t)[i] = s[i]
  BY <1>2, <1>3, <1>4
<1> QED BY <1>2, <1>3, <1>5, <1>6, <1>7, <1>8, <1>9 DEF Joined

(* Short sequences.                                                        *)
LEMMA PairIs ==
  ASSUME NEW a, NEW b, NEW s, s = <<a, b>>
  PROVE  IsSequence(s) /\ Len(s) = 2 /\ DOMAIN s = {1, 2} /\ s[1] = a /\ s[2] = b
<1>1. s \in Seq({a, b}) /\ Len(s) = 2 /\ s[1] = a /\ s[2] = b
  BY SMTT(30)
<1>2. 1..2 = {1, 2}
  BY SMTT(30)
<1> QED BY <1>1, <1>2, SeqIs, Indices

(* One element.                                                            *)
LEMMA SingleIs ==
  ASSUME NEW a, NEW s, s = <<a>>
  PROVE  IsSequence(s) /\ Len(s) = 1 /\ DOMAIN s = {1} /\ s[1] = a
<1>1. s \in Seq({a}) /\ Len(s) = 1 /\ s[1] = a
  BY SMTT(30)
<1>2. 1..1 = {1}
  BY SMTT(30)
<1> QED BY <1>1, <1>2, SeqIs, Indices

(* No element.                                                             *)
LEMMA EmptyIs == IsSequence(<< >>) /\ DOMAIN << >> = {}
<1>1. << >> \in Seq({}) /\ Len(<< >>) = 0
  BY SMTT(30)
<1>2. 1..0 = {}
  BY SMTT(30)
<1>3. IsSequence(<< >>)
  BY <1>1, SeqIs
<1> QED BY <1>1, <1>2, <1>3, Indices

(* One more element.                                                       *)
LEMMA AppendIs ==
  ASSUME NEW s, NEW x, IsSequence(s)
  PROVE  /\ IsSequence(Append(s, x))
         /\ \A i \in DOMAIN s : i \in DOMAIN Append(s, x) /\ Append(s, x)[i] = s[i]
         /\ \E i \in DOMAIN Append(s, x) : Append(s, x)[i] = x
<1>1. PICK t : t = <<x>>
  OBVIOUS
<1>2. Append(s, x) = s \o <<x>>
  <2> DEFINE S == {s[i] : i \in DOMAIN s} \cup {x}
  <2>1. s \in Seq(S) /\ x \in S
    BY SeqMonotonic DEF IsSequence
  <2> HIDE DEF S
  <2> QED BY <2>1, AppendIsConcat
<1>3. IsSequence(t) /\ 1 \in DOMAIN t /\ t[1] = x
  BY <1>1, SingleIs
<1>4. Joined(s, t, s \o t)
  BY <1>3, ConcatIs
<1>5. Len(s) + 1 \in DOMAIN (s \o t) /\ (s \o t)[Len(s) + 1] = x
  BY <1>3, <1>4 DEF Joined
<1> QED BY <1>1, <1>2, <1>4, <1>5 DEF Joined

-----------------------------------------------------------------------------
(* The start-up list.                                                      *)

(* Any lines of the list are a list again.                                 *)
LEMMA LinesKeep ==
  ASSUME NEW rest \in SUBSET DOMAIN startup, IsSequence(startup)
  PROVE  /\ IsSequence(Lines(rest))
         /\ \A i \in rest : \E n \in DOMAIN Lines(rest) : Lines(rest)[n] = startup[i]
<1> DEFINE Upto(i) == {j \in rest : j <= i}
           Nth(n) == startup[CHOOSE i \in rest : Cardinality(Upto(i)) = n]
           new == [n \in 1..Cardinality(rest) |-> Nth(n)]
<1>1. Len(startup) \in Nat /\ DOMAIN startup = 1..Len(startup)
  BY Indices
<1>2. IsFiniteSet(1..Len(startup)) /\ Cardinality(1..Len(startup)) = Len(startup)
  <2>1. PICK n \in Nat : n = Len(startup)
    BY <1>1
  <2>2. IsFiniteSet(1..n) /\ Cardinality(1..n) = n
    <3>1. n \in Int /\ 1 \in Int /\ n - 1 + 1 = n /\ (1 > n => n = 0)
      BY SMTT(30)
    <3>2. IsFiniteSet(1..n) /\ Cardinality(1..n) = IF 1 > n THEN 0 ELSE n - 1 + 1
      BY <3>1, FS_Interval
    <3> QED BY <3>1, <3>2
  <2> QED BY <2>1, <2>2
<1>3. IsFiniteSet(rest) /\ Cardinality(rest) \in Nat
  <2>1. rest \in SUBSET (1..Len(startup))
    BY <1>1
  <2>2. IsFiniteSet(rest)
    BY <1>2, <2>1, FS_Subset
  <2> QED BY <1>2, <2>2, FS_CardinalityType
<1>4. \A i \in rest : IsFiniteSet(Upto(i)) /\ Cardinality(Upto(i)) \in 1..Cardinality(rest)
  <2> SUFFICES ASSUME NEW i \in rest
               PROVE  IsFiniteSet(Upto(i)) /\ Cardinality(Upto(i)) \in 1..Cardinality(rest)
    OBVIOUS
  <2>1. IsFiniteSet(Upto(i)) /\ Cardinality(Upto(i)) <= Cardinality(rest)
    BY <1>3, FS_Subset
  <2>2. i \in Upto(i)
    BY SMTT(30), <1>1
  <2>3. Cardinality(Upto(i)) \in Nat /\ Cardinality(Upto(i)) # 0
    BY <2>1, <2>2, FS_CardinalityType, FS_EmptySet
  <2> HIDE DEF Upto
  <2> QED BY SMTT(30), <1>3, <2>1, <2>3
<1>5. \A i, k \in rest : Cardinality(Upto(i)) = Cardinality(Upto(k)) => i = k
  <2>1. ASSUME NEW i \in rest, NEW k \in rest, i <= k, Cardinality(Upto(i)) = Cardinality(Upto(k))
        PROVE  i = k
    <3>1. i \in Nat /\ k \in Nat /\ \A j \in rest : j \in Nat
      BY SMTT(30), <1>1
    <3>2. Upto(i) \subseteq Upto(k)
      BY SMTT(30), <2>1, <3>1
    <3>3. Upto(i) = Upto(k)
      BY <1>4, <2>1, <3>2, FS_Subset
    <3>4. k \in Upto(k)
      BY SMTT(30), <3>1
    <3>5. k <= i
      BY <3>3, <3>4
    <3> HIDE DEF Upto
    <3> QED BY SMTT(30), <2>1, <3>1, <3>5
  <2>2. \A i, k \in rest : i <= k \/ k <= i
    BY SMTT(30), <1>1
  <2> HIDE DEF Upto
  <2> QED BY <2>1, <2>2
<1>6. Lines(rest) = new
  BY DEF Lines
<1>7. DOMAIN new = 1..Cardinality(rest)
  OBVIOUS
<1>8. IsSequence(new)
  <2>1. new = [n \in 1..Cardinality(rest) |-> new[n]]
    <3> HIDE DEF Nth
    <3> QED BY SMTT(30)
  <2> HIDE DEF new
  <2> QED BY <1>3, <1>7, <2>1, FunctionIs
<1>9. ASSUME NEW i \in rest PROVE \E n \in DOMAIN new : new[n] = startup[i]
  <2> DEFINE n == Cardinality(Upto(i))
             k == CHOOSE j \in rest : Cardinality(Upto(j)) = n
  <2>1. n \in 1..Cardinality(rest)
    BY <1>4
  <2>2. new[n] = startup[k]
    BY <2>1
  <2>3. k \in rest /\ Cardinality(Upto(k)) = n
    <3> HIDE DEF Upto
    <3> QED OBVIOUS
  <2>4. k = i
    <3> HIDE DEF Upto, k
    <3> QED BY <1>5, <2>3
  <2> HIDE DEF n, k, new
  <2> QED BY <1>7, <2>1, <2>2, <2>4
<1> HIDE DEF new
<1> QED BY <1>6, <1>8, <1>9

(* The other lines stay, when the lines of a package go.                   *)
LEMMA WithoutKeeps ==
  ASSUME NEW p, IsSequence(startup)
  PROVE  /\ IsSequence(Without(p))
         /\ \A i \in DOMAIN startup :
              startup[i].pkg # p => \E n \in DOMAIN Without(p) : Without(p)[n] = startup[i]
BY LinesKeep DEF Without

(* The list as a crash may leave it: the new lines, and what is left       *)
(* behind them, which may begin with the rest of a line.                   *)
LEMMA TornKeeps ==
  ASSUME NEW p, IsSequence(startup)
  PROVE  /\ IsSequence(Torn(p))
         /\ \A i \in DOMAIN startup :
              startup[i].pkg # p => \E n \in DOMAIN Torn(p) : Torn(p)[n] = startup[i]
<1> DEFINE new == Without(p)
           left == Size(startup, 1) - Size(new, 1)
           Cuts(i) == Size(startup, i + 1) < left /\ left < Size(startup, i)
           c == CHOOSE i \in DOMAIN startup : Cuts(i)
           cut == IF \E i \in DOMAIN startup : Cuts(i)
                  THEN <<Cut(startup[c], left - Size(startup, c + 1))>>
                  ELSE << >>
           whole == Lines({i \in DOMAIN startup : Size(startup, i) <= left})
<1>1. /\ IsSequence(new)
      /\ \A i \in DOMAIN startup : startup[i].pkg # p => \E n \in DOMAIN new : new[n] = startup[i]
  BY WithoutKeeps
<1>2. IsSequence(whole)
  BY LinesKeep
<1>3. IsSequence(cut)
  BY SingleIs, EmptyIs
<1>4. Torn(p) = new \o (cut \o whole)
  BY DEF Torn, Overwritten, Remainder
<1> HIDE DEF new, cut, whole
<1>5. Joined(cut, whole, cut \o whole)
  BY <1>2, <1>3, ConcatIs
<1>6. IsSequence(cut \o whole)
  BY <1>5 DEF Joined
<1>7. Joined(new, cut \o whole, new \o (cut \o whole))
  BY <1>1, <1>6, ConcatIs
<1> QED BY <1>1, <1>4, <1>7 DEF Joined

(* A line is added, and none goes.                                         *)
LEMMA WriteKeeps ==
  ASSUME NEW p, NEW sum, IsSequence(startup)
  PROVE  /\ IsSequence(WriteAutoload(p, sum))
         /\ \A i \in DOMAIN startup :
              i \in DOMAIN WriteAutoload(p, sum) /\ WriteAutoload(p, sum)[i] = startup[i]
         /\ \E i \in DOMAIN WriteAutoload(p, sum) : WriteAutoload(p, sum)[i].pkg = p
<1> DEFINE line == Line(p, sum)
<1>1. line.pkg = p
  BY DEF Line
<1> HIDE DEF line
<1>2. /\ IsSequence(Append(startup, line))
      /\ \A i \in DOMAIN startup :
           i \in DOMAIN Append(startup, line) /\ Append(startup, line)[i] = startup[i]
      /\ \E i \in DOMAIN Append(startup, line) : Append(startup, line)[i] = line
  BY AppendIs
<1>3. WriteAutoload(p, sum) = startup \/ WriteAutoload(p, sum) = Append(startup, line)
  BY DEF WriteAutoload, line
<1>4. CASE \E i \in DOMAIN startup : startup[i].pkg = p
  BY <1>4 DEF WriteAutoload
<1>5. CASE ~\E i \in DOMAIN startup : startup[i].pkg = p
  <2>1. WriteAutoload(p, sum) = Append(startup, line)
    BY <1>5 DEF WriteAutoload, line
  <2> QED BY <1>1, <1>2, <2>1
<1> QED BY <1>4, <1>5

(* The list is a sequence of lines at all times.                           *)
LEMMA LinesStep == IsSequence(startup) /\ [Next]_vars => IsSequence(startup)'
<1> SUFFICES ASSUME IsSequence(startup), [Next]_vars PROVE IsSequence(startup')
  OBVIOUS
<1>1. \/ startup' = startup
      \/ \E p, sum : startup' = WriteAutoload(p, sum)
      \/ \E p : startup' = Without(p) \/ startup' = Torn(p)
  BY DEF Next, Command, LoadAuto, LoadCommand, ReloadCommand, UpdateCommand, UpdateListCommand,
     UnloadCommand, DeleteCommand, UnloadAllCommand, TerminateCommand, UpdateAllCommand, Begin, Dies,
     Work, TakeLoad, TakeUnload, TakeUnloadAll, TakeRestore, TakeSave, TakeDelete, Quit, Done, Load,
     LoadRefused, LoadFind, Import, ImportFails, DependencyLoop, LoadDependency, AddDependent,
     DependencyFailed, Create, CreateFails, Register, RunRaises, Record, StopDependent,
     DependentStopped, Unload, Upload, Restart, vars
<1> QED BY <1>1, WithoutKeeps, TornKeeps, WriteKeeps

(* A crash in the midst of rewriting the start-up list loses no line of a  *)
(* package other than the one whose line was being removed, whatever the   *)
(* lengths of the lines.  That the list can still be read is another       *)
(* matter (StartupReadable).                                               *)
THEOREM StartupIsKept == Spec => StartupSurvives
<1>1. Init => IsSequence(startup)
  BY CommandsAssumption DEF Init
<1>2. IsSequence(startup) /\ [Next]_vars => IsSequence(startup)'
  BY LinesStep
<1>3. ASSUME IsSequence(startup), Restart
      PROVE  \A i \in DOMAIN startup :
               startup[i].pkg \notin Rewritten => \E j \in DOMAIN startup' : startup'[j] = startup[i]
  <2>1. startup' = startup \/ \E p \in Rewritten : startup' = Torn(p)
    BY <1>3 DEF Restart
  <2> QED BY <1>3, <2>1, TornKeeps
<1>4. IsSequence(startup) /\ [Next]_vars =>
        [Restart => \A i \in DOMAIN startup :
                      startup[i].pkg \notin Rewritten =>
                        \E j \in DOMAIN startup' : startup'[j] = startup[i]]_vars
  BY <1>3
<1> QED BY <1>1, <1>2, <1>4, PTL DEF Spec, StartupSurvives

-----------------------------------------------------------------------------
(* The calls of a command.                                                 *)

Listed(p) == \E i \in DOMAIN startup : startup[i].pkg = p

(* The command will write p into the start-up list, if it is loaded.       *)
Saves(p) == \E i \in DOMAIN todo : todo[i].do = "save" /\ todo[i].pkg = p /\ todo[i].auto

(* Writing a line lists its package.                                       *)
LEMMA WriteLists ==
  ASSUME NEW p, NEW sum, IsSequence(startup), startup' = WriteAutoload(p, sum)
  PROVE  Listed(p)' /\ \A q : Listed(q) => Listed(q)'
<1>1. /\ \A i \in DOMAIN startup : i \in DOMAIN startup' /\ startup'[i] = startup[i]
      /\ \E i \in DOMAIN startup' : startup'[i].pkg = p
  BY SMTT(30), WriteKeeps
<1> QED BY <1>1 DEF Listed

Loading == \E p \in Packages : act[p].pc \in LoadPC
Unloading == \E p \in Packages : act[p].pc \in UnloadPC

(* A command with -r unloads first, then loads, and saves at the end.      *)
AskedCall(i) ==
  LET c == todo[i] IN
  /\ c.do \in {"unload", "load", "restore", "save"}
  /\ c.do = "unload" => \A j \in 1..i : todo[j].do = "unload"
  /\ c.do = "load" /\ c.pkg \in asked => c.auto \/ Saves(c.pkg)
  /\ c.do \in {"restore", "save"} => i = Len(todo)
  /\ c.do = "restore" => c.auto /\ (c.pkg = None \/ asked \subseteq {c.pkg})

(* Behind AskedIsListed: whoever is loaded and asked for is on the list or *)
(* is still to be saved.                                                   *)
AskedInv ==
  asked # {} =>
    /\ \A i \in DOMAIN todo : AskedCall(i)
    /\ placed # {} \/ Loading => \A i \in DOMAIN todo : todo[i].do # "unload"
    /\ placed # {} => ~Unloading
    /\ stack # << >> /\ act[stack[1]].pc \in LoadPC /\ stack[1] \in asked =>
         act[stack[1]].auto \/ Saves(stack[1])
    /\ thread \in {"busy", "idle"} => \A p \in asked \cap placed : Listed(p) \/ Saves(p)

(* The phases of reload: it unloads, and then loads what it has unloaded.  *)
Same(do) == \E i \in DOMAIN todo : todo[i].do = do /\ todo[i].ext = "same"

Tracked(p, ext) == \E j \in DOMAIN track : track[j].pkg = p /\ track[j].ext = ext

TrackOnce == \A i, j \in DOMAIN track : track[i].pkg = track[j].pkg => i = j

BackCall(i) ==
  /\ todo[i].do \in {"unload", "restore"}
  /\ todo[i].do = "restore" => i = Len(todo) /\ todo[i].pkg # None

BackInv ==
  Same("restore") =>
    /\ placed = {} /\ ~Loading /\ \A i \in DOMAIN todo : BackCall(i)
    /\ TrackOnce
    /\ \A j \in DOMAIN track : track[j].pkg \notin packages_loaded /\ track[j].ext \in Ext

AgainCall(i) ==
  /\ todo[i].do \in {"load", "save"}
  /\ todo[i].do = "load" => Tracked(todo[i].pkg, todo[i].ext)

AgainInv ==
  Same("save") =>
    /\ placed \subseteq packages_loaded /\ ~Unloading /\ \A i \in DOMAIN todo : AgainCall(i)
    /\ TrackOnce /\ \A j \in DOMAIN track : track[j].ext \in Ext
    /\ \A j \in DOMAIN track : track[j].pkg \in placed => record[track[j].pkg].ext = track[j].ext
    /\ stack # << >> /\ act[stack[1]].pc \in LoadPC => Tracked(stack[1], act[stack[1]].ext)

(* Packages are loaded from files with an extension.                       *)
ExtInv ==
  /\ \A p \in Packages : act[p].pc \in LoadPC \ {"find"} => act[p].ext \in Ext
  /\ \A p \in packages_loaded : record[p].ext \in Ext

(* Between commands no call is in progress.                                *)
TodoInv ==
  /\ IsSequence(todo) /\ IsSequence(track) /\ IsSequence(startup)
  /\ thread # "busy" => stack = << >>
  /\ thread = "idle" => todo = << >>

CommandInv == TodoInv /\ ExtInv /\ BackInv /\ AgainInv /\ AskedInv

(* A step of a call that neither loads nor unloads, or of the operator.    *)
SameCall(b) ==
  act'[b].pc \in LoadPC =>
    /\ act[b].pc \in LoadPC /\ act'[b].auto = act[b].auto
    /\ act[b].ext \in Ext => act'[b].ext = act[b].ext

Inner ==
  /\ UNCHANGED <<thread, todo, track, asked, startup, placed, packages_loaded>>
  /\ \A q \in Packages : record'[q].ext = record[q].ext
  /\ \A q \in Packages : act'[q].pc \in LoadPC \ {"find"} => act'[q].ext \in Ext
  /\ Loading' => Loading
  /\ Unloading' => Unloading
  /\ stack' # << >> => stack # << >> /\ stack'[1] = stack[1] /\ SameCall(stack[1])

(* It keeps the invariant.                                                 *)
LEMMA InnerKeeps ==
  ASSUME GraphInv, CommandInv, Inner
  PROVE  CommandInv'
<1>1. TodoInv'
  <2>1. thread' # "busy" => stack' = << >>
    BY DEF Inner, CommandInv, TodoInv
  <2> QED BY <2>1 DEF Inner, CommandInv, TodoInv
<1>2. ExtInv'
  BY DEF Inner, CommandInv, ExtInv, GraphInv, GraphTypes
<1>3. BackInv'
  BY DEF Inner, CommandInv, BackInv, Same, BackCall, TrackOnce
<1>4. AgainInv'
  <2> SUFFICES ASSUME Same("save") PROVE AgainInv'
    BY DEF Inner, AgainInv, Same
  <2>1. /\ placed \subseteq packages_loaded /\ ~Unloading /\ \A i \in DOMAIN todo : AgainCall(i)
        /\ TrackOnce /\ \A j \in DOMAIN track : track[j].ext \in Ext
        /\ \A j \in DOMAIN track : track[j].pkg \in placed => record[track[j].pkg].ext = track[j].ext
        /\ stack # << >> /\ act[stack[1]].pc \in LoadPC => Tracked(stack[1], act[stack[1]].ext)
    BY DEF CommandInv, AgainInv
  <2>2. \A i \in DOMAIN todo' : AgainCall(i)'
    BY <2>1 DEF Inner, AgainCall, Tracked
  <2>3. \A j \in DOMAIN track' : track'[j].pkg \in placed' => record'[track'[j].pkg].ext = track'[j].ext
    BY <2>1 DEF Inner, GraphInv, GraphTypes
  <2>4. ASSUME stack' # << >>, act'[stack'[1]].pc \in LoadPC PROVE Tracked(stack'[1], act'[stack'[1]].ext)
    <3>1. Tracked(stack[1], act[stack[1]].ext)
      BY <2>1, <2>4 DEF Inner, SameCall
    <3>2. act[stack[1]].ext \in Ext
      BY <2>1, <3>1 DEF Tracked
    <3> QED BY <2>4, <3>1, <3>2 DEF Inner, SameCall
  <2>5. ~Unloading' /\ TrackOnce' /\ placed' \subseteq packages_loaded'
    BY <2>1 DEF Inner, TrackOnce
  <2>6. \A j \in DOMAIN track' : track'[j].ext \in Ext
    BY <2>1 DEF Inner
  <2>7. Tracked(stack'[1], act'[stack'[1]].ext) => Tracked(stack[1], act[stack[1]].ext)'
    BY DEF Tracked, Inner
  <2> QED BY <2>2, <2>3, <2>4, <2>5, <2>6, <2>7 DEF AgainInv
<1>5. AskedInv'
  <2> SUFFICES ASSUME asked # {} PROVE AskedInv'
    BY DEF Inner, AskedInv
  <2>1. /\ \A i \in DOMAIN todo : AskedCall(i)
        /\ placed # {} \/ Loading => \A i \in DOMAIN todo : todo[i].do # "unload"
        /\ placed # {} => ~Unloading
        /\ stack # << >> /\ act[stack[1]].pc \in LoadPC /\ stack[1] \in asked =>
             act[stack[1]].auto \/ Saves(stack[1])
        /\ thread \in {"busy", "idle"} => \A p \in asked \cap placed : Listed(p) \/ Saves(p)
    BY DEF CommandInv, AskedInv
  <2>2. \A p : (Saves(p) => Saves(p)') /\ (Listed(p) => Listed(p)')
    BY DEF Inner, Saves, Listed
  <2>3. \A i \in DOMAIN todo' : AskedCall(i)'
    BY <2>1, <2>2 DEF Inner, AskedCall
  <2>4. ASSUME stack' # << >>, act'[stack'[1]].pc \in LoadPC, stack'[1] \in asked'
        PROVE  act'[stack'[1]].auto \/ Saves(stack[1])'
    BY <2>1, <2>2, <2>4 DEF Inner, SameCall
  <2> QED BY <2>1, <2>2, <2>3, <2>4 DEF AskedInv, Inner
<1> QED BY <1>1, <1>2, <1>3, <1>4, <1>5 DEF CommandInv

(* A return.                                                               *)
LEMMA ReturnInner ==
  ASSUME GraphInv, ExtInv, NEW p \in Packages, stack # << >>, stack[Len(stack)] = p, Return(p),
         UNCHANGED <<thread, todo, track, asked, startup, placed, packages_loaded, record>>
  PROVE  Inner
<1>1. /\ stack' \in Seq(Packages) /\ DOMAIN act = Packages
      /\ \A i \in DOMAIN stack' : stack'[i] = stack[i] /\ stack[i] \in Packages /\ stack[i] # p
  BY PopStack DEF GraphInv, GraphTypes, CallsInv, Return
<1>2. act'[p] = NoAct /\ \A q \in Packages : q # p => act'[q] = act[q]
  BY <1>1 DEF Return
<1>3. act'[p].pc = "none"
  BY SMTT(30), <1>2 DEF NoAct
<1>4. Loading' => Loading
  BY <1>2, <1>3 DEF Loading
<1>5. Unloading' => Unloading
  BY <1>2, <1>3 DEF Unloading
<1>6. stack' # << >> => 1 \in DOMAIN stack'
  BY <1>1, SeqIs, Indices
<1>7. stack' # << >> => stack'[1] = stack[1] /\ SameCall(stack[1])
  BY <1>1, <1>2, <1>6 DEF SameCall
<1> QED BY <1>2, <1>3, <1>4, <1>5, <1>7 DEF Inner, ExtInv

(* A step of the innermost call.                                           *)
LEMMA StepInner ==
  ASSUME GraphInv, ExtInv, NEW p \in Packages, \A q \in Packages : q # p => act'[q] = act[q],
         act'[p].pc \in LoadPC \cup UnloadPC, act[p].pc \in LoadPC \cup UnloadPC,
         act'[p].pc \in LoadPC <=> act[p].pc \in LoadPC,
         act'[p].auto = act[p].auto, act[p].ext \in Ext => act'[p].ext = act[p].ext,
         act'[p].pc \in LoadPC \ {"find"} => act'[p].ext \in Ext,
         UNCHANGED <<thread, todo, track, asked, startup, placed, packages_loaded, stack>>,
         \A q \in Packages : record'[q].ext = record[q].ext
  PROVE  Inner
<1>1. Loading' => Loading
  BY DEF Loading
<1>2. Unloading' => Unloading
  <2>1. \A pc : ~(pc \in LoadPC /\ pc \in UnloadPC)
    OBVIOUS
  <2> QED BY <2>1 DEF Unloading
<1>3. stack # << >> => stack[1] \in Packages
  <2>1. stack \in Seq(Packages)
    BY DEF GraphInv, GraphTypes
  <2>2. stack # << >> => 1 \in 1..Len(stack)
    BY <2>1, SeqIs, Indices
  <2> QED BY <2>1, <2>2, ElementOfSeq
<1>4. stack # << >> => SameCall(stack[1])
  BY <1>3 DEF SameCall
<1> QED BY <1>1, <1>2, <1>4 DEF Inner, ExtInv

(* The first call stays the first.                                         *)
LEMMA PushFirst ==
  ASSUME stack \in Seq(Packages), stack # << >>, NEW d \in Packages, stack' = Append(stack, d)
  PROVE  stack'[1] = stack[1] /\ stack[1] \in CheckStack /\ stack[1] \in Packages
<1>1. 1 \in DOMAIN stack
  BY SeqIs, Indices
<1> QED BY <1>1, PushStack DEF CheckStack

(* A dependency is loaded.                                                 *)
LEMMA LoadDependencyInner ==
  ASSUME GraphInv, ExtInv, NEW p \in Packages, LoadDependency(p)
  PROVE  Inner
<1>1. /\ UNCHANGED <<thread, todo, track, asked, startup, placed, packages_loaded, record>>
      /\ act[p].pc = "deps" /\ stack # << >> /\ stack \in Seq(Packages) /\ DOMAIN act = Packages
      /\ \A q \in Packages : DOMAIN act[q] = DOMAIN NoAct
  BY DEF LoadDependency, At, unchangedByLoad, GraphInv, GraphTypes
<1> DEFINE new == LoadCall(None, FALSE, None)
<1>2. PICK d \in act[p].left :
        /\ d \notin CheckStack /\ stack' = Append(stack, d)
        /\ act' = [act EXCEPT ![p].pc = "check", ![p].dep = d, ![d] = new]
  BY DEF LoadDependency
<1>3. d \in Packages /\ d # p
  BY <1>1, <1>2 DEF GraphInv, GraphTypes, CallsInv
<1>4. new.pc = "find"
  BY DEF LoadCall, NoAct
<1> HIDE DEF new
<1>5. /\ act'[d] = new /\ \A q \in Packages : q # p /\ q # d => act'[q] = act[q]
      /\ act'[p].pc = "check" /\ act'[p].ext = act[p].ext /\ act'[p].auto = act[p].auto
  BY SMTT(30), <1>1, <1>2, <1>3 DEF NoAct
<1>6. Loading /\ (Unloading' => Unloading)
  BY <1>1, <1>4, <1>5 DEF Loading, Unloading
<1>7. stack'[1] = stack[1] /\ stack[1] \in Packages /\ stack[1] # d
  BY <1>1, <1>2, <1>3, PushFirst
<1>8. SameCall(stack[1])
  BY <1>1, <1>5, <1>7 DEF SameCall
<1> QED BY <1>1, <1>4, <1>5, <1>6, <1>7, <1>8 DEF Inner, ExtInv

(* A dependent is unloaded.                                                *)
LEMMA StopDependentInner ==
  ASSUME GraphInv, ExtInv, NEW p \in Packages, StopDependent(p)
  PROVE  Inner
<1>1. /\ UNCHANGED <<thread, todo, track, asked, startup, placed, packages_loaded, record>>
      /\ act[p].pc = "stop" /\ stack # << >> /\ stack \in Seq(Packages) /\ DOMAIN act = Packages
      /\ \A q \in Packages : DOMAIN act[q] = DOMAIN NoAct
  BY DEF StopDependent, At, unchangedByLoad, GraphInv, GraphTypes
<1>2. PICK d \in act[p].left :
        \/ /\ stack' = Append(stack, d)
           /\ act' = [act EXCEPT ![p].pc = "await", ![p].dep = d, ![p].left = @ \ {d},
                                 ![d] = UnloadCall(d)]
        \/ act' = [act EXCEPT ![p].left = @ \ {d}] /\ UNCHANGED stack
  BY DEF StopDependent
<1>3. d \in Packages
  BY <1>2 DEF GraphInv, GraphTypes
<1>4. CASE /\ stack' = Append(stack, d)
           /\ act' = [act EXCEPT ![p].pc = "await", ![p].dep = d, ![p].left = @ \ {d},
                                 ![d] = UnloadCall(d)]
  <2>1. UnloadCall(d).pc = "stop"
    BY DEF UnloadCall, NoAct
  <2>2. /\ \A q \in Packages : q # p /\ q # d => act'[q] = act[q]
        /\ act'[p].pc \in UnloadPC /\ act'[d].pc \in UnloadPC
    BY SMTT(30), <1>1, <1>3, <1>4, <2>1 DEF NoAct
  <2>3. Unloading /\ (Loading' => Loading)
    BY <1>1, <2>2 DEF Loading, Unloading
  <2>4. stack'[1] = stack[1] /\ stack[1] \in Packages
    BY <1>1, <1>3, <1>4, PushFirst
  <2>5. SameCall(stack[1])
    BY <2>2, <2>4 DEF SameCall
  <2> QED BY <1>1, <2>2, <2>3, <2>4, <2>5 DEF Inner, ExtInv
<1>5. CASE act' = [act EXCEPT ![p].left = @ \ {d}] /\ UNCHANGED stack
  <2>1. /\ act'[p].pc = "stop" /\ act'[p].auto = act[p].auto /\ act'[p].ext = act[p].ext
        /\ \A q \in Packages : q # p => act'[q] = act[q]
    BY SMTT(30), <1>1, <1>5 DEF NoAct
  <2> QED BY <1>1, <1>5, <2>1, StepInner
<1> QED BY <1>2, <1>4, <1>5

(* The file that is found has the extension that was asked for.            *)
LEMMA LoadFindInner ==
  ASSUME GraphInv, ExtInv, NEW p \in Packages, LoadFind(p)
  PROVE  Inner
<1> DEFINE ext == FileExt(p, act[p].ext)
<1>1. /\ UNCHANGED <<thread, todo, track, asked, startup, placed, packages_loaded, record, stack>>
      /\ act[p].pc = "find" /\ ext # None
      /\ \E v : act' = [act EXCEPT ![p].pc = "import", ![p].ext = ext,
                                   ![p].sum = IF @ = None THEN v ELSE @]
      /\ DOMAIN act = Packages /\ DOMAIN act[p] = DOMAIN NoAct
  BY DEF LoadFind, At, unchangedByLoad, GraphInv, GraphTypes
<1>2. ext \in Ext /\ (act[p].ext \in Ext => ext = act[p].ext)
  BY <1>1, PackagesAssumption DEF FileExt, Ext
<1> HIDE DEF ext
<1>3. /\ act'[p].pc = "import" /\ act'[p].auto = act[p].auto /\ act'[p].ext = ext
      /\ \A q \in Packages : q # p => act'[q] = act[q]
  BY SMTT(30), <1>1 DEF NoAct
<1> QED BY <1>1, <1>2, <1>3, StepInner

(* All steps of this kind.                                                 *)
LEMMA InnerSteps ==
  ASSUME GraphInv, ExtInv, [Next]_vars
  PROVE  \/ Inner \/ Command \/ Restart \/ Quit \/ Done
         \/ TakeLoad \/ TakeUnload \/ TakeUnloadAll \/ TakeRestore \/ TakeSave \/ TakeDelete
         \/ \E p \in Packages : Record(p) \/ Unload(p)
<1>0. /\ DOMAIN act = Packages /\ DOMAIN record = Packages
      /\ \A q \in Packages : DOMAIN act[q] = DOMAIN NoAct /\ DOMAIN record[q] = DOMAIN NoRecord
      /\ \A q \in Packages : act[q].left \subseteq Packages
  BY DEF GraphInv, GraphTypes
<1>1. ASSUME UNCHANGED vars \/ \E u \in Uploads : Upload(u) PROVE Inner
  <2>1. UNCHANGED memory
    BY <1>1 DEF Upload, vars
  <2>2. UNCHANGED <<thread, todo, track, asked, placed, packages_loaded, record, stack, act, startup>>
    BY <1>1, <2>1 DEF Upload, vars, memory
  <2> QED BY <2>2 DEF Inner, ExtInv, SameCall, Loading, Unloading
<1>2. ASSUME NEW p \in Packages,
             \/ LoadRefused(p) \/ DependencyLoop(p) \/ DependencyFailed(p) \/ CreateFails(p)
             \/ RunRaises(p) \/ ImportFails(p) \/ (DependentStopped(p) /\ Return(p))
      PROVE  Inner
  <2>1. /\ UNCHANGED <<thread, todo, track, asked, startup, placed, packages_loaded, record>>
        /\ Return(p) /\ stack # << >> /\ stack[Len(stack)] = p
    BY <1>2 DEF LoadRefused, DependencyLoop, DependencyFailed, CreateFails, RunRaises, ImportFails,
       DependentStopped, At, unchangedByLoad
  <2> QED BY <2>1, ReturnInner
<1>3. ASSUME NEW p \in Packages, DependentStopped(p), ~Return(p) PROVE Inner
  <2>1. /\ UNCHANGED <<thread, todo, track, asked, startup, placed, packages_loaded, record, stack>>
        /\ act[p].pc = "await" /\ act' = [act EXCEPT ![p].pc = "stop", ![p].dep = None]
    BY <1>3 DEF DependentStopped, At, unchangedByLoad
  <2>2. /\ act'[p].pc = "stop" /\ act'[p].auto = act[p].auto /\ act'[p].ext = act[p].ext
        /\ \A q \in Packages : q # p => act'[q] = act[q]
    BY SMTT(30), <1>0, <2>1 DEF NoAct
  <2> QED BY <2>1, <2>2, StepInner
<1>4. ASSUME NEW p \in Packages, Import(p) \/ Create(p) \/ Register(p) PROVE Inner
  <2>1. /\ UNCHANGED <<thread, todo, track, asked, startup, placed, packages_loaded, record, stack>>
        /\ act[p].pc \in {"import", "deps", "run"}
    BY <1>4 DEF Import, Create, Register, At, unchangedByLoad
  <2>2. \E x : \/ act' = [act EXCEPT ![p].pc = "deps", ![p].left = x]
               \/ act' = [act EXCEPT ![p].pc = "run", ![p].ids = x]
               \/ act' = [act EXCEPT ![p].ids = @ \ x]
    BY <1>4 DEF Import, Create, Register
  <2>3. /\ act'[p].pc \in {"import", "deps", "run"} /\ act'[p].auto = act[p].auto
        /\ act'[p].ext = act[p].ext /\ \A q \in Packages : q # p => act'[q] = act[q]
    BY SMTT(30), <1>0, <2>1, <2>2 DEF NoAct
  <2>4. act[p].ext \in Ext
    BY <2>1 DEF ExtInv
  <2> QED BY <2>1, <2>3, <2>4, StepInner
<1>5. ASSUME NEW p \in Packages, AddDependent(p) PROVE Inner
  <2>1. /\ UNCHANGED <<thread, todo, track, asked, startup, placed, packages_loaded, stack>>
        /\ act[p].pc \in {"deps", "check"}
    BY <1>5 DEF AddDependent, At, unchangedByLoad
  <2>2. PICK d \in act[p].left :
          /\ record' = [record EXCEPT ![d].dependents = @ \cup {p}]
          /\ act' = [act EXCEPT ![p].pc = "deps", ![p].dep = None, ![p].left = @ \ {d}]
    BY <1>5 DEF AddDependent
  <2>3. /\ act'[p].pc = "deps" /\ act'[p].auto = act[p].auto
        /\ act'[p].ext = act[p].ext /\ \A q \in Packages : q # p => act'[q] = act[q]
    BY SMTT(30), <1>0, <2>2 DEF NoAct
  <2>4. \A q \in Packages : record'[q].ext = record[q].ext
    BY SMTT(30), <1>0, <2>2 DEF NoRecord
  <2>5. act[p].ext \in Ext
    BY <2>1 DEF ExtInv
  <2> QED BY <2>1, <2>3, <2>4, <2>5, StepInner
<1> QED
  BY <1>1, <1>2, <1>3, <1>4, <1>5, LoadFindInner, LoadDependencyInner, StopDependentInner
  DEF Next, Work, Load

-----------------------------------------------------------------------------
(* Making the calls.                                                       *)

(* No call is in progress when the stack is empty.                         *)
LEMMA NoCalls ==
  ASSUME GraphInv, stack = << >>
  PROVE  (\A p \in Packages : act[p].pc = "none") /\ ~Loading /\ ~Unloading
<1>1. \A p \in Packages : act[p].pc = "none"
  BY EmptyStack DEF GraphInv, CallsInv
<1> QED BY <1>1 DEF Loading, Unloading

(* The first of the calls is made, the others remain as they are.          *)
LEMMA NextCall ==
  ASSUME IsSequence(todo), todo # << >>, todo' = Tail(todo)
  PROVE  /\ IsSequence(todo') /\ Len(todo') = Len(todo) - 1
         /\ Len(todo) \in Nat /\ DOMAIN todo = 1..Len(todo) /\ DOMAIN todo' = 1..Len(todo')
         /\ 1 \in DOMAIN todo /\ Head(todo) = todo[1]
         /\ \A i \in DOMAIN todo' : i + 1 \in DOMAIN todo /\ todo'[i] = todo[i + 1]
         /\ \A i \in DOMAIN todo : i = 1 \/ (i - 1 \in DOMAIN todo' /\ todo'[i - 1] = todo[i])
BY TailIs, Indices

(* What is asked for holds of the rest.                                    *)
LEMMA AskedTail ==
  ASSUME IsSequence(todo), todo # << >>, todo' = Tail(todo), UNCHANGED asked,
         \A i \in DOMAIN todo : AskedCall(i)
  PROVE  /\ \A i \in DOMAIN todo' : AskedCall(i)'
         /\ Head(todo).do # "save" => \A p : Saves(p) => Saves(p)'
         /\ Head(todo).do # "unload" => \A i \in DOMAIN todo' : todo'[i].do # "unload"
         /\ Head(todo).do \in {"restore", "save"} => DOMAIN todo' = {}
<1>1. /\ Len(todo') = Len(todo) - 1 /\ Len(todo) \in Nat /\ DOMAIN todo' = 1..Len(todo')
      /\ DOMAIN todo = 1..Len(todo) /\ 1 \in DOMAIN todo /\ Head(todo) = todo[1]
  BY NextCall
<1>2. \A i \in DOMAIN todo' : i + 1 \in DOMAIN todo /\ todo'[i] = todo[i + 1]
  BY NextCall
<1>3. \A i \in DOMAIN todo : i = 1 \/ (i - 1 \in DOMAIN todo' /\ todo'[i - 1] = todo[i])
  BY NextCall
<1>4. Head(todo).do \in {"restore", "save"} => DOMAIN todo' = {}
  <2>1. Head(todo).do \in {"restore", "save"} => Len(todo) = 1
    BY <1>1 DEF AskedCall
  <2>2. 1..(1 - 1) = {}
    BY SMTT(30)
  <2> QED BY <1>1, <2>1, <2>2
<1>5. ASSUME Head(todo).do # "save", NEW p, Saves(p) PROVE Saves(p)'
  BY <1>1, <1>3, <1>5 DEF Saves
<1>6. ASSUME Head(todo).do # "unload", NEW i \in DOMAIN todo' PROVE todo'[i].do # "unload"
  <2>1. 1 \in 1..(i + 1)
    BY SMTT(30), <1>1
  <2>2. todo[i + 1].do = "unload" => \A j \in 1..(i + 1) : todo[j].do = "unload"
    BY <1>2 DEF AskedCall
  <2> QED BY <1>1, <1>2, <1>6, <2>1, <2>2
<1>7. ASSUME Head(todo).do # "save", NEW i \in DOMAIN todo' PROVE AskedCall(i)'
  <2>1. AskedCall(i + 1) /\ todo'[i] = todo[i + 1] /\ i \in Nat /\ i <= Len(todo')
    BY SMTT(30), <1>1, <1>2
  <2>2. \A j \in 1..i : j + 1 \in 1..(i + 1) /\ j \in DOMAIN todo'
    BY SMTT(30), <1>1, <2>1
  <2>3. i + 1 = Len(todo) => i = Len(todo')
    BY SMTT(30), <1>1, <2>1
  <2>4. todo'[i].do = "unload" => \A j \in 1..i : todo'[j].do = "unload"
    <3>1. todo[i + 1].do = "unload" => \A j \in 1..(i + 1) : todo[j].do = "unload"
      BY <2>1 DEF AskedCall
    <3> QED BY <1>2, <2>1, <2>2, <3>1
  <2>5. todo'[i].do = "load" /\ todo'[i].pkg \in asked' => todo'[i].auto \/ Saves(todo[i].pkg)'
    <3>1. \A p : Saves(p) => \E k \in DOMAIN todo' : todo'[k].do = "save" /\ todo'[k].pkg = p /\ todo'[k].auto
      BY <1>5, <1>7 DEF Saves
    <3>2. todo[i + 1].do = "load" /\ todo[i + 1].pkg \in asked =>
            todo[i + 1].auto \/ Saves(todo[i + 1].pkg)
      BY <2>1 DEF AskedCall
    <3> SUFFICES ASSUME todo'[i].do = "load", todo'[i].pkg \in asked', ~todo'[i].auto
                 PROVE  Saves(todo[i].pkg)'
      OBVIOUS
    <3>3. Saves(todo'[i].pkg)
      BY <2>1, <3>2
    <3>4. \E k \in DOMAIN todo' : /\ todo'[k].do = "save" /\ todo'[k].pkg = todo'[i].pkg
                                 /\ todo'[k].auto
      BY <3>1, <3>3
    <3> QED BY <3>4 DEF Saves
  <2> QED BY <2>1, <2>3, <2>4, <2>5 DEF AskedCall
<1> QED BY <1>4, <1>5, <1>6, <1>7

(* What holds of the calls of a reload holds of the rest.                  *)
LEMMA SameTail ==
  ASSUME IsSequence(todo), todo # << >>, todo' = Tail(todo), UNCHANGED track
  PROVE  /\ \A do : Same(do)' => Same(do)
         /\ (\A i \in DOMAIN todo : BackCall(i)) => \A i \in DOMAIN todo' : BackCall(i)'
         /\ (\A i \in DOMAIN todo : AgainCall(i)) => \A i \in DOMAIN todo' : AgainCall(i)'
<1>1. /\ Len(todo') = Len(todo) - 1 /\ Len(todo) \in Nat /\ DOMAIN todo' = 1..Len(todo')
      /\ DOMAIN todo = 1..Len(todo)
  BY NextCall
<1>2. \A i \in DOMAIN todo' : i + 1 \in DOMAIN todo /\ todo'[i] = todo[i + 1]
  BY NextCall
<1>3. \A i \in DOMAIN todo' : i + 1 = Len(todo) => i = Len(todo')
  BY SMTT(30), <1>1
<1>4. \A do : Same(do)' => Same(do)
  BY <1>2 DEF Same
<1>5. ASSUME NEW i \in DOMAIN todo', BackCall(i + 1) PROVE BackCall(i)'
  BY <1>2, <1>3, <1>5 DEF BackCall
<1>6. ASSUME NEW i \in DOMAIN todo', AgainCall(i + 1) PROVE AgainCall(i)'
  BY <1>2, <1>6 DEF AgainCall, Tracked
<1> QED BY <1>2, <1>4, <1>5, <1>6

(* The first of the calls.                                                 *)
LEMMA FirstCall ==
  ASSUME IsSequence(todo), todo # << >>
  PROVE  1 \in DOMAIN todo /\ Head(todo) = todo[1]
<1>1. Len(todo) # 0 /\ Len(todo) \in Nat /\ DOMAIN todo = 1..Len(todo)
  BY Indices
<1>2. 1 \in 1..Len(todo)
  BY SMTT(30), <1>1
<1>3. Head(todo) = todo[1]
  BY SMTT(30) DEF IsSequence
<1> QED BY <1>1, <1>2, <1>3

(* The first call, as the invariant has it.                                *)
LEMMA HeadIs ==
  ASSUME CommandInv, NEW do, Next1(do)
  PROVE  /\ stack = << >> /\ thread = "busy" /\ todo # << >> /\ IsSequence(todo)
         /\ 1 \in DOMAIN todo /\ Head(todo) = todo[1] /\ Head(todo).do = do
         /\ asked # {} => AskedCall(1)
         /\ Same("restore") => BackCall(1)
         /\ Same("save") => AgainCall(1)
<1>1. stack = << >> /\ thread = "busy" /\ todo # << >> /\ IsSequence(todo) /\ Head(todo).do = do
  BY DEF CommandInv, TodoInv, Next1
<1>2. 1 \in DOMAIN todo /\ Head(todo) = todo[1]
  BY <1>1, FirstCall
<1> QED BY <1>1, <1>2 DEF CommandInv, AskedInv, BackInv, AgainInv

(* A call is made that loads or unloads.                                   *)
LEMMA CallKeeps ==
  ASSUME CommandInv, NEW do \in {"load", "unload"}, Next1(do), todo' = Tail(todo),
         UNCHANGED <<thread, track, placed, startup, packages_loaded, record, asked>>,
         \A q \in Packages : act'[q].pc \in LoadPC => do = "load" /\ act'[q].pc = "find",
         \A q \in Packages : act'[q].pc \in UnloadPC => do = "unload",
         stack' # << >> /\ act'[stack'[1]].pc \in LoadPC =>
           /\ stack'[1] = Head(todo).pkg /\ do = "load"
           /\ act'[stack'[1]].auto = Head(todo).auto /\ act'[stack'[1]].ext = Head(todo).ext
  PROVE  CommandInv'
<1>1. /\ thread = "busy" /\ todo # << >> /\ IsSequence(todo)
      /\ 1 \in DOMAIN todo /\ Head(todo) = todo[1] /\ Head(todo).do = do
  BY HeadIs
<1>2. /\ asked # {} => AskedCall(1)
      /\ Same("restore") => BackCall(1)
      /\ Same("save") => AgainCall(1)
  BY HeadIs
<1>3. IsSequence(todo')
  BY <1>1, NextCall
<1>4. \A x : Same(x)' => Same(x)
  BY <1>1, SameTail
<1>5. TodoInv'
  BY <1>1, <1>3 DEF CommandInv, TodoInv
<1>6. ExtInv'
  BY DEF CommandInv, ExtInv
<1>7. BackInv'
  <2> SUFFICES ASSUME Same("restore") PROVE BackInv'
    BY <1>4 DEF BackInv
  <2>1. /\ placed = {} /\ (\A i \in DOMAIN todo : BackCall(i)) /\ TrackOnce
        /\ \A j \in DOMAIN track : track[j].pkg \notin packages_loaded /\ track[j].ext \in Ext
    BY DEF CommandInv, BackInv
  <2>2. do # "load"
    BY <1>1, <1>2 DEF BackCall
  <2>3. ~Loading'
    BY <2>2 DEF Loading
  <2>4. \A i \in DOMAIN todo' : BackCall(i)'
    BY <1>1, <2>1, SameTail
  <2> QED BY <2>1, <2>3, <2>4 DEF BackInv, TrackOnce
<1>8. AgainInv'
  <2> SUFFICES ASSUME Same("save") PROVE AgainInv'
    BY <1>4 DEF AgainInv
  <2>1. /\ placed \subseteq packages_loaded /\ (\A i \in DOMAIN todo : AgainCall(i)) /\ TrackOnce
        /\ \A j \in DOMAIN track : track[j].ext \in Ext
        /\ \A j \in DOMAIN track : track[j].pkg \in placed => record[track[j].pkg].ext = track[j].ext
    BY DEF CommandInv, AgainInv
  <2>2. do # "unload" /\ (do = "load" => Tracked(Head(todo).pkg, Head(todo).ext))
    BY <1>1, <1>2 DEF AgainCall
  <2>3. ~Unloading'
    BY <2>2 DEF Unloading
  <2>4. \A i \in DOMAIN todo' : AgainCall(i)'
    BY <1>1, <2>1, SameTail
  <2>5. stack' # << >> /\ act'[stack'[1]].pc \in LoadPC => Tracked(stack[1], act[stack[1]].ext)'
    BY <2>2 DEF Tracked
  <2> QED BY <2>1, <2>3, <2>4, <2>5 DEF AgainInv, TrackOnce
<1>9. AskedInv'
  <2> SUFFICES ASSUME asked # {} PROVE AskedInv'
    BY DEF AskedInv
  <2>1. /\ \A i \in DOMAIN todo : AskedCall(i)
        /\ placed # {} => \A i \in DOMAIN todo : todo[i].do # "unload"
        /\ \A p \in asked \cap placed : Listed(p) \/ Saves(p)
    BY <1>1 DEF CommandInv, AskedInv
  <2>2. /\ \A i \in DOMAIN todo' : AskedCall(i)'
        /\ \A p : Saves(p) => Saves(p)'
        /\ do # "unload" => \A i \in DOMAIN todo' : todo'[i].do # "unload"
    BY <1>1, <2>1, AskedTail
  <2>3. do = "unload" => placed = {} /\ ~Loading'
    BY <1>1, <2>1 DEF Loading
  <2>4. do = "load" => ~Unloading'
    BY DEF Unloading
  <2>5. do = "load" /\ Head(todo).pkg \in asked => Head(todo).auto \/ Saves(Head(todo).pkg)
    BY <1>1, <1>2 DEF AskedCall
  <2>6. ASSUME stack' # << >>, act'[stack'[1]].pc \in LoadPC, stack'[1] \in asked'
        PROVE  act'[stack'[1]].auto \/ Saves(stack[1])'
    <3>1. \A p : Saves(p) => \E i \in DOMAIN todo' : todo'[i].do = "save" /\ todo'[i].pkg = p /\ todo'[i].auto
      BY <2>2 DEF Saves
    <3>2. PICK p : p = stack'[1]
      OBVIOUS
    <3>3. act'[stack'[1]].auto \/ Saves(p)
      BY <2>5, <2>6, <3>2
    <3>4. ASSUME Saves(p) PROVE Saves(stack[1])'
      <4>1. \E i \in DOMAIN todo' : todo'[i].do = "save" /\ todo'[i].pkg = p /\ todo'[i].auto
        BY SMTT(30), <3>1, <3>4
      <4> QED BY <3>2, <4>1 DEF Saves
    <3> QED BY <3>3, <3>4
  <2>7. \A p : Listed(p) => Listed(p)'
    BY DEF Listed
  <2> QED BY <2>1, <2>2, <2>3, <2>4, <2>6, <2>7 DEF AskedInv
<1> QED BY <1>5, <1>6, <1>7, <1>8, <1>9 DEF CommandInv

(* A package is loaded, or the name is unknown.                            *)
LEMMA TakeLoadKeeps ==
  ASSUME GraphInv, CommandInv, TakeLoad
  PROVE  CommandInv'
<1> DEFINE c == Head(todo)
           new == LoadCall(c.sum, c.auto, c.ext)
<1>1. /\ Next1("load") /\ todo' = Tail(todo) /\ stack = << >> /\ DOMAIN act = Packages
      /\ UNCHANGED <<thread, track, placed, startup, packages_loaded, record, asked>>
      /\ \/ c.pkg \in Packages /\ Enter(c.pkg, new)
         \/ UNCHANGED <<stack, act>>
  BY DEF TakeLoad, Next1, unchangedByCalls, GraphInv, GraphTypes
<1>2. \A q \in Packages : act[q].pc = "none"
  BY <1>1, NoCalls
<1>3. new.pc = "find" /\ new.auto = c.auto /\ new.ext = c.ext
  BY DEF LoadCall, NoAct
<1> HIDE DEF c, new
<1>4. CASE UNCHANGED <<stack, act>>
  BY <1>1, <1>2, <1>4, CallKeeps
<1>5. CASE c.pkg \in Packages /\ Enter(c.pkg, new)
  <2>1. stack' = <<c.pkg>> /\ stack'[1] = c.pkg
    BY SMTT(30), <1>1, <1>5 DEF Enter
  <2>2. act'[c.pkg] = new /\ \A q \in Packages : q # c.pkg => act'[q] = act[q]
    BY <1>1, <1>5 DEF Enter
  <2> QED BY <1>1, <1>2, <1>3, <2>1, <2>2, CallKeeps DEF c
<1> QED BY <1>1, <1>4, <1>5

(* A package is unloaded, if it is loaded.                                 *)
LEMMA TakeUnloadKeeps ==
  ASSUME GraphInv, CommandInv, TakeUnload
  PROVE  CommandInv'
<1> DEFINE p == Head(todo).pkg
<1>1. /\ Next1("unload") /\ todo' = Tail(todo) /\ stack = << >> /\ DOMAIN act = Packages
      /\ UNCHANGED <<thread, track, placed, startup, packages_loaded, record, asked>>
      /\ \/ p \in Packages /\ Enter(p, UnloadCall(p))
         \/ UNCHANGED <<stack, act>>
  BY DEF TakeUnload, Next1, unchangedByCalls, GraphInv, GraphTypes
<1>2. \A q \in Packages : act[q].pc = "none"
  BY <1>1, NoCalls
<1>3. UnloadCall(p).pc = "stop"
  BY DEF UnloadCall, NoAct
<1> HIDE DEF p
<1>4. CASE UNCHANGED <<stack, act>>
  BY <1>1, <1>2, <1>4, CallKeeps
<1>5. CASE p \in Packages /\ Enter(p, UnloadCall(p))
  <2>1. stack'[1] = p
    BY SMTT(30), <1>1, <1>5 DEF Enter
  <2>2. act'[p].pc = "stop" /\ \A q \in Packages : q # p => act'[q] = act[q]
    BY <1>1, <1>3, <1>5 DEF Enter
  <2> QED BY <1>1, <1>2, <2>1, <2>2, CallKeeps
<1> QED BY <1>1, <1>4, <1>5

(* Calls that neither a command with -r nor a reload makes.                *)
LEMMA OtherCallsKeep ==
  ASSUME GraphInv, CommandInv, TakeUnloadAll \/ TakeDelete \/ Quit
  PROVE  CommandInv'
<1>1. \E do \in {"unload_all", "delete", "quit"} : Next1(do)
  BY DEF TakeUnloadAll, TakeDelete, Quit
<1>2. /\ thread = "busy" /\ todo # << >> /\ IsSequence(todo)
      /\ asked = {} /\ ~Same("restore") /\ ~Same("save")
  BY <1>1, HeadIs DEF AskedCall, BackCall, AgainCall
<1>3. /\ todo' = todo \/ todo' = Tail(todo)
      /\ UNCHANGED <<track, packages_loaded, record, asked>>
  BY DEF TakeUnloadAll, TakeDelete, Quit, unchangedByCalls
<1>4. IsSequence(todo') /\ \A do : Same(do)' => Same(do)
  <2>1. CASE todo' = todo
    BY <1>2, <2>1 DEF Same
  <2> QED BY <1>2, <1>3, <2>1, NextCall, SameTail
<1>5. IsSequence(startup)'
  BY LinesStep DEF CommandInv, TodoInv, Next, Work
<1>6. \A q \in Packages : act'[q].pc \notin LoadPC \ {"find"}
  <2>1. stack = << >> /\ DOMAIN act = Packages
    BY <1>1 DEF Next1, GraphInv, GraphTypes
  <2>2. \A q \in Packages : act[q].pc = "none"
    BY <2>1, NoCalls
  <2>3. act' = act \/ \E p \in Packages : Enter(p, UnloadCall(p))
    BY DEF TakeUnloadAll, TakeDelete, Quit, GraphInv, GraphTypes
  <2>4. \A p : UnloadCall(p).pc = "stop"
    BY DEF UnloadCall, NoAct
  <2> QED BY <2>1, <2>2, <2>3, <2>4 DEF Enter
<1>7. (thread' = "busy" \/ (thread' = "stopped" /\ stack' = << >>)) /\ IsSequence(track')
  BY <1>1, <1>2 DEF TakeUnloadAll, TakeDelete, Quit, Next1, CommandInv, TodoInv, unchangedByCalls
<1>8. TodoInv' /\ ExtInv'
  BY <1>3, <1>4, <1>5, <1>6, <1>7 DEF CommandInv, TodoInv, ExtInv
<1> QED BY <1>2, <1>3, <1>4, <1>8 DEF CommandInv, AskedInv, BackInv, AgainInv

(* Lists of calls.                                                         *)
LEMMA LoadListIs ==
  ASSUME NEW list, NEW auto, IsSequence(list)
  PROVE  /\ IsSequence(LoadList(list, auto)) /\ Len(LoadList(list, auto)) = Len(list)
         /\ DOMAIN LoadList(list, auto) = DOMAIN list
         /\ \A i \in DOMAIN list :
              /\ LoadList(list, auto)[i].do = "load" /\ LoadList(list, auto)[i].pkg = list[i].pkg
              /\ LoadList(list, auto)[i].auto = auto /\ LoadList(list, auto)[i].ext = None
<1> DEFINE calls == LoadList(list, auto)
<1>1. Len(list) \in Nat /\ DOMAIN list = 1..Len(list)
  BY Indices
<1>2. /\ calls = [i \in 1..Len(list) |-> calls[i]] /\ DOMAIN calls = 1..Len(list)
      /\ \A i \in 1..Len(list) : calls[i] = Call("load", list[i].pkg, list[i].sum, auto, None)
  BY SMTT(30), <1>1 DEF LoadList
<1> HIDE DEF calls
<1>3. IsSequence(calls) /\ Len(calls) = Len(list)
  BY <1>1, <1>2, FunctionIs
<1>4. \A i \in 1..Len(list) :
        calls[i].do = "load" /\ calls[i].pkg = list[i].pkg /\ calls[i].auto = auto /\ calls[i].ext = None
  BY SMTT(30), <1>2 DEF Call
<1> QED BY <1>1, <1>2, <1>3, <1>4 DEF calls

(* A list of packages to unload.                                           *)
LEMMA UnloadListIs ==
  ASSUME NEW list, IsSequence(list)
  PROVE  /\ IsSequence(UnloadList(list)) /\ Len(UnloadList(list)) = Len(list)
         /\ DOMAIN UnloadList(list) = DOMAIN list
         /\ \A i \in DOMAIN list : UnloadList(list)[i].do = "unload"
<1> DEFINE calls == UnloadList(list)
<1>1. Len(list) \in Nat /\ DOMAIN list = 1..Len(list)
  BY Indices
<1>2. /\ calls = [i \in 1..Len(list) |-> calls[i]] /\ DOMAIN calls = 1..Len(list)
      /\ \A i \in 1..Len(list) : calls[i] = Call("unload", list[i].pkg, None, FALSE, None)
  BY SMTT(30), <1>1 DEF UnloadList
<1> HIDE DEF calls
<1>3. IsSequence(calls) /\ Len(calls) = Len(list)
  BY <1>1, <1>2, FunctionIs
<1>4. \A i \in 1..Len(list) : calls[i].do = "unload"
  BY SMTT(30), <1>2 DEF Call
<1> QED BY <1>1, <1>2, <1>3, <1>4 DEF calls

(* What reload and update load again.                                      *)
LEMMA RestoredIs ==
  ASSUME IsSequence(track), NEW c
  PROVE  /\ IsSequence(Restored(c)) /\ Len(Restored(c)) \in Nat
         /\ c.pkg = None =>
              \A i \in DOMAIN Restored(c) : Restored(c)[i].do = "load" /\ Restored(c)[i].auto = c.auto
         /\ c.pkg # None =>
              /\ \A i \in DOMAIN Restored(c) :
                   \/ /\ Restored(c)[i].do = "load"
                      /\ \E j \in DOMAIN track :
                           /\ Restored(c)[i].pkg = track[j].pkg
                           /\ c.ext = "same" => Restored(c)[i].ext = track[j].ext
                   \/ Restored(c)[i].do = "save" /\ Restored(c)[i].ext = c.ext /\ i = Len(Restored(c))
              /\ \E i \in DOMAIN Restored(c) :
                   /\ Restored(c)[i].do = "save" /\ Restored(c)[i].pkg = c.pkg
                   /\ Restored(c)[i].auto = c.auto
<1>1. CASE c.pkg = None
  <2>1. Restored(c) = LoadList(track, c.auto)
    BY <1>1 DEF Restored
  <2>2. IsSequence(LoadList(track, c.auto)) /\ DOMAIN LoadList(track, c.auto) = DOMAIN track
    BY LoadListIs
  <2>3. \A i \in DOMAIN track :
          LoadList(track, c.auto)[i].do = "load" /\ LoadList(track, c.auto)[i].auto = c.auto
    BY SMTT(30), LoadListIs
  <2>4. Len(LoadList(track, c.auto)) \in Nat
    BY <2>2, Indices
  <2> QED BY <1>1, <2>1, <2>2, <2>3, <2>4
<1>2. CASE c.pkg # None
  <2> DEFINE Sum(i) == IF track[i].pkg = c.pkg THEN c.sum ELSE track[i].sum
             From(i) == IF c.ext = "same" THEN track[i].ext ELSE None
             loads == [i \in DOMAIN track |-> Call("load", track[i].pkg, Sum(i), FALSE, From(i))]
             last == Call("save", c.pkg, None, c.auto, c.ext)
  <2>1. Restored(c) = loads \o <<last>>
    BY <1>2 DEF Restored
  <2>2. \A i \in DOMAIN track : c.ext = "same" => From(i) = track[i].ext
    OBVIOUS
  <2>3. last.do = "save" /\ last.pkg = c.pkg /\ last.auto = c.auto /\ last.ext = c.ext
    BY DEF Call
  <2> HIDE DEF Sum, From, last
  <2>4. Len(track) \in Nat /\ DOMAIN track = 1..Len(track)
    BY Indices
  <2>5. /\ loads = [i \in 1..Len(track) |-> loads[i]] /\ DOMAIN loads = 1..Len(track)
        /\ \A i \in 1..Len(track) : loads[i] = Call("load", track[i].pkg, Sum(i), FALSE, From(i))
    BY SMTT(30), <2>4
  <2> HIDE DEF loads
  <2>6. \A i \in DOMAIN track : loads[i].do = "load" /\ loads[i].pkg = track[i].pkg /\ loads[i].ext = From(i)
    BY SMTT(30), <2>4, <2>5 DEF Call
  <2>7. IsSequence(loads) /\ Len(loads) = Len(track)
    BY <2>4, <2>5, FunctionIs
  <2>8. PICK t : t = <<last>>
    OBVIOUS
  <2>9. IsSequence(t) /\ Len(t) = 1 /\ DOMAIN t = {1} /\ t[1] = last
    BY <2>8, SingleIs
  <2>10. PICK r : r = loads \o t
    OBVIOUS
  <2>11. Joined(loads, t, r)
    BY <2>7, <2>9, <2>10, ConcatIs
  <2> DEFINE n == Len(track) + 1
  <2>12. /\ IsSequence(r) /\ n \in DOMAIN r /\ r[n] = last /\ n = Len(r)
         /\ \A i \in DOMAIN r : (i \in DOMAIN track /\ r[i] = loads[i]) \/ i = n
    BY <2>4, <2>5, <2>7, <2>9, <2>11 DEF Joined
  <2>13. n \in Nat
    BY SMTT(30), <2>4
  <2> HIDE DEF n
  <2>14. Restored(c) = r /\ Len(r) \in Nat
    BY <2>1, <2>8, <2>10, <2>12, <2>13
  <2>15. ASSUME NEW i \in DOMAIN r
         PROVE  \/ /\ r[i].do = "load"
                   /\ \E j \in DOMAIN track :
                        r[i].pkg = track[j].pkg /\ (c.ext = "same" => r[i].ext = track[j].ext)
                \/ r[i].do = "save" /\ r[i].ext = c.ext /\ i = Len(r)
    BY <2>2, <2>3, <2>6, <2>12
  <2>16. \E i \in DOMAIN r : r[i].do = "save" /\ r[i].pkg = c.pkg /\ r[i].auto = c.auto
    BY <2>3, <2>12
  <2> QED BY <1>2, <2>12, <2>14, <2>15, <2>16
<1> QED BY <1>1, <1>2

(* What was unloaded is to be loaded again.                                *)
LEMMA TakeRestoreKeeps ==
  ASSUME GraphInv, CommandInv, TakeRestore
  PROVE  CommandInv'
<1> DEFINE c == Head(todo)
           again == Restored(c)
<1>0. /\ Next1("restore") /\ todo' = IF c.pkg \in packages_loaded THEN Tail(todo) ELSE again \o Tail(todo)
      /\ UNCHANGED <<thread, track, placed, startup, packages_loaded, record, asked, stack, act>>
  BY DEF TakeRestore, unchangedByCalls
<1>1. /\ thread = "busy" /\ stack = << >> /\ todo # << >> /\ IsSequence(todo)
      /\ 1 \in DOMAIN todo /\ c = todo[1] /\ c.do = "restore"
  BY <1>0, HeadIs
<1>2. /\ asked # {} => AskedCall(1)
      /\ Same("restore") => BackCall(1)
      /\ ~Same("save")
  BY <1>0, <1>1, HeadIs DEF AgainCall
<1>3. ~Loading' /\ ~Unloading'
  BY <1>0, <1>1, NoCalls DEF Loading, Unloading
<1> HIDE DEF c
<1>4. IsSequence(track) /\ IsSequence(again)
  BY RestoredIs DEF CommandInv, TodoInv
<1> HIDE DEF again
<1>5. IsSequence(Tail(todo))
  BY <1>1, TailIs
<1>6. IsSequence(todo') /\ Joined(again, Tail(todo), again \o Tail(todo))
  <2>1. Joined(again, Tail(todo), again \o Tail(todo))
    BY <1>4, <1>5, ConcatIs
  <2> QED BY <1>0, <1>5, <2>1 DEF Joined
<1>7. TodoInv' /\ ExtInv'
  BY <1>0, <1>1, <1>6 DEF CommandInv, TodoInv, ExtInv
<1>8. CASE c.pkg \in packages_loaded
  <2>1. todo' = Tail(todo)
    BY <1>0, <1>8
  <2>2. ~Same("save")' /\ (Same("restore")' => Same("restore"))
    BY <1>0, <1>1, <1>2, <2>1, SameTail
  <2>3. BackInv'
    <3> SUFFICES ASSUME Same("restore") PROVE BackInv'
      BY <2>2 DEF BackInv
    <3>1. \A i \in DOMAIN todo' : BackCall(i)'
      BY <1>0, <1>1, <2>1, SameTail DEF CommandInv, BackInv
    <3> QED BY <1>0, <1>3, <3>1 DEF CommandInv, BackInv, TrackOnce
  <2>4. AskedInv'
    <3> SUFFICES ASSUME asked # {} PROVE AskedInv'
      BY <1>0 DEF AskedInv
    <3>1. (\A i \in DOMAIN todo : AskedCall(i)) /\ \A p \in asked \cap placed : Listed(p) \/ Saves(p)
      BY <1>1 DEF CommandInv, AskedInv
    <3>2. /\ \A i \in DOMAIN todo' : AskedCall(i)'
          /\ \A p : Saves(p) => Saves(p)'
          /\ \A i \in DOMAIN todo' : todo'[i].do # "unload"
      BY <1>0, <1>1, <2>1, <3>1, AskedTail DEF c
    <3>3. \A p : Listed(p) => Listed(p)'
      BY <1>0 DEF Listed
    <3> QED BY <1>0, <1>1, <1>3, <3>1, <3>2, <3>3 DEF AskedInv
  <2> QED BY <1>7, <2>2, <2>3, <2>4 DEF CommandInv, AgainInv
<1>9. CASE c.pkg \notin packages_loaded
  <2>1. todo' = again \o Tail(todo)
    BY <1>0, <1>9
  <2>2. \A i \in DOMAIN Tail(todo) : i + 1 \in DOMAIN todo /\ Tail(todo)[i] = todo[i + 1]
    BY <1>1, TailIs
  <2>3. /\ \A i \in DOMAIN again : i \in DOMAIN todo' /\ todo'[i] = again[i]
        /\ Len(todo') = Len(again) + Len(Tail(todo))
    BY <1>6, <2>1 DEF Joined
  <2>4. \A i \in DOMAIN todo' :
          i \in DOMAIN again \/ \E k \in DOMAIN todo : todo'[i] = todo[k]
    <3>1. ASSUME NEW i \in DOMAIN todo', NEW j \in DOMAIN Tail(todo), i = Len(again) + j
          PROVE  todo'[i] = todo[j + 1]
      BY <1>6, <2>1, <2>2, <3>1 DEF Joined
    <3>2. \A i \in DOMAIN todo' :
            i \in DOMAIN again \/ \E j \in DOMAIN Tail(todo) : i = Len(again) + j
      BY <1>6, <2>1 DEF Joined
    <3> QED BY <2>2, <3>1, <3>2
  <2>5. 1 = Len(todo) => DOMAIN todo' = DOMAIN again /\ Len(todo') = Len(again)
    <3>1. Len(Tail(todo)) = Len(todo) - 1 /\ Len(again) \in Nat /\ DOMAIN again = 1..Len(again)
      BY <1>1, <1>4, TailIs, Indices
    <3>2. DOMAIN todo' = 1..Len(todo')
      BY <1>6, Indices
    <3>3. 1 = Len(todo) => Len(todo') = Len(again)
      <4>1. Len(todo') = Len(again) + (Len(todo) - 1) /\ Len(again) \in Nat
        BY <2>3, <3>1
      <4>2. \A n \in Nat : n + (1 - 1) = n
        BY SMTT(30)
      <4> QED BY <4>1, <4>2
    <3> QED BY <3>1, <3>2, <3>3
  <2>6. /\ c.pkg = None => \A i \in DOMAIN again : again[i].do = "load" /\ again[i].auto = c.auto
        /\ c.pkg # None =>
             \A i \in DOMAIN again :
               \/ /\ again[i].do = "load"
                  /\ \E j \in DOMAIN track :
                       again[i].pkg = track[j].pkg /\ (c.ext = "same" => again[i].ext = track[j].ext)
               \/ again[i].do = "save" /\ again[i].ext = c.ext /\ i = Len(again)
    BY <1>4, RestoredIs DEF again
  <2>7. \A i \in DOMAIN again :
          again[i].do = "load" \/ (again[i].do = "save" /\ again[i].ext = c.ext /\ i = Len(again))
    BY <2>6
  <2>8. ~Same("restore")'
    <3>1. Same("restore")' => Same("restore")
      BY <2>3, <2>4, <2>7 DEF Same
    <3>2. Same("restore") => 1 = Len(todo)
      BY <1>1, <1>2 DEF BackCall
    <3> QED BY <2>3, <2>5, <2>7, <3>1, <3>2 DEF Same
  <2>9. AgainInv'
    <3> SUFFICES ASSUME Same("save")' PROVE AgainInv'
      BY DEF AgainInv
    <3>1. c.ext = "same"
      BY <1>2, <2>3, <2>4, <2>7 DEF Same
    <3>2. Same("restore")
      BY <1>1, <3>1 DEF Same
    <3>3. /\ placed = {} /\ TrackOnce /\ c.pkg # None /\ 1 = Len(todo)
          /\ \A j \in DOMAIN track : track[j].ext \in Ext
      BY <1>1, <1>2, <3>2 DEF CommandInv, BackInv, BackCall
    <3>4. ASSUME NEW i \in DOMAIN todo' PROVE AgainCall(i)'
      <4>1. \/ /\ todo'[i].do = "load"
               /\ \E j \in DOMAIN track : todo'[i].pkg = track[j].pkg /\ todo'[i].ext = track[j].ext
            \/ todo'[i].do = "save"
        BY <2>3, <2>5, <2>6, <3>1, <3>3
      <4> QED BY <1>0, <4>1 DEF AgainCall, Tracked
    <3>5. stack' = << >> /\ placed' = {} /\ TrackOnce' /\ \A j \in DOMAIN track' : track'[j].ext \in Ext
      BY <1>0, <1>1, <3>3 DEF TrackOnce
    <3> QED BY <1>3, <3>4, <3>5 DEF AgainInv
  <2>10. AskedInv'
    <3> SUFFICES ASSUME asked # {} PROVE AskedInv'
      BY <1>0 DEF AskedInv
    <3>1. c.auto /\ (c.pkg = None \/ asked \subseteq {c.pkg}) /\ 1 = Len(todo)
      BY <1>1, <1>2 DEF AskedCall
    <3>2. DOMAIN todo' = DOMAIN again /\ Len(todo') = Len(again) /\ \A i \in DOMAIN again : todo'[i] = again[i]
      BY <2>3, <2>5, <3>1
    <3>3. ASSUME NEW p \in asked \cap placed PROVE Listed(p)'
      <4>1. Listed(p) \/ Saves(p)
        BY <1>1 DEF CommandInv, AskedInv
      <4>2. ~Saves(p)
        BY <1>1, <3>1 DEF CommandInv, AskedInv, AskedCall, Saves
      <4> QED BY <1>0, <4>1, <4>2 DEF Listed
    <3>4. c.pkg # None => \E i \in DOMAIN todo' : todo'[i].do = "save" /\ todo'[i].pkg = c.pkg /\ todo'[i].auto
      <4>1. c.pkg # None =>
              \E i \in DOMAIN again : again[i].do = "save" /\ again[i].pkg = c.pkg /\ again[i].auto = c.auto
        BY <1>4, RestoredIs DEF again
      <4> QED BY <3>1, <3>2, <4>1
    <3>5. ASSUME NEW i \in DOMAIN todo' PROVE AskedCall(i)'
      <4>1. /\ todo'[i].do \in {"load", "save"}
            /\ todo'[i].do = "save" => i = Len(todo')
        BY <2>7, <3>2
      <4>2. todo'[i].do = "load" /\ todo'[i].pkg \in asked' => todo'[i].auto \/ Saves(todo[i].pkg)'
        <5>1. CASE c.pkg = None
          BY <2>6, <3>1, <3>2, <5>1
        <5>2. CASE c.pkg # None
          BY <1>0, <3>1, <3>4, <5>2 DEF Saves
        <5> QED BY <5>1, <5>2
      <4> QED BY <4>1, <4>2 DEF AskedCall
    <3>6. \A i \in DOMAIN todo' : todo'[i].do # "unload"
      BY <2>7, <3>2
    <3> QED BY <1>0, <1>1, <1>3, <3>3, <3>5, <3>6 DEF AskedInv
  <2> QED BY <1>7, <2>8, <2>9, <2>10 DEF CommandInv, BackInv
<1> QED BY <1>8, <1>9

(* The line of a package is saved.                                         *)
LEMMA TakeSaveKeeps ==
  ASSUME GraphInv, CommandInv, TakeSave
  PROVE  CommandInv'
<1> DEFINE c == Head(todo)
<1>0. /\ Next1("save") /\ todo' = Tail(todo)
      /\ startup' = IF c.auto /\ c.pkg \in placed THEN WriteAutoload(c.pkg, record[c.pkg].sha1) ELSE startup
      /\ UNCHANGED <<thread, track, placed, packages_loaded, record, asked, stack, act>>
  BY DEF TakeSave, unchangedByCalls
<1>1. /\ thread = "busy" /\ stack = << >> /\ todo # << >> /\ IsSequence(todo)
      /\ 1 \in DOMAIN todo /\ c = todo[1] /\ c.do = "save"
  BY <1>0, HeadIs
<1>2. ~Same("restore")
  BY <1>0, <1>1, HeadIs DEF BackCall
<1>3. ~Loading' /\ ~Unloading'
  BY <1>0, <1>1, NoCalls DEF Loading, Unloading
<1>4. (\A do : Same(do)' => Same(do)) /\ IsSequence(todo')
  BY <1>0, <1>1, SameTail, NextCall
<1>5. IsSequence(startup) /\ IsSequence(startup)'
  BY LinesStep DEF CommandInv, TodoInv, Next, Work
<1>6. TodoInv' /\ ExtInv' /\ BackInv'
  BY <1>0, <1>1, <1>2, <1>4, <1>5 DEF CommandInv, TodoInv, ExtInv, BackInv
<1>7. AgainInv'
  <2> SUFFICES ASSUME Same("save") PROVE AgainInv'
    BY <1>4 DEF AgainInv
  <2>1. \A i \in DOMAIN todo' : AgainCall(i)'
    BY <1>0, <1>1, SameTail DEF CommandInv, AgainInv
  <2> QED BY <1>0, <1>1, <1>3, <2>1 DEF CommandInv, AgainInv, TrackOnce
<1>8. AskedInv'
  <2> SUFFICES ASSUME asked # {} PROVE AskedInv'
    BY <1>0 DEF AskedInv
  <2>1. (\A i \in DOMAIN todo : AskedCall(i)) /\ \A p \in asked \cap placed : Listed(p) \/ Saves(p)
    BY <1>1 DEF CommandInv, AskedInv
  <2>2. DOMAIN todo' = {} /\ Len(todo) = 1
    BY <1>0, <1>1, <2>1, AskedTail DEF AskedCall
  <2>3. ASSUME NEW p \in asked \cap placed PROVE Listed(p)'
    <3>1. CASE Listed(p)
      <4>1. CASE startup' = startup
        BY <3>1, <4>1 DEF Listed
      <4>2. CASE startup' = WriteAutoload(c.pkg, record[c.pkg].sha1)
        BY <1>5, <3>1, <4>2, WriteLists
      <4> QED BY <1>0, <4>1, <4>2
    <3>2. CASE Saves(p)
      <4>1. c.pkg = p /\ c.auto
        <5>1. PICK i \in DOMAIN todo : todo[i].do = "save" /\ todo[i].pkg = p /\ todo[i].auto
          BY <3>2 DEF Saves
        <5>2. i = 1
          BY <2>1, <2>2, <5>1 DEF AskedCall
        <5> QED BY <1>1, <5>1, <5>2
      <4>2. startup' = WriteAutoload(p, record[p].sha1)
        BY <1>0, <4>1
      <4> QED BY <1>5, <4>2, WriteLists
    <3> QED BY <2>1, <3>1, <3>2
  <2> QED BY <1>0, <1>1, <1>3, <2>2, <2>3 DEF AskedInv
<1> QED BY <1>6, <1>7, <1>8 DEF CommandInv

-----------------------------------------------------------------------------
(* A package is loaded, or gone.                                           *)

(* A package is recorded: reload and -r have what they asked for.         *)
LEMMA RecordCommand ==
  ASSUME GraphInv, CommandInv, NEW p \in Packages, Record(p)
  PROVE  CommandInv'
<1>1. /\ thread = "busy" /\ stack # << >> /\ stack[Len(stack)] = p /\ act[p].pc = "run" /\ Return(p)
      /\ packages_loaded' = packages_loaded \cup {p}
      /\ startup' = IF act[p].auto THEN WriteAutoload(p, act[p].sum) ELSE startup
      /\ placed' = IF Len(stack) = 1 THEN placed \cup {p} ELSE placed
      /\ UNCHANGED <<thread, todo, track, asked>>
      /\ DOMAIN act = Packages /\ DOMAIN record = Packages /\ stack \in Seq(Packages)
  BY DEF Record, At, unchangedByLoad, GraphInv, GraphTypes
<1>2. record'[p].ext = act[p].ext /\ \A q \in Packages : q # p => record'[q] = record[q]
  BY <1>1 DEF Record
<1>3. /\ p \notin packages_loaded /\ packages_loaded \subseteq Packages /\ act[p].ext \in Ext
      /\ Loading
  BY <1>1 DEF GraphInv, GraphTypes, LoadingOK, CommandInv, ExtInv, Loading
<1>4. act'[p].pc = "none" /\ \A q \in Packages : q # p => act'[q] = act[q]
  <2>1. act'[p] = NoAct /\ \A q \in Packages : q # p => act'[q] = act[q]
    BY <1>1 DEF Return
  <2> QED BY SMTT(30), <2>1 DEF NoAct
<1>5. Loading' => Loading
  BY <1>3
<1>6. Unloading' => Unloading
  BY <1>4 DEF Unloading
<1>7. \A i \in DOMAIN stack' : stack'[i] = stack[i] /\ stack[i] \in Packages /\ stack[i] # p
  BY <1>1, PopStack DEF GraphInv, CallsInv, Return
<1>8. stack' # << >> => stack'[1] = stack[1] /\ act'[stack'[1]] = act[stack[1]]
  <2>1. stack' \in Seq(Packages)
    BY <1>1, PopStack DEF GraphInv, CallsInv, Return
  <2>2. stack' # << >> => 1 \in DOMAIN stack'
    BY <2>1, SeqIs, Indices
  <2> QED BY <1>4, <1>7, <2>2
<1>9. Len(stack) = 1 => stack[1] = p
  BY <1>1
<1>10. IsSequence(startup) /\ IsSequence(startup)'
  BY LinesStep DEF CommandInv, TodoInv, Next, Work, Load
<1>11. TodoInv'
  BY <1>1, <1>10 DEF CommandInv, TodoInv
<1>12. ExtInv'
  BY <1>1, <1>2, <1>3, <1>4 DEF CommandInv, ExtInv
<1>13. BackInv'
  BY <1>1, <1>3 DEF CommandInv, BackInv, Same
<1>14. AgainInv'
  <2> SUFFICES ASSUME Same("save") PROVE AgainInv'
    BY <1>1 DEF AgainInv, Same
  <2>1. /\ placed \subseteq packages_loaded /\ ~Unloading /\ (\A i \in DOMAIN todo : AgainCall(i))
        /\ TrackOnce /\ \A j \in DOMAIN track : track[j].ext \in Ext
        /\ \A j \in DOMAIN track : track[j].pkg \in placed => record[track[j].pkg].ext = track[j].ext
        /\ act[stack[1]].pc \in LoadPC => Tracked(stack[1], act[stack[1]].ext)
    BY <1>1 DEF CommandInv, AgainInv
  <2>2. \A i \in DOMAIN todo' : AgainCall(i)'
    BY <1>1, <2>1 DEF AgainCall, Tracked
  <2>3. placed' \subseteq packages_loaded' /\ ~Unloading' /\ TrackOnce'
    BY <1>1, <1>6, <2>1 DEF TrackOnce
  <2>4. ASSUME NEW j \in DOMAIN track, track[j].pkg \in placed'
        PROVE  record'[track[j].pkg].ext = track[j].ext
    <3>1. CASE track[j].pkg \in placed
      BY <1>2, <1>3, <2>1, <3>1
    <3>2. CASE track[j].pkg \notin placed
      <4>1. track[j].pkg = p /\ stack[1] = p
        BY <1>1, <1>9, <2>4, <3>2
      <4>2. Tracked(p, act[p].ext)
        BY <1>1, <2>1, <4>1
      <4>3. track[j].ext = act[p].ext
        BY <2>1, <4>1, <4>2 DEF Tracked, TrackOnce
      <4> QED BY <1>2, <4>1, <4>3
    <3> QED BY <3>1, <3>2
  <2>5. stack' # << >> /\ act'[stack'[1]].pc \in LoadPC => Tracked(stack[1], act[stack[1]].ext)'
    BY <1>1, <1>8, <2>1 DEF Tracked
  <2> QED BY <1>1, <2>1, <2>2, <2>3, <2>4, <2>5 DEF AgainInv
<1>15. AskedInv'
  <2> SUFFICES ASSUME asked # {} PROVE AskedInv'
    BY <1>1 DEF AskedInv
  <2>1. /\ \A i \in DOMAIN todo : AskedCall(i)
        /\ \A i \in DOMAIN todo : todo[i].do # "unload"
        /\ act[stack[1]].pc \in LoadPC /\ stack[1] \in asked => act[stack[1]].auto \/ Saves(stack[1])
        /\ \A q \in asked \cap placed : Listed(q) \/ Saves(q)
    BY <1>1, <1>3 DEF CommandInv, AskedInv
  <2>2. ~Unloading
    BY <1>1 DEF GraphInv, CallsInv, Unloading
  <2>3. \A q : Saves(q) => Saves(q)'
    BY <1>1 DEF Saves
  <2>4. \A i \in DOMAIN todo' : AskedCall(i)'
    BY <1>1, <2>1, <2>3 DEF AskedCall
  <2>5. \A q : Listed(q) => Listed(q)'
    <3>1. CASE startup' = startup
      BY <3>1 DEF Listed
    <3>2. CASE startup' = WriteAutoload(p, act[p].sum)
      BY <1>10, <3>2, WriteLists
    <3> QED BY <1>1, <3>1, <3>2
  <2>6. ASSUME NEW q \in asked \cap placed' PROVE Listed(q)' \/ Saves(q)'
    <3>1. CASE q \in placed
      BY <2>1, <2>3, <2>5, <3>1
    <3>2. CASE q \notin placed
      <4>1. q = p /\ stack[1] = p
        BY <1>1, <1>9, <2>6, <3>2
      <4>2. CASE act[p].auto
        <5>1. startup' = WriteAutoload(p, act[p].sum)
          BY <1>1, <4>2
        <5> QED BY <1>10, <4>1, <5>1, WriteLists
      <4> QED BY <1>1, <2>1, <2>3, <4>1, <4>2
    <3> QED BY <3>1, <3>2
  <2>7. ASSUME stack' # << >>, act'[stack'[1]].pc \in LoadPC, stack'[1] \in asked'
        PROVE  act'[stack'[1]].auto \/ Saves(stack[1])'
    <3>1. act'[stack'[1]].auto \/ Saves(stack'[1])
      BY <1>1, <1>8, <2>1, <2>7
    <3> QED BY <1>1, <3>1 DEF Saves
  <2> QED BY <1>1, <1>6, <2>1, <2>2, <2>4, <2>6, <2>7 DEF AskedInv
<1> QED BY <1>11, <1>12, <1>13, <1>14, <1>15 DEF CommandInv

(* A package is gone, and goes to the front of the track list.             *)
LEMMA UnloadCommandKeeps ==
  ASSUME GraphInv, CommandInv, NEW p \in Packages, Unload(p)
  PROVE  CommandInv'
<1> DEFINE gone == [pkg |-> p, ext |-> record[p].ext, sum |-> record[p].sha1]
<1>1. /\ thread = "busy" /\ stack # << >> /\ stack[Len(stack)] = p /\ act[p].pc = "stop" /\ Return(p)
      /\ packages_loaded' = packages_loaded \ {p} /\ track' = <<gone>> \o track
      /\ UNCHANGED <<thread, todo, placed, asked>>
      /\ DOMAIN act = Packages /\ p \in packages_loaded
      /\ packages_loaded \subseteq Packages /\ record[p].ext \in Ext
  BY DEF Unload, At, GraphInv, GraphTypes, UnloadingOK, CommandInv, ExtInv
<1>2. \A q \in Packages : q # p => record'[q].ext = record[q].ext
  <2> SUFFICES ASSUME NEW q \in Packages, q # p PROVE record'[q].ext = record[q].ext
    OBVIOUS
  <2>1. record'[q] = record[q] \/ record'[q] = [record[q] EXCEPT !.dependents = @ \ {p}]
    BY DEF Unload
  <2>2. DOMAIN record[q] = DOMAIN NoRecord
    BY DEF GraphInv, GraphTypes
  <2> QED BY SMTT(30), <2>1, <2>2 DEF NoRecord
<1>3. act'[p].pc = "none" /\ \A q \in Packages : q # p => act'[q] = act[q]
  <2>1. act'[p] = NoAct /\ \A q \in Packages : q # p => act'[q] = act[q]
    BY <1>1 DEF Return
  <2> QED BY SMTT(30), <2>1 DEF NoAct
<1>4. Unloading /\ ~Loading /\ ~Loading'
  <2>1. Unloading /\ ~Loading
    BY <1>1 DEF GraphInv, CallsInv, Loading, Unloading
  <2> QED BY <1>3, <2>1 DEF Loading
<1>5. gone.pkg = p /\ gone.ext = record[p].ext
  OBVIOUS
<1> HIDE DEF gone
<1>6. /\ IsSequence(track')
      /\ \A j \in DOMAIN track' : j = 1 \/ (j - 1 \in DOMAIN track /\ track'[j] = track[j - 1])
      /\ 1 \in DOMAIN track' => track'[1] = gone
      /\ \A i, j \in DOMAIN track' : i - 1 = j - 1 => i = j
  <2>1. PICK t : t = <<gone>>
    OBVIOUS
  <2>2. IsSequence(t) /\ Len(t) = 1 /\ DOMAIN t = {1} /\ t[1] = gone
    BY <2>1, SingleIs
  <2>3. IsSequence(track) /\ track' = t \o track
    BY <1>1, <2>1 DEF CommandInv, TodoInv
  <2>4. Joined(t, track, track')
    BY <2>2, <2>3, ConcatIs
  <2>5. IsSequence(track')
    BY <2>4 DEF Joined
  <2>6. \A j \in DOMAIN track : (1 + j) - 1 = j
    <3>1. Len(track) \in Nat /\ DOMAIN track = 1..Len(track)
      BY <2>3, Indices
    <3> QED BY SMTT(30), <3>1
  <2>7. \A i, j \in DOMAIN track' : i - 1 = j - 1 => i = j
    <3>1. Len(track') \in Nat /\ DOMAIN track' = 1..Len(track')
      BY <2>5, Indices
    <3> QED BY SMTT(30), <3>1
  <2>8. ASSUME NEW i \in DOMAIN track', NEW j \in DOMAIN track, i = Len(t) + j
        PROVE  i - 1 = j /\ track'[i] = track[j]
    BY <2>2, <2>4, <2>6, <2>8 DEF Joined
  <2>9. \A i \in DOMAIN track' : i = 1 \/ \E j \in DOMAIN track : i = Len(t) + j
    BY <2>2, <2>4 DEF Joined
  <2>10. \A i \in DOMAIN track' : i = 1 \/ (i - 1 \in DOMAIN track /\ track'[i] = track[i - 1])
    BY SMTT(30), <2>8, <2>9
  <2>11. track'[1] = gone
    BY <2>2, <2>4 DEF Joined
  <2> QED BY <2>5, <2>7, <2>10, <2>11
<1>7. IsSequence(startup)'
  BY LinesStep DEF CommandInv, TodoInv, Next, Work
<1>8. TodoInv'
  BY <1>1, <1>6, <1>7 DEF CommandInv, TodoInv
<1>9. ExtInv'
  BY <1>1, <1>2, <1>3 DEF CommandInv, ExtInv
<1>10. BackInv'
  <2> SUFFICES ASSUME Same("restore") PROVE BackInv'
    BY <1>1 DEF BackInv, Same
  <2>1. /\ placed = {} /\ (\A i \in DOMAIN todo : BackCall(i)) /\ TrackOnce
        /\ \A j \in DOMAIN track : track[j].pkg \notin packages_loaded /\ track[j].ext \in Ext
    BY DEF CommandInv, BackInv
  <2>2. \A i \in DOMAIN todo' : BackCall(i)'
    BY <1>1, <2>1 DEF BackCall
  <2>3. \A j \in DOMAIN track' : track'[j].pkg \notin packages_loaded' /\ track'[j].ext \in Ext
    BY <1>1, <1>5, <1>6, <2>1
  <2>4. ASSUME NEW i \in DOMAIN track', NEW j \in DOMAIN track', track'[i].pkg = track'[j].pkg
        PROVE  i = j
    <3>1. ASSUME NEW k \in DOMAIN track', k # 1 PROVE track'[k].pkg # p
      BY <1>1, <1>6, <2>1, <3>1
    <3>2. CASE i = 1 \/ j = 1
      BY <1>5, <1>6, <2>4, <3>1, <3>2
    <3>3. CASE i # 1 /\ j # 1
      <4>1. /\ i - 1 \in DOMAIN track /\ j - 1 \in DOMAIN track
            /\ track[i - 1].pkg = track[j - 1].pkg
        BY <1>6, <2>4, <3>3
      <4>2. i - 1 = j - 1
        BY <2>1, <4>1 DEF TrackOnce
      <4> QED BY <1>6, <4>2
    <3> QED BY <3>2, <3>3
  <2> QED BY <1>1, <1>4, <2>1, <2>2, <2>3, <2>4 DEF BackInv, TrackOnce
<1>11. AgainInv'
  BY <1>1, <1>4 DEF CommandInv, AgainInv, Same
<1>12. AskedInv'
  <2> SUFFICES ASSUME asked # {} PROVE AskedInv'
    BY <1>1 DEF AskedInv
  <2>1. placed = {} /\ \A i \in DOMAIN todo : AskedCall(i)
    BY <1>4 DEF CommandInv, AskedInv
  <2>2. \A i \in DOMAIN todo' : AskedCall(i)'
    BY <1>1, <2>1 DEF AskedCall, Saves
  <2>3. ASSUME stack' # << >> PROVE act'[stack'[1]].pc \notin LoadPC
    <3>1. stack' \in Seq(Packages)
      BY <1>1, PopStack DEF GraphInv, GraphTypes, CallsInv, Return
    <3>2. 1 \in 1..Len(stack')
      BY <2>3, <3>1, SeqIs, Indices
    <3>3. stack'[1] \in Packages
      BY <3>1, <3>2, ElementOfSeq
    <3> QED BY <1>4, <3>3 DEF Loading
  <2> QED BY <1>1, <1>4, <2>1, <2>2, <2>3 DEF AskedInv
<1> QED BY <1>8, <1>9, <1>10, <1>11, <1>12 DEF CommandInv

-----------------------------------------------------------------------------
(* Beginning a command.                                                    *)

(* A command whose calls are in order begins.                              *)
LEMMA BeginKeeps ==
  ASSUME GraphInv, CommandInv, thread # "busy", NEW calls, NEW named, Begin(calls, named),
         IsSequence(calls), \A i \in DOMAIN calls : calls[i].do # "save",
         named # {} => \A i \in DOMAIN todo' : AskedCall(i)',
         Same("restore")' => \A i \in DOMAIN todo' : BackCall(i)'
  PROVE  CommandInv'
<1>1. /\ thread' = "busy" /\ todo' = calls /\ track' = << >> /\ placed' = {} /\ asked' = named
      /\ UNCHANGED <<startup, packages_loaded, record, stack, act>>
  BY DEF Begin
<1>2. stack = << >> /\ stack' = << >>
  BY <1>1 DEF CommandInv, TodoInv
<1>3. ~Loading' /\ ~Unloading'
  BY <1>1, <1>2, NoCalls DEF Loading, Unloading
<1>4. IsSequence(track') /\ DOMAIN track' = {}
  BY <1>1, EmptyIs
<1>5. TodoInv' /\ ExtInv'
  BY <1>1, <1>4 DEF CommandInv, TodoInv, ExtInv
<1>6. BackInv'
  BY <1>1, <1>3, <1>4 DEF BackInv, TrackOnce
<1>7. AgainInv'
  BY <1>1 DEF AgainInv, Same
<1>8. AskedInv'
  BY <1>1, <1>2, <1>3 DEF AskedInv
<1> QED BY <1>5, <1>6, <1>7, <1>8 DEF CommandInv

(* A command without -r that neither restores nor saves.                   *)
LEMMA PlainBegins ==
  ASSUME GraphInv, CommandInv, thread # "busy", NEW calls, Begin(calls, {}), IsSequence(calls),
         \A i \in DOMAIN calls : calls[i].do \notin {"restore", "save"}
  PROVE  CommandInv'
<1>1. ~Same("restore")'
  BY DEF Same, Begin
<1> QED BY <1>1, BeginKeeps

(* load, with or without -r.                                               *)
LEMMA LoadBegins ==
  ASSUME GraphInv, CommandInv, thread # "busy", NEW list, NEW auto \in BOOLEAN, NEW named,
         IsSequence(list), named # {} => auto, Begin(LoadList(list, auto), named)
  PROVE  CommandInv'
<1>1. PICK calls : calls = LoadList(list, auto)
  OBVIOUS
<1>2. IsSequence(calls) /\ \A i \in DOMAIN calls : calls[i].do = "load" /\ calls[i].auto = auto
  BY SMTT(30), <1>1, LoadListIs
<1>3. todo' = calls /\ Begin(calls, named)
  BY <1>1 DEF Begin
<1>4. named # {} => \A i \in DOMAIN todo' : AskedCall(i)'
  BY <1>2, <1>3 DEF AskedCall
<1>5. ~Same("restore")'
  BY <1>2, <1>3 DEF Same
<1>6. \A i \in DOMAIN calls : calls[i].do # "save"
  BY <1>2
<1> QED BY <1>2, <1>3, <1>4, <1>5, <1>6, BeginKeeps

(* Whom a command with one argument names.                                 *)
LEMMA NamedOne ==
  ASSUME NEW m \in Commands, Len(m.args) = 1
  PROVE  Named(m) \subseteq {m.args[1].pkg} /\ (Named(m) # {} => m.auto)
<1>1. DOMAIN m.args = 1..Len(m.args)
  BY CommandsAssumption, Indices
<1>2. 1..1 = {1}
  BY SMTT(30)
<1> QED BY <1>1, <1>2 DEF Named

(* reload, and update of a package that is loaded.                         *)
LEMMA RestoreBegins ==
  ASSUME GraphInv, CommandInv, thread # "busy", NEW m \in Commands, Len(m.args) = 1, NEW ext,
         m.args[1].pkg \in packages_loaded,
         Begin(<<Call("unload", m.args[1].pkg, None, FALSE, None),
                 Call("restore", m.args[1].pkg, m.args[1].sum, m.auto, ext)>>, Named(m))
  PROVE  CommandInv'
<1> DEFINE p == m.args[1].pkg
           a == Call("unload", p, None, FALSE, None)
           b == Call("restore", p, m.args[1].sum, m.auto, ext)
<1>1. /\ a.do = "unload"
      /\ b.do = "restore" /\ b.pkg = p /\ b.auto = m.auto
  BY DEF Call
<1>2. PICK calls : calls = <<a, b>>
  OBVIOUS
<1>3. Begin(calls, Named(m))
  BY <1>2
<1> HIDE DEF a, b
<1>4. /\ IsSequence(calls) /\ Len(calls) = 2 /\ DOMAIN calls = {1, 2}
      /\ calls[1] = a /\ calls[2] = b
  BY <1>2, PairIs
<1>5. todo' = calls /\ asked' = Named(m)
  BY <1>3 DEF Begin
<1>6. p # None
  BY PackagesAssumption DEF GraphInv, GraphTypes
<1>7. 1..1 = {1} /\ 1 # 2
  BY SMTT(30)
<1>8. ASSUME Named(m) # {} PROVE \A i \in DOMAIN todo' : AskedCall(i)'
  <2>1. m.auto /\ asked' \subseteq {p}
    BY <1>5, <1>8, NamedOne
  <2>2. AskedCall(1)'
    BY <1>1, <1>4, <1>5, <1>7 DEF AskedCall
  <2>3. AskedCall(2)'
    BY <1>1, <1>4, <1>5, <2>1 DEF AskedCall
  <2> QED BY <1>4, <1>5, <2>2, <2>3
<1>9. \A i \in DOMAIN todo' : BackCall(i)'
  BY <1>1, <1>4, <1>5, <1>6 DEF BackCall
<1>10. \A i \in DOMAIN calls : calls[i].do # "save"
  BY <1>1, <1>4
<1> QED BY <1>3, <1>4, <1>8, <1>9, <1>10, BeginKeeps

(* update of a list: unload all of it, load all of it, restore the others. *)
LEMMA UpdateListBegins ==
  ASSUME GraphInv, CommandInv, NEW m \in Commands, UpdateListCommand(m)
  PROVE  CommandInv'
<1>1. PICK u, l, t : /\ u = UnloadList(m.args) /\ l = LoadList(m.args, m.auto)
                     /\ t = <<Call("restore", None, None, m.auto, None)>>
  OBVIOUS
<1>2. /\ IsSequence(u) /\ IsSequence(l) /\ \A i \in DOMAIN u : u[i].do = "unload"
      /\ \A i \in DOMAIN l : l[i].do = "load" /\ l[i].auto = m.auto
  BY SMTT(30), <1>1, CommandsAssumption, LoadListIs, UnloadListIs
<1>3. /\ IsSequence(t) /\ Len(t) = 1 /\ DOMAIN t = {1}
      /\ t[1].do = "restore" /\ t[1].pkg = None /\ t[1].auto = m.auto /\ t[1].ext = None
  <2>1. PICK c : c = Call("restore", None, None, m.auto, None)
    OBVIOUS
  <2>2. c.do = "restore" /\ c.pkg = None /\ c.auto = m.auto /\ c.ext = None
    BY SMTT(30), <2>1 DEF Call
  <2>3. IsSequence(t) /\ Len(t) = 1 /\ DOMAIN t = {1} /\ t[1] = c
    BY <1>1, <2>1, SingleIs
  <2> QED BY <2>2, <2>3
<1>4. PICK v : v = u \o l
  OBVIOUS
<1>5. Joined(u, l, v)
  BY <1>2, <1>4, ConcatIs
<1>6. PICK calls : calls = v \o t
  OBVIOUS
<1>7. Joined(v, t, calls)
  <2>1. IsSequence(v)
    BY <1>5 DEF Joined
  <2> QED BY <1>3, <1>6, <2>1, ConcatIs
<1>8. thread # "busy" /\ Begin(calls, Named(m))
  BY <1>1, <1>4, <1>6 DEF UpdateListCommand, Got
<1>9. todo' = calls /\ asked' = Named(m)
  BY <1>8 DEF Begin
<1>10. IsSequence(calls) /\ Len(calls) = Len(v) + 1 /\ IsSequence(v)
  BY <1>3, <1>5, <1>7 DEF Joined
<1>11. \A i \in DOMAIN v : (i \in DOMAIN u /\ v[i] = u[i]) \/ (v[i].do = "load" /\ v[i].auto = m.auto)
  <2>1. ASSUME NEW i \in DOMAIN v, NEW j \in DOMAIN l, i = Len(u) + j PROVE v[i] = l[j]
    BY <1>5, <2>1 DEF Joined
  <2>2. \A i \in DOMAIN v : (i \in DOMAIN u /\ v[i] = u[i]) \/ \E j \in DOMAIN l : i = Len(u) + j
    BY <1>5 DEF Joined
  <2>3. ASSUME NEW i \in DOMAIN v, NEW j \in DOMAIN l, i = Len(u) + j
        PROVE  v[i].do = "load" /\ v[i].auto = m.auto
    BY <1>2, <2>1, <2>3
  <2> QED BY <2>2, <2>3
<1>12. \A i \in DOMAIN calls :
         \/ i \in DOMAIN u /\ calls[i] = u[i]
         \/ calls[i].do = "load" /\ calls[i].auto = m.auto
         \/ i = Len(calls) /\ calls[i] = t[1]
  <2>1. ASSUME NEW i \in DOMAIN calls, NEW j \in DOMAIN t, i = Len(v) + j
        PROVE  i = Len(calls) /\ calls[i] = t[1]
    BY <1>3, <1>7, <1>10, <2>1 DEF Joined
  <2>2. \A i \in DOMAIN calls : (i \in DOMAIN v /\ calls[i] = v[i]) \/ \E j \in DOMAIN t : i = Len(v) + j
    BY <1>7 DEF Joined
  <2> QED BY <1>11, <2>1, <2>2
<1>13. \A i \in DOMAIN u : i \in DOMAIN calls /\ calls[i] = u[i]
  BY <1>5, <1>7 DEF Joined
<1>14. \A i \in DOMAIN u : \A j \in 1..i : j \in DOMAIN u
  <2>1. DOMAIN u = 1..Len(u) /\ Len(u) \in Nat
    BY <1>2, Indices
  <2> QED BY SMTT(30), <2>1
<1>15. ASSUME Named(m) # {}, NEW i \in DOMAIN todo' PROVE AskedCall(i)'
  <2>1. m.auto
    BY <1>15 DEF Named
  <2>2. CASE i \in DOMAIN u /\ calls[i] = u[i]
    BY <1>2, <1>9, <1>13, <1>14, <2>2 DEF AskedCall
  <2>3. CASE calls[i].do = "load" /\ calls[i].auto = m.auto
    BY <1>9, <2>1, <2>3 DEF AskedCall
  <2>4. CASE i = Len(calls) /\ calls[i] = t[1]
    BY <1>3, <1>9, <2>1, <2>4 DEF AskedCall
  <2> QED BY <1>9, <1>12, <2>2, <2>3, <2>4
<1>16. ~Same("restore")'
  <2>1. \A i \in DOMAIN calls : calls[i].do = "restore" => calls[i].ext # "same"
    BY <1>2, <1>3, <1>12, PackagesAssumption
  <2> QED BY <1>9, <2>1 DEF Same
<1>17. \A i \in DOMAIN calls : calls[i].do # "save"
  BY <1>2, <1>3, <1>12
<1> QED BY <1>8, <1>10, <1>15, <1>16, <1>17, BeginKeeps

(* delete: each package is unloaded and then deleted.                      *)
LEMMA DeleteBegins ==
  ASSUME GraphInv, CommandInv, NEW m \in Commands, DeleteCommand(m)
  PROVE  CommandInv'
<1> DEFINE Do(i) == IF i % 2 = 1 THEN "unload" ELSE "delete"
           Pkg(i) == m.args[(i + 1) \div 2].pkg
           n == 2 * Len(m.args)
           list == [i \in 1..n |-> Call(Do(i), Pkg(i), None, FALSE, None)]
<1>1. n \in Nat
  <2>1. Len(m.args) \in Nat
    BY CommandsAssumption, Indices
  <2> QED BY SMTT(30), <2>1
<1>2. PICK calls : calls = list
  OBVIOUS
<1>3. thread # "busy" /\ Begin(calls, {})
  BY <1>2 DEF DeleteCommand, Got
<1>4. \A i : Do(i) \in {"unload", "delete"}
  OBVIOUS
<1> HIDE DEF Do, Pkg, n
<1>5. /\ DOMAIN calls = 1..n /\ calls = [i \in 1..n |-> calls[i]]
      /\ \A i \in DOMAIN calls : calls[i].do = Do(i)
  BY SMTT(30), <1>2 DEF Call
<1>6. IsSequence(calls)
  BY <1>1, <1>5, FunctionIs
<1>7. \A i \in DOMAIN calls : calls[i].do \notin {"restore", "save"}
  BY <1>4, <1>5
<1> QED BY <1>3, <1>6, <1>7, PlainBegins

(* unload, unload_all, terminate.                                          *)
LEMMA UnloadBegins ==
  ASSUME GraphInv, CommandInv, NEW m \in Commands,
         UnloadCommand(m) \/ UnloadAllCommand(m) \/ TerminateCommand(m)
  PROVE  CommandInv'
<1>1. CASE UnloadCommand(m)
  <2>1. PICK calls : calls = UnloadList(m.args)
    OBVIOUS
  <2>2. IsSequence(calls) /\ \A i \in DOMAIN calls : calls[i].do = "unload"
    BY SMTT(30), <2>1, CommandsAssumption, UnloadListIs
  <2>3. thread # "busy" /\ Begin(calls, {})
    BY <1>1, <2>1 DEF UnloadCommand, Got
  <2>4. \A i \in DOMAIN calls : calls[i].do \notin {"restore", "save"}
    BY <2>2
  <2> QED BY <2>2, <2>3, <2>4, PlainBegins
<1> DEFINE a == Call("unload_all", None, None, FALSE, None)
           b == Call("quit", None, None, FALSE, None)
<1>2. a.do = "unload_all" /\ b.do = "quit"
  BY DEF Call
<1>3. CASE UnloadAllCommand(m)
  <2>1. PICK calls : calls = <<a>>
    OBVIOUS
  <2>2. thread # "busy" /\ Begin(calls, {})
    BY <1>3, <2>1 DEF UnloadAllCommand, Got
  <2> HIDE DEF a
  <2>3. IsSequence(calls) /\ DOMAIN calls = {1} /\ calls[1] = a
    BY <2>1, SingleIs
  <2>4. \A i \in DOMAIN calls : calls[i].do \notin {"restore", "save"}
    BY <1>2, <2>3
  <2> QED BY <2>2, <2>3, <2>4, PlainBegins
<1>4. CASE TerminateCommand(m)
  <2>1. PICK calls : calls = <<a, b>>
    OBVIOUS
  <2>2. thread # "busy" /\ Begin(calls, {})
    BY <1>4, <2>1 DEF TerminateCommand, Got
  <2> HIDE DEF a, b
  <2>3. IsSequence(calls) /\ DOMAIN calls = {1, 2} /\ calls[1] = a /\ calls[2] = b
    BY <2>1, PairIs
  <2>4. \A i \in DOMAIN calls : calls[i].do \notin {"restore", "save"}
    BY <1>2, <2>3
  <2> QED BY <2>2, <2>3, <2>4, PlainBegins
<1> QED BY <1>1, <1>3, <1>4

(* An exception ends the thread between two commands.                      *)
LEMMA DiesKeeps ==
  ASSUME CommandInv, thread # "busy", Dies
  PROVE  CommandInv'
<1>1. /\ thread # "busy" /\ thread' = "dead"
      /\ UNCHANGED <<startup, todo, track, placed, packages_loaded, record, stack, act, asked>>
  BY DEF Dies
<1>2. TodoInv' /\ ExtInv'
  BY <1>1 DEF CommandInv, TodoInv, ExtInv
<1>3. BackInv' /\ AgainInv'
  BY <1>1 DEF CommandInv, BackInv, AgainInv, Same, BackCall, AgainCall, Tracked, TrackOnce, Loading, Unloading
<1>4. AskedInv'
  BY <1>1 DEF CommandInv, AskedInv, AskedCall, Saves, Loading, Unloading
<1> QED BY <1>2, <1>3, <1>4 DEF CommandInv

(* Whatever the command.                                                   *)
LEMMA BeginningKeeps ==
  ASSUME GraphInv, CommandInv, Command
  PROVE  CommandInv'
<1>1. CASE LoadAuto
  <2>1. thread # "busy" /\ IsSequence(startup) /\ (Begin(LoadList(startup, FALSE), {}) \/ Dies)
    BY <1>1 DEF LoadAuto, Got, CommandInv, TodoInv
  <2> QED BY <2>1, LoadBegins, DiesKeeps
<1>2. ASSUME NEW m \in Commands, LoadCommand(m) PROVE CommandInv'
  <2>1. thread # "busy" /\ Begin(LoadList(m.args, m.auto), Named(m)) /\ (Named(m) # {} => m.auto)
    BY <1>2 DEF LoadCommand, Got, Named
  <2> QED BY <2>1, CommandsAssumption, LoadBegins
<1>3. ASSUME NEW m \in Commands, ReloadCommand(m) PROVE CommandInv'
  BY <1>3, RestoreBegins DEF ReloadCommand, Got
<1>4. ASSUME NEW m \in Commands, UpdateCommand(m) PROVE CommandInv'
  <2>1. CASE m.args[1].pkg \in packages_loaded
    BY <1>4, <2>1, RestoreBegins DEF UpdateCommand, Got
  <2>2. CASE m.args[1].pkg \notin packages_loaded
    <3>1. thread # "busy" /\ Begin(LoadList(m.args, FALSE), {})
      BY <1>4, <2>2 DEF UpdateCommand, Got
    <3> QED BY <3>1, CommandsAssumption, LoadBegins
  <2> QED BY <2>1, <2>2
<1>5. ASSUME NEW m \in Commands, UpdateAllCommand(m) PROVE CommandInv'
  BY <1>5, DiesKeeps DEF UpdateAllCommand, Got
<1> QED BY <1>1, <1>2, <1>3, <1>4, <1>5, UpdateListBegins, DeleteBegins, UnloadBegins DEF Command

(* A command is done, or the process starts afresh.                        *)
LEMMA IdleKeeps ==
  ASSUME GraphInv, CommandInv, Done \/ Restart
  PROVE  CommandInv'
<1>1. CASE Done
  <2>1. /\ thread = "busy" /\ thread' = "idle" /\ stack = << >> /\ todo = << >>
        /\ UNCHANGED <<startup, todo, track, placed, packages_loaded, record, stack, act, asked>>
    BY <1>1 DEF Done, unchangedByCalls
  <2>2. TodoInv' /\ ExtInv'
    BY <2>1 DEF CommandInv, TodoInv, ExtInv
  <2>3. ~Same("restore")' /\ ~Same("save")'
    BY <2>1, EmptyIs DEF Same
  <2>4. AskedInv'
    <3>1. DOMAIN todo' = {} /\ stack' = << >>
      BY <2>1, EmptyIs
    <3>2. placed' # {} /\ asked' # {} => ~Unloading'
      BY <2>1 DEF CommandInv, AskedInv, Unloading
    <3>3. asked' # {} => \A p \in asked' \cap placed' : Listed(p)' \/ Saves(p)'
      <4>1. asked # {} => \A p \in asked \cap placed : Listed(p) \/ Saves(p)
        BY <2>1 DEF CommandInv, AskedInv
      <4>2. \A p : (Listed(p) => Listed(p)') /\ (Saves(p) => Saves(p)')
        BY <2>1 DEF Listed, Saves
      <4> QED BY <2>1, <4>1, <4>2
    <3> QED BY <3>1, <3>2, <3>3 DEF AskedInv
  <2> QED BY <2>2, <2>3, <2>4 DEF CommandInv, BackInv, AgainInv
<1>2. CASE Restart
  <2>1. /\ thread' = "init" /\ todo' = << >> /\ track' = << >> /\ packages_loaded' = {}
        /\ stack' = << >> /\ act' = [p \in Packages |-> NoAct] /\ asked' = {}
    BY <1>2 DEF Restart
  <2>2. IsSequence(startup)'
    BY <1>2, LinesStep DEF CommandInv, TodoInv, Next
  <2>3. TodoInv'
    BY <2>1, <2>2, EmptyIs DEF TodoInv
  <2>4. \A p \in Packages : act'[p].pc = "none"
    BY SMTT(30), <2>1 DEF NoAct
  <2>5. ~Same("restore")' /\ ~Same("save")'
    BY <2>1, EmptyIs DEF Same
  <2> QED BY <2>1, <2>3, <2>4, <2>5 DEF CommandInv, ExtInv, BackInv, AgainInv, AskedInv
<1> QED BY <1>1, <1>2

(* Every step keeps the invariant.                                         *)
LEMMA CommandStep ==
  ASSUME GraphInv, CommandInv, [Next]_vars
  PROVE  CommandInv'
<1>1. ExtInv
  BY DEF CommandInv
<1>2. \/ Inner \/ Command \/ Restart \/ Quit \/ Done
      \/ TakeLoad \/ TakeUnload \/ TakeUnloadAll \/ TakeRestore \/ TakeSave \/ TakeDelete
      \/ \E p \in Packages : Record(p) \/ Unload(p)
  BY <1>1, InnerSteps
<1> QED BY <1>2, InnerKeeps, BeginningKeeps, IdleKeeps, TakeLoadKeeps, TakeUnloadKeeps, OtherCallsKeep,
           TakeRestoreKeeps, TakeSaveKeeps, RecordCommand, UnloadCommandKeeps

(* It holds at first.                                                      *)
LEMMA CommandStart == Init => CommandInv
<1> SUFFICES ASSUME Init PROVE CommandInv
  OBVIOUS
<1>1. \A p \in Packages : act[p].pc = "none"
  BY SMTT(30) DEF Init, NoAct
<1>2. IsSequence(startup) /\ IsSequence(todo) /\ IsSequence(track) /\ DOMAIN todo = {}
  BY EmptyIs, CommandsAssumption DEF Init
<1> QED BY <1>1, <1>2 DEF Init, CommandInv, TodoInv, ExtInv, BackInv, AgainInv, AskedInv, Same

(* Whoever was asked for and loaded is listed, or is still to be saved;    *)
(* nothing is while the thread waits.                                      *)
LEMMA CommandLists == CommandInv => AskedIsListed
<1> SUFFICES ASSUME CommandInv, thread = "idle", NEW p \in asked \cap placed
             PROVE  Listed(p)
  BY DEF AskedIsListed, Listed
<1>1. todo = << >>
  BY DEF CommandInv, TodoInv
<1>2. ~Saves(p)
  BY <1>1, EmptyIs DEF Saves
<1> QED BY <1>2 DEF CommandInv, AskedInv

(* A call that is to load again has the extension of what was unloaded.    *)
LEMMA CommandReloads == CommandInv => ReloadSameFile
<1> SUFFICES ASSUME CommandInv, Next1("save"), Head(todo).ext = "same"
             PROVE  ReloadSameFile
  BY DEF ReloadSameFile
<1>1. Same("save")
  BY HeadIs DEF Same
<1> QED BY <1>1 DEF CommandInv, AgainInv, ReloadSameFile

=============================================================================
