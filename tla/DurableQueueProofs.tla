-------------------------- MODULE DurableQueueProofs --------------------------
(***************************************************************************)
(* What DurableQueue promises, for any number of producers and lanes.      *)
(***************************************************************************)
EXTENDS DurableQueue, SequenceTheorems, TLAPS

(***************************************************************************)
(* The inductive invariant.  That a fate is final needs more than that a   *)
(* pending call has none: disposing of some calls must leave no other      *)
(* occurrence of them pending, so a call is pending at one place only.     *)
(***************************************************************************)
TypeOK ==
  /\ pending \in [Lane -> Seq(Producer)]
  /\ fate \in [Producer -> {"none", "stored", "dead", "lost", "dropped", "crashed"}]

PendingHasNoFate ==
  \A l \in Lane : \A i \in DOMAIN pending[l] : fate[pending[l][i]] = "none"

PendingOnce ==
  \A k, l \in Lane : \A i \in DOMAIN pending[k], j \in DOMAIN pending[l] :
    pending[k][i] = pending[l][j] => k = l /\ i = j

IInv == TypeOK /\ PendingHasNoFate /\ PendingOnce

\* A call keeps the fate it was given.
FateIsKept == \A c \in Producer : fate[c] # "none" => fate'[c] = fate[c]

LEMMA InitIInv == Init => IInv
  BY EmptySeq DEF Init, IInv, TypeOK, PendingHasNoFate, PendingOnce

LEMMA AcceptStep ==
  ASSUME IInv, NEW c \in Producer, NEW l \in Lane, Accept(c, l)
  PROVE  IInv' /\ FateIsKept
<1>. DEFINE s == pending[l]
<1>1. /\ s \in Seq(Producer) /\ Len(s) \in Nat /\ DOMAIN s = 1..Len(s)
      /\ Append(s, c) \in Seq(Producer) /\ DOMAIN Append(s, c) = 1..(Len(s) + 1)
      /\ \A i \in 1..Len(s) : Append(s, c)[i] = s[i]
      /\ Append(s, c)[Len(s) + 1] = c
  BY AppendProperties, LenProperties DEF IInv, TypeOK
<1>2. /\ pending'[l] = Append(s, c) /\ \A k \in Lane : k # l => pending'[k] = pending[k]
      /\ fate' = fate /\ fate[c] = "none"
      /\ \A k \in Lane : \A i \in DOMAIN pending[k] : pending[k][i] # c
  BY DEF Accept, IInv, TypeOK, Range
<1>3. TypeOK'
  BY <1>1, <1>2 DEF Accept, IInv, TypeOK
<1>4. PendingHasNoFate'
  <2>. SUFFICES ASSUME NEW k \in Lane, NEW i \in DOMAIN pending'[k]
                PROVE  fate[pending'[k][i]] = "none"
    BY <1>2 DEF PendingHasNoFate
  <2>1. CASE k = l
    <3>1. i \in 1..Len(s) \/ i = Len(s) + 1
      BY <1>1, <1>2, <2>1
    <3>. QED
      BY <1>1, <1>2, <2>1, <3>1 DEF IInv, PendingHasNoFate
  <2>2. CASE k # l
    BY <1>2, <2>2 DEF IInv, PendingHasNoFate
  <2>. QED
    BY <2>1, <2>2
<1>5. PendingOnce'
  <2>. SUFFICES ASSUME NEW k \in Lane, NEW m \in Lane,
                       NEW i \in DOMAIN pending'[k], NEW j \in DOMAIN pending'[m],
                       pending'[k][i] = pending'[m][j]
                PROVE  k = m /\ i = j
    BY DEF PendingOnce
  <2>0. ASSUME NEW n \in Lane, NEW x \in DOMAIN pending'[n]
        PROVE  \/ x \in DOMAIN pending[n] /\ pending'[n][x] = pending[n][x]
               \/ n = l /\ x = Len(s) + 1 /\ pending'[n][x] = c
    <3>1. CASE n = l
      BY <1>1, <1>2, <3>1
    <3>2. CASE n # l
      BY <1>2, <3>2
    <3>. QED
      BY <3>1, <3>2
  <2>1. \/ i \in DOMAIN pending[k] /\ pending'[k][i] = pending[k][i]
        \/ k = l /\ i = Len(s) + 1 /\ pending'[k][i] = c
    BY <2>0
  <2>2. \/ j \in DOMAIN pending[m] /\ pending'[m][j] = pending[m][j]
        \/ m = l /\ j = Len(s) + 1 /\ pending'[m][j] = c
    BY <2>0
  <2>. QED
    BY <1>2, <2>1, <2>2 DEF IInv, PendingOnce
<1>. QED
  BY <1>2, <1>3, <1>4, <1>5 DEF IInv, FateIsKept

LEMMA DisposeStep ==
  ASSUME IInv, NEW l \in Lane, NEW n \in 1..Len(pending[l]), NEW f \in {"stored", "dead", "lost", "dropped"},
         Dispose(l, n, f)
  PROVE  IInv' /\ FateIsKept
<1>. DEFINE s == pending[l]
<1>. DEFINE t == SubSeq(s, n + 1, Len(s))
<1>1. s \in Seq(Producer) /\ Len(s) \in Nat /\ DOMAIN s = 1..Len(s)
      /\ \A i \in 1..Len(s) : s[i] \in Producer
  BY LenProperties, ElementOfSeq DEF IInv, TypeOK
<1>2. /\ t \in Seq(Producer) /\ Len(t) = Len(s) - n /\ DOMAIN t = 1..(Len(s) - n)
      /\ \A i \in 1..(Len(s) - n) : t[i] = s[i + n]
  BY <1>1, SubSeqProperties, LenProperties
<1>3. Range(SubSeq(s, 1, n)) = {s[i] : i \in 1..n}
  <2>1. /\ SubSeq(s, 1, n) \in Seq(Producer) /\ Len(SubSeq(s, 1, n)) = n
        /\ \A i \in 1..n : SubSeq(s, 1, n)[i] = s[i]
    BY <1>1, SubSeqProperties
  <2>. QED
    BY <2>1, LenProperties DEF Range
<1>4. /\ pending'[l] = t /\ \A k \in Lane : k # l => pending'[k] = pending[k]
      /\ \A c \in Producer :
           fate'[c] = IF c \in {s[i] : i \in 1..n} THEN f ELSE fate[c]
  BY <1>3 DEF Dispose, IInv, TypeOK
<1>. HIDE DEF t
\* Every place of the new state is a place of the old one that keeps its call.
<1>. DEFINE Place(k, i) == IF k = l THEN i + n ELSE i
<1>5. \A k \in Lane : \A i \in DOMAIN pending'[k] :
        /\ Place(k, i) \in DOMAIN pending[k]
        /\ pending'[k][i] = pending[k][Place(k, i)]
  <2>. SUFFICES ASSUME NEW k \in Lane, NEW i \in DOMAIN pending'[k]
                PROVE  /\ Place(k, i) \in DOMAIN pending[k]
                       /\ pending'[k][i] = pending[k][Place(k, i)]
    OBVIOUS
  <2>1. CASE k = l
    <3>1. i \in 1..(Len(s) - n) /\ pending'[k][i] = s[i + n]
      BY <1>2, <1>4, <2>1
    <3>2. i + n \in DOMAIN s
      BY <1>1, <3>1
    <3>. QED
      BY <2>1, <3>1, <3>2
  <2>2. CASE k # l
    BY <1>4, <2>2
  <2>. QED
    BY <2>1, <2>2
<1>6. TypeOK'
  BY <1>2, <1>3, <1>4 DEF Dispose, IInv, TypeOK
<1>7. PendingHasNoFate'
  <2>. SUFFICES ASSUME NEW k \in Lane, NEW i \in DOMAIN pending'[k]
                PROVE  fate'[pending'[k][i]] = "none"
    BY DEF PendingHasNoFate
  <2>. DEFINE p == Place(k, i)
  <2>1. p \in DOMAIN pending[k] /\ pending'[k][i] = pending[k][p]
    BY <1>5
  <2>2. pending[k][p] \in Producer /\ fate[pending[k][p]] = "none"
    BY <2>1, LenProperties, ElementOfSeq DEF IInv, TypeOK, PendingHasNoFate
  <2>3. \A q \in 1..n : s[q] # pending[k][p]
    <3>. SUFFICES ASSUME NEW q \in 1..n, s[q] = pending[k][p]
                  PROVE  FALSE
      OBVIOUS
    <3>1. q \in DOMAIN s
      BY <1>1
    <3>2. k = l /\ q = p
      BY <2>1, <3>1 DEF IInv, PendingOnce
    <3>3. i \in 1..(Len(s) - n)
      BY <1>2, <1>4, <3>2
    <3>. QED
      BY <3>2, <3>3
  <2>. QED
    BY <1>4, <2>1, <2>2, <2>3
<1>8. PendingOnce'
  <2>. SUFFICES ASSUME NEW k \in Lane, NEW m \in Lane,
                       NEW i \in DOMAIN pending'[k], NEW j \in DOMAIN pending'[m],
                       pending'[k][i] = pending'[m][j]
                PROVE  k = m /\ i = j
    BY DEF PendingOnce
  <2>1. /\ Place(k, i) \in DOMAIN pending[k] /\ Place(m, j) \in DOMAIN pending[m]
        /\ pending[k][Place(k, i)] = pending[m][Place(m, j)]
    BY <1>5
  <2>2. k = m /\ Place(k, i) = Place(m, j)
    BY <2>1 DEF IInv, PendingOnce
  <2>3. CASE k = l
    <3>1. i \in 1..(Len(s) - n) /\ j \in 1..(Len(s) - n)
      BY <1>2, <1>4, <2>2, <2>3
    <3>. QED
      BY <1>1, <2>2, <2>3, <3>1
  <2>4. CASE k # l
    BY <2>2, <2>4
  <2>. QED
    BY <2>3, <2>4
<1>9. FateIsKept
  <2>1. \A i \in 1..n : fate[s[i]] = "none"
    BY <1>1 DEF IInv, PendingHasNoFate
  <2>. QED
    BY <1>4, <2>1 DEF FateIsKept
<1>. QED
  BY <1>6, <1>7, <1>8, <1>9 DEF IInv

LEMMA FailStep ==
  ASSUME IInv, Fail
  PROVE  IInv' /\ FateIsKept
<1>1. \A l \in Lane : pending'[l] = <<>> /\ pending'[l] \in Seq(Producer) /\ DOMAIN pending'[l] = {}
  BY EmptySeq DEF Fail
<1>2. IInv'
  BY <1>1 DEF Fail, IInv, TypeOK, PendingHasNoFate, PendingOnce
<1>3. FateIsKept
  BY DEF Fail, IInv, TypeOK, PendingHasNoFate, FateIsKept, Range
<1>. QED
  BY <1>2, <1>3

LEMMA Step == IInv /\ [Next]_vars => IInv' /\ [FateIsKept]_vars
<1>. SUFFICES ASSUME IInv, [Next]_vars
              PROVE  IInv' /\ FateIsKept
  OBVIOUS
<1>1. CASE \E c \in Producer : Log(c)
  BY <1>1 DEF Log, IInv, TypeOK, PendingHasNoFate, PendingOnce, FateIsKept
<1>2. CASE \E c \in Producer, l \in Lane : Accept(c, l)
  BY <1>2, AcceptStep
<1>3. CASE \E l \in Lane : \E n \in 1..Len(pending[l]), f \in {"stored", "dead", "lost", "dropped"} :
             Dispose(l, n, f)
  BY <1>3, DisposeStep
<1>4. CASE Fail
  BY <1>4, FailStep
<1>5. CASE UNCHANGED vars
  BY <1>5 DEF vars, IInv, TypeOK, PendingHasNoFate, PendingOnce, FateIsKept
<1>. QED
  BY <1>1, <1>2, <1>3, <1>4, <1>5 DEF Next

\* Whatever a lane disposes of and whatever fails, an event gets one fate.
THEOREM FateFinal == Spec => [][FateIsKept]_vars
<1>. QED
  BY InitIInv, Step, PTL DEF Spec
===============================================================================
