---------------------------- MODULE BenchmarkProofs ----------------------------
(***************************************************************************)
(* Theorems about Benchmark, for any profiles, delays, deadline and number *)
(* of errors.                                                              *)
(***************************************************************************)
EXTENDS Benchmark, FiniteSetTheorems, TLAPS

\* The parameters without the form of Profile, which the provers unfold for ever.
LEMMA Parameters ==
  /\ EventCount \in Nat \ {0} /\ Linger \in Nat \ {0} /\ Retries \in Nat
  /\ Base \in Nat \ {0} /\ Factor \in Nat \ {0} /\ Deadline \in Nat
  /\ Ha \subseteq BOOLEAN /\ MaxErrors \in Nat /\ MaxSaving \in Nat
  /\ 1 \in Profile
  BY BenchmarkAssumption

USE Parameters

Table == UNION {All(p) : p \in Profile \cup {0}}

-----------------------------------------------------------------------------
(* Type correctness. *)

LEMMA ProfilesAreNumbers == Profile \subseteq Nat \ {0}
  BY BenchmarkAssumption, FS_CardinalityType

\* A batch holds events of its own profile.
LEMMA BatchIsOwn ==
  ASSUME TypeOK, NEW p \in Profile
  PROVE  Batch(p) \subseteq All(p) /\ All(p) \subseteq Table
<1>1. settled[p] \in 0..EventCount /\ received[p] \in 0..EventCount
  BY DEF TypeOK
<1>2. \A i \in (settled[p] + 1)..received[p] : i \in 1..EventCount
  BY <1>1
<1>. QED
  BY <1>2 DEF Batch, All, Table

LEMMA TypeInit == Init => TypeOK
<1>. SUFFICES ASSUME Init
              PROVE  TypeOK
  OBVIOUS
<1>1. PICK n \in 0..EventCount : rows = {<<0, i>> : i \in 1..n}
  BY DEF Init
<1>2. \A i \in 1..n : i \in 1..EventCount
  OBVIOUS
<1>3. rows \subseteq All(0)
  BY <1>1, <1>2 DEF All
<1>4. rows \subseteq UNION {All(p) : p \in Profile \cup {0}}
  BY <1>3
<1>5. errors = 0 /\ 0 \in 0..MaxErrors /\ 0 \in 0..EventCount /\ 0 \in 0..Retries + 1
      /\ 0 \in 0..Linger
  BY DEF Init
<1>6. /\ sent \in [Profile -> 0..EventCount] /\ received \in [Profile -> 0..EventCount]
      /\ settled \in [Profile -> 0..EventCount]
      /\ attempt \in [Profile -> 0..Retries + 1]
      /\ wait \in [Profile -> Nat] /\ ticker \in [Profile -> 0..Linger]
  BY <1>5 DEF Init
<1>7. \A p \in Profile : settled[p] <= received[p] /\ received[p] <= sent[p]
  BY DEF Init
<1>8. /\ report \in [Profile -> {"none", "persisted", "TIMEOUT"}]
      /\ store \in [Profile -> {"none", "open", "dropped"}]
  BY DEF Init
<1>9. /\ main = "clear" /\ profile \in Profile /\ elapsed \in Nat /\ foreign \in BOOLEAN
      /\ twice \subseteq Profile /\ twiceLate \subseteq Profile /\ blind \subseteq Profile
  BY DEF Init
<1>. QED
  BY <1>4, <1>5, <1>6, <1>7, <1>8, <1>9 DEF TypeOK

\* What a step of a writer may do to the numbers of its batch.
LEMMA WriterType ==
  ASSUME TypeOK, NEW p \in Profile, WriterStep(p)
  PROVE  TypeOK'
<1>. USE DEF historyVars
<1>1. /\ received[p] \in 0..EventCount /\ settled[p] \in 0..EventCount
      /\ sent[p] \in 0..EventCount /\ attempt[p] \in 0..Retries + 1
      /\ settled[p] <= received[p] /\ received[p] <= sent[p]
  BY DEF TypeOK
<1>2. CASE Recv(p)
  <2>1. received[p] + 1 \in 0..EventCount /\ settled[p] <= received[p] + 1
        /\ received[p] + 1 <= sent[p]
    BY <1>1, <1>2 DEF Recv
  <2>2. attempt' \in [Profile -> 0..Retries + 1] /\ wait' \in [Profile -> Nat]
    BY <1>2 DEF Recv, StartFlush, TypeOK
  <2>. QED
    BY <2>1, <2>2, <1>2 DEF Recv, TypeOK
<1>3. CASE RecvNone(p)
  BY <1>3 DEF RecvNone, StartFlush, TypeOK
<1>4. CASE TickerFires(p)
  BY <1>4 DEF TickerFires, StartFlush, TypeOK
<1>5. CASE Attempt(p)
  <2>1. Batch(p) \subseteq Table /\ rows \subseteq Table
    BY BatchIsOwn DEF TypeOK, Table
  <2>2. rows' \subseteq Table /\ errors' \in 0..MaxErrors
    BY <1>5, <2>1 DEF Attempt, Written, Failed, Fault, TypeOK
  <2>3. \/ Settle(p)
        \/ /\ attempt[p] <= Retries
           /\ attempt' = [attempt EXCEPT ![p] = @ + 1]
           /\ wait' = [wait EXCEPT ![p] = Delay(attempt[p])]
           /\ UNCHANGED settled
    BY <1>5 DEF Attempt, Written, Failed
  <2>4. /\ settled' \in [Profile -> 0..EventCount]
        /\ \A q \in Profile : settled'[q] <= received[q]
        /\ attempt' \in [Profile -> 0..Retries + 1] /\ wait' \in [Profile -> Nat]
    <3>1. CASE Settle(p)
      BY <3>1, <1>1 DEF Settle, TypeOK
    <3>2. CASE /\ attempt[p] <= Retries
               /\ attempt' = [attempt EXCEPT ![p] = @ + 1]
               /\ wait' = [wait EXCEPT ![p] = Delay(attempt[p])]
               /\ UNCHANGED settled
      <4>1. attempt[p] \in 1..Retries /\ attempt[p] + 1 \in 0..Retries + 1
        BY <3>2, <1>1, <1>5 DEF Attempt
      <4>2. Delay(attempt[p]) \in Nat
        BY <4>1, DelayAssumption
      <4>. QED
        BY <3>2, <4>1, <4>2 DEF TypeOK
    <3>. QED
      BY <2>3, <3>1, <3>2
  <2>5. twice' \subseteq Profile /\ twiceLate' \subseteq Profile
    BY <1>5 DEF Attempt, Written, Failed, TypeOK
  <2>. QED
    BY <2>2, <2>4, <2>5, <1>5 DEF Attempt, TypeOK, Table
<1>. QED
  BY <1>2, <1>3, <1>4, <1>5 DEF WriterStep

LEMMA MainType ==
  ASSUME TypeOK, MainStep
  PROVE  TypeOK'
<1>. USE DEF Goto, Fault, TypeOK, writerVars, historyVars
<1>1. CASE Clear
  <2>1. errors' = errors \/ (errors < MaxErrors /\ errors' = errors + 1)
    BY <1>1 DEF Clear
  <2>0. errors' \in 0..MaxErrors
    BY <2>1
  <2>3. foreign' \in BOOLEAN
    BY <1>1, Zenon DEF Clear
  <2>2. rows' \subseteq UNION {All(p) : p \in Profile \cup {0}}
    BY <1>1 DEF Clear
  <2>. QED
    BY <1>1, <2>0, <2>2, <2>3 DEF Clear
<1>2. CASE Connect
  <2>0. errors' = errors \/ (errors < MaxErrors /\ errors' = errors + 1)
    BY <1>2 DEF Connect
  <2>1. /\ errors' \in 0..MaxErrors
    BY <2>0
  <2>2. main' \in {"save", "panicked"} /\ elapsed' = 0
    BY <1>2, Zenon DEF Connect
  <2>3. store' = [store EXCEPT ![profile] = "open"] \/ store' = store
    BY <1>2 DEF Connect
  <2>4. store' \in [Profile -> {"none", "open", "dropped"}]
    BY <2>3
  <2>. QED
    BY <1>2, <2>1, <2>2, <2>4 DEF Connect
<1>3. CASE Save
  <2>1. sent[profile] + 1 \in 0..EventCount /\ received[profile] <= sent[profile] + 1
    BY <1>3 DEF Save
  <2>2. /\ sent' \in [Profile -> 0..EventCount]
        /\ \A p \in Profile : received[p] <= sent'[p]
    BY <1>3, <2>1 DEF Save
  <2>3. /\ main' \in {"save", "poll", "panicked"}
        /\ elapsed' \in Nat /\ errors' \in 0..MaxErrors
    BY <1>3 DEF Save
  <2>. QED
    BY <1>3, <2>2, <2>3 DEF Save
<1>4. CASE Poll
  <2>1. \E n, f : Judge(n, f)
    BY <1>4 DEF Poll
  <2>2. errors' \in 0..MaxErrors
    BY <1>4 DEF Poll, Judge
  <2>. QED
    BY <2>1, <2>2 DEF Judge
<1>5. CASE Delete
  <2>1. rows' \subseteq UNION {All(p) : p \in Profile \cup {0}} /\ errors' \in 0..MaxErrors
    BY <1>5 DEF Delete
  <2>2. profile' \in Profile /\ elapsed' \in Nat /\ main' \in {"connect", "others"}
    BY <1>5 DEF Delete
  <2>. QED
    BY <1>5, <2>1, <2>2 DEF Delete
<1>6. CASE Others
  BY <1>6 DEF Others
<1>. QED
  BY <1>1, <1>2, <1>3, <1>4, <1>5, <1>6 DEF MainStep

LEMMA LessType ==
  ASSUME NEW m \in Nat, NEW f \in [Profile -> 0..m]
  PROVE  Less(f) \in [Profile -> 0..m]
  BY DEF Less

LEMMA TypeStep == TypeOK /\ [Next]_vars => TypeOK'
<1>. SUFFICES ASSUME TypeOK, [Next]_vars
              PROVE  TypeOK'
  OBVIOUS
<1>1. CASE MainStep
  BY <1>1, MainType
<1>2. CASE Tick
  <2>1. ticker' \in [Profile -> 0..Linger]
    BY <1>2, LessType DEF Tick, TypeOK
  <2>2. wait' \in [Profile -> Nat]
    BY <1>2 DEF Tick, Less, TypeOK
  <2>. QED
    BY <1>2, <2>1, <2>2 DEF Tick, TypeOK, historyVars
<1>3. ASSUME NEW p \in Profile, WriterStep(p)
      PROVE  TypeOK'
  BY <1>3, WriterType
<1>4. CASE UNCHANGED vars
  BY <1>4 DEF vars, TypeOK, writerVars, historyVars
<1>. QED
  BY <1>1, <1>2, <1>3, <1>4 DEF Next

\* The state of the benchmark and of the writers behind it has its type,
\* whatever fails; a batch never reaches past what was sent.
THEOREM BenchmarkTypeCorrect == Spec => []TypeOK
  BY TypeInit, TypeStep, PTL DEF Spec

-----------------------------------------------------------------------------
(* What a step leaves alone. *)

\* A writer touches the state of its own profile, and the table and its batch
\* only while it flushes.
LEMMA WriterSteps ==
  ASSUME TypeOK, NEW p \in Profile, WriterStep(p)
  PROVE  /\ UNCHANGED <<main, profile, elapsed, report, store, sent, blind, foreign>>
         /\ \A q \in Profile \ {p} :
              /\ received'[q] = received[q] /\ settled'[q] = settled[q]
              /\ attempt'[q] = attempt[q] /\ wait'[q] = wait[q]
              /\ ticker'[q] = ticker[q]
         /\ rows' = rows \/ (rows' = rows \cup Batch(p) /\ attempt[p] > 0)
         /\ settled' = settled \/ attempt[p] > 0
<1>. USE DEF historyVars, StartFlush, Settle
<1>1. CASE Recv(p)
  BY <1>1 DEF Recv, TypeOK
<1>2. CASE RecvNone(p)
  BY <1>2 DEF RecvNone, TypeOK
<1>3. CASE TickerFires(p)
  BY <1>3 DEF TickerFires, TypeOK
<1>4. CASE Attempt(p)
  <2>1. CASE Written(p)
    BY <1>4, <2>1 DEF Attempt, Written, TypeOK
  <2>2. CASE Failed(p)
    BY <1>4, <2>2 DEF Attempt, Failed, TypeOK
  <2>. QED
    BY <1>4, <2>1, <2>2 DEF Attempt
<1>. QED
  BY <1>1, <1>2, <1>3, <1>4 DEF WriterStep

\* Main touches no writer.
LEMMA MainSteps ==
  ASSUME MainStep
  PROVE  UNCHANGED <<received, settled, attempt, wait, ticker, twice, twiceLate>>
<1>. USE DEF writerVars, historyVars
<1>1. CASE Clear
  BY <1>1 DEF Clear
<1>2. CASE Connect
  BY <1>2, Zenon DEF Connect
<1>3. CASE Save
  BY <1>3 DEF Save
<1>4. CASE Poll
  BY <1>4 DEF Poll, Judge
<1>5. CASE Delete
  BY <1>5 DEF Delete
<1>6. CASE Others
  BY <1>6 DEF Others
<1>. QED
  BY <1>1, <1>2, <1>3, <1>4, <1>5, <1>6 DEF MainStep

LEMMA ConnectSteps ==
  ASSUME Connect
  PROVE  /\ main = "connect" /\ main' \in {"save", "panicked"}
         /\ UNCHANGED <<profile, report, sent, rows, foreign>>
         /\ errors' = errors \/ (errors < MaxErrors /\ errors' = errors + 1)
<1>1. main = "connect" /\ main' \in {"save", "panicked"}
  BY Zenon DEF Connect, Goto
<1>2. UNCHANGED <<profile, report, sent, rows, foreign>>
  BY Zenon DEF Connect, historyVars
<1>3. errors' = errors \/ (errors < MaxErrors /\ errors' = errors + 1)
  BY Zenon DEF Connect, Fault
<1>. QED
  BY <1>1, <1>2, <1>3

-----------------------------------------------------------------------------
(* Whose rows are in the table. *)

\* Only a batch that holds something is flushed.
BatchInv == \A p \in Profile : attempt[p] > 0 => settled[p] < received[p]

\* A profile that main did not come to yet has saved nothing.
UnstartedInv ==
  \A p \in Profile :
    p > profile \/ (p = profile /\ main \in {"clear", "connect"}) => sent[p] = 0

\* Unless a DELETE failed or a writer was left at work, the table holds rows of
\* the present profile alone, and the writers of the earlier ones are through.
OwnInv ==
  ~foreign => /\ main # "clear" => rows \subseteq All(profile)
              /\ \A p \in Profile : p < profile => settled[p] = sent[p]

LEMMA BatchStep == TypeOK /\ BatchInv /\ [Next]_vars => BatchInv'
<1>. SUFFICES ASSUME TypeOK, BatchInv, [Next]_vars
              PROVE  BatchInv'
  OBVIOUS
<1>1. CASE MainStep
  BY <1>1, MainSteps DEF BatchInv
<1>2. CASE Tick
  BY <1>2 DEF Tick, BatchInv
<1>3. ASSUME NEW p \in Profile, WriterStep(p)
      PROVE  BatchInv'
  <2>. USE DEF BatchInv, StartFlush, Settle
  <2>0. /\ received[p] \in Nat /\ settled[p] \in Nat /\ settled[p] <= received[p]
        /\ BatchSize[p] \in Nat \ {0}
    BY BenchmarkAssumption DEF TypeOK
  <2>1. attempt'[p] > 0 => settled'[p] < received'[p]
    <3>1. CASE Recv(p)
      BY <3>1, <2>0 DEF Recv, Idle, TypeOK
    <3>2. CASE RecvNone(p)
      BY <3>2 DEF RecvNone
    <3>3. CASE TickerFires(p)
      BY <3>3 DEF TickerFires, TypeOK
    <3>4. CASE Attempt(p)
      BY <3>4 DEF Attempt, Written, Failed, TypeOK
    <3>. QED
      BY <1>3, <3>1, <3>2, <3>3, <3>4 DEF WriterStep
  <2>2. \A q \in Profile \ {p} : attempt'[q] > 0 => settled'[q] < received'[q]
    BY <1>3, WriterSteps
  <2>. QED
    BY <2>1, <2>2
<1>4. CASE UNCHANGED vars
  BY <1>4 DEF vars, writerVars, BatchInv
<1>. QED
  BY <1>1, <1>2, <1>3, <1>4 DEF Next

LEMMA UnstartedStep == TypeOK /\ UnstartedInv /\ [Next]_vars => UnstartedInv'
<1>. SUFFICES ASSUME TypeOK, UnstartedInv, [Next]_vars,
                     NEW p \in Profile,
                     (p > profile \/ (p = profile /\ main \in {"clear", "connect"}))'
              PROVE  sent'[p] = 0
  BY DEF UnstartedInv
<1>0. p \in Nat /\ profile \in Nat
  BY ProfilesAreNumbers DEF TypeOK
<1>1. CASE Clear
  BY <1>1 DEF Clear, Goto, UnstartedInv
<1>2. CASE Connect
  BY <1>2, ConnectSteps DEF UnstartedInv
<1>3. CASE Save
  <2>1. p # profile
    BY <1>3, <1>0 DEF Save, Goto
  <2>2. p > profile
    BY <1>3, <1>0, <2>1 DEF Save
  <2>. QED
    BY <1>3, <2>1, <2>2 DEF Save, UnstartedInv, TypeOK
<1>4. CASE Poll
  BY <1>4, <1>0 DEF Poll, Judge, UnstartedInv
<1>5. CASE Delete
  <2>1. p > profile
    BY <1>5, <1>0 DEF Delete, Goto
  <2>. QED
    BY <1>5, <2>1 DEF Delete, UnstartedInv
<1>6. CASE Others
  BY <1>6, <1>0 DEF Others, Goto, UnstartedInv
<1>7. CASE Tick
  BY <1>7, <1>0 DEF Tick, UnstartedInv
<1>8. ASSUME NEW q \in Profile, WriterStep(q)
      PROVE  sent'[p] = 0
  BY <1>8, WriterSteps DEF UnstartedInv
<1>9. CASE UNCHANGED vars
  BY <1>9 DEF vars, UnstartedInv
<1>. QED
  BY <1>1, <1>2, <1>3, <1>4, <1>5, <1>6, <1>7, <1>8, <1>9 DEF Next, MainStep

LEMMA OwnStep ==
  TypeOK /\ BatchInv /\ UnstartedInv /\ OwnInv /\ [Next]_vars => OwnInv'
<1>. SUFFICES ASSUME TypeOK, BatchInv, UnstartedInv, OwnInv, [Next]_vars, ~foreign'
              PROVE  /\ main' # "clear" => rows' \subseteq All(profile')
                     /\ \A p \in Profile : p < profile' => settled'[p] = sent'[p]
  BY DEF OwnInv, All
<1>0. profile \in Profile /\ \A p \in Profile : p \in Nat
  BY ProfilesAreNumbers DEF TypeOK
<1>1. CASE Clear
  BY <1>1 DEF Clear, Goto, OwnInv, writerVars
<1>2. CASE Connect
  BY <1>2, ConnectSteps, MainSteps DEF OwnInv, MainStep
<1>3. CASE Save
  <2>1. /\ main # "clear" /\ ~foreign
        /\ UNCHANGED <<profile, rows, settled>>
        /\ \A p \in Profile \ {profile} : sent'[p] = sent[p]
    BY <1>3 DEF Save, writerVars, historyVars, TypeOK
  <2>. QED
    BY <1>0, <2>1 DEF OwnInv
<1>4. CASE Poll
  BY <1>4 DEF Poll, Judge, OwnInv, writerVars
<1>5. CASE Delete
  <2>1. /\ ~foreign /\ rows' = {} /\ ~(settled[profile] < sent[profile])
        /\ UNCHANGED <<settled, sent>>
        /\ profile' \in {profile, profile + 1}
    BY <1>5 DEF Delete, writerVars
  <2>2. \A p \in Profile : p < profile' => p < profile \/ p = profile
    BY <1>0, <2>1
  <2>3. settled[profile] = sent[profile]
    BY <2>1 DEF TypeOK
  <2>. QED
    BY <2>1, <2>2, <2>3 DEF OwnInv
<1>6. CASE Others
  BY <1>6 DEF Others, OwnInv, writerVars, historyVars
<1>7. CASE Tick
  BY <1>7 DEF Tick, OwnInv, historyVars
<1>8. ASSUME NEW p \in Profile, WriterStep(p)
      PROVE  /\ main' # "clear" => rows' \subseteq All(profile')
             /\ \A q \in Profile : q < profile' => settled'[q] = sent'[q]
  <2>1. UNCHANGED <<main, profile, sent, foreign>>
    BY <1>8, WriterSteps
  <2>2. /\ settled[p] <= received[p] /\ received[p] <= sent[p]
        /\ settled[p] \in Nat /\ received[p] \in Nat /\ sent[p] \in Nat
    BY DEF TypeOK
  <2>3. CASE attempt[p] > 0
    <3>1. settled[p] < sent[p] /\ sent[p] # 0
      BY <2>2, <2>3 DEF BatchInv
    <3>2. ~(p < profile) /\ ~(p > profile) /\ main # "clear"
      <4>1. ~(p < profile)
        BY <3>1, <2>1, <2>2 DEF OwnInv
      <4>2. ~(p > profile)
        BY <3>1 DEF UnstartedInv
      <4>3. p = profile
        BY <4>1, <4>2, <1>0
      <4>. QED
        BY <3>1, <4>1, <4>2, <4>3 DEF UnstartedInv
    <3>3. p = profile
      BY <3>2, <1>0
    <3>4. rows' \subseteq All(profile)
      BY <1>8, <2>1, <3>2, <3>3, WriterSteps, BatchIsOwn DEF OwnInv
    <3>5. \A q \in Profile : q < profile => q # p
      BY <3>3, <1>0
    <3>. QED
      BY <1>8, <2>1, <3>4, <3>5, WriterSteps DEF OwnInv
  <2>4. CASE ~(attempt[p] > 0)
    BY <1>8, <2>1, <2>4, WriterSteps DEF OwnInv
  <2>. QED
    BY <2>3, <2>4
<1>9. CASE UNCHANGED vars
  BY <1>9 DEF vars, OwnInv, writerVars, historyVars
<1>. QED
  BY <1>1, <1>2, <1>3, <1>4, <1>5, <1>6, <1>7, <1>8, <1>9 DEF Next, MainStep

-----------------------------------------------------------------------------
(* The COUNT. *)

LEMMA AllCount ==
  ASSUME NEW p
  PROVE  IsFiniteSet(All(p)) /\ Cardinality(All(p)) = EventCount
<1>1. All(p) = {p} \X (1..EventCount)
  BY DEF All
<1>2. IsFiniteSet({p}) /\ Cardinality({p}) = 1
  BY FS_Singleton
<1>3. IsFiniteSet(1..EventCount) /\ Cardinality(1..EventCount) = EventCount
  BY FS_Interval
<1>4. /\ IsFiniteSet({p} \X (1..EventCount))
      /\ Cardinality({p} \X (1..EventCount)) = Cardinality({p}) * Cardinality(1..EventCount)
  BY <1>2, <1>3, FS_Product
<1>5. 1 * EventCount = EventCount
  OBVIOUS
<1>. QED
  BY <1>1, <1>2, <1>3, <1>4, <1>5

\* A table that holds rows of one profile only has them all once it counts as many.
LEMMA CountIsAll ==
  ASSUME NEW p, NEW R \in SUBSET All(p), Cardinality(R) >= EventCount
  PROVE  R = All(p)
<1>1. IsFiniteSet(R) /\ Cardinality(R) <= EventCount /\ Cardinality(R) \in Nat
  BY AllCount, FS_Subset, FS_CardinalityType
<1>. QED
  BY <1>1, AllCount, FS_Subset

LEMMA TableIsFinite ==
  ASSUME TypeOK
  PROVE  IsFiniteSet(rows)
<1>1. IsFiniteSet(Profile \cup {0})
  BY BenchmarkAssumption, FS_AddElement
<1>2. IsFiniteSet(1..EventCount)
  BY FS_Interval
<1>4. IsFiniteSet((Profile \cup {0}) \X (1..EventCount))
  BY <1>1, <1>2, FS_Product
<1>3. rows \subseteq (Profile \cup {0}) \X (1..EventCount)
  BY DEF TypeOK, All
<1>. QED
  BY <1>4, <1>3, FS_Subset

\* A report is made of the profile that is polled, "persisted" from a COUNT
\* that answered.
LEMMA ReportSteps ==
  ASSUME TypeOK, [Next]_vars, NEW p \in Profile, report'[p] # report[p]
  PROVE  /\ Poll /\ p = profile /\ report'[p] \in {"persisted", "TIMEOUT"}
         /\ main' = "delete"
         /\ report'[p] = "persisted" => Cardinality(rows) >= EventCount
         /\ report'[p] = "TIMEOUT" =>
              /\ elapsed > Deadline
              /\ Cardinality(rows) < EventCount \/ p \in blind'
<1>1. ASSUME NEW q \in Profile, WriterStep(q)
      PROVE  FALSE
  BY <1>1, WriterSteps
<1>2. ~Clear /\ ~Connect /\ ~Save /\ ~Delete /\ ~Others /\ ~Tick /\ ~(UNCHANGED vars)
  BY ConnectSteps DEF Clear, Save, Delete, Others, Tick, vars
<1>3. Poll
  BY <1>1, <1>2 DEF Next, MainStep
<1>4. p = profile
  BY <1>3 DEF Poll, Judge, TypeOK
<1>5. CASE Judge(Cardinality(rows), FALSE)
  BY <1>3, <1>4, <1>5 DEF Judge, TypeOK
<1>6. CASE Judge(0, TRUE)
  BY <1>3, <1>4, <1>6 DEF Judge, TypeOK
<1>. QED
  BY <1>3, <1>4, <1>5, <1>6 DEF Poll

-----------------------------------------------------------------------------
(* "persisted" means it. *)

BInv == TypeOK /\ BatchInv /\ UnstartedInv /\ OwnInv

LEMMA BInvHolds == Spec => []BInv
<1>1. Init => BInv
  <2>1. Init => BatchInv /\ UnstartedInv /\ OwnInv
    BY DEF Init, BatchInv, UnstartedInv, OwnInv
  <2>. QED
    BY <2>1, TypeInit DEF BInv
<1>2. BInv /\ [Next]_vars => BInv'
  BY TypeStep, BatchStep, UnstartedStep, OwnStep DEF BInv
<1>. QED
  BY <1>1, <1>2, PTL DEF Spec

\* A profile that is reported as persisted has all of its rows in the table,
\* although the COUNT is one of all profiles: only a DELETE that failed, or a
\* writer left at work when its profile was deleted, can make it wrong.
THEOREM PersistedIsTrue == Spec => PersistedIsOwn
<1>1. ASSUME BInv, [Next]_vars
      PROVE  \A p \in Profile :
               report'[p] = "persisted" /\ report[p] = "none" /\ ~foreign
                 => All(p) \subseteq rows
  <2>. SUFFICES ASSUME NEW p \in Profile,
                       report'[p] = "persisted", report[p] = "none", ~foreign
                PROVE  All(p) \subseteq rows
    OBVIOUS
  <2>1. Poll /\ p = profile /\ Cardinality(rows) >= EventCount
    BY <1>1, ReportSteps DEF BInv
  <2>2. rows \in SUBSET All(p)
    BY <1>1, <2>1 DEF BInv, OwnInv, Poll
  <2>. QED
    BY <2>1, <2>2, CountIsAll
<1>. QED
  BY <1>1, BInvHolds, PTL DEF Spec, PersistedIsOwn

-----------------------------------------------------------------------------
(* Two failures in a row. *)

\* A profile is reported once, and at its end.
ReportInv ==
  \A p \in Profile :
    p > profile \/ (p = profile /\ main \in {"clear", "connect", "save", "poll", "sleep"})
      => report[p] = "none"

\* The loop sleeps only before its deadline, and for one unit.
ClockInv ==
  /\ main = "sleep" => elapsed <= Deadline
  /\ main = "poll" => elapsed <= Deadline + 1

\* An event of p was given up.
Missing(p) == \E i \in 1..settled[p] : <<p, i>> \notin rows

\* A batch that failed twice while it was polled is lost, or is not there and
\* will not be tried again before the deadline.
LateInv ==
  \A p \in twiceLate :
    report[p] = "none" =>
      /\ p = profile /\ main \in {"poll", "sleep"}
      /\ \/ Missing(p)
         \/ attempt[p] = 3 /\ Batch(p) \cap rows = {} /\ wait[p] + elapsed > Deadline + 1

LEMMA ReportStep == TypeOK /\ ReportInv /\ [Next]_vars => ReportInv'
<1>. SUFFICES ASSUME TypeOK, ReportInv, [Next]_vars, NEW p \in Profile,
                     (p > profile \/ (p = profile /\ main \in
                        {"clear", "connect", "save", "poll", "sleep"}))'
              PROVE  report'[p] = "none"
  BY DEF ReportInv
<1>0. p \in Nat /\ profile \in Nat
  BY ProfilesAreNumbers DEF TypeOK
<1>1. profile' = profile \/ Delete
  <2>1. ASSUME NEW q \in Profile, WriterStep(q)
        PROVE  profile' = profile
    BY <2>1, WriterSteps
  <2>2. Connect => profile' = profile
    BY ConnectSteps
  <2>. QED
    BY <2>1, <2>2 DEF Next, MainStep, Clear, Save, Poll, Judge, Others, Tick, vars
<1>2. report'[p] = report[p]
  <2>1. SUFFICES ASSUME report'[p] # report[p]
                 PROVE  FALSE
    OBVIOUS
  <2>2. Poll /\ p = profile /\ main' = "delete"
    BY <2>1, ReportSteps
  <2>3. profile' = profile
    BY <2>2 DEF Poll, Judge
  <2>. QED
    BY <2>2, <2>3, <1>0
<1>3. CASE Delete
  <2>1. p > profile
    BY <1>0, <1>3 DEF Delete, Goto
  <2>. QED
    BY <1>2, <2>1 DEF ReportInv
<1>4. CASE profile' = profile /\ ~Delete
  <2>1. CASE p > profile
    BY <1>2, <2>1 DEF ReportInv
  <2>2. CASE p = profile /\ main' \in {"clear", "connect", "save", "poll", "sleep"}
    <3>1. main \in {"clear", "connect", "save", "poll", "sleep"}
      <4>1. ASSUME NEW q \in Profile, WriterStep(q)
            PROVE  main' = main
        BY <4>1, WriterSteps
      <4>2. Connect => main = "connect"
        BY ConnectSteps
      <4>. QED
        BY <1>4, <2>2, <4>1, <4>2
        DEF Next, MainStep, Clear, Save, Poll, Others, Tick, vars, Goto
    <3>. QED
      BY <1>2, <2>2, <3>1 DEF ReportInv
  <2>. QED
    BY <1>0, <1>4, <2>1, <2>2
<1>. QED
  BY <1>1, <1>3, <1>4

LEMMA ClockStep == TypeOK /\ ClockInv /\ [Next]_vars => ClockInv'
<1>. SUFFICES ASSUME TypeOK, ClockInv, [Next]_vars
              PROVE  ClockInv'
  OBVIOUS
<1>. USE DEF ClockInv, TypeOK, Goto
<1>1. CASE Clear
  BY <1>1 DEF Clear
<1>2. CASE Connect
  BY <1>2, ConnectSteps
<1>3. CASE Save
  BY <1>3 DEF Save
<1>4. CASE Poll
  BY <1>4 DEF Poll, Judge
<1>5. CASE Delete
  BY <1>5 DEF Delete
<1>6. CASE Others
  BY <1>6 DEF Others
<1>7. CASE Tick
  BY <1>7 DEF Tick
<1>8. ASSUME NEW p \in Profile, WriterStep(p)
      PROVE  ClockInv'
  BY <1>8, WriterSteps
<1>9. CASE UNCHANGED vars
  BY <1>9 DEF vars
<1>. QED
  BY <1>1, <1>2, <1>3, <1>4, <1>5, <1>6, <1>7, <1>8, <1>9 DEF Next, MainStep

\* What was given up stays missing while main leaves the table alone: a writer
\* adds only what is in its batch.
LEMMA MissingStays ==
  ASSUME TypeOK, NEW p \in Profile, NEW q \in Profile, WriterStep(q), Missing(p)
  PROVE  Missing(p)'
<1>1. PICK i \in 1..settled[p] : <<p, i>> \notin rows
  BY DEF Missing
<1>2. settled[p] \in Nat /\ received[p] \in Nat /\ settled[p] <= received[p]
  BY DEF TypeOK
<1>3. <<p, i>> \notin Batch(q)
  BY <1>1, <1>2 DEF Batch
<1>4. <<p, i>> \notin rows'
  BY <1>1, <1>3, WriterSteps
<1>5. settled'[p] = settled[p] \/ settled'[p] = received[p]
  <2>1. CASE q = p
    BY <2>1 DEF WriterStep, Recv, RecvNone, TickerFires, Attempt, Written, Failed, Settle, TypeOK
  <2>2. CASE q # p
    BY <2>2, WriterSteps
  <2>. QED
    BY <2>1, <2>2
<1>6. i \in 1..settled'[p]
  BY <1>1, <1>2, <1>5
<1>. QED
  BY <1>4, <1>6 DEF Missing

LEMMA ForeignStays == TypeOK /\ [Next]_vars /\ foreign => foreign'
<1>. SUFFICES ASSUME TypeOK, [Next]_vars, foreign
              PROVE  foreign'
  OBVIOUS
<1>1. CASE Clear
  BY <1>1 DEF Clear
<1>2. CASE Connect
  BY <1>2, ConnectSteps
<1>3. CASE Save \/ Poll \/ Delete \/ Others \/ Tick \/ UNCHANGED vars
  BY <1>3 DEF Save, Poll, Judge, Delete, Others, Tick, historyVars, vars
<1>4. ASSUME NEW p \in Profile, WriterStep(p)
      PROVE  foreign'
  BY <1>4, WriterSteps
<1>. QED
  BY <1>1, <1>2, <1>3, <1>4 DEF Next, MainStep

\* A batch that waits for its third attempt waits past the deadline.
LEMMA LateStays ==
  ASSUME TypeOK, BatchInv, ClockInv, LateInv, [Next]_vars,
         NEW p \in twiceLate, report[p] = "none", report'[p] = "none"
  PROVE  /\ p = profile' /\ main' \in {"poll", "sleep"}
         /\ \/ Missing(p)'
            \/ /\ attempt'[p] = 3 /\ Batch(p)' \cap rows' = {}
               /\ wait'[p] + elapsed' > Deadline + 1
<1>0. /\ p \in Profile /\ p = profile /\ main \in {"poll", "sleep"}
      /\ wait[p] \in Nat /\ elapsed \in Nat /\ attempt[p] \in Nat
  BY DEF LateInv, TypeOK
<1>1. \/ Missing(p)
      \/ attempt[p] = 3 /\ Batch(p) \cap rows = {} /\ wait[p] + elapsed > Deadline + 1
  BY DEF LateInv
<1>2. CASE MainStep
  <2>1. Poll
    BY <1>0, <1>2, ConnectSteps DEF MainStep, Clear, Save, Delete, Others
  <2>2. main' = "sleep" /\ UNCHANGED <<profile, elapsed, rows>>
    BY <1>0, <2>1 DEF Poll, Judge, TypeOK
  <2>. QED
    BY <1>0, <1>1, <1>2, <2>2, MainSteps DEF Missing, Batch
<1>3. CASE Tick
  <2>1. /\ main = "sleep" /\ main' = "poll" /\ elapsed <= Deadline
        /\ elapsed' = elapsed + 1 /\ profile' = profile
    BY <1>0, <1>3 DEF Tick, ClockInv
  <2>2. Missing(p) => Missing(p)'
    BY <1>3 DEF Tick, Missing
  <2>3. ASSUME attempt[p] = 3, Batch(p) \cap rows = {}, wait[p] + elapsed > Deadline + 1
        PROVE  /\ attempt'[p] = 3 /\ Batch(p)' \cap rows' = {}
               /\ wait'[p] + elapsed' > Deadline + 1
    <3>1. wait[p] # 0
      BY <1>0, <1>3, <2>3 DEF Tick, Due
    <3>2. wait'[p] = wait[p] - 1
      BY <1>0, <1>3, <3>1 DEF Tick, Less
    <3>3. wait'[p] + elapsed' > Deadline + 1
      BY <1>0, <2>1, <2>3, <3>2
    <3>. QED
      BY <1>3, <2>3, <3>3 DEF Tick, Batch
  <2>. QED
    BY <1>0, <1>1, <2>1, <2>2, <2>3
<1>4. ASSUME NEW q \in Profile, WriterStep(q)
      PROVE  /\ p = profile' /\ main' \in {"poll", "sleep"}
             /\ \/ Missing(p)'
                \/ /\ attempt'[p] = 3 /\ Batch(p)' \cap rows' = {}
                   /\ wait'[p] + elapsed' > Deadline + 1
  <2>1. UNCHANGED <<main, profile, elapsed>>
    BY <1>4, WriterSteps
  <2>2. CASE Missing(p)
    BY <1>0, <1>4, <2>1, <2>2, MissingStays
  <2>3. CASE attempt[p] = 3 /\ Batch(p) \cap rows = {} /\ wait[p] + elapsed > Deadline + 1
    <3>1. q # p
      <4>1. wait[p] # 0
        BY <1>0, <2>3 DEF ClockInv
      <4>. QED
        BY <1>4, <2>3, <4>1 DEF WriterStep, Recv, RecvNone, TickerFires, Attempt, Idle
    <3>2. /\ attempt'[p] = 3 /\ wait'[p] = wait[p]
          /\ settled'[p] = settled[p] /\ received'[p] = received[p]
      BY <1>0, <1>4, <2>3, <3>1, WriterSteps
    <3>3. Batch(p)' = Batch(p)
      BY <3>2 DEF Batch
    <3>4. Batch(p) \cap Batch(q) = {}
      BY <3>1 DEF Batch
    <3>5. Batch(p) \cap rows' = {}
      BY <1>4, <2>3, <3>4, WriterSteps
    <3>. QED
      BY <1>0, <2>1, <2>3, <3>2, <3>3, <3>5
  <2>. QED
    BY <1>1, <2>2, <2>3
<1>5. CASE UNCHANGED vars
  BY <1>0, <1>1, <1>5 DEF vars, writerVars, historyVars, Missing, Batch
<1>. QED
  BY <1>2, <1>3, <1>4, <1>5 DEF Next

\* A batch comes to fail twice while it is polled: it is lost at once, or waits
\* for the second delay.
LEMMA LateBegins ==
  ASSUME TypeOK, BatchInv, Retries >= 2 => Delay(2) > Deadline + 1, [Next]_vars,
         NEW p, p \in twiceLate', p \notin twiceLate
  PROVE  /\ p \in Profile /\ p = profile /\ main \in {"poll", "sleep"}
         /\ UNCHANGED <<main, profile, report, foreign>>
         /\ \/ Missing(p)'
            \/ /\ attempt'[p] = 3 /\ Batch(p)' \cap rows' = {}
               /\ wait'[p] + elapsed' > Deadline + 1
<1>1. PICK q \in Profile : WriterStep(q)
  BY MainSteps DEF Next, Tick, vars, historyVars
<1>2. UNCHANGED <<main, profile, report, elapsed, foreign>>
  BY <1>1, WriterSteps
<1>3. Attempt(q)
  BY <1>1 DEF WriterStep, Recv, RecvNone, TickerFires, historyVars
<1>4. Failed(q)
  BY <1>3 DEF Attempt, Written
<1>5. /\ p = q /\ attempt[p] = 2 /\ Batch(p) \cap rows' = {}
      /\ main \in {"poll", "sleep"} /\ p = profile
  BY <1>4 DEF Failed
<1>6. /\ settled[p] \in Nat /\ received[p] \in Nat /\ settled[p] < received[p]
      /\ elapsed \in Nat
  BY <1>1, <1>5 DEF BatchInv, TypeOK
<1>7. CASE 2 <= Retries
  <2>1. attempt'[p] = 3 /\ wait'[p] = Delay(2) /\ settled' = settled
    BY <1>1, <1>4, <1>5, <1>7 DEF Failed, TypeOK
  <2>2. received' = received
    BY <1>3 DEF Attempt
  <2>3. Delay(2) \in Nat /\ Delay(2) > Deadline + 1
    BY <1>7, DelayAssumption
  <2>4. wait'[p] + elapsed' > Deadline + 1
    BY <1>2, <1>6, <2>1, <2>3
  <2>. QED
    BY <1>1, <1>2, <1>5, <2>1, <2>2, <2>4 DEF Batch
<1>8. CASE ~(2 <= Retries)
  <2>1. settled'[p] = received[p]
    BY <1>1, <1>4, <1>5, <1>8 DEF Failed, Settle, TypeOK
  <2>2. <<p, received[p]>> \in Batch(p) /\ received[p] \in 1..settled'[p]
    BY <1>6, <2>1 DEF Batch
  <2>3. Missing(p)'
    BY <1>5, <2>2 DEF Missing
  <2>. QED
    BY <1>1, <1>2, <1>5, <2>3
<1>. QED
  BY <1>7, <1>8

LEMMA LateStep ==
  ASSUME TypeOK, BatchInv, ClockInv, LateInv,
         Retries >= 2 => Delay(2) > Deadline + 1, [Next]_vars
  PROVE  LateInv'
<1>. SUFFICES ASSUME NEW p \in twiceLate', report'[p] = "none"
              PROVE  /\ p = profile' /\ main' \in {"poll", "sleep"}
                     /\ \/ Missing(p)'
                        \/ /\ attempt'[p] = 3 /\ Batch(p)' \cap rows' = {}
                           /\ wait'[p] + elapsed' > Deadline + 1
  BY DEF LateInv
<1>1. CASE p \in twiceLate
  <2>1. p \in Profile
    BY <1>1 DEF TypeOK
  <2>2. report[p] = "none"
    BY <2>1, ReportSteps
  <2>. QED
    BY <1>1, <2>2, LateStays
<1>2. CASE p \notin twiceLate
  BY <1>2, LateBegins
<1>. QED
  BY <1>1, <1>2

LInv == BInv /\ ReportInv /\ ClockInv /\ LateInv /\ TwoFailuresTimeOut

LEMMA TwoFailuresStep ==
  ASSUME LInv, Retries >= 2 => Delay(2) > Deadline + 1, [Next]_vars
  PROVE  TwoFailuresTimeOut'
<1>. USE DEF LInv, BInv
<1>. SUFFICES ASSUME NEW p \in Profile, report'[p] = "persisted", ~foreign', p \in twiceLate'
              PROVE  FALSE
  BY DEF TwoFailuresTimeOut
<1>1. ~foreign
  BY ForeignStays
<1>2. CASE p \notin twiceLate
  <2>1. p = profile /\ main \in {"poll", "sleep"} /\ report' = report
    BY <1>2, LateBegins
  <2>. QED
    BY <2>1 DEF ReportInv
<1>3. CASE p \in twiceLate
  <2>1. report[p] # "persisted"
    BY <1>1, <1>3 DEF TwoFailuresTimeOut
  <2>2. Poll /\ p = profile /\ Cardinality(rows) >= EventCount
    BY <2>1, ReportSteps
  <2>3. main = "poll" /\ report[p] = "none"
    BY <2>2 DEF Poll, ReportInv
  <2>4. rows = All(p)
    BY <1>1, <2>2, <2>3, CountIsAll DEF OwnInv
  <2>5. /\ settled[p] \in 0..EventCount /\ received[p] \in 0..EventCount
    BY DEF TypeOK
  <2>6. ~Missing(p)
    BY <2>4, <2>5 DEF Missing, All
  <2>7. attempt[p] = 3 /\ Batch(p) \cap rows = {}
    BY <1>3, <2>3, <2>6 DEF LateInv
  <2>8. <<p, received[p]>> \in Batch(p) /\ <<p, received[p]>> \in All(p)
    BY <2>5, <2>7 DEF BatchInv, Batch, All
  <2>. QED
    BY <2>4, <2>7, <2>8
<1>. QED
  BY <1>2, <1>3

\* When the second delay is longer than the deadline, as it is with a power of
\* 100 ms, no profile is reported as persisted that had a batch fail twice while
\* it was polled: the third attempt comes too late.
THEOREM TwoFailuresAreTooLate ==
  ASSUME Retries >= 2 => Delay(2) > Deadline + 1
  PROVE  Spec => []TwoFailuresTimeOut
<1>1. Init => LInv
  <2>1. Init => BatchInv /\ UnstartedInv /\ OwnInv
    BY DEF Init, BatchInv, UnstartedInv, OwnInv
  <2>2. Init => ReportInv /\ ClockInv /\ LateInv /\ TwoFailuresTimeOut
    BY DEF Init, ReportInv, ClockInv, LateInv, TwoFailuresTimeOut
  <2>. QED
    BY <2>1, <2>2, TypeInit DEF LInv, BInv
<1>2. LInv /\ [Next]_vars => LInv'
  <2>1. ASSUME LInv, [Next]_vars
        PROVE  BInv' /\ ReportInv' /\ ClockInv' /\ LateInv'
    BY <2>1, TypeStep, BatchStep, UnstartedStep, OwnStep, ReportStep, ClockStep, LateStep
    DEF LInv, BInv
  <2>2. ASSUME LInv, [Next]_vars
        PROVE  TwoFailuresTimeOut'
    BY <2>2, TwoFailuresStep
  <2>. QED
    BY <2>1, <2>2 DEF LInv
<1>3. LInv => TwoFailuresTimeOut
  BY DEF LInv
<1>. QED
  BY <1>1, <1>2, <1>3, PTL DEF Spec

-----------------------------------------------------------------------------
(* One failure is made up for.  Every batch costs at most one first delay, and *)
(* every first delay one error, so that what a profile still has to wait for   *)
(* can be bounded and shrinks as the clock goes on.                            *)

FirstDelays == IF EventCount <= MaxErrors THEN EventCount ELSE MaxErrors

\* First delays that may still begin for profile p.
Left(p) ==
  IF EventCount <= MaxErrors
    THEN EventCount - (IF attempt[p] = 2 THEN received[p] ELSE settled[p])
    ELSE MaxErrors - errors

\* Time for which the last batch may still wait to be flushed.
Tail(p) ==
  IF received[p] < EventCount THEN Linger ELSE IF attempt[p] = 0 THEN ticker[p] ELSE 0

Need(p) == Tail(p) + (IF attempt[p] = 2 THEN wait[p] ELSE 0) + Left(p) * Delay(1)

\* While main saves and polls, the store of its profile is open.
OpenInv ==
  /\ main \in {"save", "poll", "sleep"} => store[profile] = "open"
  /\ main \in {"poll", "sleep"} => sent[profile] = EventCount

\* A row is one that the writer took, and of a batch at its first attempt
\* there is none.
FreshInv ==
  \A p \in Profile, i \in Nat :
    <<p, i>> \in rows => i <= received[p] /\ (attempt[p] <= 1 => i <= settled[p])

\* Without a second failure there is no other wait than the first delay, and
\* that one cost an error.
FirstInv ==
  \A p \in Profile \ twice :
    /\ attempt[p] <= 2 /\ wait[p] <= Delay(1)
    /\ attempt[p] <= 1 => wait[p] = 0
    /\ attempt[p] = 2 => errors >= 1

\* And nothing is given up.
StoredInv ==
  main \in {"save", "poll", "sleep"} /\ profile \notin twice => ~Missing(profile)

\* What is not settled yet will be, before the deadline.
TimeInv ==
  main \in {"poll", "sleep"} /\ profile \notin twice /\ settled[profile] < EventCount
    => elapsed + Need(profile) <= Deadline

LEMMA ErrorsGrow ==
  TypeOK /\ [Next]_vars =>
    errors' >= errors /\ twice \subseteq twice' /\ blind \subseteq blind'
<1>. SUFFICES ASSUME TypeOK, [Next]_vars
              PROVE  errors' >= errors /\ twice \subseteq twice' /\ blind \subseteq blind'
  OBVIOUS
<1>0. errors \in Nat
  BY DEF TypeOK
<1>. USE DEF Fault
<1>1. CASE Clear
  BY <1>0, <1>1 DEF Clear
<1>2. CASE Connect
  <2>1. UNCHANGED <<twice, blind>>
    BY <1>2, Zenon DEF Connect, historyVars
  <2>. QED
    BY <1>0, <1>2, <2>1, ConnectSteps
<1>3. CASE Save
  BY <1>0, <1>3 DEF Save, historyVars
<1>4. CASE Poll
  BY <1>0, <1>4 DEF Poll, Judge
<1>5. CASE Delete
  BY <1>0, <1>5 DEF Delete
<1>6. CASE Others \/ Tick \/ UNCHANGED vars
  BY <1>0, <1>6 DEF Others, Tick, historyVars, vars
<1>7. ASSUME NEW p \in Profile, WriterStep(p)
      PROVE  errors' >= errors /\ twice \subseteq twice' /\ blind \subseteq blind'
  BY <1>0, <1>7 DEF WriterStep, Recv, RecvNone, TickerFires, Attempt, Written, Failed, historyVars
<1>. QED
  BY <1>1, <1>2, <1>3, <1>4, <1>5, <1>6, <1>7 DEF Next, MainStep

LEMMA OpenStep == TypeOK /\ OpenInv /\ [Next]_vars => OpenInv'
<1>. SUFFICES ASSUME TypeOK, OpenInv, [Next]_vars
              PROVE  OpenInv'
  OBVIOUS
<1>. USE DEF OpenInv, TypeOK, Goto
<1>1. CASE Clear
  BY <1>1 DEF Clear
<1>2. CASE Connect
  <2>1. main' = "save" => store' = [store EXCEPT ![profile] = "open"]
    BY <1>2, Zenon DEF Connect
  <2>2. main' \in {"save", "panicked"} /\ profile' = profile
    BY <1>2, ConnectSteps
  <2>. QED
    BY <2>1, <2>2
<1>3. CASE Save
  BY <1>3 DEF Save
<1>4. CASE Poll
  BY <1>4 DEF Poll, Judge
<1>5. CASE Delete
  BY <1>5 DEF Delete
<1>6. CASE Others
  BY <1>6 DEF Others
<1>7. CASE Tick
  BY <1>7 DEF Tick
<1>8. ASSUME NEW p \in Profile, WriterStep(p)
      PROVE  OpenInv'
  BY <1>8, WriterSteps
<1>9. CASE UNCHANGED vars
  BY <1>9 DEF vars
<1>. QED
  BY <1>1, <1>2, <1>3, <1>4, <1>5, <1>6, <1>7, <1>8, <1>9 DEF Next, MainStep

LEMMA FreshStep == TypeOK /\ FreshInv /\ [Next]_vars => FreshInv'
<1>. SUFFICES ASSUME TypeOK, FreshInv, [Next]_vars,
                     NEW p \in Profile, NEW i \in Nat, <<p, i>> \in rows'
              PROVE  i <= received'[p] /\ (attempt'[p] <= 1 => i <= settled'[p])
  BY DEF FreshInv
<1>0. /\ received[p] \in Nat /\ settled[p] \in Nat /\ attempt[p] \in Nat
      /\ settled[p] <= received[p]
  BY DEF TypeOK
<1>1. CASE MainStep
  <2>1. rows' \subseteq rows
    BY <1>1, ConnectSteps DEF MainStep, Clear, Save, Poll, Judge, Delete, Others
  <2>. QED
    BY <1>1, <2>1, MainSteps DEF FreshInv
<1>2. CASE Tick
  BY <1>2 DEF Tick, FreshInv
<1>3. ASSUME NEW q \in Profile, WriterStep(q)
      PROVE  i <= received'[p] /\ (attempt'[p] <= 1 => i <= settled'[p])
  <2>1. CASE p # q
    <3>1. <<p, i>> \in rows
      BY <1>3, <2>1, WriterSteps DEF Batch
    <3>. QED
      BY <1>3, <2>1, <3>1, WriterSteps DEF FreshInv
  <2>2. CASE p = q /\ ~Attempt(p)
    <3>1. rows' = rows /\ attempt[p] = 0 /\ settled' = settled
      BY <1>3, <2>2 DEF WriterStep, Recv, RecvNone, TickerFires, Idle
    <3>2. received'[p] \in Nat /\ received[p] <= received'[p]
      BY <1>0, <1>3, <2>2 DEF WriterStep, Recv, RecvNone, TickerFires, TypeOK
    <3>. QED
      BY <1>0, <3>1, <3>2 DEF FreshInv
  <2>3. CASE p = q /\ Attempt(p)
    <3>1. received' = received /\ attempt[p] > 0
      BY <2>3 DEF Attempt
    <3>2. i <= received[p]
      BY <1>0, <1>3, <2>3, WriterSteps DEF FreshInv, Batch
    <3>3. settled'[p] = received[p] \/ attempt'[p] = attempt[p] + 1
      BY <2>3 DEF Attempt, Written, Failed, Settle, TypeOK
    <3>. QED
      BY <1>0, <3>1, <3>2, <3>3
  <2>. QED
    BY <2>1, <2>2, <2>3
<1>4. CASE UNCHANGED vars
  BY <1>4 DEF vars, writerVars, FreshInv
<1>. QED
  BY <1>1, <1>2, <1>3, <1>4 DEF Next

LEMMA FirstDelayType == ASSUME Retries >= 1 PROVE Delay(1) \in Nat
  BY DelayAssumption

\* A first attempt fails only of an error, and waits for the first delay.
LEMMA FirstFailure ==
  ASSUME TypeOK, BatchInv, FreshInv, FirstInv, Retries >= 1,
         NEW p \in Profile \ twice', Attempt(p), Failed(p)
  PROVE  /\ attempt[p] = 1 /\ attempt'[p] = 2 /\ wait'[p] = Delay(1)
         /\ settled' = settled /\ received' = received /\ errors' = errors + 1
<1>1. p \notin twice /\ attempt[p] # 2
  BY DEF Failed
<1>2. attempt[p] = 1
  BY <1>1 DEF FirstInv, Attempt, TypeOK
<1>3. settled[p] \in Nat /\ received[p] \in Nat
  BY DEF TypeOK
<1>4. Batch(p) \cap rows = {}
  <2>. SUFFICES ASSUME NEW i \in (settled[p] + 1)..received[p], <<p, i>> \in rows
                PROVE  FALSE
    BY DEF Batch
  <2>1. i <= settled[p] /\ i \in Nat
    BY <1>2, <1>3 DEF FreshInv
  <2>. QED
    BY <1>3, <2>1
<1>5. errors' = errors + 1
  BY <1>4 DEF Failed, Fault
<1>6. attempt'[p] = 2 /\ wait'[p] = Delay(1) /\ settled' = settled
  BY <1>2 DEF Failed, TypeOK
<1>. QED
  BY <1>2, <1>5, <1>6 DEF Attempt

LEMMA FirstStep ==
  ASSUME TypeOK, BatchInv, FreshInv, FirstInv, Retries >= 1, [Next]_vars
  PROVE  FirstInv'
<1>. SUFFICES ASSUME NEW p \in Profile, p \notin twice'
              PROVE  /\ attempt'[p] <= 2 /\ wait'[p] <= Delay(1)
                     /\ attempt'[p] <= 1 => wait'[p] = 0
                     /\ attempt'[p] = 2 => errors' >= 1
  BY DEF FirstInv
<1>0. /\ attempt[p] \in Nat /\ wait[p] \in Nat /\ Delay(1) \in Nat
      /\ errors \in Nat /\ errors' \in Nat /\ errors' >= errors
  BY FirstDelayType, ErrorsGrow, TypeStep DEF TypeOK
<1>1. /\ attempt[p] <= 2 /\ wait[p] <= Delay(1)
      /\ attempt[p] <= 1 => wait[p] = 0
      /\ attempt[p] = 2 => errors >= 1
  BY ErrorsGrow DEF FirstInv
<1>2. CASE UNCHANGED <<attempt, wait>>
  BY <1>0, <1>1, <1>2
<1>3. CASE MainStep \/ UNCHANGED vars
  <2>. UNCHANGED <<attempt, wait>>
    BY <1>3, MainSteps DEF vars, writerVars
  <2>. QED
    BY <1>2
<1>4. CASE Tick
  <2>1. attempt' = attempt /\ wait'[p] \in Nat /\ wait'[p] <= wait[p]
    BY <1>0, <1>4 DEF Tick, Less
  <2>. QED
    BY <1>0, <1>1, <2>1
<1>5. ASSUME NEW q \in Profile, WriterStep(q)
      PROVE  /\ attempt'[p] <= 2 /\ wait'[p] <= Delay(1)
             /\ attempt'[p] <= 1 => wait'[p] = 0
             /\ attempt'[p] = 2 => errors' >= 1
  <2>1. CASE p # q
    <3>. attempt'[p] = attempt[p] /\ wait'[p] = wait[p]
      BY <1>5, <2>1, WriterSteps
    <3>. QED
      BY <1>0, <1>1
  <2>2. CASE p = q /\ (Recv(p) \/ RecvNone(p) \/ TickerFires(p))
    <3>1. attempt[p] = 0
      BY <2>2 DEF Recv, RecvNone, TickerFires, Idle
    <3>2. (attempt'[p] = 1 /\ wait'[p] = 0) \/ UNCHANGED <<attempt, wait>>
      BY <2>2 DEF Recv, RecvNone, TickerFires, StartFlush, TypeOK
    <3>. QED
      BY <1>0, <1>1, <3>1, <3>2
  <2>3. CASE p = q /\ Attempt(p) /\ Written(p)
    <3>1. attempt'[p] = 0 /\ wait'[p] = 0
      BY <2>3 DEF Written, Settle, TypeOK
    <3>. QED
      BY <1>0, <3>1
  <2>4. CASE p = q /\ Attempt(p) /\ Failed(p)
    <3>1. attempt'[p] = 2 /\ wait'[p] = Delay(1) /\ errors' = errors + 1
      BY <2>4, FirstFailure
    <3>. QED
      BY <1>0, <3>1
  <2>. QED
    BY <1>5, <2>1, <2>2, <2>3, <2>4 DEF WriterStep, Attempt
<1>. QED
  BY <1>3, <1>4, <1>5 DEF Next

LEMMA StoredStep ==
  ASSUME TypeOK, BatchInv, UnstartedInv, FreshInv, FirstInv, StoredInv, Retries >= 1, [Next]_vars
  PROVE  StoredInv'
<1>. SUFFICES ASSUME main' \in {"save", "poll", "sleep"}, profile' \notin twice', Missing(profile)'
              PROVE  FALSE
  BY DEF StoredInv, Missing
<1>0. profile \in Profile /\ settled[profile] \in Nat /\ received[profile] \in Nat
      /\ sent[profile] \in Nat /\ settled[profile] <= received[profile]
      /\ received[profile] <= sent[profile]
  BY DEF TypeOK
<1>1. CASE Connect
  <2>1. profile' = profile /\ main = "connect" /\ settled' = settled
    BY <1>1, ConnectSteps, MainSteps DEF MainStep
  <2>2. settled[profile] = 0
    BY <1>0, <2>1 DEF UnstartedInv
  <2>. QED
    BY <2>1, <2>2 DEF Missing
<1>2. CASE Clear \/ Delete \/ Others
  BY <1>2 DEF Clear, Delete, Others, Goto
<1>3. CASE Save \/ Poll \/ Tick \/ UNCHANGED vars
  <2>1. UNCHANGED <<profile, rows, settled, twice>>
    BY <1>3 DEF Save, Poll, Judge, Tick, vars, writerVars, historyVars
  <2>2. main \in {"save", "poll", "sleep"}
    BY <1>3 DEF Save, Poll, Tick, vars
  <2>. QED
    BY <2>1, <2>2 DEF StoredInv, Missing
<1>4. ASSUME NEW q \in Profile, WriterStep(q)
      PROVE  FALSE
  <2>1. /\ UNCHANGED <<main, profile>> /\ rows \subseteq rows'
    BY <1>4, WriterSteps
  <2>2. profile \notin twice /\ ~Missing(profile)
    BY <2>1, ErrorsGrow DEF StoredInv
  <2>3. CASE settled'[profile] = settled[profile]
    BY <2>1, <2>2, <2>3 DEF Missing
  <2>4. CASE settled'[profile] # settled[profile]
    <3>1. q = profile /\ Attempt(q)
      BY <1>0, <1>4, <2>4, WriterSteps
      DEF WriterStep, Recv, RecvNone, TickerFires
    <3>2. ~Failed(q)
      BY <2>1, <2>4, <3>1, FirstFailure
    <3>3. Written(q)
      BY <3>1, <3>2 DEF Attempt
    <3>4. settled'[profile] = received[profile] /\ rows' = rows \cup Batch(profile)
      BY <3>1, <3>3 DEF Written, Settle, TypeOK
    <3>5. \A i \in 1..received[profile] :
            i <= settled[profile] \/ i \in (settled[profile] + 1)..received[profile]
      BY <1>0
    <3>6. \A i \in 1..received[profile] : <<profile, i>> \in rows'
      BY <1>0, <2>2, <3>4, <3>5 DEF Missing, Batch
    <3>. QED
      BY <2>1, <3>4, <3>6 DEF Missing
  <2>. QED
    BY <2>3, <2>4
<1>. QED
  BY <1>1, <1>2, <1>3, <1>4 DEF Next, MainStep

LEMMA Fewer ==
  ASSUME NEW m \in Nat, NEW n \in Nat, NEW d \in Nat, m <= n
  PROVE  m * d \in Nat /\ m * d <= n * d /\ (m < n => m * d + d <= n * d)
<1>1. PICK k \in Nat : n = m + k
  <2>. n - m \in Nat /\ n = m + (n - m)
    OBVIOUS
  <2>. QED
    OBVIOUS
<1>2. n * d = m * d + k * d /\ m * d \in Nat /\ k * d \in Nat
  BY <1>1
<1>3. m < n => k >= 1
  BY <1>1
<1>4. k >= 1 => k * d >= d
  <2>. SUFFICES ASSUME k >= 1
                PROVE  k * d >= d
    OBVIOUS
  <2>1. PICK j \in Nat : k = j + 1
    <3>. k - 1 \in Nat /\ k = (k - 1) + 1
      OBVIOUS
    <3>. QED
      OBVIOUS
  <2>2. k * d = j * d + d /\ j * d \in Nat
    BY <2>1
  <2>. QED
    BY <2>2
<1>. QED
  BY <1>2, <1>3, <1>4

\* What goes into Need, as numbers.
LEMMA NeedType ==
  ASSUME TypeOK, Retries >= 1, NEW p \in Profile
  PROVE  /\ Left(p) \in Nat /\ Tail(p) \in 0..Linger /\ wait[p] \in Nat
         /\ Delay(1) \in Nat /\ Left(p) * Delay(1) \in Nat /\ Need(p) \in Nat
<1>1. /\ settled[p] \in 0..EventCount /\ received[p] \in 0..EventCount
      /\ ticker[p] \in 0..Linger /\ wait[p] \in Nat /\ errors \in 0..MaxErrors
  BY DEF TypeOK
<1>2. Left(p) \in Nat
  BY <1>1 DEF Left
<1>3. Tail(p) \in 0..Linger
  BY <1>1 DEF Tail
<1>4. Delay(1) \in Nat /\ Left(p) * Delay(1) \in Nat
  BY <1>2, FirstDelayType, Fewer
<1>. QED
  BY <1>1, <1>2, <1>3, <1>4 DEF Need

\* A profile never needs more than a first delay for each of its events, or for
\* each error there can be, and the linger of its last batch.
LEMMA NeedBound ==
  ASSUME TypeOK, BatchInv, FirstInv, Retries >= 1, NEW p \in Profile \ twice
  PROVE  Need(p) <= FirstDelays * Delay(1) + Linger
<1>1. /\ settled[p] \in 0..EventCount /\ received[p] \in 0..EventCount
      /\ errors \in 0..MaxErrors /\ wait[p] <= Delay(1)
      /\ attempt[p] = 2 => errors >= 1 /\ settled[p] < received[p]
  BY DEF TypeOK, FirstInv, BatchInv
<1>2. FirstDelays \in Nat
  BY DEF FirstDelays
<1>3. CASE attempt[p] = 2
  <2>1. Left(p) < FirstDelays
    BY <1>1, <1>3 DEF Left, FirstDelays
  <2>2. Left(p) * Delay(1) + Delay(1) <= FirstDelays * Delay(1)
    BY <1>2, <2>1, NeedType, Fewer
  <2>3. Need(p) = Tail(p) + wait[p] + Left(p) * Delay(1)
    BY <1>3 DEF Need
  <2>. QED
    BY <1>1, <1>2, <2>2, <2>3, NeedType, Fewer
<1>4. CASE attempt[p] # 2
  <2>1. Left(p) <= FirstDelays
    BY <1>1, <1>4 DEF Left, FirstDelays
  <2>2. Left(p) * Delay(1) <= FirstDelays * Delay(1)
    BY <1>2, <2>1, NeedType, Fewer
  <2>3. Need(p) = Tail(p) + 0 + Left(p) * Delay(1)
    BY <1>4 DEF Need
  <2>. QED
    BY <1>1, <1>2, <2>2, <2>3, NeedType, Fewer
<1>. QED
  BY <1>3, <1>4

\* The parts of Need bound it.
LEMMA NeedLess ==
  ASSUME TypeOK, TypeOK', Retries >= 1, NEW p \in Profile,
         Tail(p)' <= Tail(p), Left(p)' <= Left(p),
         attempt'[p] = 2 => attempt[p] = 2 /\ wait'[p] <= wait[p]
  PROVE  Need(p)' \in Nat /\ Need(p)' <= Need(p)
<1>1. /\ Left(p)' \in Nat /\ Tail(p)' \in 0..Linger /\ wait'[p] \in Nat
      /\ Left(p)' * Delay(1) \in Nat
  <2>1. /\ settled'[p] \in 0..EventCount /\ received'[p] \in 0..EventCount
        /\ ticker'[p] \in 0..Linger /\ wait'[p] \in Nat /\ errors' \in 0..MaxErrors
    BY DEF TypeOK
  <2>2. Left(p)' \in Nat
    <3>1. CASE EventCount <= MaxErrors
      BY <2>1, <3>1 DEF Left
    <3>2. CASE ~(EventCount <= MaxErrors)
      <4>. Left(p)' = MaxErrors - errors'
        BY <3>2 DEF Left
      <4>. \A e \in 0..MaxErrors : MaxErrors - e \in Nat
        OBVIOUS
      <4>. QED
        BY <2>1
    <3>. QED
      BY <3>1, <3>2
  <2>3. Tail(p)' \in 0..Linger
    BY <2>1 DEF Tail
  <2>. QED
    BY <2>1, <2>2, <2>3, FirstDelayType, Fewer
<1>2. /\ Left(p) \in Nat /\ Tail(p) \in 0..Linger /\ wait[p] \in Nat
      /\ Left(p) * Delay(1) \in Nat /\ Delay(1) \in Nat
  BY NeedType
<1>3. Left(p)' * Delay(1) <= Left(p) * Delay(1)
  BY <1>1, <1>2, Fewer
<1>4. (IF attempt[p] = 2 THEN wait[p] ELSE 0)' <= (IF attempt[p] = 2 THEN wait[p] ELSE 0)
  BY <1>1, <1>2
<1>. QED
  BY <1>1, <1>2, <1>3, <1>4 DEF Need

\* The steps of a writer leave no more to wait for: a batch that is written
\* ends its wait, and one that fails for the first time has used up a delay.
LEMMA WriterNeed ==
  ASSUME TypeOK, TypeOK', BatchInv, FreshInv, FirstInv, Retries >= 1,
         NEW p \in Profile \ twice', store[p] = "open", settled'[p] < EventCount,
         NEW q \in Profile, WriterStep(q)
  PROVE  Need(p)' \in Nat /\ Need(p)' <= Need(p)
<1>0. /\ settled[p] \in 0..EventCount /\ received[p] \in 0..EventCount
      /\ sent[p] \in 0..EventCount /\ settled[p] <= received[p]
      /\ attempt[p] \in Nat /\ ticker[p] \in 0..Linger /\ p \in Profile
  BY DEF TypeOK
<1>1. errors \in 0..MaxErrors /\ errors' \in 0..MaxErrors /\ errors' >= errors
  BY ErrorsGrow DEF Next, TypeOK
<1>2. CASE p # q
  <2>1. /\ received'[p] = received[p] /\ settled'[p] = settled[p]
        /\ attempt'[p] = attempt[p] /\ wait'[p] = wait[p] /\ ticker'[p] = ticker[p]
    BY <1>2, WriterSteps
  <2>2. Tail(p)' = Tail(p)
    BY <2>1 DEF Tail
  <2>3. Left(p)' <= Left(p)
    <3>1. CASE EventCount <= MaxErrors
      <4>. Left(p)' = Left(p)
        BY <2>1, <3>1 DEF Left
      <4>. QED
        BY NeedType
    <3>2. CASE ~(EventCount <= MaxErrors)
      <4>. Left(p)' = MaxErrors - errors' /\ Left(p) = MaxErrors - errors
        BY <3>2 DEF Left
      <4>. \A d, e \in 0..MaxErrors : d >= e => MaxErrors - d <= MaxErrors - e
        OBVIOUS
      <4>. QED
        BY <1>1
    <3>. QED
      BY <3>1, <3>2
  <2>4. Tail(p)' <= Tail(p) /\ wait'[p] <= wait[p]
    BY <2>1, <2>2, NeedType
  <2>. QED
    BY <1>0, <2>1, <2>3, <2>4, NeedLess
<1>3. CASE p = q /\ (Recv(p) \/ RecvNone(p) \/ TickerFires(p))
  <2>1. attempt[p] = 0 /\ settled' = settled /\ errors' = errors
    BY <1>3 DEF Recv, RecvNone, TickerFires, Idle
  <2>2. attempt'[p] \in {0, 1}
    BY <1>3, <2>1 DEF Recv, RecvNone, TickerFires, StartFlush, TypeOK
  <2>3. Left(p)' <= Left(p)
    BY <1>0, <1>1, <2>1, <2>2 DEF Left
  <2>4. Tail(p)' <= Tail(p)
    <3>1. CASE Recv(p)
      <4>1. received[p] < EventCount /\ ticker' = ticker
        BY <1>0, <3>1 DEF Recv
      <4>2. Tail(p) = Linger
        BY <4>1 DEF Tail
      <4>3. Tail(p)' <= Linger
        BY <1>0, <4>1 DEF Tail
      <4>. QED
        BY <4>2, <4>3
    <3>2. CASE RecvNone(p)
      BY <3>2 DEF RecvNone, Drained
    <3>3. CASE TickerFires(p)
      <4>1. received' = received
        BY <3>3 DEF TickerFires
      <4>2. CASE received[p] < EventCount
        BY <1>0, <4>1, <4>2 DEF Tail
      <4>3. CASE ~(received[p] < EventCount)
        <5>1. settled[p] < received[p]
          BY <1>0, <2>1, <4>3
        <5>2. attempt'[p] = 1
          BY <1>0, <3>3, <5>1 DEF TickerFires, StartFlush, TypeOK
        <5>3. Tail(p)' = 0
          BY <4>1, <4>3, <5>2 DEF Tail
        <5>. QED
          BY <5>3, NeedType
      <4>. QED
        BY <4>2, <4>3
    <3>. QED
      BY <1>3, <3>1, <3>2, <3>3
  <2>. QED
    BY <1>0, <2>2, <2>3, <2>4, NeedLess
<1>4. CASE p = q /\ Attempt(p) /\ Written(p)
  <2>1. /\ attempt'[p] = 0 /\ settled'[p] = received[p] /\ received' = received
        /\ errors' = errors
    BY <1>4 DEF Attempt, Written, Settle, TypeOK
  <2>2. Tail(p)' = Linger /\ Tail(p) = Linger
    BY <2>1 DEF Tail
  <2>3. Left(p)' <= Left(p)
    BY <1>0, <1>1, <2>1 DEF Left
  <2>. QED
    BY <1>0, <2>1, <2>2, <2>3, NeedLess
<1>5. CASE p = q /\ Attempt(p) /\ Failed(p)
  <2>1. /\ attempt[p] = 1 /\ attempt'[p] = 2 /\ wait'[p] = Delay(1)
        /\ settled' = settled /\ received' = received /\ errors' = errors + 1
    BY <1>5, FirstFailure
  <2>2. Tail(p)' = Tail(p)
    BY <2>1 DEF Tail
  <2>3. settled[p] < received[p]
    BY <1>0, <2>1 DEF BatchInv
  <2>4. Left(p)' \in Nat /\ Left(p)' < Left(p)
    BY <1>0, <1>1, <2>1, <2>3 DEF Left
  <2>5. Left(p)' * Delay(1) + Delay(1) <= Left(p) * Delay(1) /\ Left(p)' * Delay(1) \in Nat
    BY <1>0, <2>4, NeedType, Fewer
  <2>6. Need(p)' = Tail(p)' + Delay(1) + Left(p)' * Delay(1)
    BY <2>1 DEF Need
  <2>7. Need(p) = Tail(p) + 0 + Left(p) * Delay(1)
    BY <2>1 DEF Need
  <2>. QED
    BY <1>0, <2>2, <2>5, <2>6, <2>7, NeedType
<1>. QED
  BY <1>2, <1>3, <1>4, <1>5 DEF WriterStep, Attempt

\* A tick shortens the wait: once everything is saved, a writer that has a batch
\* waits for its ticker or its retry, and nothing else.
LEMMA TickNeed ==
  ASSUME TypeOK, FirstInv, Retries >= 1, NEW p \in Profile \ twice, Tick,
         store[p] = "open", sent[p] = EventCount, settled[p] < EventCount
  PROVE  Need(p)' \in Nat /\ Need(p)' + 1 <= Need(p)
<1>0. /\ settled[p] \in 0..EventCount /\ received[p] \in 0..EventCount
      /\ attempt[p] \in Nat /\ wait[p] \in Nat /\ ticker[p] \in 0..Linger
      /\ p \in Profile /\ received[p] <= EventCount
  BY DEF TypeOK
<1>1. ~Due(p) /\ UNCHANGED <<received, settled, attempt, errors>>
  BY DEF Tick
<1>2. Left(p)' = Left(p)
  BY <1>1 DEF Left
<1>3. Left(p) * Delay(1) \in Nat /\ Tail(p) \in 0..Linger
  BY <1>0, NeedType
<1>4. CASE attempt[p] = 0
  <2>1. received[p] = EventCount /\ ticker[p] # 0
    BY <1>0, <1>1, <1>4 DEF Due, Drained
  <2>2. ticker'[p] = ticker[p] - 1
    BY <1>0, <2>1 DEF Tick, Less
  <2>3. Need(p) = ticker[p] + 0 + Left(p) * Delay(1)
    BY <1>4, <2>1 DEF Need, Tail
  <2>4. Need(p)' = (ticker[p] - 1) + 0 + Left(p) * Delay(1)
    BY <1>1, <1>2, <1>4, <2>1, <2>2 DEF Need, Tail
  <2>. QED
    BY <1>0, <1>3, <2>1, <2>3, <2>4
<1>5. CASE attempt[p] # 0
  <2>1. wait[p] # 0
    BY <1>0, <1>1, <1>5 DEF Due
  <2>2. attempt[p] = 2
    BY <1>0, <1>5, <2>1 DEF FirstInv
  <2>3. wait'[p] = wait[p] - 1
    BY <1>0, <2>1 DEF Tick, Less
  <2>4. Tail(p)' = Tail(p)
    BY <1>1, <2>2 DEF Tail
  <2>5. Need(p) = Tail(p) + wait[p] + Left(p) * Delay(1)
    BY <2>2 DEF Need
  <2>6. Need(p)' = Tail(p) + (wait[p] - 1) + Left(p) * Delay(1)
    BY <1>1, <1>2, <2>2, <2>3, <2>4 DEF Need
  <2>. QED
    BY <1>0, <1>3, <2>1, <2>5, <2>6
<1>. QED
  BY <1>4, <1>5

EInv == BInv /\ OpenInv /\ FreshInv /\ FirstInv /\ StoredInv /\ TimeInv

LEMMA TimeStep ==
  ASSUME EInv, Retries >= 1, FirstDelays * Delay(1) + Linger <= Deadline, [Next]_vars
  PROVE  TimeInv'
<1>. USE DEF EInv, BInv
<1>. SUFFICES ASSUME main' \in {"poll", "sleep"}, profile' \notin twice',
                     settled'[profile'] < EventCount
              PROVE  elapsed' + Need(profile)' <= Deadline
  BY DEF TimeInv
<1>0. PICK p \in Profile : p = profile'
  BY TypeStep DEF TypeOK
<1>1. /\ TypeOK' /\ elapsed \in Nat /\ Need(p) \in Nat
      /\ Need(profile)' = Need(p)'
      /\ p \notin twice /\ p \notin twice'
  BY <1>0, TypeStep, NeedType, ErrorsGrow DEF TypeOK, Need, Tail, Left
<1>. SUFFICES elapsed' + Need(p)' <= Deadline
  BY <1>1
<1>2. ASSUME main \in {"poll", "sleep"}, profile = p, settled[p] < EventCount
      PROVE  elapsed + Need(p) <= Deadline /\ store[p] = "open" /\ sent[p] = EventCount
  BY <1>1, <1>2 DEF TimeInv, OpenInv
<1>3. CASE Save
  <2>1. /\ UNCHANGED <<received, settled, attempt, wait, ticker, errors>>
        /\ elapsed' = 0
    BY <1>3 DEF Save, Goto, writerVars
  <2>2. Need(p)' = Need(p)
    BY <2>1 DEF Need, Tail, Left
  <2>3. Need(p) <= FirstDelays * Delay(1) + Linger
    BY <1>1, NeedBound
  <2>4. FirstDelays * Delay(1) \in Nat
    BY FirstDelayType, Fewer DEF FirstDelays
  <2>. QED
    BY <1>1, <2>1, <2>2, <2>3, <2>4
<1>4. CASE Poll
  <2>1. /\ UNCHANGED <<profile, received, settled, attempt, wait, ticker, elapsed>>
        /\ main = "poll"
    BY <1>4 DEF Poll, Judge, writerVars
  <2>2. errors \in 0..MaxErrors /\ errors' \in 0..MaxErrors /\ errors' >= errors
    BY <1>1, ErrorsGrow DEF TypeOK
  <2>3. Left(p)' <= Left(p)
    <3>1. CASE EventCount <= MaxErrors
      <4>. Left(p)' = Left(p)
        BY <2>1, <3>1 DEF Left
      <4>. QED
        BY NeedType
    <3>2. CASE ~(EventCount <= MaxErrors)
      <4>. Left(p)' = MaxErrors - errors' /\ Left(p) = MaxErrors - errors
        BY <3>2 DEF Left
      <4>. \A d, e \in 0..MaxErrors : d >= e => MaxErrors - d <= MaxErrors - e
        OBVIOUS
      <4>. QED
        BY <2>2
    <3>. QED
      BY <3>1, <3>2
  <2>4. Tail(p)' = Tail(p) /\ Tail(p) \in Nat /\ wait[p] \in Nat
    BY <2>1, NeedType DEF Tail
  <2>5. Need(p)' \in Nat /\ Need(p)' <= Need(p)
    BY <1>1, <2>1, <2>3, <2>4, NeedLess
  <2>. QED
    BY <1>0, <1>1, <1>2, <2>1, <2>5
<1>5. CASE Tick
  <2>1. /\ main = "sleep" /\ elapsed' \in {elapsed, elapsed + 1}
        /\ profile = p /\ settled' = settled
    BY <1>0, <1>5 DEF Tick
  <2>2. Need(p)' \in Nat /\ Need(p)' + 1 <= Need(p)
    BY <1>0, <1>1, <1>2, <1>5, <2>1, TickNeed
  <2>. QED
    BY <1>0, <1>1, <1>2, <2>1, <2>2
<1>6. ASSUME NEW q \in Profile, WriterStep(q)
      PROVE  elapsed' + Need(p)' <= Deadline
  <2>1. UNCHANGED <<main, profile, elapsed>>
    BY <1>6, WriterSteps
  <2>2. settled[p] < EventCount
    <3>1. /\ settled[p] \in 0..EventCount /\ settled'[p] \in 0..EventCount
          /\ settled[p] <= received[p] /\ received[p] \in Nat
      BY <1>1 DEF TypeOK
    <3>2. settled'[p] = settled[p] \/ settled'[p] = received[p]
      BY <1>6, WriterSteps
      DEF WriterStep, Recv, RecvNone, TickerFires, Attempt, Written, Failed, Settle, TypeOK
    <3>. QED
      BY <1>0, <3>1, <3>2
  <2>3. elapsed + Need(p) <= Deadline /\ store[p] = "open"
    BY <1>0, <1>2, <2>1, <2>2
  <2>4. Need(p)' \in Nat /\ Need(p)' <= Need(p)
    BY <1>0, <1>1, <1>6, <2>3, WriterNeed
  <2>. QED
    BY <1>1, <2>1, <2>3, <2>4
<1>7. CASE UNCHANGED vars
  <2>1. /\ UNCHANGED <<main, profile, elapsed, received, settled, attempt, wait, ticker, errors>>
    BY <1>7 DEF vars, writerVars
  <2>2. Need(p)' = Need(p)
    BY <2>1 DEF Need, Tail, Left
  <2>. QED
    BY <1>0, <1>2, <2>1, <2>2
<1>8. ~Clear /\ ~Connect /\ ~Delete /\ ~Others
  BY ConnectSteps DEF Clear, Delete, Others, Goto
<1>. QED
  BY <1>3, <1>4, <1>5, <1>6, <1>7, <1>8 DEF Next, MainStep

LEMMA EarnedStep ==
  ASSUME EInv, TimeoutNeedsTwoFailures, Retries >= 1, [Next]_vars
  PROVE  TimeoutNeedsTwoFailures'
<1>. USE DEF EInv, BInv
<1>. SUFFICES ASSUME NEW p \in Profile, report'[p] = "TIMEOUT", p \notin twice' \cup blind'
              PROVE  FALSE
  BY DEF TimeoutNeedsTwoFailures
<1>1. report[p] # "TIMEOUT" /\ p \notin twice
  BY ErrorsGrow DEF TimeoutNeedsTwoFailures
<1>2. Poll /\ p = profile /\ elapsed > Deadline /\ Cardinality(rows) < EventCount
  BY <1>1, ReportSteps
<1>3. /\ main = "poll" /\ settled[p] \in 0..EventCount /\ elapsed \in Nat
  BY <1>2 DEF Poll, TypeOK
<1>4. settled[p] = EventCount
  <2>. SUFFICES ASSUME settled[p] < EventCount
                PROVE  FALSE
    BY <1>3
  <2>1. elapsed + Need(p) <= Deadline
    BY <1>1, <1>2, <1>3 DEF TimeInv
  <2>2. Need(p) \in Nat
    BY NeedType
  <2>. QED
    BY <1>2, <1>3, <2>1, <2>2
<1>5. All(p) \subseteq rows
  BY <1>1, <1>2, <1>3, <1>4 DEF StoredInv, Missing, All
<1>. QED
  BY <1>2, <1>5, TableIsFinite, AllCount, FS_Subset, FS_CardinalityType

\* When the first delays of all batches, or of all errors, fit in the deadline
\* with a linger, a profile is reported as timed out only if one of its batches
\* failed twice or the COUNT itself did: one error of a batch is made up for.
THEOREM TimeoutIsEarned ==
  ASSUME Retries >= 1, FirstDelays * Delay(1) + Linger <= Deadline
  PROVE  Spec => []TimeoutNeedsTwoFailures
<1>1. Init => EInv /\ TimeoutNeedsTwoFailures
  <2>1. Init => BatchInv /\ UnstartedInv /\ OwnInv
    BY DEF Init, BatchInv, UnstartedInv, OwnInv
  <2>2. Init => FreshInv
    <3>. SUFFICES ASSUME Init, NEW p \in Profile, NEW i \in Nat, <<p, i>> \in rows
                  PROVE  FALSE
      BY DEF FreshInv
    <3>1. p = 0
      BY DEF Init
    <3>. QED
      BY <3>1, ProfilesAreNumbers
  <2>3. Init => FirstInv
    BY FirstDelayType DEF Init, FirstInv
  <2>4. Init => OpenInv /\ StoredInv /\ TimeInv /\ TimeoutNeedsTwoFailures
    BY DEF Init, OpenInv, StoredInv, TimeInv, TimeoutNeedsTwoFailures
  <2>. QED
    BY <2>1, <2>2, <2>3, <2>4, TypeInit DEF EInv, BInv
<1>2. EInv /\ TimeoutNeedsTwoFailures /\ [Next]_vars => (EInv /\ TimeoutNeedsTwoFailures)'
  <2>. SUFFICES ASSUME EInv, TimeoutNeedsTwoFailures, [Next]_vars
                PROVE  EInv' /\ TimeoutNeedsTwoFailures'
    OBVIOUS
  <2>1. BInv'
    BY TypeStep, BatchStep, UnstartedStep, OwnStep DEF EInv, BInv
  <2>2. OpenInv' /\ FreshInv' /\ FirstInv' /\ StoredInv'
    BY OpenStep, FreshStep, FirstStep, StoredStep DEF EInv, BInv
  <2>3. TimeInv' /\ TimeoutNeedsTwoFailures'
    BY TimeStep, EarnedStep
  <2>. QED
    BY <2>1, <2>2, <2>3 DEF EInv
<1>. QED
  BY <1>1, <1>2, PTL DEF Spec

=============================================================================
