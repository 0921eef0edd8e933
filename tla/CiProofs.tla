------------------------------- MODULE CiProofs -------------------------------
(***************************************************************************)
(* Proofs about the three programs that guard a commit and a release: the   *)
(* reachability walk of the enum registry, the estate-data guard of the     *)
(* commit hook, and the release helper.                                     *)
(***************************************************************************)
EXTENDS EnumReach, EstateGuard, ReleaseHelper, SequenceTheorems, FiniteSetTheorems, TLAPS

-----------------------------------------------------------------------------
(***************************************************************************)
(* Proofs about EnumReach: for every set of schemas the walk claims nothing *)
(* a schema cannot reach, and it is exact where no cycle is reached.  The   *)
(* inductive invariant says of each node, on the stack or in the memo, how  *)
(* much of what it validates has been found.                                *)
(***************************************************************************)

Graph == [Node -> Seq(Item)]

(* S is a result for n that may be used in its place.                      *)
Good(w, n, S) ==
  /\ S \subseteq Validates(w, n)
  /\ AcyclicFrom(w, n) => Validates(w, n) \subseteq S

(* The walk of n has passed item x, whose reference may still be walked.   *)
Passed(w, n, x, S, child) ==
  x.in_if \/ /\ x.values \subseteq S
             /\ x.ref # Nil /\ AcyclicFrom(w, n) =>
                  x.ref = child \/ x.ref = n \/ Validates(w, x.ref) \subseteq S

Child(i) == IF i < Len(stack) THEN stack[i + 1] ELSE Nil

StackOK ==
  /\ NoReentry
  /\ \A i \in 1..Len(stack) : stack[i] \notin known
  /\ stack # <<>> => listed < Len(Schemas) /\ stack[1] = Schemas[listed + 1]
  /\ \A i \in 1..Len(stack) : i < Len(stack) => stack[i + 1] \in Refs(walk, stack[i])
  /\ \A i, j \in 1..Len(stack) : i <= j => stack[j] \in ReachFrom(walk, stack[i])

FrameOK ==
  \A i \in 1..Len(stack) :
    LET n == stack[i] IN
    /\ found[n] \subseteq Validates(walk, n)
    /\ \A j \in 1..Len(walk[n]) :
         j < next[n] => Passed(walk, n, walk[n][j], found[n], Child(i))

MemoOK == \A n \in known : Good(walk, n, memo[n])

ReachOK == \A i \in 1..listed : Good(walk, Schemas[i], reach[Schemas[i]])

ReachIInv == ReachTypeOK /\ StackOK /\ FrameOK /\ MemoOK /\ ReachOK

-----------------------------------------------------------------------------
(* Reachability. *)

LEMMA RefsInNode ==
  ASSUME NEW w \in Graph, NEW n \in Node
  PROVE  /\ Refs(w, n) \subseteq Node
         /\ Own(w, n) \subseteq ValueSet
<1>1. \A i \in 1..Len(w[n]) : w[n][i] \in Item
  BY DEF Graph
<1>2. \A x \in Items(w, n) : x \in Item
  BY <1>1 DEF Items
<1>3. \A x \in Item : x.values \subseteq ValueSet /\ (x.ref # Nil => x.ref \in Node)
  BY DEF Item
<1> QED BY <1>2, <1>3 DEF Refs, Own

(* An item of the walk of n that is no condition.                          *)
LEMMA ItemParts ==
  ASSUME NEW w \in Graph, NEW n \in Node, NEW j \in 1..Len(w[n]), ~w[n][j].in_if
  PROVE  /\ w[n][j].values \subseteq Own(w, n)
         /\ w[n][j].ref # Nil => w[n][j].ref \in Refs(w, n)
BY DEF Own, Refs, Items

LEMMA ReachSelf == ASSUME NEW w \in Graph, NEW n \in Node PROVE n \in ReachFrom(w, n)
BY DEF ReachFrom

LEMMA ReachClosed ==
  ASSUME NEW w \in Graph, NEW n \in Node, NEW m \in ReachFrom(w, n), NEW r \in Refs(w, m)
  PROVE  r \in ReachFrom(w, n)
<1>1. r \in Node
  BY RefsInNode DEF ReachFrom
<1> QED BY <1>1 DEF ReachFrom, Closed

LEMMA ReachTrans ==
  ASSUME NEW w \in Graph, NEW n \in Node, NEW m \in ReachFrom(w, n)
  PROVE  ReachFrom(w, m) \subseteq ReachFrom(w, n)
<1>1. ReachFrom(w, n) \in SUBSET Node
  BY DEF ReachFrom
<1>2. Closed(w, ReachFrom(w, n))
  BY ReachClosed DEF Closed
<1> QED BY <1>1, <1>2 DEF ReachFrom

(* What is reachable from n is n and what is reachable from its references. *)
LEMMA ReachUnfolds ==
  ASSUME NEW w \in Graph, NEW n \in Node, NEW m \in ReachFrom(w, n), m # n
  PROVE  \E r \in Refs(w, n) \ {n} : m \in ReachFrom(w, r)
<1> DEFINE S == {k \in Node : k = n \/ \E r \in Refs(w, n) \ {n} : k \in ReachFrom(w, r)}
<1>1. S \in SUBSET Node /\ n \in S
  OBVIOUS
<1>2. ASSUME NEW k \in S, NEW q \in Refs(w, k) PROVE q \in S
  <2>1. q \in Node
    BY RefsInNode
  <2>2. CASE k = n
    BY <2>1, <2>2, ReachSelf
  <2>3. CASE \E r \in Refs(w, n) \ {n} : k \in ReachFrom(w, r)
    <3>1. PICK r \in Refs(w, n) \ {n} : k \in ReachFrom(w, r)
      BY <2>3
    <3>2. r \in Node
      BY RefsInNode
    <3>3. q \in ReachFrom(w, r)
      BY <3>1, <3>2, ReachClosed
    <3> QED BY <2>1, <3>3
  <2> QED BY <2>2, <2>3
<1>3. Closed(w, S)
  BY <1>2 DEF Closed
<1>4. m \in S
  BY <1>1, <1>3 DEF ReachFrom
<1> QED BY <1>4

LEMMA ValidatesRef ==
  ASSUME NEW w \in Graph, NEW n \in Node, NEW r \in Refs(w, n)
  PROVE  /\ r \in ReachFrom(w, n)
         /\ Validates(w, r) \subseteq Validates(w, n)
         /\ AcyclicFrom(w, n) => AcyclicFrom(w, r)
<1>1. r \in ReachFrom(w, n)
  BY ReachSelf, ReachClosed
<1>2. ReachFrom(w, r) \subseteq ReachFrom(w, n)
  BY <1>1, ReachTrans
<1> QED BY <1>1, <1>2 DEF Validates, AcyclicFrom

LEMMA ValidatesOwn ==
  ASSUME NEW w \in Graph, NEW n \in Node PROVE Own(w, n) \subseteq Validates(w, n)
BY ReachSelf DEF Validates

LEMMA ValidatesUnfolds ==
  ASSUME NEW w \in Graph, NEW n \in Node, NEW S, Own(w, n) \subseteq S,
         \A r \in Refs(w, n) \ {n} : Validates(w, r) \subseteq S
  PROVE  Validates(w, n) \subseteq S
<1> SUFFICES ASSUME NEW m \in ReachFrom(w, n) PROVE Own(w, m) \subseteq S
  BY DEF Validates
<1>1. CASE m = n
  BY <1>1
<1>2. CASE m # n
  <2>1. PICK r \in Refs(w, n) \ {n} : m \in ReachFrom(w, r)
    BY <1>2, ReachUnfolds
  <2> QED BY <2>1 DEF Validates
<1> QED BY <1>1, <1>2

-----------------------------------------------------------------------------
(* The walk. *)

LEMMA ReachInitInv == ReachInit => ReachIInv
<1> SUFFICES ASSUME ReachInit PROVE ReachIInv
  OBVIOUS
<1>1. ReachTypeOK
  BY EnumReachAssumption DEF ReachInit, ReachTypeOK, Nothing
<1> QED BY <1>1 DEF ReachInit, ReachIInv, StackOK, NoReentry, FrameOK, MemoOK, ReachOK

(* The node on top of the stack, and the item its walk is at.              *)
LEMMA TopFacts ==
  ASSUME ReachTypeOK, stack # <<>>
  PROVE  /\ Len(stack) \in Nat \ {0} /\ Len(stack) \in 1..Len(stack)
         /\ Top \in Node
         /\ walk[Top] \in Seq(Item) /\ next[Top] \in Nat \ {0}
         /\ walk \in Graph
BY DEF ReachTypeOK, Top, Graph

LEMMA ItemFacts ==
  ASSUME ReachTypeOK, Walking
  PROVE  /\ next[Top] \in 1..Len(walk[Top])
         /\ item \in Item /\ item.values \subseteq ValueSet /\ item.ref \in Node \cup {Nil}
<1>1. next[Top] \in 1..Len(walk[Top])
  BY TopFacts DEF Walking
<1>2. item \in Item
  BY <1>1, TopFacts DEF item, Walking
<1> QED BY <1>1, <1>2 DEF Item

(* A file whose node is in the memo.                                       *)
LEMMA BeginKnown ==
  ASSUME ReachIInv, NextSchema, Schemas[listed + 1] \in known PROVE ReachIInv'
<1> DEFINE root == Schemas[listed + 1]
<1>1. /\ listed + 1 \in 1..Len(Schemas) /\ root \in Node
      /\ reach' = [reach EXCEPT ![root] = memo[root]]
      /\ listed' = listed + 1
      /\ UNCHANGED <<stack, found, next, walk, known, memo>>
  BY EnumReachAssumption DEF NextSchema, ReachIInv, ReachTypeOK
<1>2. ReachTypeOK'
  BY <1>1, EnumReachAssumption DEF ReachIInv, ReachTypeOK
<1>3. StackOK' /\ FrameOK' /\ MemoOK'
  BY <1>1 DEF ReachIInv, NextSchema, StackOK, NoReentry, FrameOK, MemoOK
<1>4. ReachOK'
  <2> SUFFICES ASSUME NEW i \in 1..(listed + 1)
               PROVE  Good(walk, Schemas[i], reach'[Schemas[i]])
    BY <1>1 DEF ReachOK
  <2>1. Schemas[i] \in Node
    BY <1>1, EnumReachAssumption DEF ReachIInv, ReachTypeOK
  <2>2. CASE Schemas[i] = root
    BY <1>1, <2>2 DEF ReachIInv, ReachTypeOK, MemoOK
  <2>3. CASE Schemas[i] # root
    <3>1. i \in 1..listed
      BY <2>3 DEF ReachIInv, ReachTypeOK
    <3> QED BY <1>1, <2>1, <2>3, <3>1 DEF ReachIInv, ReachTypeOK, ReachOK
  <2> QED BY <2>2, <2>3
<1> QED BY <1>2, <1>3, <1>4 DEF ReachIInv

(* A file whose walk starts.                                               *)
LEMMA BeginNew ==
  ASSUME ReachIInv, NextSchema, Schemas[listed + 1] \notin known PROVE ReachIInv'
<1> DEFINE root == Schemas[listed + 1]
<1>1. /\ listed < Len(Schemas) /\ root \in Node
      /\ stack' = <<root>>
      /\ found' = [found EXCEPT ![root] = {}]
      /\ next' = [next EXCEPT ![root] = 1]
      /\ UNCHANGED <<listed, reach, walk, known, memo>>
  BY EnumReachAssumption DEF NextSchema, ReachIInv, ReachTypeOK
<1>2. ReachTypeOK'
  BY <1>1, EnumReachAssumption DEF ReachIInv, ReachTypeOK
<1>3. /\ Len(stack') = 1 /\ stack'[1] = root /\ walk \in Graph
      /\ root \in ReachFrom(walk, root)
  BY <1>1, ReachSelf DEF ReachIInv, ReachTypeOK, Graph
<1>4. StackOK'
  BY <1>1, <1>3 DEF StackOK, NoReentry
<1>5. FrameOK'
  BY <1>1, <1>3 DEF ReachIInv, ReachTypeOK, FrameOK
<1>6. MemoOK' /\ ReachOK'
  BY <1>1 DEF ReachIInv, MemoOK, ReachOK
<1> QED BY <1>2, <1>4, <1>5, <1>6 DEF ReachIInv

(* The top of the stack passes its item: the frames below it are as before. *)
LEMMA Advance ==
  ASSUME ReachIInv, Walking, next' = Advanced,
         UNCHANGED <<walk, known, memo, stack, listed, reach>>,
         found' \in [Node -> SUBSET ValueSet],
         \A n \in Node : n # Top => found'[n] = found[n],
         found[Top] \subseteq found'[Top],
         found'[Top] \subseteq Validates(walk, Top),
         Passed(walk, Top, item, found'[Top], Nil)
  PROVE  ReachIInv'
<1>1. ReachTypeOK /\ stack # <<>>
  BY DEF ReachIInv, Walking
<1>2. next'[Top] = next[Top] + 1 /\ \A n \in Node : n # Top => next'[n] = next[n]
  BY <1>1, TopFacts DEF Advanced, ReachTypeOK
<1>3. ReachTypeOK'
  BY <1>1, TopFacts DEF ReachTypeOK, Advanced
<1>4. StackOK' /\ MemoOK' /\ ReachOK'
  BY DEF ReachIInv, StackOK, NoReentry, MemoOK, ReachOK
<1>5. FrameOK'
  <2> SUFFICES ASSUME NEW i \in 1..Len(stack)
               PROVE  /\ found'[stack[i]] \subseteq Validates(walk, stack[i])
                      /\ \A j \in 1..Len(walk[stack[i]]) : j < next'[stack[i]] =>
                           Passed(walk, stack[i], walk[stack[i]][j], found'[stack[i]],
                                  Child(i))
    BY DEF FrameOK, Child
  <2>1. stack[i] \in Node
    BY <1>1 DEF ReachTypeOK
  <2>2. CASE i # Len(stack)
    <3>1. stack[i] # Top
      BY <1>1, <2>2, TopFacts DEF ReachIInv, StackOK, NoReentry, Top
    <3> QED BY <1>2, <2>1, <3>1 DEF ReachIInv, FrameOK
  <2>3. CASE i = Len(stack)
    <3>1. stack[i] = Top /\ Child(i) = Nil
      BY <2>3, <1>1 DEF Top, Child, ReachTypeOK
    <3>2. ASSUME NEW j \in 1..Len(walk[Top]), j < next'[Top]
          PROVE  Passed(walk, Top, walk[Top][j], found'[Top], Nil)
      <4>1. CASE j = next[Top]
        BY <4>1 DEF item
      <4>2. CASE j # next[Top]
        <5>1. j < next[Top]
          BY <1>1, <1>2, <3>2, <4>2, TopFacts
        <5>2. Passed(walk, Top, walk[Top][j], found[Top], Nil)
          BY <3>1, <5>1 DEF ReachIInv, FrameOK
        <5> QED BY <5>2 DEF Passed
      <4> QED BY <4>1, <4>2
    <3> QED BY <3>1, <3>2
  <2> QED BY <2>2, <2>3
<1> QED BY <1>3, <1>4, <1>5 DEF ReachIInv

LEMMA SkipInv == ASSUME ReachIInv, Skip PROVE ReachIInv'
<1>1. stack # <<>> /\ Walking /\ ReachTypeOK
  BY DEF Skip, Walking, ReachIInv
<1>2. Top = stack[Len(stack)] /\ Len(stack) \in 1..Len(stack) /\ Top \in Node
  BY <1>1, TopFacts DEF Top
<1>3. found[Top] \subseteq Validates(walk, Top)
  BY <1>2 DEF ReachIInv, FrameOK
<1>4. Passed(walk, Top, item, found[Top], Nil)
  BY DEF Skip, Conditional, Passed
<1> QED BY <1>1, <1>3, <1>4, Advance DEF Skip, ReachTypeOK

LEMMA LookInv == ASSUME ReachIInv, Look PROVE ReachIInv'
<1> DEFINE got == found[Top] \cup item.values \cup Remembered(item.ref)
<1>1. stack # <<>> /\ Walking /\ ReachTypeOK
  BY DEF Look, Walking, ReachIInv
<1>2. /\ Len(stack) \in 1..Len(stack) /\ Top = stack[Len(stack)]
      /\ Top \in Node /\ walk \in Graph /\ next[Top] \in 1..Len(walk[Top])
      /\ item \in Item /\ item.values \subseteq ValueSet /\ item.ref \in Node \cup {Nil}
  BY <1>1, TopFacts, ItemFacts DEF Top
<1>3. /\ item.values \subseteq Own(walk, Top)
      /\ item.ref # Nil => item.ref \in Refs(walk, Top)
  BY <1>2, ItemParts DEF Look, Conditional, item
<1>4. item.ref = Nil \/ item.ref \in known \/ OnStack(item.ref)
  BY DEF Look, Opens
<1>5. Remembered(item.ref) \subseteq ValueSet
  BY <1>1 DEF Remembered, ReachTypeOK
<1>6. Remembered(item.ref) \subseteq Validates(walk, Top)
  <2>1. CASE item.ref \in known
    <3>1. item.ref # Nil
      BY <2>1, <1>1, EnumReachAssumption DEF ReachTypeOK
    <3> QED BY <1>2, <1>3, <2>1, <3>1, ValidatesRef DEF ReachIInv, MemoOK, Good, Remembered
  <2>2. CASE item.ref \notin known
    BY <2>2 DEF Remembered
  <2> QED BY <2>1, <2>2
<1>7. got \subseteq Validates(walk, Top)
  BY <1>2, <1>3, <1>6, ValidatesOwn DEF ReachIInv, FrameOK
<1>8. Passed(walk, Top, item, got, Nil)
  <2> SUFFICES ASSUME item.ref # Nil, AcyclicFrom(walk, Top), item.ref # Top
               PROVE  Validates(walk, item.ref) \subseteq got
    BY DEF Passed
  <2>1. CASE item.ref \in known
    <3>1. AcyclicFrom(walk, item.ref)
      BY <1>2, <1>3, ValidatesRef
    <3> QED BY <2>1, <3>1 DEF ReachIInv, MemoOK, Good, Remembered
  <2>2. CASE OnStack(item.ref)
    <3>1. PICK k \in 1..Len(stack) : stack[k] = item.ref
      BY <2>2 DEF OnStack
    <3>2. Top \in ReachFrom(walk, item.ref)
      BY <1>2, <3>1 DEF ReachIInv, StackOK
    <3>3. OffCycle(walk, Top)
      BY <1>2, ReachSelf DEF AcyclicFrom
    <3> QED BY <1>3, <3>2, <3>3 DEF OffCycle
  <2> QED BY <1>4, <2>1, <2>2
<1>9. /\ found' = [found EXCEPT ![Top] = got]
      /\ next' = Advanced
      /\ UNCHANGED <<walk, known, memo, stack, listed, reach>>
  BY DEF Look
<1>10. /\ found' \in [Node -> SUBSET ValueSet] /\ found'[Top] = got
       /\ \A n \in Node : n # Top => found'[n] = found[n]
  BY <1>1, <1>2, <1>5, <1>9 DEF ReachTypeOK
<1> QED BY <1>1, <1>7, <1>8, <1>9, <1>10, Advance

LEMMA DescendInv == ASSUME ReachIInv, Descend PROVE ReachIInv'
<1> DEFINE top == Top
           ref == item.ref
           N == Len(stack)
<1>1. stack # <<>> /\ Walking /\ ReachTypeOK
  BY DEF Descend, Walking, ReachIInv
<1>2. /\ N \in Nat \ {0} /\ N \in 1..N /\ top = stack[N]
      /\ top \in Node /\ walk \in Graph /\ next[top] \in 1..Len(walk[top])
      /\ item \in Item /\ item.values \subseteq ValueSet /\ ref \in Node \cup {Nil}
  BY <1>1, TopFacts, ItemFacts DEF Top
<1>3. ref \in Node /\ ref \notin known /\ \A i \in 1..N : stack[i] # ref
  BY <1>2 DEF Descend, Opens, OnStack
<1>4. item.values \subseteq Own(walk, top) /\ ref \in Refs(walk, top)
  BY <1>2, <1>3, EnumReachAssumption, ItemParts DEF Descend, Conditional, item
<1>5. ref # top
  BY <1>2, <1>3
<1>6. /\ stack' = Append(stack, ref)
      /\ UNCHANGED <<walk, known, memo, listed, reach>>
      /\ found' = [found EXCEPT ![top] = @ \cup item.values, ![ref] = {}]
      /\ next' = [[next EXCEPT ![top] = @ + 1] EXCEPT ![ref] = 1]
  BY DEF Descend, Advanced
<1>7. /\ found' \in [Node -> SUBSET ValueSet]
      /\ found'[ref] = {} /\ found'[top] = found[top] \cup item.values
      /\ \A n \in Node : n # top /\ n # ref => found'[n] = found[n]
  BY <1>1, <1>2, <1>3, <1>5, <1>6 DEF ReachTypeOK
<1>8. /\ next' \in [Node -> Nat \ {0}]
      /\ next'[ref] = 1 /\ next'[top] = next[top] + 1
      /\ \A n \in Node : n # top /\ n # ref => next'[n] = next[n]
  <2> DEFINE adv == [next EXCEPT ![top] = @ + 1]
  <2>1. next \in [Node -> Nat \ {0}]
    BY <1>1 DEF ReachTypeOK
  <2>2. /\ adv \in [Node -> Nat \ {0}] /\ adv[top] = next[top] + 1
        /\ \A n \in Node : n # top => adv[n] = next[n]
    BY <1>2, <2>1
  <2>3. next' = [adv EXCEPT ![ref] = 1]
    BY <1>6
  <2> HIDE DEF adv
  <2> QED BY <1>2, <1>3, <1>5, <2>2, <2>3
<1>9. /\ stack' \in Seq(Node) /\ Len(stack') = N + 1 /\ stack'[N + 1] = ref
      /\ \A i \in 1..N : stack'[i] = stack[i]
  BY <1>1, <1>3, <1>6 DEF ReachTypeOK
<1>10. ReachTypeOK'
  BY <1>1, <1>6, <1>7, <1>8, <1>9 DEF ReachTypeOK
<1>11. \A i \in 1..(N + 1) : i = N + 1 \/ i \in 1..N
  BY <1>2
<1>12. StackOK'
  <2>1. NoReentry'
    BY <1>2, <1>3, <1>9, <1>11 DEF ReachIInv, StackOK, NoReentry
  <2>2. \A i \in 1..(N + 1) : stack'[i] \notin known
    BY <1>3, <1>9, <1>11 DEF ReachIInv, StackOK
  <2>3. listed < Len(Schemas) /\ stack'[1] = Schemas[listed + 1]
    BY <1>1, <1>2, <1>9 DEF ReachIInv, StackOK
  <2>4. \A i \in 1..(N + 1) : i < N + 1 => stack'[i + 1] \in Refs(walk, stack'[i])
    <3> SUFFICES ASSUME NEW i \in 1..N PROVE stack'[i + 1] \in Refs(walk, stack'[i])
      BY <1>2
    <3>1. CASE i = N
      BY <1>2, <1>4, <1>9, <3>1
    <3>2. CASE i # N
      <4>1. i + 1 \in 1..N /\ i < N
        BY <1>2, <3>2
      <4> QED BY <1>9, <4>1 DEF ReachIInv, StackOK
    <3> QED BY <3>1, <3>2
  <2>5. \A i, j \in 1..(N + 1) : i <= j => stack'[j] \in ReachFrom(walk, stack'[i])
    <3> SUFFICES ASSUME NEW i \in 1..(N + 1), NEW j \in 1..(N + 1), i <= j
                 PROVE  stack'[j] \in ReachFrom(walk, stack'[i])
      OBVIOUS
    <3>1. CASE j \in 1..N
      <4>1. i \in 1..N
        BY <1>2, <3>1
      <4> QED BY <1>9, <3>1, <4>1 DEF ReachIInv, StackOK
    <3>2. CASE j = N + 1 /\ i = N + 1
      BY <1>2, <1>3, <1>9, <3>2, ReachSelf
    <3>3. CASE j = N + 1 /\ i \in 1..N
      <4>3. i <= N /\ stack[i] \in Node
        BY <1>1, <1>2, <3>3 DEF ReachTypeOK
      <4>4. \A m \in 1..N : i <= m => stack[m] \in ReachFrom(walk, stack[i])
        BY <3>3 DEF ReachIInv, StackOK
      <4>1. top \in ReachFrom(walk, stack[i]) /\ stack[i] \in Node
        BY <1>2, <4>3, <4>4
      <4>2. ref \in ReachFrom(walk, stack[i])
        BY <1>2, <1>4, <4>1, ReachClosed
      <4> QED BY <1>9, <3>3, <4>2
    <3> QED BY <1>11, <3>1, <3>2, <3>3
  <2> QED BY <1>6, <1>9, <2>1, <2>2, <2>3, <2>4, <2>5 DEF StackOK
<1>13. FrameOK'
  <2> SUFFICES ASSUME NEW i \in 1..(N + 1)
               PROVE  /\ found'[stack'[i]] \subseteq Validates(walk, stack'[i])
                      /\ \A j \in 1..Len(walk[stack'[i]]) : j < next'[stack'[i]] =>
                           Passed(walk, stack'[i], walk[stack'[i]][j], found'[stack'[i]],
                                  Child(i)')
    BY <1>6, <1>9 DEF FrameOK
  <2>1. CASE i = N + 1
    BY <1>7, <1>8, <1>9, <2>1
  <2>2. CASE i \in 1..N /\ i # N
    <3>1. /\ stack'[i] = stack[i] /\ stack[i] \in Node
          /\ stack[i] # top /\ stack[i] # ref
      <4>1. stack'[i] = stack[i]
        BY <1>9, <2>2
      <4>3. stack[i] \in Node
        BY <1>1, <2>2 DEF ReachTypeOK
      <4>4. stack[i] # ref
        BY <1>3, <2>2
      <4>2. stack[i] # stack[N]
        BY <1>2, <2>2 DEF ReachIInv, StackOK, NoReentry
      <4> QED BY <1>2, <4>1, <4>2, <4>3, <4>4
    <3>2. Child(i)' = Child(i)
      BY <1>2, <1>9, <2>2 DEF Child
    <3>3. found'[stack[i]] = found[stack[i]] /\ next'[stack[i]] = next[stack[i]]
      BY <1>7, <1>8, <3>1
    <3>4. /\ found[stack[i]] \subseteq Validates(walk, stack[i])
          /\ \A j \in 1..Len(walk[stack[i]]) : j < next[stack[i]] =>
               Passed(walk, stack[i], walk[stack[i]][j], found[stack[i]], Child(i))
      BY <2>2 DEF ReachIInv, FrameOK
    <3> QED BY <3>1, <3>2, <3>3, <3>4
  <2>3. CASE i = N
    <3>1. stack'[i] = top /\ Child(i)' = ref /\ Child(N) = Nil
      BY <1>2, <1>9, <2>3 DEF Child
    <3>2. found'[top] \subseteq Validates(walk, top)
      BY <1>2, <1>4, <1>7, ValidatesOwn DEF ReachIInv, FrameOK
    <3>3. ASSUME NEW j \in 1..Len(walk[top]), j < next'[top]
          PROVE  Passed(walk, top, walk[top][j], found'[top], ref)
      <4>1. CASE j = next[top]
        BY <4>1, <1>7 DEF item, Passed
      <4>2. CASE j # next[top]
        <5>1. j < next[top]
          BY <1>2, <1>8, <3>3, <4>2
        <5>2. Passed(walk, top, walk[top][j], found[top], Nil)
          BY <1>2, <3>1, <5>1 DEF ReachIInv, FrameOK
        <5> QED BY <1>7, <5>2 DEF Passed
      <4> QED BY <4>1, <4>2
    <3> QED BY <3>1, <3>2, <3>3
  <2> QED BY <1>11, <2>1, <2>2, <2>3
<1>14. MemoOK' /\ ReachOK'
  BY <1>6 DEF ReachIInv, MemoOK, ReachOK
<1> QED BY <1>10, <1>12, <1>13, <1>14 DEF ReachIInv

(* A walk that is over has found what its node validates.                  *)
LEMMA WalkedIsGood ==
  ASSUME ReachIInv, stack # <<>>, next[Top] > Len(walk[Top])
  PROVE  Good(walk, Top, found[Top])
<1>1. /\ ReachTypeOK /\ Len(stack) \in 1..Len(stack) /\ Top = stack[Len(stack)]
      /\ Top \in Node /\ walk \in Graph /\ walk[Top] \in Seq(Item)
      /\ next[Top] \in Nat \ {0} /\ Child(Len(stack)) = Nil
  BY TopFacts DEF ReachIInv, Top, Child
<1>2. /\ found[Top] \subseteq Validates(walk, Top)
      /\ \A j \in 1..Len(walk[Top]) : j < next[Top] =>
           Passed(walk, Top, walk[Top][j], found[Top], Nil)
  BY <1>1 DEF ReachIInv, FrameOK
<1>3. \A j \in 1..Len(walk[Top]) : Passed(walk, Top, walk[Top][j], found[Top], Nil)
  BY <1>1, <1>2
<1>4. \A x \in Items(walk, Top) : Passed(walk, Top, x, found[Top], Nil)
  BY <1>3 DEF Items
<1>5. ASSUME AcyclicFrom(walk, Top) PROVE Validates(walk, Top) \subseteq found[Top]
  <2>1. Own(walk, Top) \subseteq found[Top]
    BY <1>4 DEF Own, Passed
  <2>2. \A r \in Refs(walk, Top) \ {Top} : Validates(walk, r) \subseteq found[Top]
    BY <1>4, <1>5 DEF Refs, Passed
  <2> QED BY <1>1, <2>1, <2>2, ValidatesUnfolds
<1> QED BY <1>2, <1>5 DEF Good

LEMMA ReturnInv == ASSUME ReachIInv, CollectReturn PROVE ReachIInv'
<1> DEFINE top == Top
           N == Len(stack)
<1>1. stack # <<>> /\ ReachTypeOK /\ next[top] > Len(walk[top])
  BY DEF CollectReturn, ReachIInv
<1>2. /\ N \in Nat \ {0} /\ N \in 1..N /\ top = stack[N]
      /\ top \in Node /\ walk \in Graph
  BY <1>1, TopFacts DEF Top
<1>3. Good(walk, top, found[top]) /\ found[top] \in SUBSET ValueSet
  BY <1>1, <1>2, WalkedIsGood DEF ReachTypeOK
<1>4. /\ known' = known \cup {top}
      /\ memo' = [memo EXCEPT ![top] = found[top]]
      /\ stack' = SubSeq(stack, 1, N - 1)
      /\ UNCHANGED <<walk, next>>
  BY DEF CollectReturn
<1>5. /\ stack' \in Seq(Node) /\ Len(stack') = N - 1
      /\ \A i \in 1..(N - 1) : stack'[i] = stack[i]
  <2>1. \A i \in 1..(N - 1) : stack[i] \in Node
    BY <1>1, <1>2 DEF ReachTypeOK
  <2>2. N - 1 \in Int /\ 1 \in Int
    BY <1>2
  <2>3. /\ SubSeq(stack, 1, N - 1) \in Seq(Node)
        /\ Len(SubSeq(stack, 1, N - 1)) = IF 1 <= N - 1 THEN N - 1 - 1 + 1 ELSE 0
        /\ \A i \in 1..(N - 1 - 1 + 1) : SubSeq(stack, 1, N - 1)[i] = stack[1 + i - 1]
    BY <2>1, <2>2, SubSeqProperties
  <2>4. N - 1 - 1 + 1 = N - 1 /\ \A i \in 1..(N - 1) : 1 + i - 1 = i
    BY <1>2
  <2>5. Len(SubSeq(stack, 1, N - 1)) = N - 1
    <3>1. CASE 1 <= N - 1
      BY <2>3, <2>4, <3>1
    <3>2. CASE ~(1 <= N - 1)
      <4>1. N - 1 = 0
        <5>1. \A k \in Nat \ {0} : ~(1 <= k - 1) => k - 1 = 0
          OBVIOUS
        <5> QED BY <1>2, <3>2, <5>1
      <4>2. Len(SubSeq(stack, 1, N - 1)) = 0
        BY <2>3, <3>2
      <4> QED BY <4>1, <4>2
    <3> QED BY <3>1, <3>2
  <2> QED BY <1>4, <2>3, <2>4, <2>5
<1>6. /\ memo' \in [Node -> SUBSET ValueSet] /\ memo'[top] = found[top]
      /\ \A n \in Node : n # top => memo'[n] = memo[n]
  BY <1>1, <1>2, <1>3, <1>4 DEF ReachTypeOK
<1>7. MemoOK'
  <2> SUFFICES ASSUME NEW n \in known \cup {top} PROVE Good(walk, n, memo'[n])
    BY <1>4 DEF MemoOK
  <2>1. CASE n = top
    BY <1>3, <1>6, <2>1
  <2>2. CASE n # top
    BY <1>1, <1>6, <2>2 DEF ReachIInv, MemoOK, ReachTypeOK
  <2> QED BY <2>1, <2>2
<1>8. \A i \in 1..(N - 1) : i \in 1..N /\ i < N /\ stack[i] \in Node /\ stack[i] # top
  <2> SUFFICES ASSUME NEW i \in 1..(N - 1)
               PROVE  i \in 1..N /\ i < N /\ stack[i] \in Node /\ stack[i] # top
    OBVIOUS
  <2>1. i \in 1..N /\ i < N
    BY <1>2
  <2>2. stack[i] \in Node
    BY <1>1, <2>1 DEF ReachTypeOK
  <2>3. stack[i] # stack[N]
    BY <1>2, <2>1 DEF ReachIInv, StackOK, NoReentry
  <2> QED BY <1>2, <2>1, <2>2, <2>3
<1>9. CASE N = 1
  <2>1. /\ reach' = [reach EXCEPT ![top] = found[top]]
        /\ listed' = listed + 1 /\ found' = found /\ Len(stack') = 0
    BY <1>5, <1>9 DEF CollectReturn
  <2>2. listed + 1 \in 1..Len(Schemas) /\ top = Schemas[listed + 1]
    BY <1>1, <1>2, <1>9, EnumReachAssumption DEF ReachIInv, StackOK, ReachTypeOK
  <2>3. ReachTypeOK'
    BY <1>1, <1>2, <1>3, <1>4, <1>5, <1>6, <2>1, <2>2 DEF ReachTypeOK
  <2>4. StackOK' /\ FrameOK'
    <3>1. stack' = <<>>
      BY <1>5, <2>1, EmptySeq
    <3>2. 1..Len(stack') = {}
      BY <2>1
    <3> QED BY <3>1, <3>2 DEF StackOK, NoReentry, FrameOK
  <2>5. ReachOK'
    <3> SUFFICES ASSUME NEW i \in 1..(listed + 1)
                 PROVE  Good(walk, Schemas[i], reach'[Schemas[i]])
      BY <1>4, <2>1 DEF ReachOK
    <3>1. Schemas[i] \in Node
      BY <1>1, <2>2, EnumReachAssumption DEF ReachTypeOK
    <3>2. CASE Schemas[i] = top
      BY <1>1, <1>2, <1>3, <2>1, <3>2 DEF ReachTypeOK
    <3>3. CASE Schemas[i] # top
      <4>1. i \in 1..listed
        BY <1>1, <2>2, <3>3 DEF ReachTypeOK
      <4> QED BY <1>1, <2>1, <3>1, <3>3, <4>1 DEF ReachIInv, ReachTypeOK, ReachOK
    <3> QED BY <3>2, <3>3
  <2> QED BY <1>7, <2>3, <2>4, <2>5 DEF ReachIInv
<1>10. CASE N # 1
  <2> DEFINE caller == stack[N - 1]
  <2>1. /\ N - 1 \in 1..(N - 1) /\ N - 1 \in 1..N /\ caller \in Node /\ caller # top
        /\ (N - 1) + 1 = N
    <3>1. N - 1 \in 1..(N - 1) /\ N - 1 \in 1..N /\ (N - 1) + 1 = N
      <4>1. N \in Nat \ {0, 1}
        BY <1>2, <1>10
      <4> HIDE DEF N
      <4> QED BY <4>1
    <3> QED BY <1>8, <3>1
  <2>2. /\ found' = [found EXCEPT ![caller] = @ \cup found[top]]
        /\ UNCHANGED <<listed, reach>>
    BY <1>10 DEF CollectReturn, Returned, Caller
  <2>3. /\ found' \in [Node -> SUBSET ValueSet]
        /\ found'[caller] = found[caller] \cup found[top]
        /\ \A n \in Node : n # caller => found'[n] = found[n]
    BY <1>1, <1>3, <2>1, <2>2 DEF ReachTypeOK
  <2>4. top \in Refs(walk, caller)
    BY <1>2, <2>1 DEF ReachIInv, StackOK
  <2>5. ReachTypeOK'
    BY <1>1, <1>2, <1>4, <1>5, <1>6, <2>2, <2>3 DEF ReachTypeOK
  <2>6. StackOK'
    <3>1. NoReentry'
      BY <1>5, <1>8 DEF ReachIInv, StackOK, NoReentry
    <3>2. \A i \in 1..(N - 1) : stack'[i] \notin known'
      BY <1>4, <1>5, <1>8 DEF ReachIInv, StackOK
    <3>3. listed < Len(Schemas) /\ stack'[1] = Schemas[listed + 1]
      BY <1>1, <1>2, <1>5, <2>1 DEF ReachIInv, StackOK
    <3>4. \A i \in 1..(N - 1) : i < N - 1 => stack'[i + 1] \in Refs(walk, stack'[i])
      <4> SUFFICES ASSUME NEW i \in 1..(N - 1), i < N - 1
                   PROVE  stack'[i + 1] \in Refs(walk, stack'[i])
        OBVIOUS
      <4>1. i + 1 \in 1..(N - 1)
        BY <1>2
      <4> QED BY <1>5, <1>8, <4>1 DEF ReachIInv, StackOK
    <3>5. \A i, j \in 1..(N - 1) : i <= j => stack'[j] \in ReachFrom(walk, stack'[i])
      BY <1>5, <1>8 DEF ReachIInv, StackOK
    <3> QED BY <1>4, <1>5, <2>2, <3>1, <3>2, <3>3, <3>4, <3>5 DEF StackOK
  <2>7. FrameOK'
    <3> SUFFICES ASSUME NEW i \in 1..(N - 1)
                 PROVE  /\ found'[stack[i]] \subseteq Validates(walk, stack[i])
                        /\ \A j \in 1..Len(walk[stack[i]]) : j < next[stack[i]] =>
                             Passed(walk, stack[i], walk[stack[i]][j], found'[stack[i]],
                                    Child(i)')
      BY <1>4, <1>5 DEF FrameOK
    <3>0. /\ found[stack[i]] \subseteq Validates(walk, stack[i])
          /\ \A j \in 1..Len(walk[stack[i]]) : j < next[stack[i]] =>
               Passed(walk, stack[i], walk[stack[i]][j], found[stack[i]], Child(i))
      BY <1>8 DEF ReachIInv, FrameOK
    <3>1. CASE i # N - 1
      <4>1. stack[i] # caller
        BY <1>8, <2>1, <3>1 DEF ReachIInv, StackOK, NoReentry
      <4>2. i + 1 \in 1..(N - 1) /\ i < N - 1
        BY <1>2, <3>1
      <4>3. Child(i)' = Child(i)
        BY <1>2, <1>5, <1>8, <4>2 DEF Child
      <4>4. found'[stack[i]] = found[stack[i]]
        BY <1>8, <2>3, <4>1
      <4> QED BY <3>0, <4>3, <4>4
    <3>2. CASE i = N - 1
      <4>1. stack[i] = caller /\ Child(i) = top /\ Child(i)' = Nil
        BY <1>2, <1>5, <2>1, <3>2 DEF Child
      <4>2. /\ Validates(walk, top) \subseteq Validates(walk, caller)
            /\ AcyclicFrom(walk, caller) => AcyclicFrom(walk, top)
        BY <1>2, <2>1, <2>4, ValidatesRef
      <4>3. found'[caller] \subseteq Validates(walk, caller)
        BY <1>3, <2>3, <3>0, <4>1, <4>2 DEF Good
      <4>4. AcyclicFrom(walk, caller) => Validates(walk, top) \subseteq found'[caller]
        BY <1>3, <2>3, <4>2 DEF Good
      <4>5. ASSUME NEW x, Passed(walk, caller, x, found[caller], top)
            PROVE  Passed(walk, caller, x, found'[caller], Nil)
        BY <2>3, <4>4, <4>5 DEF Passed
      <4> QED BY <3>0, <4>1, <4>3, <4>5
    <3> QED BY <3>1, <3>2
  <2>8. ReachOK'
    BY <1>4, <2>2 DEF ReachIInv, ReachOK
  <2> QED BY <1>7, <2>5, <2>6, <2>7, <2>8 DEF ReachIInv
<1> QED BY <1>9, <1>10

LEMMA ReachInductive == ReachSpec => []ReachIInv
<1>1. ReachIInv /\ [ReachNext]_reachVars => ReachIInv'
  <2> SUFFICES ASSUME ReachIInv, [ReachNext]_reachVars PROVE ReachIInv'
    OBVIOUS
  <2>1. CASE UNCHANGED reachVars
    BY <2>1 DEF reachVars, ReachIInv, ReachTypeOK, StackOK, NoReentry, FrameOK, Child, MemoOK, ReachOK
  <2> QED BY <2>1, BeginKnown, BeginNew, SkipInv, LookInv, DescendInv, ReturnInv DEF ReachNext
<1> QED BY <1>1, ReachInitInv, PTL DEF ReachSpec

-----------------------------------------------------------------------------
(* The memo, the stack and the results keep their types. *)
THEOREM ReachTypeCorrect == ReachSpec => []ReachTypeOK
<1>1. ReachIInv => ReachTypeOK
  BY DEF ReachIInv
<1> QED BY <1>1, ReachInductive, PTL

(* Whatever cycles the `$ref`s form, collect() is never entered for a node   *)
(* it is already walking: the recursion is no deeper than there are nodes.   *)
THEOREM NeverReentered == ReachSpec => []NoReentry
<1>1. ReachIInv => NoReentry
  BY DEF ReachIInv, StackOK
<1> QED BY <1>1, ReachInductive, PTL

(* reachable() never claims a vocabulary for a schema that cannot reach it.  *)
THEOREM Sound == ReachSpec => []ReachIsSound
<1>1. ReachIInv => ReachIsSound
  BY DEF ReachIInv, ReachOK, Good, ReachIsSound
<1> QED BY <1>1, ReachInductive, PTL

(* reachable() is exact for every schema that reaches no cycle of two nodes   *)
(* or more, with whatever the walks of other schemas left in the memo.        *)
THEOREM ExactOffCycles == ReachSpec => []AcyclicIsExact
<1>1. ReachIInv => AcyclicIsExact
  BY DEF ReachIInv, ReachOK, Good, AcyclicIsExact
<1> QED BY <1>1, ReachInductive, PTL

-----------------------------------------------------------------------------
(***************************************************************************)
(* Proofs about EstateGuard.  A merge may bring in any line of the merged   *)
(* branch, so NoNewFigure holds both branches to the debt and to what the   *)
(* guard was not shown.  The guard's theorem is about a public repository;  *)
(* where all it holds is shown to the guard, nothing slips through.         *)
(***************************************************************************)

NoSlip == slipped = {}

\* The trees of a branch whose every file the guard can read.
Plain(t) == \A f \in Files : t[f].kind \in {"none", "text"}

-----------------------------------------------------------------------------
\* Every edit of a tree is a tree.
LEMMA EditedType ==
    ASSUME NEW t \in Tree
    PROVE  Edited(t) \subseteq Tree
BY DEF Edited, Tree

(* The trees are trees, and the counters stay within their bounds. *)
THEOREM GuardTypeCorrect == GuardSpec => []GuardTypeOK
<1>1. GuardInit => GuardTypeOK
  <2> SUFFICES ASSUME GuardInit PROVE GuardTypeOK
    OBVIOUS
  <2>1. head \in Tree /\ other \in Tree /\ index \in Tree /\ merging \in BOOLEAN
    BY EstateAssumption DEF GuardInit
  <2>2. edits \in 0..MaxEdits /\ commits \in 0..MaxGuardCommits
    BY EstateAssumption DEF GuardInit
  <2>3. slipped \subseteq (Files \ Exempt) \X Figures
    BY DEF GuardInit
  <2> QED BY <2>1, <2>2, <2>3 DEF GuardTypeOK
<1>2. GuardTypeOK /\ [GuardNext]_guardVars => GuardTypeOK'
  <2> SUFFICES ASSUME GuardTypeOK, [GuardNext]_guardVars PROVE GuardTypeOK'
    OBVIOUS
  <2>1. CASE Stage
    <3>1. index' \in Tree
      BY <2>1, EditedType DEF Stage, GuardTypeOK
    <3> QED BY <2>1, <3>1, EstateAssumption DEF GuardTypeOK, Stage
  <2>2. CASE MergeStart
    BY <2>2 DEF GuardTypeOK, MergeStart
  <2>3. CASE CommitIndex
    <3>1. head' \in Tree /\ other' \in Tree /\ index' \in Tree /\ merging' \in BOOLEAN
      BY <2>3 DEF GuardTypeOK, CommitIndex
    <3>2. edits' \in 0..MaxEdits /\ commits' \in 0..MaxGuardCommits
      BY <2>3, EstateAssumption DEF GuardTypeOK, CommitIndex
    <3>3. slipped' \subseteq (Files \ Exempt) \X Figures
      BY <2>3 DEF GuardTypeOK, CommitIndex, FiguresIn
    <3> QED BY <3>1, <3>2, <3>3 DEF GuardTypeOK
  <2>4. CASE OtherCommit
    <3>1. other' \in Tree
      BY <2>4, EditedType DEF OtherCommit, GuardTypeOK
    <3>2. commits' \in 0..MaxGuardCommits
      BY <2>4, EstateAssumption DEF GuardTypeOK, OtherCommit
    <3>3. slipped' \subseteq (Files \ Exempt) \X Figures
      BY <2>4 DEF GuardTypeOK, OtherCommit, FiguresIn
    <3> QED BY <2>4, <3>1, <3>2, <3>3 DEF GuardTypeOK, OtherCommit
  <2>5. CASE UNCHANGED guardVars
    BY <2>5 DEF GuardTypeOK, guardVars
  <2> QED BY <2>1, <2>2, <2>3, <2>4, <2>5 DEF GuardNext
<1> QED BY <1>1, <1>2, PTL DEF GuardSpec

\* The lines of a file, by position.
LEMMA FileType ==
    ASSUME NEW t \in Tree, NEW f \in Files
    PROVE  /\ t[f].lines \in Seq(Lines)
           /\ t[f].kind \in {"none", "text", "link", "binary"}
<1>1. t[f] \in Contents \/ t[f] = NoFile
  BY DEF Tree
<1>2. CASE t[f] \in Contents
  BY <1>2, EstateAssumption
<1>3. CASE t[f] = NoFile
  BY <1>3 DEF NoFile
<1> QED BY <1>1, <1>2, <1>3

\* A line matched with one of the old file was in the old file.
LEMMA MatchedWasThere ==
    ASSUME NEW old \in Seq(Lines), NEW new \in Seq(Lines), NEW m \in Matchings(old, new),
           NEW j \in DOMAIN m
    PROVE  /\ j \in DOMAIN new /\ m[j] \in DOMAIN old /\ old[m[j]] = new[j]
BY DEF Matchings

\* In a public repository a commit that passes adds no figure to a file whose
\* new lines the guard saw: each was in it at HEAD or on the merged side.
LEMMA PassedAddsNothing ==
    ASSUME Public, NEW from \in Tree, NEW to \in Tree, NEW theirs \in [Files -> Contents \cup {NoFile}],
           NEW missed, HookPasses(from, to, theirs, missed), NEW p \in FiguresIn(to), p \notin missed
    PROVE  p \in FiguresIn(from) \/ p \in FiguresIn(theirs)
<1>1. PICK renamed \in SUBSET Renamable(from, to) :
        /\ \E answer \in is_public, added \in Diffs(from, to, theirs, renamed) : Passes(answer, added)
        /\ missed = {q \in FiguresIn(to) : q[1] \in Unseen(from, to, renamed)}
  BY DEF HookPasses
<1>2. PICK answer \in is_public, added \in Diffs(from, to, theirs, renamed) : Passes(answer, added)
  BY <1>1
<1>3. PICK f \in Files \ Exempt, l \in Figures : p = <<f, l>> /\ l \in LinesOf(to[f])
  BY DEF FiguresIn
<1>4. added[f] \in AddedLines(from, to, theirs, renamed, f)
  BY DEF Diffs
<1>5. f \notin Unseen(from, to, renamed)
  BY <1>1, <1>3
<1>6. PICK m \in Longest(from[f].lines, to[f].lines) :
        added[f] = {to[f].lines[j] : j \in DOMAIN to[f].lines \ DOMAIN m} \ MergeSideLines(theirs, f)
  BY <1>4, <1>5 DEF AddedLines
<1>7. l \notin added[f]
  <2>1. scan(added) = {}
    BY <1>2 DEF is_public, Passes
  <2>2. <<f, l>> \in (Files \ (Exempt \ Tabbed)) \X Figures /\ <<f, l>>[1] = f /\ <<f, l>>[2] = l
    OBVIOUS
  <2> QED BY <2>1, <2>2 DEF scan
<1>8. PICK j \in DOMAIN to[f].lines : to[f].lines[j] = l
  BY <1>3 DEF LinesOf
<1>9. from[f].lines \in Seq(Lines) /\ to[f].lines \in Seq(Lines)
  BY FileType
<1>10. CASE j \in DOMAIN m
  <2>1. m[j] \in DOMAIN from[f].lines /\ from[f].lines[m[j]] = l
    BY <1>8, <1>9, <1>10, MatchedWasThere DEF Longest
  <2> QED BY <1>3, <2>1 DEF FiguresIn, LinesOf
<1>11. CASE j \notin DOMAIN m
  <2>1. l \in MergeSideLines(theirs, f)
    BY <1>6, <1>7, <1>8, <1>11
  <2>2. l \in LinesOf(theirs[f])
    BY <2>1 DEF MergeSideLines
  <2> QED BY <1>3, <2>2 DEF FiguresIn
<1> QED BY <1>10, <1>11

LEMMA NoTreeType == NoTree \in Tree /\ FiguresIn(NoTree) = {}
BY DEF NoTree, Tree, FiguresIn, LinesOf, NoFile

(* "Blocking what is ADDED stops the bleeding" (check_estate_data.py): for   *)
(* any files, any figures and any history of edits, renames and merges on    *)
(* both branches, each file of a public repository that is not exempt holds  *)
(* the figures it held before, and those that were in it at a commit which   *)
(* showed the guard nothing of it.                                           *)
THEOREM GuardHolds ==
    ASSUME Public
    PROVE  GuardSpec => []NoNewFigure
<1>1. GuardInit => NoNewFigure
  BY EstateAssumption DEF GuardInit, NoNewFigure
<1>2. GuardTypeOK /\ NoNewFigure /\ [GuardNext]_guardVars => NoNewFigure'
  <2> SUFFICES ASSUME GuardTypeOK, NoNewFigure, [GuardNext]_guardVars
               PROVE  NoNewFigure'
    OBVIOUS
  <2>1. CASE UNCHANGED <<head, other, slipped>>
    BY <2>1 DEF NoNewFigure, FiguresIn
  <2>2. CASE CommitIndex
    <3>1. PICK missed \in SUBSET FiguresIn(index) :
            HookPasses(head, index, MergeHead, missed) /\ slipped' = slipped \cup missed
      BY <2>2 DEF CommitIndex
    <3>2. MergeHead \in Tree /\ FiguresIn(MergeHead) \subseteq FiguresIn(other)
      BY NoTreeType DEF MergeHead, GuardTypeOK
    <3>3. \A p \in FiguresIn(index) : p \in missed \/ p \in FiguresIn(head) \/ p \in FiguresIn(MergeHead)
      BY <3>1, <3>2, PassedAddsNothing DEF GuardTypeOK, Tree
    <3>4. FiguresIn(head)' = FiguresIn(index) /\ FiguresIn(other)' = FiguresIn(other)
      BY <2>2 DEF CommitIndex, FiguresIn
    <3> QED BY <3>1, <3>2, <3>3, <3>4 DEF NoNewFigure
  <2>3. CASE OtherCommit
    <3>1. PICK t \in Tree : t = other'
      BY <2>3, EditedType DEF OtherCommit, GuardTypeOK
    <3>2. PICK missed \in SUBSET FiguresIn(t) :
            HookPasses(other, t, NoTree, missed) /\ slipped' = slipped \cup missed
      BY <2>3, <3>1 DEF OtherCommit
    <3>3. \A p \in FiguresIn(t) : p \in missed \/ p \in FiguresIn(other)
      BY <3>2, NoTreeType, PassedAddsNothing DEF GuardTypeOK, Tree
    <3>4. FiguresIn(head)' = FiguresIn(head) /\ FiguresIn(other)' = FiguresIn(t)
      BY <2>3, <3>1 DEF OtherCommit, FiguresIn
    <3> QED BY <3>2, <3>3, <3>4 DEF NoNewFigure
  <2> QED BY <2>1, <2>2, <2>3 DEF GuardNext, guardVars, Stage, MergeStart
<1> QED BY <1>1, <1>2, GuardTypeCorrect, PTL DEF GuardSpec

\* An edit with text only, and a merge of text, is text.
LEMMA PlainEdits ==
    ASSUME \A c \in Contents : c.kind = "text", NEW t \in Tree
    PROVE  Plain(t)
BY DEF Plain, Tree, NoFile

(* Where people write text only, no path is quoted and git does not detect   *)
(* renames, the guard sees all: HEAD and the other branch of a public        *)
(* repository hold, in each file, the old figures only.                      *)
THEOREM NothingSlips ==
    ASSUME Public, ~DetectRenames, Quoted = {}, \A c \in Contents : c.kind = "text"
    PROVE  GuardSpec => [](FiguresIn(head) \cup FiguresIn(other) \subseteq Debt)
<1>1. GuardInit => NoSlip
  BY DEF GuardInit, NoSlip
<1>2. ASSUME NEW from \in Tree, NEW to \in Tree, NEW theirs, NEW missed,
             HookPasses(from, to, theirs, missed)
      PROVE  missed = {}
  <2>1. \A renamed \in SUBSET Renamable(from, to) : Unseen(from, to, renamed) = {}
    <3>1. Renamable(from, to) = {}
      BY DEF Renamable
    <3>2. \A f \in Files : from[f].kind \in {"none", "text"} /\ to[f].kind \in {"none", "text"}
      BY PlainEdits DEF Plain
    <3> QED BY <3>1, <3>2 DEF Unseen, TypeChanged
  <2> QED BY <1>2, <2>1 DEF HookPasses
<1>3. GuardTypeOK /\ GuardTypeOK' /\ NoSlip /\ [GuardNext]_guardVars => NoSlip'
  <2> SUFFICES ASSUME GuardTypeOK, GuardTypeOK', NoSlip, [GuardNext]_guardVars PROVE NoSlip'
    OBVIOUS
  <2>1. CASE UNCHANGED slipped
    BY <2>1 DEF NoSlip
  <2>2. CASE CommitIndex
    <3>1. head \in Tree /\ index \in Tree
      BY DEF GuardTypeOK
    <3> QED BY <1>2, <2>2, <3>1 DEF CommitIndex, NoSlip
  <2>3. CASE OtherCommit
    <3>1. other \in Tree /\ other' \in Tree
      BY DEF GuardTypeOK
    <3> QED BY <1>2, <2>3, <3>1 DEF OtherCommit, NoSlip
  <2> QED BY <2>1, <2>2, <2>3 DEF GuardNext, guardVars, Stage, MergeStart
<1>4. GuardSpec => []NoNewFigure
  BY GuardHolds
<1>5. NoNewFigure /\ NoSlip => FiguresIn(head) \cup FiguresIn(other) \subseteq Debt
  BY DEF NoNewFigure, NoSlip
<1> QED BY <1>1, <1>3, <1>4, <1>5, GuardTypeCorrect, PTL DEF GuardSpec

-----------------------------------------------------------------------------
\* The positions of a file and any of them are finitely many.
LEMMA PositionsFinite ==
    ASSUME NEW s \in Seq(Lines), NEW E \in SUBSET (DOMAIN s)
    PROVE  IsFiniteSet(E) /\ Cardinality(E) \in Nat /\ Cardinality(DOMAIN s) = Len(s)
<1>1. DOMAIN s = 1..Len(s) /\ Len(s) \in Nat
  OBVIOUS
<1>2. IsFiniteSet(DOMAIN s) /\ Cardinality(DOMAIN s) = Len(s)
  <2>1. 1 \in Int /\ Len(s) \in Int /\ (IF 1 > Len(s) THEN 0 ELSE Len(s) - 1 + 1) = Len(s)
    BY <1>1
  <2>2. IsFiniteSet(1..Len(s)) /\ Cardinality(1..Len(s)) = Len(s)
    BY <2>1, FS_Interval
  <2> QED BY <1>1, <2>2
<1> QED BY <1>2, FS_Subset, FS_CardinalityType

\* A matching maps positions one to one.
LEMMA MatchingIsInjective ==
    ASSUME NEW old \in Seq(Lines), NEW new \in Seq(Lines), NEW m \in Matchings(old, new)
    PROVE  m \in Injection(DOMAIN m, DOMAIN old) /\ DOMAIN m \in SUBSET DOMAIN new
<1>1. PICK E \in SUBSET DOMAIN new : /\ m \in [E -> DOMAIN old]
                                     /\ \A j, k \in E : j < k => m[j] < m[k]
  BY DEF Matchings
<1>2. E = DOMAIN m
  BY <1>1
<1>3. ASSUME NEW j \in E, NEW k \in E, m[j] = m[k] PROVE j = k
  <2>1. j \in Int /\ k \in Int /\ m[j] \in Int /\ m[k] \in Int
    BY <1>1
  <2>2. ~(j < k) /\ ~(k < j)
    BY <1>1, <1>3, <2>1
  <2> QED BY <2>1, <2>2
<1> QED BY <1>1, <1>2, <1>3 DEF Injection, IsInjective

\* In an edit that moves and repeats nothing, every figure the file held is
\* matched in every longest matching.
LEMMA KeptIsMatched ==
    ASSUME NEW old \in Seq(Lines), NEW new \in Seq(Lines), OnlyEdits(old, new),
           NEW m \in Longest(old, new), NEW l \in Figures,
           NEW j \in DOMAIN new, new[j] = l, NEW i \in DOMAIN old, old[i] = l
    PROVE  j \in DOMAIN m
<1>1. m \in Matchings(old, new)
  BY DEF Longest
<1>2. /\ m \in Injection(DOMAIN m, DOMAIN old) /\ DOMAIN m \in SUBSET DOMAIN new
      /\ IsFiniteSet(DOMAIN m) /\ Cardinality(DOMAIN m) \in Nat
  BY <1>1, MatchingIsInjective, PositionsFinite
<1>3. CASE \E k \in Matchings(old, new) :
              \A x \in DOMAIN new : (\E y \in DOMAIN old : old[y] = new[x]) => x \in DOMAIN k
  <2>1. PICK k \in Matchings(old, new) :
              \A x \in DOMAIN new : (\E y \in DOMAIN old : old[y] = new[x]) => x \in DOMAIN k
    BY <1>3
  <2>2. /\ DOMAIN k \in SUBSET DOMAIN new
        /\ IsFiniteSet(DOMAIN k) /\ Cardinality(DOMAIN k) \in Nat
    BY MatchingIsInjective, PositionsFinite
  <2>3. DOMAIN m \in SUBSET DOMAIN k
    <3>1. \A x \in DOMAIN m : x \in DOMAIN new /\ m[x] \in DOMAIN old /\ old[m[x]] = new[x]
      BY <1>1, MatchedWasThere
    <3> QED BY <2>1, <3>1
  <2>4. Cardinality(DOMAIN k) <= Cardinality(DOMAIN m)
    BY DEF Longest
  <2>5. Cardinality(DOMAIN m) <= Cardinality(DOMAIN k)
    BY <2>2, <2>3, FS_Subset
  <2>6. DOMAIN m = DOMAIN k
    <3>1. Cardinality(DOMAIN k) = Cardinality(DOMAIN m)
      BY <1>2, <2>2, <2>4, <2>5
    <3> QED BY <2>2, <2>3, <3>1, FS_Subset
  <2> QED BY <2>1, <2>6
<1>4. CASE /\ \E k \in Matchings(old, new) : Cardinality(DOMAIN k) = Len(old)
           /\ Cardinality(Occurrences(l, new)) <= Cardinality(Occurrences(l, old))
  <2>1. Len(old) <= Cardinality(DOMAIN m)
    BY <1>4 DEF Longest
  <2>2. m \in Surjection(DOMAIN m, DOMAIN old)
    <3>1. DOMAIN old \in SUBSET DOMAIN old
      OBVIOUS
    <3>2. IsFiniteSet(DOMAIN old) /\ Cardinality(DOMAIN old) = Len(old) /\ Len(old) \in Nat
      BY <3>1, PositionsFinite
    <3>3. Cardinality(DOMAIN m) <= Cardinality(DOMAIN old)
      BY <1>2, <3>2, FS_Injection
    <3>4. Cardinality(DOMAIN m) = Cardinality(DOMAIN old)
      BY <1>2, <2>1, <3>2, <3>3
    <3> QED BY <1>2, <3>2, <3>4, FS_Injection
  <2> DEFINE P == Occurrences(l, old)
             Q == Occurrences(l, new)
             D == Q \cap DOMAIN m
             g == [x \in D |-> m[x]]
  <2>3. g \in Surjection(D, P)
    <3>1. \A x \in D : m[x] \in P
      BY <1>1, MatchedWasThere DEF Occurrences
    <3>2. ASSUME NEW y \in P PROVE \E x \in D : g[x] = y
      <4>1. PICK x \in DOMAIN m : m[x] = y
        BY <2>2 DEF Surjection, Occurrences
      <4>2. x \in D
        BY <1>1, <4>1, MatchedWasThere DEF Occurrences
      <4> QED BY <4>1, <4>2
    <3> HIDE DEF D, P
    <3> QED BY <3>1, <3>2 DEF Surjection
  <2>4. /\ IsFiniteSet(Q) /\ Cardinality(Q) \in Nat /\ D \in SUBSET Q
        /\ IsFiniteSet(D) /\ Cardinality(D) \in Nat
    <3>1. Q \in SUBSET DOMAIN new /\ D \in SUBSET DOMAIN new
      BY DEF Occurrences
    <3> HIDE DEF Q
    <3> QED BY <3>1, PositionsFinite
  <2>5. P \in SUBSET DOMAIN old
    BY DEF Occurrences
  <2>6. Cardinality(P) \in Nat
    BY <2>5, PositionsFinite
  <2> HIDE DEF P, Q, D, g
  <2>7. Cardinality(P) <= Cardinality(D)
    BY <2>3, <2>4, FS_Surjection
  <2>8. Cardinality(D) <= Cardinality(Q)
    BY <2>4, FS_Subset
  <2>9. Cardinality(Q) <= Cardinality(P)
    BY <1>4 DEF P, Q
  <2>10. Cardinality(Q) = Cardinality(D)
    BY <2>4, <2>6, <2>7, <2>8, <2>9
  <2>11. Q = D
    BY <2>4, <2>10, FS_Subset
  <2>12. j \in Q
    BY DEF Q, Occurrences
  <2> QED BY <2>11, <2>12 DEF D
<1> QED BY <1>3, <1>4 DEF OnlyEdits

(* "A gate people bypass is not a gate": whatever was staged or merged, a    *)
(* commit that keeps to the figures its files held, without moving or        *)
(* repeating their lines, is not blocked, whatever the forge answers and     *)
(* whichever longest matching and renames git finds.                         *)
THEOREM DebtPasses == GuardSpec => []DebtNeverBlocks
<1>1. GuardTypeOK => DebtNeverBlocks
  <2> SUFFICES ASSUME GuardTypeOK,
                      \A f \in Files \ (Exempt \ Tabbed) :
                        LET figures == LinesOf(index[f]) \cap Figures
                            merged == MergeSideLines(MergeHead, f)
                        IN /\ figures \subseteq LinesOf(head[f]) \cup merged
                           /\ figures \subseteq merged \/ OnlyEdits(head[f].lines, index[f].lines),
                      NEW renamed \in SUBSET Renamable(head, index),
                      NEW added \in Diffs(head, index, MergeHead, renamed)
               PROVE  scan(added) = {}
    BY DEF DebtNeverBlocks, Passes
  <2> SUFFICES ASSUME NEW f \in Files \ (Exempt \ Tabbed), NEW l \in Figures, l \in added[f]
               PROVE  FALSE
    BY DEF scan
  <2>1. added[f] \in AddedLines(head, index, MergeHead, renamed, f)
    BY DEF Diffs
  <2>2. PICK m \in Longest(head[f].lines, index[f].lines) :
          added[f] = {index[f].lines[j] : j \in DOMAIN index[f].lines \ DOMAIN m}
                       \ MergeSideLines(MergeHead, f)
    BY <2>1 DEF AddedLines
  <2>3. PICK j \in DOMAIN index[f].lines \ DOMAIN m : index[f].lines[j] = l
    BY <2>2
  <2>4. l \in LinesOf(index[f]) \cap Figures /\ l \notin MergeSideLines(MergeHead, f)
    BY <2>2, <2>3 DEF LinesOf
  <2>5. l \in LinesOf(head[f]) /\ OnlyEdits(head[f].lines, index[f].lines)
    BY <2>4
  <2>6. PICK i \in DOMAIN head[f].lines : head[f].lines[i] = l
    BY <2>5 DEF LinesOf
  <2>7. head[f].lines \in Seq(Lines) /\ index[f].lines \in Seq(Lines)
    BY FileType DEF GuardTypeOK
  <2>8. j \in DOMAIN m
    BY <2>3, <2>5, <2>6, <2>7, KeptIsMatched
  <2> QED BY <2>3, <2>8
<1> QED BY <1>1, GuardTypeCorrect, PTL

-----------------------------------------------------------------------------
(***************************************************************************)
(* Proofs about ReleaseHelper, for any versions, commands and edits. The    *)
(* inductive invariant says what a command, and a pipeline, may rely on     *)
(* between their checks and the tag.                                        *)
(***************************************************************************)

(* A command that tags without --allow-dirty tags HEAD's own version,       *)
(* unless someone edited the version after its checks; the branch is on     *)
(* origin when its tag follows.                                             *)
Checked ==
  /\ pc \in {"build", "tag", "create"} /\ ~opts.dirty => vfile \in waived \/ ~Dirty
  /\ pc = "create" => Readable /\ opts.ver = vfile
  /\ pc = "pushtag" => origin[branch] = history

(* A release of the pipeline is one of main's own head, of a version newer  *)
(* than every tag on origin until its tag is pushed.                        *)
Released ==
  /\ origin["main"] = history /\ ~Dirty
  /\ ~opts.force /\ ~opts.dirty
  /\ rtags[vfile] = None /\ NewerThan(rtags, vfile)
  /\ pc \in {"create", "pushtag"} => opts.ver = vfile
  /\ pc \in {"push", "pushtag"} => tags[vfile] = history

(* Where only the pipeline releases, a checkout is main and what was        *)
(* committed on top of it.                                                  *)
Piped ==
  practice # "by hand" =>
    /\ waived = {} /\ branch = "main" /\ IsPrefix(origin["main"], history)
    /\ pc \notin {"idle", "pyproject"} => Released

ReleaseInv ==
  TypeOK /\ TagMatches /\ TagsOnBranch /\ TagsOnMain /\ Checked /\ Piped /\ TagsAscend

-----------------------------------------------------------------------------
(* Prefixes of sequences of commits.                                       *)

LEMMA PrefixIsPointwise ==
  ASSUME NEW s \in Seq(Commit), NEW t \in Seq(Commit)
  PROVE  IsPrefix(s, t) <=> Len(s) <= Len(t) /\ \A i \in 1..Len(s) : s[i] = t[i]
<1> DEFINE n == Len(s)
           a == SubSeq(s, 1, n)
           b == SubSeq(t, 1, n)
<1>1. CASE n <= Len(t)
  <2>1. n \in Nat /\ \A i \in 1..n : s[i] \in Commit /\ t[i] \in Commit
    BY <1>1
  <2>2. a \in Seq(Commit) /\ Len(a) = n /\ \A i \in 1..n : a[i] = s[i]
    <3>1. n \in Int /\ (IF 1 <= n THEN n - 1 + 1 ELSE 0) = n /\ n - 1 + 1 = n
          /\ \A i \in 1..n : 1 + i - 1 = i
      BY <2>1
    <3> QED BY <2>1, <3>1, SubSeqProperties
  <2>3. b \in Seq(Commit) /\ Len(b) = n /\ \A i \in 1..n : b[i] = t[i]
    <3>1. n \in Int /\ (IF 1 <= n THEN n - 1 + 1 ELSE 0) = n /\ n - 1 + 1 = n
          /\ \A i \in 1..n : 1 + i - 1 = i
      BY <2>1
    <3> QED BY <2>1, <3>1, SubSeqProperties
  <2>4. (\A i \in 1..n : s[i] = t[i]) => a = b
    <3> HIDE DEF a, b, n
    <3> QED BY <2>2, <2>3, SeqEqual
  <2>5. a = b => \A i \in 1..n : s[i] = t[i]
    <3> HIDE DEF a, b, n
    <3> QED BY <2>2, <2>3
  <2> QED BY <1>1, <2>4, <2>5 DEF IsPrefix
<1>2. CASE ~(n <= Len(t))
  BY <1>2 DEF IsPrefix
<1> QED BY <1>1, <1>2

LEMMA PrefixOfItself ==
  ASSUME NEW s \in Seq(Commit) PROVE IsPrefix(s, s) /\ IsPrefix(None, s)
<1>1. None \in Seq(Commit) /\ Len(None) = 0 /\ Len(s) \in Nat
  BY DEF None
<1>2. IsPrefix(s, s)
  BY <1>1, PrefixIsPointwise
<1>3. IsPrefix(None, s)
  <2>1. Len(None) <= Len(s) /\ \A i \in 1..Len(None) : None[i] = s[i]
    <3>1. 0 <= Len(s) /\ \A i \in 1..0 : FALSE
      BY <1>1
    <3> QED BY <1>1, <3>1
  <2> QED BY <1>1, <2>1, PrefixIsPointwise
<1> QED BY <1>2, <1>3

LEMMA PrefixTransitive ==
  ASSUME NEW s \in Seq(Commit), NEW t \in Seq(Commit), NEW u \in Seq(Commit),
         IsPrefix(s, t), IsPrefix(t, u)
  PROVE  IsPrefix(s, u)
<1>1. Len(s) <= Len(t) /\ \A i \in 1..Len(s) : s[i] = t[i]
  BY PrefixIsPointwise
<1>2. Len(t) <= Len(u) /\ \A i \in 1..Len(t) : t[i] = u[i]
  BY PrefixIsPointwise
<1>3. Len(s) \in Nat /\ Len(t) \in Nat /\ Len(u) \in Nat
  OBVIOUS
<1>4. Len(s) <= Len(u) /\ \A i \in 1..Len(s) : i \in 1..Len(t)
  BY <1>1, <1>2, <1>3
<1>5. \A i \in 1..Len(s) : s[i] = u[i]
  BY <1>1, <1>2, <1>4
<1> QED BY <1>4, <1>5, PrefixIsPointwise

LEMMA ShorterPrefix ==
  ASSUME NEW s \in Seq(Commit), NEW t \in Seq(Commit), IsPrefix(s, t), s # t
  PROVE  Len(s) < Len(t)
<1>1. Len(s) <= Len(t) /\ \A i \in 1..Len(s) : s[i] = t[i]
  BY PrefixIsPointwise
<1>2. Len(s) # Len(t)
  BY <1>1, SeqEqual
<1>3. Len(s) \in Nat /\ Len(t) \in Nat
  OBVIOUS
<1> QED BY <1>1, <1>2, <1>3

LEMMA NotNone ==
  ASSUME NEW s \in Seq(Commit)
  PROVE  /\ s # None <=> Len(s) # 0
         /\ s # None => Len(s) \in 1..Len(s) /\ Last(s) = s[Len(s)] /\ Last(s) \in Commit
<1>1. s = None <=> Len(s) = 0
  BY DEF None
<1>2. Len(s) # 0 => Len(s) \in 1..Len(s)
  OBVIOUS
<1> QED BY <1>1, <1>2 DEF Last

-----------------------------------------------------------------------------
LEMMA VersionType ==
  /\ Zero \in Version
  /\ \A p \in Practice : Versions[p] \subseteq Version
  /\ \A v \in Version : v[1] \in Nat /\ v[2] \in Nat /\ v[3] \in Nat
<1>1. \A p \in Practice : Versions[p] \subseteq Version
  BY DEF Version
<1>2. "pipeline" \in Practice
  BY DEF Practice
<1>3. Version \subseteq Nat \X Nat \X Nat
  BY ReleaseAssumption DEF Version
<1> QED BY <1>1, <1>2, <1>3, ReleaseAssumption DEF Zero

LEMMA LessIsAsymmetric ==
  ASSUME NEW v \in Version, NEW w \in Version, Less(v, w) PROVE ~Less(w, v)
BY VersionType DEF Less

LEMMA RootType == Root \in Commit
BY VersionType DEF Root, Commit, Kind

LEMMA OptionsType ==
  ASSUME NEW f \in BOOLEAN, NEW d \in BOOLEAN, NEW p \in BOOLEAN, NEW v \in Version
  PROVE  [force |-> f, dirty |-> d, push |-> p, ver |-> v]
           \in [force : BOOLEAN, dirty : BOOLEAN, push : BOOLEAN, ver : Version]
OBVIOUS

(* The facts about the branches that most steps need.                      *)
LEMMA Branch ==
  ASSUME TypeOK
  PROVE  /\ history \in Seq(Commit) /\ Len(history) \in Nat \ {0}
         /\ \A i \in 1..Len(history) : history[i] \in Commit
         /\ origin["main"] \in Seq(Commit) /\ Len(origin["main"]) \in Nat \ {0}
         /\ HeadCommit = history[Len(history)] /\ HeadCommit \in Commit
         /\ MainCommit = origin["main"][Len(origin["main"])] /\ MainCommit \in Commit
         /\ branch \in Branches /\ origin[branch] \in Seq(Commit)
<1>1. history \in Seq(Commit) /\ Len(history) \in Nat \ {0} /\ branch \in Branches
  BY DEF TypeOK
<1>2. origin["main"] \in Seq(Commit) /\ Len(origin["main"]) \in Nat \ {0}
  BY DEF TypeOK, Branches
<1>3. \A s \in Seq(Commit) : \A i \in 1..Len(s) : s[i] \in Commit
  OBVIOUS
<1>4. HeadCommit = history[Len(history)] /\ MainCommit = origin["main"][Len(origin["main"])]
  BY DEF HeadCommit, MainCommit, Last
<1>5. HeadCommit \in Commit /\ MainCommit \in Commit
  BY <1>1, <1>2, <1>3, <1>4
<1>6. origin[branch] \in Seq(Commit)
  BY <1>1 DEF TypeOK
<1> QED BY <1>1, <1>2, <1>3, <1>4, <1>5, <1>6

LEMMA UsedType ==
  ASSUME TypeOK, UNCHANGED practice,
         \/ ByHand
         \/ used' = used
         \/ used.fails < MaxFails[practice] /\ used' = [used EXCEPT !.fails = @ + 1]
  PROVE  (used \in [fails : 0..MaxFails[practice], byhand : 0..MaxByHand])'
<1>1. MaxFails[practice] \in Nat /\ MaxByHand \in Nat /\ practice' = practice
  BY ReleaseAssumption DEF TypeOK
<1>2. used \in [fails : 0..MaxFails[practice], byhand : 0..MaxByHand]
  BY DEF TypeOK
<1>3. CASE used' = used
  BY <1>1, <1>2, <1>3
<1>4. CASE used.byhand < MaxByHand /\ used' = [used EXCEPT !.byhand = @ + 1]
  BY <1>1, <1>2, <1>4
<1>5. CASE used.fails < MaxFails[practice] /\ used' = [used EXCEPT !.fails = @ + 1]
  BY <1>1, <1>2, <1>5
<1> QED BY <1>3, <1>4, <1>5 DEF ByHand

LEMMA ReleaseInitInv == Init => ReleaseInv
<1> SUFFICES ASSUME Init PROVE ReleaseInv
  OBVIOUS
<1>1. history \in Seq(Commit) /\ history = <<Root>> /\ Len(history) = 1 /\ Last(history) = Root
  BY RootType DEF Init, Last
<1>2. /\ practice \in Practice /\ MaxCommits[practice] \in Nat \ {0}
      /\ MaxFails[practice] \in Nat /\ MaxByHand \in Nat
  BY ReleaseAssumption DEF Init
<1>3. \A v \in Version : tags[v] = (IF v = Zero THEN history ELSE None) /\ rtags[v] = tags[v]
  BY VersionType DEF Init, NoTags
<1>4. None \in Seq(Commit)
  BY DEF None
<1>5. origin["main"] = history /\ "main" \in Branches
  BY DEF Init, Branches
<1>6. TypeOK
  <2>1. tags \in [Version -> Seq(Commit)] /\ rtags \in [Version -> Seq(Commit)]
    BY <1>1, <1>3, <1>4 DEF Init, NoTags
  <2>2. origin \in [Branches -> Seq(Commit)]
    BY <1>1, <1>4 DEF Init
  <2>3. used \in [fails : 0..MaxFails[practice], byhand : 0..MaxByHand]
    BY <1>2 DEF Init
  <2>4. Len(history) \in 1..MaxCommits[practice]
    BY <1>1, <1>2
  <2>5. opts \in [force : BOOLEAN, dirty : BOOLEAN, push : BOOLEAN, ver : Version]
    BY VersionType, OptionsType DEF Init, NoOpts
  <2> QED BY <1>1, <1>2, <1>5, <2>1, <2>2, <2>3, <2>4, <2>5, VersionType DEF Init, TypeOK, Branches
<1>7. \A v \in Version : IsPrefix(rtags[v], origin["main"])
  BY <1>1, <1>3, <1>5, PrefixOfItself
<1>8. TagsOnBranch /\ TagsOnMain
  BY <1>5, <1>7 DEF TagsOnBranch, TagsOnMain
<1>9. TagMatches
  BY <1>1, <1>3 DEF TagMatches, Root
<1>10. Checked /\ Piped
  BY <1>1, <1>5, PrefixOfItself DEF Checked, Piped, Init
<1>11. TagsAscend
  <2> SUFFICES ASSUME NEW v \in Version, NEW w \in Version, rtags[v] # None, rtags[w] # None
               PROVE  ~Less(v, w)
    BY DEF TagsAscend
  <2>1. v = Zero /\ w = Zero
    BY <1>3
  <2> QED BY <2>1, VersionType, LessIsAsymmetric
<1> QED BY <1>6, <1>8, <1>9, <1>10, <1>11 DEF ReleaseInv

(* What origin keeps, and what no tag loses.                               *)
LEMMA RemoteKept ==
  ASSUME ReleaseInv, UNCHANGED <<rtags, origin, strayed, practice>>
  PROVE  TagsOnBranch' /\ TagsOnMain' /\ TagsAscend'
BY DEF ReleaseInv, TagsOnBranch, TagsOnMain, TagsAscend

LEMMA TagsKept ==
  ASSUME ReleaseInv, UNCHANGED rtags, waived \subseteq waived',
         \A v \in Version : tags'[v] \in {tags[v], rtags[v], None}
  PROVE  TagMatches'
<1> SUFFICES ASSUME NEW v \in Version \ waived', NEW t \in {tags'[v], rtags[v]}, t # None
             PROVE  Last(t).version = v /\ Last(t).pyproject = v
  BY DEF TagMatches
<1>1. t \in {tags[v], rtags[v]} /\ v \in Version \ waived
  OBVIOUS
<1> QED BY <1>1 DEF ReleaseInv, TagMatches

(* A clone of main has every tag of origin, and the files of main's head.  *)
LEMMA CloneIsMain ==
  ASSUME ReleaseInv, Clone, UNCHANGED <<rtags, origin, practice>>
  PROVE  /\ history' = origin["main"] /\ branch' = "main" /\ tags' = rtags
         /\ vfile' = MainCommit.version /\ pyproject' = MainCommit.pyproject
         /\ vfile' \in Version /\ pyproject' \in Version /\ changelog' \subseteq Version
         /\ HeadCommit' = MainCommit /\ ~Dirty'
<1>1. MainCommit \in Commit /\ HeadCommit' = MainCommit
  BY Branch DEF ReleaseInv, Clone, HeadCommit, MainCommit
<1> QED BY <1>1 DEF Clone, CheckedOut, Commit, Dirty, tree

-----------------------------------------------------------------------------
(* One lemma per kind of step.                                             *)

LEMMA BumpInv ==
  ASSUME ReleaseInv, NEW new, NEW force, Bump(new, force), UNCHANGED practice PROVE ReleaseInv'
<1>1. /\ vfile' \in Version /\ pc' = "pyproject" /\ waived' = waived
      /\ UNCHANGED <<history, branch, pyproject, changelog, tags, rtags, origin, strayed, opts, used>>
  BY VersionType DEF Bump, ReleaseInv, TypeOK, checkout, remote
<1>2. TypeOK'
  BY <1>1 DEF ReleaseInv, TypeOK
<1>3. TagMatches' /\ TagsOnBranch' /\ TagsOnMain' /\ TagsAscend'
  BY <1>1, RemoteKept, TagsKept
<1>4. Checked'
  BY <1>1 DEF Checked
<1>5. Piped'
  BY <1>1 DEF ReleaseInv, Piped
<1> QED BY <1>2, <1>3, <1>4, <1>5 DEF ReleaseInv

(* Steps that end a command, or write and tag nothing.                     *)
LEMMA EndInv ==
  ASSUME ReleaseInv, WritePyproject \/ Fail \/ Raise, UNCHANGED practice PROVE ReleaseInv'
<1>1. /\ UNCHANGED <<history, branch, vfile, changelog, tags, rtags, origin, strayed, waived>>
      /\ pyproject' \in {pyproject, vfile} /\ pc' = "idle" /\ opts' = NoOpts
      /\ \/ used' = used
         \/ used.fails < MaxFails[practice] /\ used' = [used EXCEPT !.fails = @ + 1]
  BY DEF WritePyproject, Fail, Raise, End, tree, checkout, remote
<1>2. TypeOK'
  <2>1. opts' \in [force : BOOLEAN, dirty : BOOLEAN, push : BOOLEAN, ver : Version]
    BY <1>1, VersionType, OptionsType DEF NoOpts
  <2>2. (used \in [fails : 0..MaxFails[practice], byhand : 0..MaxByHand])'
    BY <1>1, UsedType DEF ReleaseInv
  <2>3. vfile' \in Version /\ pyproject' \in Version
    BY <1>1 DEF ReleaseInv, TypeOK
  <2> QED BY <1>1, <2>1, <2>2, <2>3 DEF ReleaseInv, TypeOK
<1>3. TagMatches' /\ TagsOnBranch' /\ TagsOnMain' /\ TagsAscend'
  BY <1>1, RemoteKept, TagsKept
<1>4. Checked'
  BY <1>1 DEF Checked
<1>5. Piped'
  BY <1>1 DEF ReleaseInv, Piped
<1> QED BY <1>2, <1>3, <1>4, <1>5 DEF ReleaseInv

(* Commands started by hand.                                               *)
LEMMA ByHandInv ==
  ASSUME ReleaseInv, UNCHANGED practice,
         NEW force \in BOOLEAN, NEW dirty \in BOOLEAN, NEW push \in BOOLEAN,
         Release(force, dirty, push) \/ TagCommand(force, dirty) \/ PushCommand(force)
  PROVE  ReleaseInv'
<1>1. /\ UNCHANGED <<history, branch, vfile, pyproject, changelog, tags, rtags, origin, strayed, waived>>
      /\ pc' \in {"build", "tag", "push"}
      /\ practice = "by hand" /\ ByHand
  BY DEF Release, TagCommand, PushCommand, Begin, tree, checkout, remote
<1>0. PICK p \in BOOLEAN, d \in BOOLEAN :
        /\ opts' = [force |-> force, dirty |-> d, push |-> p, ver |-> vfile]
        /\ pc' # "push" => (Dirty => d)
  BY DEF Release, TagCommand, PushCommand, Begin
<1>2. TypeOK'
  <2>1. opts' \in [force : BOOLEAN, dirty : BOOLEAN, push : BOOLEAN, ver : Version]
    BY <1>0, OptionsType DEF ReleaseInv, TypeOK
  <2>2. (used \in [fails : 0..MaxFails[practice], byhand : 0..MaxByHand])'
    BY <1>1, UsedType DEF ReleaseInv
  <2> QED BY <1>1, <2>1, <2>2 DEF ReleaseInv, TypeOK
<1>3. TagMatches' /\ TagsOnBranch' /\ TagsOnMain' /\ TagsAscend'
  BY <1>1, RemoteKept, TagsKept
<1>4. Dirty' = Dirty
  BY <1>1 DEF Dirty, HeadCommit, tree
<1>5. Checked'
  <2>1. pc' # "push" /\ ~opts'.dirty => ~Dirty
    BY <1>0
  <2> QED BY <1>1, <1>4, <2>1 DEF Checked
<1>6. Piped'
  BY <1>1 DEF Piped
<1> QED BY <1>2, <1>3, <1>5, <1>6 DEF ReleaseInv

(* The pipeline starts from a clone of main.                               *)
LEMMA PipelineInv ==
  ASSUME ReleaseInv, UNCHANGED practice, ReleaseIfReady \/ NothingPending PROVE ReleaseInv'
<1>1. /\ pc = "idle" /\ Clone /\ UNCHANGED <<rtags, origin, strayed, used, waived>>
      /\ \/ pc' = pc /\ opts' = opts
         \/ /\ Ready /\ pc' = "build"
            /\ opts' = [force |-> FALSE, dirty |-> FALSE, push |-> TRUE, ver |-> MainCommit.version]
  BY DEF ReleaseIfReady, NothingPending, Idle, remote
<1>2. /\ history' = origin["main"] /\ branch' = "main" /\ tags' = rtags
      /\ vfile' = MainCommit.version /\ pyproject' = MainCommit.pyproject
      /\ vfile' \in Version /\ pyproject' \in Version /\ changelog' \subseteq Version
      /\ ~Dirty'
  BY <1>1, CloneIsMain
<1>3. TypeOK'
  <2>1. opts' \in [force : BOOLEAN, dirty : BOOLEAN, push : BOOLEAN, ver : Version]
    <3>1. MainCommit.version \in Version
      BY <1>2
    <3>2. CASE opts' = opts
      BY <3>2 DEF ReleaseInv, TypeOK
    <3>3. CASE opts' # opts
      BY <1>1, <3>1, <3>3, OptionsType
    <3> QED BY <3>2, <3>3
  <2>2. history' \in Seq(Commit) /\ Len(history') \in 1..MaxCommits[practice] /\ branch' \in Branches
    BY <1>2 DEF ReleaseInv, TypeOK, Branches
  <2>3. /\ pc' \in {"idle", "pyproject", "build", "tag", "create", "push", "pushtag"}
    BY <1>1
  <2> QED BY <1>1, <1>2, <2>1, <2>2, <2>3 DEF ReleaseInv, TypeOK
<1>4. TagMatches' /\ TagsOnBranch' /\ TagsOnMain' /\ TagsAscend'
  BY <1>1, <1>2, RemoteKept, TagsKept
<1>5. Checked'
  BY <1>1, <1>2 DEF Checked
<1>6. IsPrefix(origin["main"], origin["main"])
  BY Branch, PrefixOfItself DEF ReleaseInv
<1>7. Piped'
  <2>1. CASE pc' = "build" /\ Ready
    <3>1. rtags'[vfile'] = None /\ NewerThan(rtags', vfile')
      BY <1>1, <1>2, <2>1 DEF Ready, NewerThan
    <3>2. ~opts'.force /\ ~opts'.dirty
      BY <1>1, <2>1
    <3>3. Released'
      BY <1>1, <1>2, <2>1, <3>1, <3>2 DEF Released
    <3> QED BY <1>1, <1>2, <1>6, <3>3 DEF ReleaseInv, Piped
  <2>2. CASE pc' = "idle"
    BY <1>1, <1>2, <1>6, <2>2 DEF ReleaseInv, Piped
  <2> QED BY <1>1, <2>1, <2>2
<1> QED BY <1>3, <1>4, <1>5, <1>7 DEF ReleaseInv

LEMMA BuildInv == ASSUME ReleaseInv, UNCHANGED practice, Build PROVE ReleaseInv'
<1>1. /\ UNCHANGED <<history, branch, vfile, pyproject, changelog, tags, rtags, origin, strayed,
                     opts, used, waived>>
      /\ pc = "build" /\ pc' = "tag"
  BY DEF Build, tree, checkout, remote
<1>2. Dirty' = Dirty
  BY <1>1 DEF Dirty, HeadCommit, tree
<1>3. TypeOK'
  BY <1>1 DEF ReleaseInv, TypeOK
<1>4. TagMatches' /\ TagsOnBranch' /\ TagsOnMain' /\ TagsAscend'
  BY <1>1, RemoteKept, TagsKept
<1>5. Checked'
  BY <1>1, <1>2 DEF ReleaseInv, Checked
<1>6. Piped'
  BY <1>1, <1>2 DEF ReleaseInv, Piped, Released, NewerThan
<1> QED BY <1>3, <1>4, <1>5, <1>6 DEF ReleaseInv

(* The old tag goes, if there is one.                                      *)
LEMMA TagInv == ASSUME ReleaseInv, UNCHANGED practice, Tag PROVE ReleaseInv'
<1>1. /\ pc = "tag" /\ pc' = "create" /\ Readable
      /\ opts' = [force |-> opts.force, dirty |-> opts.dirty, push |-> opts.push, ver |-> vfile]
      /\ tags' = [tags EXCEPT ![vfile] = None]
      /\ UNCHANGED <<history, branch, vfile, pyproject, changelog, rtags, origin, strayed, used, waived>>
  BY DEF Tag, tree, checkout, remote
<1>2. Dirty' = Dirty /\ Readable' = Readable
  BY <1>1 DEF Dirty, HeadCommit, Readable, tree
<1>3. tags' \in [Version -> Seq(Commit)] /\ \A v \in Version : tags'[v] \in {tags[v], None}
  BY <1>1 DEF ReleaseInv, TypeOK, None
<1>4. opts' \in [force : BOOLEAN, dirty : BOOLEAN, push : BOOLEAN, ver : Version]
      /\ opts'.dirty = opts.dirty /\ opts'.force = opts.force /\ opts'.ver = vfile
  BY <1>1, OptionsType DEF ReleaseInv, TypeOK
<1>5. TypeOK'
  BY <1>1, <1>3, <1>4 DEF ReleaseInv, TypeOK
<1>6. TagMatches' /\ TagsOnBranch' /\ TagsOnMain' /\ TagsAscend'
  BY <1>1, <1>3, RemoteKept, TagsKept
<1>7. Checked'
  BY <1>1, <1>2, <1>4 DEF ReleaseInv, Checked
<1>8. Piped'
  BY <1>1, <1>2, <1>4 DEF ReleaseInv, Piped, Released, NewerThan
<1> QED BY <1>5, <1>6, <1>7, <1>8 DEF ReleaseInv

(* The tag is put on HEAD, whose version it names.                         *)
LEMMA CreateTagInv == ASSUME ReleaseInv, UNCHANGED practice, CreateTag PROVE ReleaseInv'
<1>1. /\ pc = "create" /\ tags' = [tags EXCEPT ![opts.ver] = history]
      /\ waived' = IF opts.dirty THEN waived \cup {opts.ver} ELSE waived
      /\ UNCHANGED <<history, branch, vfile, pyproject, changelog, rtags, origin, strayed, used>>
      /\ \/ pc' = "push" /\ opts' = opts
         \/ pc' = "idle" /\ opts' = NoOpts
  BY DEF CreateTag, tree, End, checkout, remote
<1>2. opts.ver \in Version /\ opts.ver = vfile /\ Readable
  BY <1>1 DEF ReleaseInv, TypeOK, Checked
<1>3. \A v \in Version : tags'[v] = IF v = vfile THEN history ELSE tags[v]
  BY <1>1, <1>2 DEF ReleaseInv, TypeOK
<1>4. TypeOK'
  <2>1. tags' \in [Version -> Seq(Commit)]
    BY <1>1, <1>2 DEF ReleaseInv, TypeOK
  <2>2. opts' \in [force : BOOLEAN, dirty : BOOLEAN, push : BOOLEAN, ver : Version]
    BY <1>1, VersionType, OptionsType DEF ReleaseInv, TypeOK, NoOpts
  <2>3. waived' \subseteq Version /\ pc' \in {"idle", "push"}
    BY <1>1, <1>2 DEF ReleaseInv, TypeOK
  <2>4. UNCHANGED <<history, branch, vfile, pyproject, changelog, rtags, origin, strayed, used, practice>>
    BY <1>1
  <2> QED BY <2>1, <2>2, <2>3, <2>4 DEF ReleaseInv, TypeOK
<1>5. TagsOnBranch' /\ TagsOnMain' /\ TagsAscend'
  BY <1>1, RemoteKept
<1>6. TagMatches'
  <2> SUFFICES ASSUME NEW v \in Version \ waived', NEW t \in {tags'[v], rtags[v]}, t # None
               PROVE  Last(t).version = v /\ Last(t).pyproject = v
    BY <1>1 DEF TagMatches
  <2>1. CASE t \in {tags[v], rtags[v]}
    BY <1>1, <2>1 DEF ReleaseInv, TagMatches
  <2>2. CASE t = history /\ v = vfile
    <3>1. vfile \notin waived /\ ~opts.dirty
      BY <1>1, <1>2, <2>2
    <3>2. ~Dirty
      BY <1>1, <3>1 DEF ReleaseInv, Checked
    <3>3. HeadCommit.version = vfile /\ HeadCommit.pyproject = vfile
      BY <1>2, <3>2 DEF Dirty, tree, Readable
    <3> QED BY <2>2, <3>3 DEF HeadCommit
  <2> QED BY <1>3, <2>1, <2>2
<1>7. Dirty' = Dirty
  BY <1>1 DEF Dirty, HeadCommit, tree
<1>8. Checked'
  BY <1>1 DEF Checked
<1>9. Piped'
  <2> SUFFICES ASSUME practice # "by hand"
               PROVE  /\ waived' = {} /\ branch' = "main" /\ IsPrefix(origin'["main"], history')
                      /\ pc' # "idle" => Released'
    BY <1>1 DEF Piped
  <2>1. waived = {} /\ branch = "main" /\ IsPrefix(origin["main"], history) /\ Released
    BY <1>1 DEF ReleaseInv, Piped
  <2>2. waived' = {}
    BY <1>1, <2>1 DEF Released
  <2>3. tags'[vfile] = history
    BY <1>2, <1>3
  <2>4. NewerThan(rtags', vfile')
    BY <1>1, <2>1 DEF Released, NewerThan
  <2>5. CASE pc' = "push" /\ opts' = opts
    BY <1>1, <1>2, <1>7, <2>1, <2>3, <2>4, <2>5 DEF Released
  <2> QED BY <1>1, <2>1, <2>2, <2>5
<1> QED BY <1>4, <1>5, <1>6, <1>8, <1>9 DEF ReleaseInv

(* A branch of origin that moves on keeps its tags; one that is forced      *)
(* back keeps them or leaves them behind.                                   *)
LEMMA BranchMoved ==
  ASSUME ReleaseInv, UNCHANGED <<rtags, practice>>, NEW b \in Branches,
         origin' = [origin EXCEPT ![b] = history],
         \A v \in Version \ strayed' : /\ v \notin strayed
                                       /\ rtags[v] # None /\ IsPrefix(rtags[v], origin[b])
                                            => IsPrefix(rtags[v], history)
  PROVE  TagsOnBranch'
<1>1. \A c \in Branches : origin'[c] = IF c = b THEN history ELSE origin[c]
  BY DEF ReleaseInv, TypeOK
<1> SUFFICES ASSUME NEW v \in Version \ strayed', rtags[v] # None
             PROVE  \E c \in Branches : IsPrefix(rtags[v], origin'[c])
  BY DEF TagsOnBranch
<1>2. PICK c \in Branches : IsPrefix(rtags[v], origin[c])
  BY DEF ReleaseInv, TagsOnBranch
<1>3. CASE c = b
  <2>1. IsPrefix(rtags[v], history)
    BY <1>2, <1>3
  <2> QED BY <1>1, <1>3, <2>1
<1>4. CASE c # b
  BY <1>1, <1>2, <1>4
<1> QED BY <1>3, <1>4

LEMMA PushBranchInv == ASSUME ReleaseInv, UNCHANGED practice, PushBranch PROVE ReleaseInv'
<1>1. /\ pc = "push" /\ pc' = "pushtag" /\ BranchMoves
      /\ origin' = [origin EXCEPT ![branch] = history]
      /\ strayed' = IF opts.force THEN strayed \cup LeftBehind ELSE strayed
      /\ opts' = [force |-> opts.force, dirty |-> opts.dirty, push |-> TRUE, ver |-> vfile]
      /\ UNCHANGED <<history, branch, vfile, pyproject, changelog, tags, rtags, used, waived>>
  BY DEF PushBranch, tree, checkout
<1>2. \A c \in Branches : origin'[c] = IF c = branch THEN history ELSE origin[c]
  BY <1>1 DEF ReleaseInv, TypeOK
<1>3. branch \in Branches /\ "main" \in Branches /\ history \in Seq(Commit)
  BY DEF ReleaseInv, TypeOK, Branches
<1>4. opts' \in [force : BOOLEAN, dirty : BOOLEAN, push : BOOLEAN, ver : Version]
      /\ opts'.dirty = opts.dirty /\ opts'.force = opts.force /\ opts'.ver = vfile
  BY <1>1, OptionsType DEF ReleaseInv, TypeOK
<1>5. TypeOK'
  <2>1. origin' \in [Branches -> Seq(Commit)]
    BY <1>1, <1>3 DEF ReleaseInv, TypeOK
  <2>2. Len(origin'["main"]) \in 1..MaxCommits[practice]
    BY <1>2, <1>3 DEF ReleaseInv, TypeOK
  <2>3. strayed' \subseteq Version
    BY <1>1 DEF LeftBehind, ReleaseInv, TypeOK
  <2> QED BY <1>1, <1>4, <2>1, <2>2, <2>3 DEF ReleaseInv, TypeOK
<1>6. TagsOnBranch'
  <2>1. ASSUME NEW v \in Version \ strayed'
        PROVE  /\ v \notin strayed
               /\ rtags[v] # None /\ IsPrefix(rtags[v], origin[branch]) => IsPrefix(rtags[v], history)
    <3>1. v \notin strayed
      BY <1>1, <2>1
    <3>2. CASE opts.force
      BY <1>1, <2>1, <3>1, <3>2 DEF LeftBehind
    <3>3. CASE ~opts.force
      <4>1. IsPrefix(origin[branch], history)
        BY <1>1, <3>3 DEF BranchMoves
      <4>2. rtags[v] \in Seq(Commit) /\ origin[branch] \in Seq(Commit)
        BY <1>3 DEF ReleaseInv, TypeOK
      <4> QED BY <1>3, <3>1, <4>1, <4>2, PrefixTransitive
    <3> QED BY <3>2, <3>3
  <2> QED BY <1>1, <1>3, <2>1, BranchMoved
<1>7. TagMatches'
  BY <1>1, TagsKept
<1>8. TagsOnMain' /\ TagsAscend'
  <2> SUFFICES ASSUME practice # "by hand" PROVE origin'["main"] = origin["main"]
    BY <1>1 DEF ReleaseInv, TagsOnMain, TagsAscend
  <2> QED BY <1>1, <1>2, <1>3 DEF ReleaseInv, Piped, Released
<1>9. Dirty' = Dirty
  BY <1>1 DEF Dirty, HeadCommit, tree
<1>10. Checked'
  BY <1>1, <1>2, <1>3 DEF Checked
<1>11. Piped'
  <2> SUFFICES ASSUME practice # "by hand"
               PROVE  /\ waived' = {} /\ branch' = "main" /\ IsPrefix(origin'["main"], history')
                      /\ Released'
    BY <1>1 DEF Piped
  <2>1. waived = {} /\ branch = "main" /\ IsPrefix(origin["main"], history) /\ Released
    BY <1>1 DEF ReleaseInv, Piped
  <2>2. origin'["main"] = origin["main"]
    BY <1>2, <1>3, <2>1 DEF Released
  <2>3. NewerThan(rtags', vfile')
    BY <1>1, <2>1 DEF Released, NewerThan
  <2>4. Released'
    BY <1>1, <1>4, <1>9, <2>1, <2>2, <2>3 DEF Released
  <2> QED BY <1>1, <2>1, <2>2, <2>4
<1> QED BY <1>5, <1>6, <1>7, <1>8, <1>10, <1>11 DEF ReleaseInv

(* The branch is on origin when the tag arrives there.                     *)
LEMMA PushTagInv == ASSUME ReleaseInv, UNCHANGED practice, PushTag PROVE ReleaseInv'
<1>1. /\ pc = "pushtag" /\ pc' = "idle" /\ opts' = NoOpts
      /\ rtags' = [rtags EXCEPT ![opts.ver] = tags[opts.ver]]
      /\ strayed' = IF IsPrefix(tags[opts.ver], history) THEN strayed \ {opts.ver}
                                                         ELSE strayed \cup {opts.ver}
      /\ UNCHANGED <<history, branch, vfile, pyproject, changelog, tags, origin, used, waived>>
  BY DEF PushTag, tree, End, checkout
<1>2. opts.ver \in Version /\ origin[branch] = history /\ branch \in Branches
  BY <1>1 DEF ReleaseInv, TypeOK, Checked
<1>3. \A v \in Version : rtags'[v] = IF v = opts.ver THEN tags[v] ELSE rtags[v]
  BY <1>1 DEF ReleaseInv, TypeOK
<1>4. TypeOK'
  <2>1. rtags' \in [Version -> Seq(Commit)]
    BY <1>1, <1>2 DEF ReleaseInv, TypeOK
  <2>2. opts' \in [force : BOOLEAN, dirty : BOOLEAN, push : BOOLEAN, ver : Version]
    BY <1>1, VersionType, OptionsType DEF NoOpts
  <2>3. strayed' \subseteq Version
    BY <1>1, <1>2 DEF ReleaseInv, TypeOK
  <2> QED BY <1>1, <2>1, <2>2, <2>3 DEF ReleaseInv, TypeOK
<1>5. TagsOnBranch'
  <2> SUFFICES ASSUME NEW v \in Version \ strayed', rtags'[v] # None
               PROVE  \E b \in Branches : IsPrefix(rtags'[v], origin[b])
    BY <1>1 DEF TagsOnBranch
  <2>1. CASE v = opts.ver
    <3>1. IsPrefix(rtags'[v], history)
      BY <1>1, <1>3, <2>1
    <3> QED BY <1>2, <3>1
  <2>2. CASE v # opts.ver
    <3>1. v \notin strayed /\ rtags'[v] = rtags[v]
      BY <1>1, <1>3, <2>2
    <3> QED BY <3>1 DEF ReleaseInv, TagsOnBranch
  <2> QED BY <2>1, <2>2
<1>6. TagMatches'
  <2> SUFFICES ASSUME NEW v \in Version \ waived, NEW t \in {tags[v], rtags'[v]}, t # None
               PROVE  Last(t).version = v /\ Last(t).pyproject = v
    BY <1>1 DEF TagMatches
  <2>1. t \in {tags[v], rtags[v]}
    BY <1>3
  <2> QED BY <2>1 DEF ReleaseInv, TagMatches
<1>7. Checked'
  BY <1>1 DEF Checked
<1>8. Piped'
  BY <1>1 DEF ReleaseInv, Piped
<1>9. ASSUME practice # "by hand"
      PROVE  /\ waived = {} /\ opts.ver = vfile /\ tags[vfile] = history /\ ~Dirty
             /\ rtags[vfile] = None /\ NewerThan(rtags, vfile) /\ origin["main"] = history
  BY <1>1, <1>9 DEF ReleaseInv, Piped, Released
<1>10. TagsOnMain'
  <2> SUFFICES ASSUME practice # "by hand", NEW v \in Version PROVE IsPrefix(rtags'[v], origin["main"])
    BY <1>1 DEF TagsOnMain
  <2>1. CASE v = opts.ver
    <3>1. rtags'[v] = history /\ origin["main"] = history
      BY <1>3, <1>9, <2>1
    <3> QED BY <3>1, Branch, PrefixOfItself DEF ReleaseInv
  <2>2. CASE v # opts.ver
    BY <1>3, <2>2 DEF ReleaseInv, TagsOnMain
  <2> QED BY <2>1, <2>2
<1>11. TagsAscend'
  <2> SUFFICES ASSUME practice # "by hand", NEW v \in Version, NEW w \in Version,
                      rtags'[v] # None, rtags'[w] # None, Less(v, w)
               PROVE  Len(rtags'[v]) < Len(rtags'[w])
    BY <1>1 DEF TagsAscend
  <2>1. v # opts.ver
    <3> SUFFICES ASSUME v = opts.ver PROVE FALSE
      OBVIOUS
    <3>1. w # opts.ver
      BY LessIsAsymmetric
    <3>2. Less(w, v)
      BY <3>1, <1>3, <1>9 DEF NewerThan
    <3> QED BY <3>2, LessIsAsymmetric
  <2>2. rtags'[v] = rtags[v]
    BY <1>3, <2>1
  <2>3. CASE w # opts.ver
    <3>1. rtags'[w] = rtags[w]
      BY <1>3, <2>3
    <3> QED BY <2>2, <3>1 DEF ReleaseInv, TagsAscend
  <2>4. CASE w = opts.ver
    <3>1. rtags'[w] = history /\ history \in Seq(Commit) /\ rtags[v] \in Seq(Commit)
          /\ IsPrefix(rtags[v], history)
      BY <1>3, <1>9, <2>4 DEF ReleaseInv, TypeOK, TagsOnMain
    <3>2. rtags[v] # history
      <4> SUFFICES ASSUME rtags[v] = history PROVE FALSE
        OBVIOUS
      <4>1. Last(rtags[v]).version = v
        BY <1>9, <2>2 DEF ReleaseInv, TagMatches
      <4>2. Last(history).version = vfile
        BY <1>9 DEF Dirty, HeadCommit, tree
      <4> QED BY <1>9, <2>1, <4>1, <4>2
    <3>3. Len(rtags[v]) < Len(history)
      BY <3>1, <3>2, ShorterPrefix
    <3> QED BY <2>2, <3>1, <3>3
  <2> QED BY <2>3, <2>4
<1> QED BY <1>4, <1>5, <1>6, <1>7, <1>8, <1>10, <1>11 DEF ReleaseInv

(* The developer, between commands.                                        *)
LEMMA DeveloperInv ==
  ASSUME ReleaseInv, UNCHANGED practice, AddSection \/ Restore PROVE ReleaseInv'
<1>1. /\ pc = "idle" /\ pc' = "idle" /\ opts' = opts /\ (ByHand \/ used' = used)
      /\ UNCHANGED <<history, branch, tags, rtags, origin, strayed, waived>>
      /\ vfile' \in {vfile, HeadCommit.version} /\ pyproject' \in {pyproject, HeadCommit.pyproject}
      /\ changelog' \in {changelog, changelog \cup {vfile}, HeadCommit.changelog}
  BY DEF AddSection, Restore, Idle, CheckedOut, checkout, remote
<1>2. TypeOK'
  <2>1. HeadCommit.version \in Version /\ HeadCommit.pyproject \in Version
        /\ HeadCommit.changelog \subseteq Version
    BY Branch DEF ReleaseInv, Commit
  <2>2. (used \in [fails : 0..MaxFails[practice], byhand : 0..MaxByHand])'
    BY <1>1, UsedType DEF ReleaseInv
  <2>3. vfile' \in Version /\ pyproject' \in Version /\ changelog' \subseteq Version
    BY <1>1, <2>1 DEF ReleaseInv, TypeOK
  <2> QED BY <1>1, <2>2, <2>3 DEF ReleaseInv, TypeOK
<1>3. TagMatches' /\ TagsOnBranch' /\ TagsOnMain' /\ TagsAscend'
  BY <1>1, RemoteKept, TagsKept
<1>4. Checked'
  BY <1>1 DEF Checked
<1>5. Piped'
  BY <1>1 DEF ReleaseInv, Piped
<1> QED BY <1>2, <1>3, <1>4, <1>5 DEF ReleaseInv

LEMMA LandInv == ASSUME ReleaseInv, UNCHANGED practice, Land PROVE ReleaseInv'
<1>1. /\ pc = "idle" /\ IsPrefix(origin["main"], history)
      /\ origin' = [origin EXCEPT !["main"] = history]
      /\ UNCHANGED <<history, branch, vfile, pyproject, changelog, tags, rtags, strayed, pc, opts,
                     used, waived>>
  BY DEF Land, Idle, IsStrictPrefix, tree, checkout
<1>2. history \in Seq(Commit) /\ "main" \in Branches /\ origin["main"] \in Seq(Commit)
      /\ \A v \in Version : rtags[v] \in Seq(Commit)
  BY DEF ReleaseInv, TypeOK, Branches
<1>3. origin'["main"] = history
  BY <1>1, <1>2 DEF ReleaseInv, TypeOK
<1>4. TypeOK'
  <2>1. origin' \in [Branches -> Seq(Commit)]
    BY <1>1, <1>2 DEF ReleaseInv, TypeOK
  <2> QED BY <1>1, <1>3, <2>1 DEF ReleaseInv, TypeOK
<1>5. \A v \in Version : IsPrefix(rtags[v], origin["main"]) => IsPrefix(rtags[v], history)
  BY <1>1, <1>2, PrefixTransitive
<1>6. TagsOnBranch'
  BY <1>1, <1>2, <1>5, BranchMoved
<1>7. TagsOnMain'
  BY <1>1, <1>3, <1>5 DEF ReleaseInv, TagsOnMain
<1>8. TagMatches'
  BY <1>1, TagsKept
<1>9. TagsAscend'
  BY <1>1 DEF ReleaseInv, TagsAscend
<1>10. Checked'
  BY <1>1 DEF Checked
<1>11. Piped'
  BY <1>1, <1>2, <1>3, PrefixOfItself DEF ReleaseInv, Piped
<1> QED BY <1>4, <1>6, <1>7, <1>8, <1>9, <1>10, <1>11 DEF ReleaseInv

(* Another branch, or main as it was.                                      *)
LEMMA CheckoutInv == ASSUME ReleaseInv, UNCHANGED practice, Checkout PROVE ReleaseInv'
<1>1. /\ pc = "idle" /\ practice = "by hand"
      /\ UNCHANGED <<tags, rtags, origin, strayed, pc, opts, used, waived>>
      /\ branch' \in Branches /\ CheckedOut(Last(history'))
  BY DEF Checkout, Idle, remote, Branches
<1>2. history' \in Seq(Commit) /\ Len(history') \in 1..MaxCommits[practice]
  <2>1. MaxCommits[practice] \in Nat
    BY ReleaseAssumption DEF ReleaseInv, TypeOK
  <2>2. CASE history' = history
    BY <2>2 DEF ReleaseInv, TypeOK
  <2>3. CASE \E n \in 1..Len(origin["main"]) : history' = SubSeq(origin["main"], 1, n)
    <3>1. PICK n \in 1..Len(origin["main"]) : history' = SubSeq(origin["main"], 1, n)
      BY <2>3
    <3>2. origin["main"] \in Seq(Commit) /\ Len(origin["main"]) \in 1..MaxCommits[practice]
      BY DEF ReleaseInv, TypeOK, Branches
    <3>3. n \in Int /\ n - 1 + 1 = n /\ n >= 1 /\ n <= MaxCommits[practice]
      BY <2>1, <3>2
    <3>4. \A i \in 1..n : origin["main"][i] \in Commit
      BY <3>2
    <3>5. history' \in Seq(Commit) /\ Len(history') = n
      BY <3>1, <3>3, <3>4, SubSeqProperties
    <3> QED BY <2>1, <3>3, <3>5
  <2> QED BY <2>2, <2>3 DEF Checkout
<1>3. Last(history') \in Commit
  <2>1. Len(history') \in 1..Len(history')
    BY <1>2
  <2> QED BY <1>2, <2>1 DEF Last
<1>4. vfile' \in Version /\ pyproject' \in Version /\ changelog' \subseteq Version
  BY <1>1, <1>3 DEF CheckedOut, Commit
<1>5. TypeOK'
  BY <1>1, <1>2, <1>4 DEF ReleaseInv, TypeOK
<1>6. TagMatches' /\ TagsOnBranch' /\ TagsOnMain' /\ TagsAscend'
  BY <1>1, RemoteKept, TagsKept
<1>7. Checked' /\ Piped'
  BY <1>1 DEF Checked, Piped
<1> QED BY <1>5, <1>6, <1>7 DEF ReleaseInv

LEMMA CommitInv ==
  ASSUME ReleaseInv, UNCHANGED practice, NEW kind \in Kinds[practice], CommitTree(kind) PROVE ReleaseInv'
<1> DEFINE c == [version |-> vfile, pyproject |-> pyproject, changelog |-> changelog, kind |-> kind]
<1>1. /\ pc = "idle" /\ history' = Append(history, c) /\ Len(history) < MaxCommits[practice] /\ ByHand
      /\ UNCHANGED <<branch, vfile, pyproject, changelog, tags, rtags, origin, strayed, pc, opts, waived>>
  BY DEF CommitTree, Idle, tree, remote
<1>2. c \in Commit
  BY ReleaseAssumption DEF ReleaseInv, TypeOK, Commit
<1>3. /\ history' \in Seq(Commit) /\ Len(history') = Len(history) + 1
      /\ \A i \in 1..Len(history) : history'[i] = history[i]
  BY <1>1, <1>2 DEF ReleaseInv, TypeOK
<1>4. MaxCommits[practice] \in Nat /\ Len(history) \in Nat /\ history \in Seq(Commit)
  BY ReleaseAssumption, Branch DEF ReleaseInv, TypeOK
<1>5. (used \in [fails : 0..MaxFails[practice], byhand : 0..MaxByHand])'
  BY <1>1, UsedType DEF ReleaseInv
<1>6. TypeOK'
  <2>1. Len(history') \in 1..MaxCommits[practice]
    BY <1>1, <1>3, <1>4
  <2> QED BY <1>1, <1>3, <1>5, <2>1 DEF ReleaseInv, TypeOK
<1>7. TagMatches' /\ TagsOnBranch' /\ TagsOnMain' /\ TagsAscend'
  BY <1>1, RemoteKept, TagsKept
<1>8. Checked'
  BY <1>1 DEF Checked
<1>9. IsPrefix(history, history')
  <2>1. Len(history) <= Len(history')
    BY <1>3, <1>4
  <2> QED BY <1>3, <1>4, <2>1, PrefixIsPointwise
<1>10. origin["main"] \in Seq(Commit)
  BY Branch DEF ReleaseInv
<1>11. IsPrefix(origin["main"], history) => IsPrefix(origin["main"], history')
  BY <1>3, <1>4, <1>9, <1>10, PrefixTransitive
<1>12. Piped'
  BY <1>1, <1>11 DEF ReleaseInv, Piped
<1> QED BY <1>6, <1>7, <1>8, <1>12 DEF ReleaseInv

LEMMA EditInv ==
  ASSUME ReleaseInv, UNCHANGED practice, NEW v \in Versions[practice], EditMeanwhile(v) PROVE ReleaseInv'
<1>1. /\ pc = "build" /\ practice = "by hand" /\ v \in Version
      /\ vfile' = v /\ pyproject' = v /\ waived' = waived \cup {v}
      /\ UNCHANGED <<history, branch, changelog, tags, rtags, origin, strayed, pc, opts, used>>
  BY VersionType DEF EditMeanwhile, ReleaseInv, TypeOK, checkout, remote
<1>2. TypeOK'
  BY <1>1 DEF ReleaseInv, TypeOK
<1>3. TagMatches' /\ TagsOnBranch' /\ TagsOnMain' /\ TagsAscend'
  BY <1>1, RemoteKept, TagsKept
<1>4. Checked' /\ Piped'
  BY <1>1 DEF Checked, Piped
<1> QED BY <1>2, <1>3, <1>4 DEF ReleaseInv

LEMMA ReleaseInductive == Spec => []ReleaseInv
<1>1. ReleaseInv /\ [Next]_vars => ReleaseInv'
  <2> SUFFICES ASSUME ReleaseInv, [Next]_vars PROVE ReleaseInv'
    OBVIOUS
  <2>1. CASE UNCHANGED vars
    <3>1. UNCHANGED <<history, branch, vfile, pyproject, changelog, tags, rtags, origin, strayed,
                      pc, opts, used, waived, practice>>
      BY <2>1 DEF vars, tree, checkout, remote
    <3>2. TypeOK'
      BY <3>1 DEF ReleaseInv, TypeOK
    <3>3. TagMatches' /\ TagsOnBranch' /\ TagsOnMain' /\ TagsAscend'
      BY <3>1, RemoteKept, TagsKept
    <3>4. Dirty' = Dirty /\ Readable' = Readable
      BY <3>1 DEF Dirty, HeadCommit, Readable, tree
    <3>5. Checked'
      BY <3>1, <3>4 DEF ReleaseInv, Checked
    <3>6. Piped'
      BY <3>1, <3>4 DEF ReleaseInv, Piped, Released, NewerThan
    <3> QED BY <3>2, <3>3, <3>5, <3>6 DEF ReleaseInv
  <2>2. CASE Step /\ UNCHANGED practice
    <3>1. CASE \E new, force : Bump(new, force)
      BY <2>2, <3>1, BumpInv
    <3>2. CASE \E force, dirty, push \in BOOLEAN :
                 Release(force, dirty, push) \/ TagCommand(force, dirty) \/ PushCommand(force)
      BY <2>2, <3>2, ByHandInv
    <3>3. CASE ReleaseIfReady \/ NothingPending
      BY <2>2, <3>3, PipelineInv
    <3>4. CASE WritePyproject \/ Fail \/ Raise
      BY <2>2, <3>4, EndInv
    <3>5. CASE Build \/ Tag \/ CreateTag \/ PushBranch \/ PushTag
      BY <2>2, <3>5, BuildInv, TagInv, CreateTagInv, PushBranchInv, PushTagInv
    <3>6. CASE AddSection \/ Restore \/ Land \/ Checkout
      BY <2>2, <3>6, DeveloperInv, LandInv, CheckoutInv
    <3>7. CASE \E kind \in Kinds[practice] : CommitTree(kind)
      BY <2>2, <3>7, CommitInv
    <3>8. CASE \E v \in Versions[practice] : EditMeanwhile(v)
      BY <2>2, <3>8, EditInv
    <3> QED BY <2>2, <3>1, <3>2, <3>3, <3>4, <3>5, <3>6, <3>7, <3>8 DEF Step, Command
  <2> QED BY <2>1, <2>2 DEF Next
<1> QED BY ReleaseInitInv, <1>1, PTL DEF Spec

-----------------------------------------------------------------------------
(* The state of a release keeps its types: what tags and branches name are  *)
(* commits, whatever is cloned, interrupted or forced.                      *)
THEOREM ReleaseTypeCorrect == Spec => []TypeOK
<1>1. ReleaseInv => TypeOK
  BY DEF ReleaseInv
<1> QED BY <1>1, ReleaseInductive, PTL

(* For any versions, kinds of commit and bounds: a tag names a commit whose *)
(* version files say its version, unless it was waived; a tag on origin is  *)
(* on a branch there, unless it strayed; and where only the pipeline        *)
(* releases that branch is main.                                            *)
THEOREM TagsAreTrue == Spec => []TagsHold
<1>1. ReleaseInv => TagsHold
  BY DEF ReleaseInv, TagsHold
<1> QED BY <1>1, ReleaseInductive, PTL

(* The pipeline's tags ascend along main, whatever versions are set.        *)
THEOREM PipelineAscends == Spec => []TagsAscend
<1>1. ReleaseInv => TagsAscend
  BY DEF ReleaseInv
<1> QED BY <1>1, ReleaseInductive, PTL

-----------------------------------------------------------------------------
(* Where versions only go up, a version that is on main and untagged is one *)
(* the pipeline releases.                                                   *)

\* No commit, and no checkout, goes back to a lower version.
Ascending ==
  /\ \A j \in 1..Len(history) : \A i \in 1..j : ~Less(history[j].version, history[i].version)
  /\ ~Less(vfile, HeadCommit.version)

UpOnly ==
  practice = "pipeline" => Ascending /\ MainCommit.version = MainCommit.pyproject

LEMMA LessIsTotal ==
  ASSUME NEW v \in Version, NEW w \in Version, v # w, ~Less(v, w) PROVE Less(w, v)
<1>1. v \in Nat \X Nat \X Nat /\ w \in Nat \X Nat \X Nat
  BY ReleaseAssumption DEF Version
<1>2. v[1] # w[1] \/ v[2] # w[2] \/ v[3] # w[3]
  BY <1>1
<1> QED BY <1>2, VersionType DEF Less

LEMMA NotLessIsTransitive ==
  ASSUME NEW u \in Version, NEW v \in Version, NEW w \in Version, ~Less(v, u), ~Less(w, v)
  PROVE  ~Less(w, u)
BY VersionType DEF Less

LEMMA NotLessIsReflexive == ASSUME NEW v \in Version PROVE ~Less(v, v)
BY VersionType DEF Less

LEMMA BumpRaises ==
  ASSUME NEW v \in Version, NEW part PROVE ~Less(BumpVersion(v, part), v)
<1>1. v[1] \in Nat /\ v[2] \in Nat /\ v[3] \in Nat
  BY VersionType
<1>2. BumpVersion(v, part) \in {<<v[1] + 1, 0, 0>>, <<v[1], v[2] + 1, 0>>, <<v[1], v[2], v[3] + 1>>}
  BY DEF BumpVersion
<1>3. CASE BumpVersion(v, part) = <<v[1] + 1, 0, 0>>
  BY <1>1, <1>3 DEF Less
<1>4. CASE BumpVersion(v, part) = <<v[1], v[2] + 1, 0>>
  BY <1>1, <1>4 DEF Less
<1>5. CASE BumpVersion(v, part) = <<v[1], v[2], v[3] + 1>>
  BY <1>1, <1>5 DEF Less
<1> QED BY <1>2, <1>3, <1>4, <1>5

(* Main, in practice "pipeline", is the first commits of the branch.       *)
LEMMA MainIsBefore ==
  ASSUME ReleaseInv, practice = "pipeline", NEW n, n = Len(origin["main"])
  PROVE  /\ n \in 1..Len(history) /\ MainCommit = history[n]
         /\ \A i \in 1..n : origin["main"][i] = history[i]
<1>1. IsPrefix(origin["main"], history) /\ n \in Nat \ {0} /\ Len(history) \in Nat
      /\ origin["main"] \in Seq(Commit) /\ history \in Seq(Commit)
  BY Branch DEF ReleaseInv, Piped
<1>2. n <= Len(history) /\ \A i \in 1..n : origin["main"][i] = history[i]
  BY <1>1, PrefixIsPointwise
<1>3. MainCommit = origin["main"][n] /\ n \in 1..n
  BY <1>1, Branch DEF ReleaseInv
<1> QED BY <1>1, <1>2, <1>3

(* Steps that leave the branch as it is: the checkout is raised by bump, or *)
(* goes back to the head; main moves to a head that agrees with itself.     *)
LEMMA SameBranch ==
  ASSUME ReleaseInv, UpOnly, UNCHANGED <<history, practice>>,
         \/ vfile' \in {vfile, HeadCommit.version}
         \/ vfile' \in Version /\ ~Less(vfile', vfile),
         \/ MainCommit' = MainCommit
         \/ MainCommit' = HeadCommit /\ HeadCommit.version = HeadCommit.pyproject
  PROVE  UpOnly'
<1> SUFFICES ASSUME practice = "pipeline" PROVE Ascending' /\ (MainCommit.version = MainCommit.pyproject)'
  BY DEF UpOnly
<1>1. HeadCommit' = HeadCommit /\ HeadCommit.version \in Version /\ vfile \in Version
  BY Branch DEF ReleaseInv, TypeOK, HeadCommit, Commit
<1>2. ~Less(vfile', HeadCommit.version)
  <2>1. ~Less(vfile, HeadCommit.version)
    BY DEF UpOnly, Ascending
  <2>2. CASE vfile' = vfile  BY <2>1, <2>2
  <2>3. CASE vfile' = HeadCommit.version  BY <1>1, <2>3, NotLessIsReflexive
  <2>4. CASE ~Less(vfile', vfile) /\ vfile' \in Version
    BY <1>1, <2>1, <2>4, NotLessIsTransitive
  <2> QED BY <2>2, <2>3, <2>4
<1>3. Ascending'
  BY <1>1, <1>2 DEF UpOnly, Ascending
<1>4. (MainCommit.version = MainCommit.pyproject)'
  BY DEF UpOnly
<1> QED BY <1>3, <1>4

LEMMA CloneAscends ==
  ASSUME ReleaseInv, UpOnly, UNCHANGED practice, ReleaseIfReady \/ NothingPending
  PROVE  UpOnly'
<1> SUFFICES ASSUME practice = "pipeline"
             PROVE  Ascending' /\ (MainCommit.version = MainCommit.pyproject)'
  BY DEF UpOnly
<1>1. Clone /\ UNCHANGED <<rtags, origin>>
  BY DEF ReleaseIfReady, NothingPending, remote
<1>2. PICK n : n = Len(origin["main"])
  OBVIOUS
<1>3. /\ n \in 1..Len(history) /\ MainCommit = history[n]
      /\ \A i \in 1..n : origin["main"][i] = history[i]
  BY <1>2, MainIsBefore
<1>4. history' = origin["main"] /\ Len(history') = n /\ HeadCommit' = MainCommit
      /\ vfile' = MainCommit.version
  BY <1>1, <1>2, CloneIsMain
<1>5. MainCommit' = MainCommit
  BY <1>1 DEF MainCommit
<1>6. ASSUME NEW j \in 1..n, NEW i \in 1..j
      PROVE  ~Less(history'[j].version, history'[i].version)
  <2>1. j \in 1..Len(history) /\ i \in 1..n
    <3>1. Len(history) \in Nat  BY Branch DEF ReleaseInv
    <3> QED BY <1>3, <3>1
  <2>2. ~Less(history[j].version, history[i].version)
    BY <2>1 DEF UpOnly, Ascending
  <2> QED BY <1>3, <1>4, <2>1, <2>2
<1>7. ~Less(vfile', HeadCommit'.version)
  <2>1. MainCommit.version \in Version
    BY Branch DEF ReleaseInv, Commit
  <2> QED BY <1>4, <2>1, NotLessIsReflexive
<1>8. Ascending'
  BY <1>4, <1>6, <1>7 DEF Ascending
<1> QED BY <1>5, <1>8 DEF UpOnly

LEMMA CommitAscends ==
  ASSUME ReleaseInv, UpOnly, UNCHANGED practice, NEW kind, CommitTree(kind)
  PROVE  UpOnly'
<1> SUFFICES ASSUME practice = "pipeline"
             PROVE  Ascending' /\ (MainCommit.version = MainCommit.pyproject)'
  BY DEF UpOnly
<1> DEFINE n == Len(history)
<1>1. /\ n \in Nat \ {0} /\ vfile \in Version
      /\ \A i \in 1..n : history[i].version \in Version
      /\ history \in Seq(Commit) /\ HeadCommit = history[n]
  BY Branch DEF ReleaseInv, TypeOK, Commit
<1>2. /\ Len(history') = n + 1 /\ \A i \in 1..n : history'[i] = history[i]
      /\ history'[n + 1].version = vfile
      /\ vfile' = vfile /\ origin' = origin
  BY <1>1 DEF CommitTree, tree, remote
<1>3. ASSUME NEW i \in 1..n PROVE ~Less(vfile, history[i].version)
  <2>1. n \in 1..n
    BY <1>1
  <2>2. ~Less(history[n].version, history[i].version) /\ ~Less(vfile, history[n].version)
    BY <1>1, <1>3, <2>1 DEF UpOnly, Ascending
  <2> QED BY <1>1, <1>3, <2>1, <2>2, NotLessIsTransitive
<1>4. ~Less(vfile, vfile)
  BY <1>1, NotLessIsReflexive
<1>5. ASSUME NEW j \in 1..(n + 1), NEW i \in 1..j
      PROVE  ~Less(history'[j].version, history'[i].version)
  <2>1. CASE j \in 1..n
    <3>1. i \in 1..n  BY <1>1, <2>1
    <3>2. ~Less(history[j].version, history[i].version)
      BY <2>1 DEF UpOnly, Ascending
    <3> QED BY <1>2, <2>1, <3>1, <3>2
  <2>2. CASE j = n + 1
    <3>1. i \in 1..n \/ i = n + 1  BY <1>1, <2>2
    <3> QED BY <1>2, <1>3, <1>4, <2>2, <3>1
  <2> QED BY <1>1, <2>1, <2>2
<1>6. Ascending'
  <2>1. HeadCommit'.version = vfile
    BY <1>2 DEF HeadCommit, Last
  <2> HIDE DEF n
  <2> QED BY <1>2, <1>4, <1>5, <2>1 DEF Ascending
<1>7. (MainCommit.version = MainCommit.pyproject)'
  BY <1>2 DEF UpOnly, MainCommit
<1> QED BY <1>6, <1>7

LEMMA UpOnlyInductive == Spec => [](ReleaseInv /\ UpOnly)
<1>1. Init => UpOnly
  <2> SUFFICES ASSUME Init PROVE Ascending /\ MainCommit.version = MainCommit.pyproject
    BY DEF UpOnly
  <2>1. Len(history) = 1 /\ history[1] = Root /\ vfile = Zero /\ origin["main"] = history
    BY DEF Init, Branches
  <2>2. ~Less(Zero, Zero)
    BY VersionType, NotLessIsReflexive
  <2>3. Root.version = Zero /\ Root.pyproject = Zero
    BY DEF Root
  <2>4. HeadCommit = Root /\ MainCommit = Root
    BY <2>1 DEF HeadCommit, MainCommit, Last
  <2>5. \A j \in 1..1 : \A i \in 1..j : history[j] = Root /\ history[i] = Root
    BY <2>1
  <2>6. Ascending
    BY <2>1, <2>2, <2>3, <2>4, <2>5 DEF Ascending
  <2> QED BY <2>3, <2>4, <2>6
<1>2. ReleaseInv /\ UpOnly /\ [Next]_vars => UpOnly'
  <2> SUFFICES ASSUME ReleaseInv, UpOnly, [Next]_vars PROVE UpOnly'
    OBVIOUS
  <2>0. practice' = practice
    BY DEF Next, vars
  <2>3. CASE practice # "pipeline"
    BY <2>0, <2>3 DEF UpOnly
  <2>1. CASE UNCHANGED vars
    <3>1. UNCHANGED <<history, practice, vfile, origin>>
      BY <2>1 DEF vars, tree, checkout, remote
    <3>2. MainCommit' = MainCommit
      BY <3>1 DEF MainCommit
    <3> QED BY <3>1, <3>2, SameBranch
  <2>2. CASE Step /\ UNCHANGED practice /\ practice = "pipeline"
    <3>1. ASSUME NEW part, NEW force, Bump(BumpVersion(vfile, part), force) PROVE UpOnly'
      <4>1. vfile' = BumpVersion(vfile, part) /\ vfile' \in Version
            /\ UNCHANGED <<history, origin>>
        BY <3>1, VersionType DEF Bump, ReleaseInv, TypeOK, checkout, remote
      <4>2. ~Less(vfile', vfile)
        BY <4>1, BumpRaises DEF ReleaseInv, TypeOK
      <4>3. MainCommit' = MainCommit
        BY <4>1 DEF MainCommit
      <4> QED BY <2>2, <4>1, <4>2, <4>3, SameBranch
    <3>2. CASE \E force, dirty, push \in BOOLEAN :
                 Release(force, dirty, push) \/ TagCommand(force, dirty) \/ PushCommand(force)
      BY <2>2, <3>2 DEF Release, TagCommand, PushCommand
    <3>3. CASE ReleaseIfReady \/ NothingPending
      BY <2>2, <3>3, CloneAscends
    <3>4. CASE WritePyproject \/ Fail \/ Raise \/ AddSection \/ Build \/ Tag \/ CreateTag \/ PushTag
      <4>1. UNCHANGED <<history, vfile, origin>>
        BY <3>4 DEF WritePyproject, Fail, Raise, AddSection, Build, Tag, CreateTag, PushTag,
                    tree, checkout, remote
      <4>2. MainCommit' = MainCommit
        BY <4>1 DEF MainCommit
      <4> QED BY <2>2, <4>1, <4>2, SameBranch
    <3>5. CASE PushBranch
      <4>1. UNCHANGED <<history, vfile>> /\ origin' = [origin EXCEPT ![branch] = history] /\ pc = "push"
        BY <3>5 DEF PushBranch, tree, checkout
      <4>2. origin["main"] = history /\ branch = "main" /\ "main" \in Branches
        BY <4>1, <2>2 DEF ReleaseInv, Piped, Released, Branches
      <4>3. origin'["main"] = origin["main"]
        BY <4>1, <4>2 DEF ReleaseInv, TypeOK
      <4>4. MainCommit' = MainCommit
        BY <4>3 DEF MainCommit
      <4> QED BY <2>2, <4>1, <4>4, SameBranch
    <3>6. CASE Restore
      <4>1. UNCHANGED <<history, origin>> /\ vfile' = HeadCommit.version
        BY <3>6 DEF Restore, CheckedOut, checkout, remote
      <4>2. MainCommit' = MainCommit
        BY <4>1 DEF MainCommit
      <4> QED BY <2>2, <4>1, <4>2, SameBranch
    <3>7. CASE Land
      <4>1. UNCHANGED <<history, vfile>> /\ origin' = [origin EXCEPT !["main"] = history]
            /\ ~Dirty /\ Readable
        BY <3>7 DEF Land, tree, checkout
      <4>2. HeadCommit.version = HeadCommit.pyproject
        BY <4>1 DEF Dirty, tree, Readable
      <4>3. origin'["main"] = history
        BY <4>1 DEF ReleaseInv, TypeOK, Branches
      <4>4. MainCommit' = HeadCommit
        BY <4>3 DEF MainCommit, HeadCommit
      <4> QED BY <2>2, <4>1, <4>2, <4>4, SameBranch
    <3>8. ASSUME NEW kind, CommitTree(kind) PROVE UpOnly'
      BY <2>2, <3>8, CommitAscends
    <3>9. CASE Checkout \/ \E v \in Versions[practice] : EditMeanwhile(v)
      BY <2>2, <3>9 DEF EditMeanwhile, Checkout
    <3> QED
      BY <2>2, <3>1, <3>2, <3>3, <3>4, <3>5, <3>6, <3>7, <3>8, <3>9 DEF Step, Command
  <2> QED BY <2>1, <2>2, <2>3 DEF Next
<1> QED BY ReleaseInductive, <1>1, <1>2, PTL DEF Spec

\* Nothing is pending only because main's version has its tag already.
PendingIsReady ==
  practice = "pipeline" /\ rtags[MainCommit.version] = None => Ready

(* The pipeline is never stuck by the order of versions: where bump major,  *)
(* minor and patch set them, release-if-ready passes over main for one      *)
(* reason alone, that its version is tagged (Repo.release_if_ready, whose   *)
(* guards also refuse a version that is not the newest, and files that      *)
(* disagree).  With versions set by hand it does not hold.                  *)
THEOREM PipelineNeverStuck == Spec => []PendingIsReady
<1>1. ASSUME ReleaseInv, UpOnly, practice = "pipeline", rtags[MainCommit.version] = None
      PROVE  Ready
  <2> DEFINE v == MainCommit.version
  <2>1. v \in Version /\ MainCommit.version = MainCommit.pyproject
    BY <1>1, Branch DEF ReleaseInv, Commit, UpOnly
  <2>2. PICK n : n = Len(origin["main"])
    OBVIOUS
  <2>3. /\ n \in 1..Len(history) /\ MainCommit = history[n]
        /\ \A i \in 1..n : origin["main"][i] = history[i]
    BY <1>1, <2>2, MainIsBefore
  <2>4. ASSUME NEW w \in Version, rtags[w] # None PROVE Less(w, v)
    <3>1. waived = {} /\ rtags[w] \in Seq(Commit) /\ origin["main"] \in Seq(Commit)
          /\ IsPrefix(rtags[w], origin["main"])
      BY <1>1, <2>4, Branch DEF ReleaseInv, TypeOK, Piped, TagsOnMain
    <3>2. PICK k : k = Len(rtags[w])
      OBVIOUS
    <3>3. k \in 1..k /\ Last(rtags[w]) = rtags[w][k]
      BY <2>4, <3>1, <3>2, NotNone
    <3>4. k <= n /\ rtags[w][k] = origin["main"][k]
      BY <2>2, <3>1, <3>2, <3>3, PrefixIsPointwise
    <3>5. k \in 1..n
      BY <2>3, <3>3, <3>4
    <3>6. history[k].version = w
      BY <1>1, <2>3, <2>4, <3>1, <3>3, <3>4, <3>5 DEF ReleaseInv, TagMatches
    <3>7. ~Less(v, w)
      BY <1>1, <2>3, <3>5, <3>6 DEF UpOnly, Ascending
    <3>8. v # w
      BY <1>1, <2>4
    <3> HIDE DEF v
    <3> QED BY <2>1, <2>4, <3>7, <3>8, LessIsTotal
  <2> QED BY <1>1, <2>1, <2>4 DEF Ready, NewerThan
<1>2. ReleaseInv /\ UpOnly => PendingIsReady
  BY <1>1 DEF PendingIsReady
<1> QED BY <1>2, UpOnlyInductive, PTL

=============================================================================
