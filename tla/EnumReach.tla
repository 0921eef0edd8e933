------------------------------- MODULE EnumReach -------------------------------
(***************************************************************************)
(* Which controlled vocabularies each schema validates, as reachable() of   *)
(* ci/enum_registry.py finds them: a depth-first walk over the schemas that *)
(* follows `$ref`, with a memo of finished nodes and the set of nodes being *)
(* walked.  The schemas (what _walk yields of each node, and where each     *)
(* `$ref` resolves) are chosen in ReachInit and never change.                    *)
(***************************************************************************)
EXTENDS Naturals, Sequences

CONSTANTS
  Node,       \* nodes some `$ref` or some file name resolves to
  Schemas,    \* the root nodes of the schema files, in the order they are loaded
  ValueSet,   \* the value sets of the sites
  Nil,        \* no `$ref`, or one that does not resolve
  Walks       \* the schemas considered: node -> the items _walk yields

(* An item: whether it is inside an `if`, the value sets of its enum (none  *)
(* or one) and the node its `$ref` resolves to.                            *)
Item == [in_if : BOOLEAN, values : SUBSET ValueSet, ref : Node \cup {Nil}]

ASSUME EnumReachAssumption ==
  /\ Nil \notin Node
  /\ Schemas \in Seq(Node)
  /\ \A w \in Walks : w \in [Node -> Seq(Item)]

VARIABLES
  walk,    \* the schemas
  known,   \* nodes with an entry in the memo
  memo,    \* the memo, of the known nodes
  stack,   \* the nodes collect() is called for, outermost first
  found,   \* each call's `found`; a node is on the stack at most once
  next,    \* the next item of each call's walk
  listed,  \* schema files collected so far
  reach    \* their results

reachVars == <<walk, known, memo, stack, found, next, listed, reach>>

Nothing == [n \in Node |-> {}]

ReachInit ==
  /\ walk \in Walks
  /\ known = {} /\ memo = Nothing
  /\ stack = <<>> /\ found = Nothing /\ next = [n \in Node |-> 1]
  /\ listed = 0 /\ reach = Nothing

-----------------------------------------------------------------------------
(* The walk.                                                               *)

Top == stack[Len(stack)]
OnStack(n) == \E i \in 1..Len(stack) : stack[i] = n
Walking == stack # <<>> /\ next[Top] <= Len(walk[Top])
item == walk[Top][next[Top]]

Advanced == [next EXCEPT ![Top] = @ + 1]

(* The next schema file, whose walk starts or is in the memo.              *)
NextSchema ==
  /\ stack = <<>> /\ listed < Len(Schemas)
  /\ LET root == Schemas[listed + 1] IN
       IF root \in known
         THEN /\ reach' = [reach EXCEPT ![root] = memo[root]]
              /\ listed' = listed + 1
              /\ UNCHANGED <<stack, found, next>>
         ELSE /\ stack' = <<root>>
              /\ found' = [found EXCEPT ![root] = {}]
              /\ next' = [next EXCEPT ![root] = 1]
              /\ UNCHANGED <<listed, reach>>
  /\ UNCHANGED <<walk, known, memo>>

(* The item is a condition over values defined elsewhere.                  *)
Conditional == item.in_if

Skip ==
  /\ Walking /\ Conditional
  /\ next' = Advanced
  /\ UNCHANGED <<walk, known, memo, stack, found, listed, reach>>

(* collect() descends into m: not in the memo, not being walked.           *)
Opens(m) == m # Nil /\ m \notin known /\ ~OnStack(m)

Remembered(m) == IF m \in known THEN memo[m] ELSE {}

(* A site, a reference answered from the memo, or one back into the stack. *)
Look ==
  /\ Walking /\ ~Conditional /\ ~Opens(item.ref)
  /\ found' = [found EXCEPT ![Top] = @ \cup item.values \cup Remembered(item.ref)]
  /\ next' = Advanced
  /\ UNCHANGED <<walk, known, memo, stack, listed, reach>>

(* A reference to a node that has not been walked.                         *)
Descend ==
  /\ Walking /\ ~Conditional /\ Opens(item.ref)
  /\ stack' = Append(stack, item.ref)
  /\ found' = [found EXCEPT ![Top] = @ \cup item.values, ![item.ref] = {}]
  /\ next' = [Advanced EXCEPT ![item.ref] = 1]
  /\ UNCHANGED <<walk, known, memo, listed, reach>>

Caller == stack[Len(stack) - 1]

(* Mutant: what the referenced node validates is lost.                     *)
Returned_Nothing == found

(* The caller adds what the call found.                                    *)
Returned == [found EXCEPT ![Caller] = @ \cup found[Top]]

(* The walk of a node is over: it is memoised and its caller resumes.      *)
CollectReturn ==
  /\ stack # <<>> /\ next[Top] > Len(walk[Top])
  /\ known' = known \cup {Top}
  /\ memo' = [memo EXCEPT ![Top] = found[Top]]
  /\ stack' = SubSeq(stack, 1, Len(stack) - 1)
  /\ IF Len(stack) = 1
       THEN /\ reach' = [reach EXCEPT ![Top] = found[Top]]
            /\ listed' = listed + 1
            /\ UNCHANGED found
       ELSE /\ found' = Returned
            /\ UNCHANGED <<listed, reach>>
  /\ UNCHANGED <<walk, next>>

ReachNext == NextSchema \/ Skip \/ Look \/ Descend \/ CollectReturn

ReachSpec == ReachInit /\ [][ReachNext]_reachVars

(* The schemas a vocabulary is used in.                                    *)
derived_used_in(values) ==
  {Schemas[i] : i \in {j \in 1..listed : values \in reach[Schemas[j]]}}

-----------------------------------------------------------------------------
(* The reference definition: what validating a node of the schemas w can   *)
(* reach.                                                                  *)

Items(w, n) == {w[n][i] : i \in 1..Len(w[n])}
Own(w, n) == UNION {x.values : x \in {y \in Items(w, n) : ~y.in_if}}
Refs(w, n) == {x.ref : x \in {y \in Items(w, n) : ~y.in_if}} \ {Nil}

Closed(w, S) == \A n \in S : Refs(w, n) \subseteq S
ReachFrom(w, n) ==
  {m \in Node : \A S \in SUBSET Node : n \in S /\ Closed(w, S) => m \in S}
Validates(w, n) == UNION {Own(w, m) : m \in ReachFrom(w, n)}

(* No reference from m to another node leads back to m; one to m itself,   *)
(* as a schema's own "$ref": "#", does not count.                          *)
OffCycle(w, m) == \A r \in Refs(w, m) \ {m} : m \notin ReachFrom(w, r)
AcyclicFrom(w, n) == \A m \in ReachFrom(w, n) : OffCycle(w, m)

-----------------------------------------------------------------------------
(* Properties.                                                             *)

ReachTypeOK ==
  /\ walk \in [Node -> Seq(Item)]
  /\ known \subseteq Node
  /\ memo \in [Node -> SUBSET ValueSet]
  /\ stack \in Seq(Node)
  /\ found \in [Node -> SUBSET ValueSet]
  /\ next \in [Node -> Nat \ {0}]
  /\ listed \in 0..Len(Schemas)
  /\ reach \in [Node -> SUBSET ValueSet]

(* collect() is never active twice for one node: the recursion ends        *)
(* whatever cycles the references form.                                    *)
NoReentry == \A i, j \in 1..Len(stack) : stack[i] = stack[j] => i = j

(* No schema is said to use a vocabulary it cannot reach, whatever was in  *)
(* the memo and in whatever order the files are loaded.                    *)
ReachIsSound ==
  \A i \in 1..listed : reach[Schemas[i]] \subseteq Validates(walk, Schemas[i])

(* A schema none of whose references lead into a cycle of two nodes or more *)
(* gets exactly the vocabularies it can reach, also when such cycles        *)
(* elsewhere fed the memo.                                                  *)
AcyclicIsExact ==
  \A i \in 1..listed :
    AcyclicFrom(walk, Schemas[i]) => reach[Schemas[i]] = Validates(walk, Schemas[i])
=============================================================================
