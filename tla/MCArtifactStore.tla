--------------------------- MODULE MCArtifactStore ---------------------------
(***************************************************************************)
(* Small instances of ArtifactStore: reports and triage artifacts of one   *)
(* scope, bound by hosts that race to start a cumulative chain, to extend  *)
(* it, to retry, and to file what must be refused.                         *)
(***************************************************************************)
EXTENDS ArtifactStore, TLC

CONSTANTS h1, h2, h3, NULL

MCDigest == {"d1", "d2", "d3", "d4"}
MCKey == {"k1", "k2"}
MCProductRepo == {"p1", "p2"}

It(k) == [key |-> k, bad |-> FALSE]

(* d1 repeats an id, d2 has an item without one, d4 does not convert.      *)
MCDocument ==
  [d \in MCDigest |->
     CASE d = "d1" -> <<It("k1"), It("k2"), It("k1")>>
       [] d = "d2" -> <<It(NULL), It("k2")>>
       [] d = "d3" -> <<>>
       [] d = "d4" -> <<It("k1"), [key |-> "k2", bad |-> TRUE]>>]

MCRoles == [a \in {"report", "triage"} |->
              IF a = "report" THEN {"baseline", "cumulative"} ELSE {}]
MCRequired == [a \in {"report", "triage"} |-> {"subject", "run"}]
MCSchemaValid == [a \in {"report", "triage"} |-> MCDigest]

(* The digests d1 and d3 share the lock key of a truncated digest.         *)
MCLockKey == [d \in MCDigest |-> IF d = "d3" THEN "d1" ELSE d]

R(d, name, role, sup, pr, commit, refs) ==
  [digest |-> d, name |-> name, role |-> role, scope |-> "local",
   subject |-> "s", run |-> "r", layer |-> NULL, supersedes |-> sup,
   productRepo |-> pr, commit |-> commit, references |-> refs]

Root1 == R("d1", "report", "cumulative", NULL, "p1", "c1", {"x"})
Root2 == R("d2", "report", "cumulative", NULL, "p1", "c1", {})
Next2 == [Root2 EXCEPT !.supersedes = BindingId(Row(Root1))]
Next3 == [Next2 EXCEPT !.digest = "d3"]
Last3 == [Next3 EXCEPT !.supersedes = BindingId(Row(Next2))]

(* Two chain roots, two rival successors, a third link, a retry that adds  *)
(* a reference, and the same bytes with another commit.                    *)
ChainRequests ==
  {Root1, Root2, Next2, Next3, Last3,
   [Root1 EXCEPT !.references = {"y"}],
   [Root1 EXCEPT !.commit = "c2", !.references = {"z"}]}

(* Rival roots, two chains under two product_repos, a self-supersession, a *)
(* predecessor of another context, a document that does not convert, and   *)
(* requests that fail validation.                                          *)
MixedRequests ==
  {Root1, Root2,
   [Next2 EXCEPT !.productRepo = "p2"],
   [Root1 EXCEPT !.supersedes = BindingId(Row(Root1))],
   R("d1", "report", "baseline", NULL, "p2", "c1", {"x"}),
   R("d2", "report", "baseline", BindingId(Row(R("d1", "report", "baseline", NULL, "p2", "c1", {"x"}))), "p2", "c1", {}),
   R("d4", "triage", NULL, NULL, NULL, NULL, {}),
   R("d2", "triage", NULL, NULL, NULL, NULL, {}),
   R("d2", "triage", "baseline", NULL, NULL, NULL, {}),
   R("d2", "report", NULL, NULL, NULL, NULL, {""})}

HostSymmetry == Permutations(Host)
=============================================================================
