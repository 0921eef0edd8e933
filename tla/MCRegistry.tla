---------------------------- MODULE MCRegistry ----------------------------
(* One product, one repo, one ref, one version: every caller competes for    *)
(* the same natural keys.  Identifiers in keys may be registered or not.     *)
EXTENDS Registry, TLC

\* A natural key of table t.
K(t, f, s, x) == [table |-> t, first |-> f, second |-> s, text |-> x]

Registered ==
    {K("product", Nil, Nil, "slug"), K("repo", Nil, Nil, "url")}
    \cup {K("product_repo", p, r, "") : p, r \in Id \cup {Stranger}}

WithVersions == Registered \cup
    {K("product_repo_version", q, Nil, "1.0") : q \in Id \cup {Stranger}}

Symmetry == Permutations(Id) \cup Permutations(Host) \cup Permutations(Attr)
=============================================================================
