---------------------------- MODULE RegistryAbs ----------------------------
(***************************************************************************)
(* What the product registry promises its callers: registering is one      *)
(* step, the first registration of a natural key decides its identifier,   *)
(* later ones only refresh descriptive attributes, and an identifier that  *)
(* was handed out is the stored one for ever.                              *)
(***************************************************************************)
EXTENDS Naturals

CONSTANTS Id,     \* identifiers (uuid4)
          Key,    \* natural keys: [table, first, second, text]
          Attr,   \* values of a row's descriptive columns
          Nil     \* NULL

Keyed == {"product", "repo", "product_repo"}
Table == Keyed \cup {"product_repo_version", "repo_owner"}

\* first and second are the identifiers a key starts with (product and repo of
\* a product_repo; the product_repo of a version or an owner), text the rest.
ASSUME KeyAssumption == \A k \in Key : k.table \in Table
ASSUME NilAssumption == Nil \notin Id

VARIABLES rows,   \* the registry tables: [key, id, attr]
          known   \* <<key, id>> that calls have returned

absVars == <<rows, known>>

-----------------------------------------------------------------------------
\* The foreign keys of a row with natural key k.
Parents(k) ==
    CASE k.table = "product_repo" -> {<<"product", k.first>>, <<"repo", k.second>>}
      [] k.table \in {"product_repo_version", "repo_owner"} -> {<<"product_repo", k.first>>}
      [] OTHER -> {}

ParentsIn(k, rs) == \A p \in Parents(k) : \E r \in rs : r.key.table = p[1] /\ r.id = p[2]

At(k, rs) == {r \in rs : r.key = k}

\* ON CONFLICT DO UPDATE sets the descriptive columns and nothing else; repo
\* has none, its upsert is DO NOTHING.
Refreshed(r, a) == [key |-> r.key, id |-> r.id,
                    attr |-> IF r.key.table = "repo" THEN r.attr ELSE a]

\* What the read-back of a call returns: nothing for a version or an owner.
Answer(r) == IF r.key.table \in Keyed THEN {<<r.key, r.id>>} ELSE {}

-----------------------------------------------------------------------------
AbsInit == rows = {} /\ known = {}

\* The natural key is new: a row with an identifier no other row has.
Insert(k, i, a) ==
    LET r == [key |-> k, id |-> i, attr |-> a]
    IN  /\ At(k, rows) = {}
        /\ IF k.table \in Keyed THEN i \in Id /\ \A s \in rows : s.id # i ELSE i = Nil
        /\ ParentsIn(k, rows)
        /\ rows' = rows \cup {r}
        /\ known' \in {known, known \cup Answer(r)}

\* It is registered: its attributes are refreshed, its identifier answered.
Refresh(r, a) ==
    /\ r \in rows
    /\ rows' = (rows \ {r}) \cup {Refreshed(r, a)}
    /\ known' \in {known, known \cup Answer(r)}

Find(r) ==
    /\ r \in rows
    /\ known' = known \cup Answer(r)
    /\ UNCHANGED rows

AbsNext ==
    \/ \E k \in Key, i \in Id \cup {Nil}, a \in Attr : Insert(k, i, a)
    \/ \E r \in rows, a \in Attr : Refresh(r, a)
    \/ \E r \in rows : Find(r)

AbsSpec == AbsInit /\ [][AbsNext]_absVars
=============================================================================
