---------------------------- MODULE MCScopeAccess ----------------------------
(***************************************************************************)
(* Two trees, and declarations that disagree in every field the code reads:*)
(* two business units, a harness-qa tree, an absent and an empty scope_id,  *)
(* an ownership tag that does not load.  The slugs collide on purpose: tree *)
(* "probes" and unit "Platform" have one slug, and a unit slugs to "".      *)
(***************************************************************************)
EXTENDS ScopeAccess

Meta(o, u, s) == [ownership |-> o, business_unit |-> u, scope_id |-> s]

MCTrees == {"findings", "probes"}

MCScopes == {"local", "platform", "other", ""}

\* The last one has what the store refuses: an empty scope_id, or an empty slug.
MCMetas == {Meta("owned", "Platform", "other"),
            Meta("external-bu", "Other", "none"),
            Meta("harness-qa", "Platform", "platform"),
            Meta("upstream", "--", "")}

MCSlug == [n \in MCTrees \cup {"Platform", "Other", "--"} |->
              CASE n \in {"probes", "Platform"} -> "platform"
                [] n = "--" -> ""
                [] OTHER -> "other"]

\* One mode the validator refuses.
MCModes == SCOPE_MODES \cup {"per-user"}
=============================================================================
