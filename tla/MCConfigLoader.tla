---------------------------- MODULE MCConfigLoader ----------------------------
(***************************************************************************)
(* A home under the default and one that the variable or an argument names. *)
(* Of the edited files one is required, one a key and two are optional, so  *)
(* that every branch of _load_one is taken, and the rules of the audit find *)
(* what they look for: an empty corpus, locations missing, a product map    *)
(* without mappings or with the shipped ones.                               *)
(***************************************************************************)
EXTENDS ConfigLoader

MCEdited == {"corpus-config.yaml", "ledger-signing-key.pub", "locations.yaml",
             "product-definitions-map.yaml"}

MCContents ==
    [n \in MCEdited |-> {"real"} \cup
        CASE n = "corpus-config.yaml" -> {"absent", "empty"}
          [] n = "ledger-signing-key.pub" -> {"absent"}
          [] n = "locations.yaml" -> {"absent", "broken"}
          [] OTHER -> {"empty", "example"}]
=============================================================================
