------------------------ MODULE MCStorageMigration ------------------------
(* The history of storage/v1 up to REVISION 6, as the table files and        *)
(* migrations/ of this repository have it, and hosts on packages along it.   *)
EXTENDS StorageMigration, TLC

CONSTANTS old, mid, new, other

NoVersion == "none"

MCTable == {"report", "verification", "threat", "report_finding", "portfolio_forge_facts"}
MCIntroduced == [t \in MCTable |-> IF t = "portfolio_forge_facts" THEN 2 ELSE 1]

MCColumn == {"report.review_surface_coverage", "verification.review_surface_coverage",
             "threat.review_surfaces", "report_finding.owasp_llm_references"}
MCOf == [c \in MCColumn |->
            CASE c = "report.review_surface_coverage" -> "report"
              [] c = "verification.review_surface_coverage" -> "verification"
              [] c = "threat.review_surfaces" -> "threat"
              [] c = "report_finding.owasp_llm_references" -> "report_finding"]
MCAdded == [c \in MCColumn |->
            CASE c = "report.review_surface_coverage" -> 3
              [] c = "report_finding.owasp_llm_references" -> 6
              [] OTHER -> 4]

MCView == {"current_finding", "current_finding_detail"}
MCSince == [v \in MCView |-> IF v = "current_finding" THEN 1 ELSE 5]

\* Three packages of contract v1, and one of another contract version.
MCHost == {old, mid, new, other}
MCPackage == (old :> 1) @@ (mid :> 4) @@ (new :> 6) @@ (other :> 6)
MCVersion == [h \in MCHost |-> IF h = other THEN "v2" ELSE "v1"]
=============================================================================
