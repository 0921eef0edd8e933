------------------------------- MODULE MCViews -------------------------------
(***************************************************************************)
(* The views over one database: registries and threat models (population),*)
(* reports and validations (evidence) or SLA policies of two scopes, bound,*)
(* corrected, restated and re-run in every order under every reading of   *)
(* three clocks; and one finding: every history of it, with enough        *)
(* reports and events for it to be resolved, to come back and to be       *)
(* resolved again, and every change of the limit it is judged by.         *)
(***************************************************************************)
EXTENDS CurrentViews, FindingTimeline

VARIABLE question

MCArtifacts == {"corpus-registry", "threat-model", "report", "validation", "sla-policy"}
MCDigest == {"d1", "d2", "d3", "d4", "d5"}
MCDocument == [d \in MCDigest |-> <<>>]
MCRoles == [a \in MCArtifacts |-> IF a = "report" THEN {"baseline", "cumulative"} ELSE {}]
MCRequired == [a \in MCArtifacts |->
                 IF a \in {"corpus-registry", "sla-policy"} THEN {} ELSE {"subject", "run"}]
MCSchemaValid == [a \in MCArtifacts |-> MCDigest]

R(d, name, role, scope, subject, run, sup) ==
  [digest |-> d, name |-> name, role |-> role, scope |-> scope, subject |-> subject,
   run |-> run, layer |-> NULL, supersedes |-> sup, productRepo |-> NULL,
   commit |-> NULL, references |-> {}]
Id(r) == BindingId(Row(r))

(* A registry, its correction, and the same population in another scope.   *)
Registry1 == R("d1", "corpus-registry", NULL, "local", NULL, NULL, NULL)
Registry2 == R("d2", "corpus-registry", NULL, "local", NULL, NULL, Id(Registry1))
Registry3 == R("d3", "corpus-registry", NULL, "other", NULL, NULL, NULL)

(* A threat model, its correction, a re-modelled run, another scope.       *)
Threat1 == R("d1", "threat-model", NULL, "local", "s1", "r1", NULL)
Threat2 == R("d2", "threat-model", NULL, "local", "s1", "r1", Id(Threat1))
Threat3 == R("d3", "threat-model", NULL, "local", "s1", "r2", NULL)
Threat4 == R("d1", "threat-model", NULL, "other", "s1", "r1", NULL)

PopulationRequests == <<Registry2, Registry1, Registry3, Threat2, Threat1, Threat3, Threat4>>

(* A plain audit, its correction, and its disposition-aware restatement.   *)
Report1 == R("d1", "report", "baseline", "local", "s1", "r1", NULL)
Report2 == R("d2", "report", "baseline", "local", "s1", "r1", Id(Report1))
Report3 == R("d3", "report", "cumulative", "local", "s1", "r1", NULL)
Report4 == R("d3", "report", "baseline", "local", "s1", "r2", NULL)

(* Two runs against the hub, one against the spoke, one that does not say. *)
Validation1 == R("d1", "validation", NULL, "local", "s1", "r1", NULL)
Validation2 == R("d2", "validation", NULL, "local", "s1", "r2", NULL)
Validation3 == R("d3", "validation", NULL, "local", "s1", "r1", NULL)
Validation4 == R("d4", "validation", NULL, "local", "s1", "r2", NULL)

EvidenceRequests ==
  <<Report4, Report2, Report1, Report3, Validation2, Validation1, Validation3, Validation4>>

Policy1 == R("d1", "sla-policy", NULL, "local", NULL, NULL, NULL)
Policy2 == R("d2", "sla-policy", NULL, "local", NULL, NULL, NULL)
Policy3 == R("d3", "sla-policy", NULL, "local", NULL, NULL, Id(Policy1))

Policy4 == R("d2", "sla-policy", NULL, "local", NULL, NULL, Id(Policy1))
Policy5 == R("d4", "sla-policy", NULL, "local", NULL, NULL, Id(Policy3))

PolicyRequests == <<Policy1, Policy2, Policy3, Policy4, Policy5>>

AllRequests == PopulationRequests \o EvidenceRequests \o PolicyRequests
Elements(s) == {s[i] : i \in DOMAIN s}
MCRequests == Elements(AllRequests)
MCIdRank == [b \in {Id(r) : r \in MCRequests} |->
               CHOOSE i \in DOMAIN AllRequests : Id(AllRequests[i]) = b]

MCDeclares == [d \in MCDigest |-> IF d = "d1" THEN {"s1", "s2"} ELSE {"s1"}]
MCProfiles == [d \in MCDigest |-> IF d = "d4" THEN {"baseline", "strict"} ELSE {"baseline"}]
MCAware == {"d3"}
MCEnvironment ==
  [d \in MCDigest |-> CASE d \in {"d1", "d2"} -> "hub" [] d = "d3" -> "spoke" [] OTHER -> NULL]

-----------------------------------------------------------------------------
(* One finding: shown at two severities, or refuted, by two subjects.       *)
Shown(sev) == [severity |-> sev, validity |-> NULL]
Refuted == [severity |-> 1, validity |-> "false_positive"]

MCRows == {{}, {Shown(1)}, {Shown(2)}, {Refuted, Shown(2)}, {Refuted}}

MCPolicies ==
  {[clock_start |-> "audit_date", days |-> <<0, 1>>],
   [clock_start |-> "audit_date", days |-> <<1, NULL>>],
   [clock_start |-> NULL, days |-> <<0, 0>>]}

(* Every order of resolutions and regressions, or every change of what the  *)
(* counted reports say of the finding and of the limit it is judged by.      *)
HistoryReports == {[subject |-> "s1", date |-> d, rows |-> {Shown(1)}] : d \in Time}
HistoryEvents ==
  [at : Time, offset : Offsets, resolution : {"open", "resolved", "regression_introduced"},
   routed : {FALSE}]
LimitReports == [subject : Subjects, date : {0, 1, 3}, rows : MCRows]
LimitEvents ==
  [at : {0, 2}, offset : {0}, resolution : {"resolved"}, routed : {FALSE}]
    \cup [at : {2}, offset : {0}, resolution : {"open"}, routed : BOOLEAN]

HistoryNext ==
  \/ \E r \in HistoryReports : Cardinality(reports) < 2 /\ AddReport(r)
  \/ \E e \in HistoryEvents : AddEvent(e)

LimitNext ==
  \/ \E r \in LimitReports : AddReport(r)
  \/ \E e \in LimitEvents : events = {} /\ AddEvent(e)
  \/ \E p \in Policies : NewPolicy(p)

-----------------------------------------------------------------------------
(* A behaviour is about one of the questions; the rest stays as it was.     *)
Requests ==
  [population |-> Elements(PopulationRequests),
   evidence |-> Elements(EvidenceRequests),
   policies |-> Elements(PolicyRequests)]

Init == question \in DOMAIN Requests \cup {"history", "limit"} /\ ViewsInit /\ TimelineInit

Next ==
  /\ UNCHANGED question
  /\ \/ /\ question \in DOMAIN Requests
        /\ \E r \in Requests[question], t \in Clock : Ingest(r, t)
        /\ UNCHANGED timelineVars
     \/ /\ question = "history" /\ HistoryNext
        /\ UNCHANGED viewVars
     \/ /\ question = "limit" /\ LimitNext
        /\ UNCHANGED viewVars

Spec == Init /\ [][Next]_<<question, viewVars, timelineVars>>
=============================================================================
