----------------------------- MODULE CurrentViews -----------------------------
(***************************************************************************)
(* The views that say which of several bindings to believe, over the        *)
(* one-step ingest of StoreAbs: by supersession (current_binding), by the   *)
(* clock of the host that bound it (bound_at), by rank, or per environment. *)
(* Hosts have clocks of their own, so bound_at follows neither the order of *)
(* the ingests nor that of the corrections; binding identities are digests, *)
(* so their order says nothing either.                                      *)
(***************************************************************************)
EXTENDS StoreAbs

CONSTANTS
  Clock,            \* values of bound_at
  IdRank,           \* binding identity -> its place in the order of the digests
  Declares,         \* corpus-registry digest -> subjects it declares
  DefaultProfiles,  \* sla-policy digest -> its profiles marked default
  Aware,            \* report digests with a disposition_summary
  Environment       \* validation digest -> metadata.target_environment or Nil

ASSUME ViewsAssumption ==
  /\ Clock \subseteq Nat
  /\ \A r \in Request : IdRank[BindingId(Row(r))] \in Nat
  /\ \A r, s \in Request :
       IdRank[BindingId(Row(r))] = IdRank[BindingId(Row(s))]
         => BindingId(Row(r)) = BindingId(Row(s))
  /\ "report" \in DOMAIN SchemaValid => "subject" \in Required["report"]

VARIABLE boundAt    \* binding identity -> bound_at

viewVars == <<absVars, boundAt>>

ViewsInit == AbsInit /\ boundAt = [i \in {} |-> 0]

(* Some host binds r and stamps the binding with its own clock.            *)
Ingest(r, t) ==
  /\ Bind(r)
  /\ boundAt' = [i \in DOMAIN boundAt \cup {BindingId(Row(r))} |->
                   IF i = BindingId(Row(r)) THEN t ELSE boundAt[i]]

ViewsNext == \E r \in Request, t \in Clock : Ingest(r, t)

ViewsSpec == ViewsInit /\ [][ViewsNext]_viewVars

-----------------------------------------------------------------------------
(* The views.                                                              *)

(* Mutant: the identity decides before the clock.                          *)
Newer_ById(a, b) == IdRank[BindingId(a)] > IdRank[BindingId(b)]

(* Most recently bound wins, binding_id breaking ties.                     *)
Newer(a, b) ==
  \/ boundAt[BindingId(a)] > boundAt[BindingId(b)]
  \/ /\ boundAt[BindingId(a)] = boundAt[BindingId(b)]
     /\ IdRank[BindingId(a)] > IdRank[BindingId(b)]

Named(rows, n) == {b \in rows : b.name = n}

Declaring(s) == {b \in Named(bindings, "corpus-registry") : s \in Declares[b.digest]}

(* The declarations of s that ownership_current keeps, in whatever scope.  *)
ownership_current(s) ==
  {b \in Declaring(s) : \A rival \in Declaring(s) : ~Newer(rival, b)}

SameSubject(a, b) == a.scope = b.scope /\ a.subject = b.subject

threat_current ==
  {b \in Named(bindings, "threat-model") :
     \A rival \in Named(bindings, "threat-model") :
       SameSubject(rival, b) => ~Newer(rival, b)}

(* Mutant: a disposition-aware report has no precedence.                   *)
Outranks_ByClock(a, b) == Newer(a, b)

(* A disposition-aware report comes before one that is not.                *)
Outranks(a, b) ==
  \/ a.digest \in Aware /\ b.digest \notin Aware
  \/ (a.digest \in Aware <=> b.digest \in Aware) /\ Newer(a, b)

report_current ==
  {b \in Named(Current(bindings), "report") :
     /\ b.subject # Nil
     /\ \A rival \in Named(Current(bindings), "report") :
          SameSubject(rival, b) => ~Outranks(rival, b)}

(* The environment a validation ran against, or its run when it names none. *)
Target(b) ==
  IF Environment[b.digest] # Nil THEN Environment[b.digest] ELSE b.run

SameTarget(a, b) == SameSubject(a, b) /\ Target(a) = Target(b)

validation_current ==
  {b \in Named(bindings, "validation") :
     \A rival \in Named(bindings, "validation") :
       SameTarget(rival, b) => ~Newer(rival, b)}

(* The (scope, policy, default profile) rows of sla_clock.                 *)
sla_clock ==
  UNION {{<<b.scope, BindingId(b), p>> : p \in DefaultProfiles[b.digest]} :
           b \in Named(Current(bindings), "sla-policy")}

-----------------------------------------------------------------------------
(* Properties.                                                             *)

One(S) == Cardinality(S) = 1

(* A declared subject has one owner, however often, in however many scopes *)
(* and at whatever clock readings the population was imported: a finding   *)
(* joined to it is counted once.                                           *)
OneOwner ==
  \A s \in UNION {Declares[b.digest] : b \in Named(bindings, "corpus-registry")} :
    One(ownership_current(s))

(* A modelled subject has one current threat model in its scope.           *)
OneModel ==
  \A b \in Named(bindings, "threat-model") :
    One({c \in threat_current : c.scope = b.scope /\ c.subject = b.subject})

(* Of the reports of a subject that are current, exactly one is counted,   *)
(* and it is disposition-aware when one of them is.                        *)
OneReport ==
  \A b \in Named(Current(bindings), "report") :
    LET chosen == {c \in report_current : c.scope = b.scope /\ c.subject = b.subject}
    IN  /\ One(chosen)
        /\ b.digest \in Aware => \A c \in chosen : c.digest \in Aware

(* Runs against two environments, or runs that name none, never hide each  *)
(* other: every (subject, environment or run) keeps exactly one outcome.   *)
EveryEnvironmentSpeaks ==
  \A b \in Named(bindings, "validation") :
    One({c \in validation_current : c.scope = b.scope /\ c.subject = b.subject
                                      /\ Target(c) = Target(b)})

(* What a correction replaces is never believed again, about a subject     *)
(* whose threat model it replaces or whose owner it still declares, as long *)
(* as the clocks of the hosts agree with the order of the corrections.      *)
OnTime ==
  \A b \in bindings : b.supersedes # Nil => boundAt[b.supersedes] < boundAt[BindingId(b)]

CorrectionsWin ==
  OnTime =>
    /\ threat_current \subseteq Current(bindings)
    /\ \A b \in Named(bindings, "corpus-registry") :
         \A s \in Declares[b.digest] :
           b.supersedes # Nil => \A c \in ownership_current(s) : BindingId(c) # b.supersedes

(* A scope whose policies all correct one first policy has the SLA clocks   *)
(* of one policy: that of its default profile, or of each when it marks    *)
(* several.                                                                *)
OneClock ==
  \A a, b \in sla_clock :
    a[1] = b[1] /\ One({c \in Named(bindings, "sla-policy") : c.scope = a[1] /\ c.supersedes = Nil})
      => a[2] = b[2]

(* No subject, environment or scope is counted twice, or lost, by a join    *)
(* with the views that pick its current row.                                *)
CurrentIsOne == OneOwner /\ OneModel /\ OneReport /\ EveryEnvironmentSpeaks /\ OneClock
=============================================================================
