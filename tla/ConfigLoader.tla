----------------------------- MODULE ConfigLoader -----------------------------
(***************************************************************************)
(* The canonical configuration loader (config.py): resolve the one config   *)
(* home, then look for, read and validate every file of the manifest in     *)
(* order, for a whole context (load_context), for one section                *)
(* (load_section), for a path (config_path, optional_config_path), or for    *)
(* the completeness audit.  An operator installs, edits, breaks and removes  *)
(* files and changes $TRAUST_CONFIG_HOME between any two steps of a load.    *)
(*                                                                           *)
(* A file's content is what the loader and the audit tell apart: "absent",   *)
(* "broken" (it does not decode, parse, validate or type), "empty" (the      *)
(* values install seeds: no trees, no mappings, no active repository, no     *)
(* core location), "example" (the shipped placeholder) or "real".            *)
(***************************************************************************)
EXTENDS Naturals, Sequences, FiniteSets

CONSTANTS
    Homes,      \* directories that may be the config home
    Default,    \* ~/.traust/config
    NoHome,     \* no directory: an unset variable, no argument
    Edited,     \* files the operator edits; the others are real throughout
    Contents,   \* what the operator leaves in each of them
    MaxEdits    \* bound on the edits during a behaviour

ConfigFile(n, r, k) == [name |-> n, required |-> r, kind |-> k]

MANIFEST == <<
    ConfigFile("feeds.yaml", TRUE, "yaml"),
    ConfigFile("external-tools.yaml", TRUE, "yaml"),
    ConfigFile("model-registry.yaml", TRUE, "yaml"),
    ConfigFile("corpus-config.yaml", TRUE, "yaml"),
    ConfigFile("safe-exec-profiles.yaml", TRUE, "yaml"),
    ConfigFile("ledger-signing-key.pub", FALSE, "key"),
    ConfigFile("budget-policy.yaml", FALSE, "yaml"),
    ConfigFile("product-definitions-map.yaml", FALSE, "yaml"),
    ConfigFile("rule-pack-allowlist.yaml", FALSE, "yaml"),
    ConfigFile("internal-vocabulary.yaml", FALSE, "yaml"),
    ConfigFile("hardening-risk-weights.json", FALSE, "json"),
    ConfigFile("rpm-distgit-watch.yaml", FALSE, "yaml"),
    ConfigFile("locations.yaml", FALSE, "yaml"),
    ConfigFile("storage.yaml", FALSE, "yaml"),
    ConfigFile("ledger.yaml", FALSE, "yaml") >>

Names == {MANIFEST[i].name : i \in DOMAIN MANIFEST}

Content == {"absent", "broken", "empty", "example", "real"}

ASSUME ConfigAssumption ==
    /\ Default \in Homes
    /\ NoHome \notin Homes
    /\ Edited \subseteq Names
    /\ \A n \in Edited : "real" \in Contents[n] /\ Contents[n] \subseteq Content
    /\ MaxEdits \in Nat

VARIABLES
    dirs,      \* the homes that exist
    disk,      \* what each home holds of the edited files
    env,       \* $TRAUST_CONFIG_HOME
    load,      \* the load in progress
    result,    \* how the last load ended
    edits

vars == <<dirs, disk, env, load, result, edits>>

At(h, n) ==
    CASE h \notin dirs -> "absent"
      [] h \in dirs /\ n \in Edited -> disk[h][n]
      [] OTHER -> "real"

-----------------------------------------------------------------------------
(* Resolution.                                                             *)

\* The variable when set, whatever it names; else the default if it is there.
deployment_config_dir ==
    CASE env # NoHome -> env
      [] env = NoHome /\ Default \in dirs -> Default
      [] OTHER -> NoHome

Home(arg) == IF arg # NoHome THEN arg ELSE deployment_config_dir

\* What a section, a key or a context holds: the content and the home it was
\* read from.
Section(c, h) == [content |-> c, home |-> h]

None == Section("none", NoHome)

NoSections == [n \in Edited |-> None]

Idle == [op |-> "idle", home |-> NoHome, todo |-> <<>>, found |-> FALSE,
         got |-> NoSections, stable |-> TRUE, gone |-> {}]

\* The corpus registers no tree.
audit_errors(got) ==
    {n \in Edited \cap {"corpus-config.yaml"} : got[n].content = "empty"}

\* The files a warning is about, by rule: absent, unset or placeholder.
audit_warnings(got) ==
    {n \in Edited :
        \/ /\ n \in {"locations.yaml", "product-definitions-map.yaml",
                     "internal-vocabulary.yaml", "ledger-signing-key.pub"}
           /\ got[n] = None
        \/ /\ n \in {"locations.yaml", "product-definitions-map.yaml",
                     "rpm-distgit-watch.yaml"}
           /\ got[n].content = "empty"
        \/ /\ n \in {"product-definitions-map.yaml", "internal-vocabulary.yaml",
                     "budget-policy.yaml", "rule-pack-allowlist.yaml"}
           /\ got[n].content = "example"}

\* How a load ends: with a context or section, DeploymentConfigMissing about a
\* file, or another error from a file that cannot be read, parsed or validated.
Ended(kind, about) ==
    [op |-> load.op, home |-> load.home, kind |-> kind, about |-> about,
     got |-> load.got, stable |-> load.stable, gone |-> load.gone,
     says |-> IF load.op = "audit" /\ kind = "loaded"
              THEN audit_errors(load.got) \cup audit_warnings(load.got) ELSE {}]

NoResult == [op |-> "none", home |-> NoHome, kind |-> "none", about |-> "none",
             got |-> NoSections, stable |-> FALSE, gone |-> {}, says |-> {}]

Init ==
    /\ dirs \in SUBSET Homes
    /\ \E d \in {f \in [Edited -> Content] : \A n \in Edited : f[n] \in Contents[n]} :
          disk = [h \in Homes |-> IF h = Default THEN d ELSE [n \in Edited |-> "real"]]
    /\ env \in Homes \cup {NoHome}
    /\ load = Idle
    /\ result = NoResult
    /\ edits = 0

-----------------------------------------------------------------------------
(* A load.                                                                 *)

Begin(op, home, todo) ==
    [op |-> op, home |-> home, todo |-> todo, found |-> FALSE,
     got |-> NoSections, stable |-> TRUE,
     gone |-> {n \in Edited : home # NoHome /\ At(home, n) = "absent"}]

\* load_context, and the audit that begins with it.
LoadContext(op, arg) ==
    /\ load.op = "idle"
    /\ IF Home(arg) = NoHome
       THEN /\ result' = [NoResult EXCEPT !.op = op, !.kind = "missing", !.stable = TRUE]
            /\ UNCHANGED load
       ELSE /\ load' = Begin(op, Home(arg), MANIFEST)
            /\ result' = NoResult
    /\ UNCHANGED <<dirs, disk, env, edits>>

\* load_section: one entry of the manifest, required as the caller says.
LoadSection(i, required, arg) ==
    LET entry == ConfigFile(MANIFEST[i].name, required, MANIFEST[i].kind)
    IN  /\ load.op = "idle"
        /\ IF Home(arg) = NoHome
           THEN /\ result' = [NoResult EXCEPT !.op = "section",
                                !.kind = IF required THEN "missing" ELSE "loaded",
                                !.about = entry.name]
                /\ UNCHANGED load
           ELSE /\ load' = Begin("section", Home(arg), <<entry>>)
                /\ result' = NoResult
        /\ UNCHANGED <<dirs, disk, env, edits>>

\* config_path and optional_config_path: a path of the resolved home, if the
\* file is there; never the home an argument of load_context named.
ConfigPath(n, required) ==
    LET dep == deployment_config_dir
        there == dep # NoHome /\ At(dep, n) # "absent"
    IN  /\ load.op = "idle"
        /\ result' = [NoResult EXCEPT
                        !.op = "path", !.home = IF there THEN dep ELSE NoHome,
                        !.kind = IF required /\ ~there THEN "missing" ELSE "loaded",
                        !.about = n, !.stable = TRUE]
        /\ UNCHANGED <<dirs, disk, env, load, edits>>

\* The entry at the head of the manifest is done.
Advance(got) ==
    load' = [op |-> load.op, home |-> load.home, todo |-> Tail(load.todo),
             found |-> FALSE, got |-> got, stable |-> load.stable, gone |-> load.gone]

Keep(n, s) == [m \in Edited |-> IF m = n THEN s ELSE load.got[m]]

\* Mutant: a required file that is absent becomes None.
LookFor_Lenient ==
    /\ load.todo # <<>> /\ ~load.found
    /\ IF At(load.home, Head(load.todo).name) = "absent"
       THEN Advance(load.got)
       ELSE IF Head(load.todo).kind = "key"
            THEN Advance(Keep(Head(load.todo).name, Section("path", load.home)))
            ELSE load' = [load EXCEPT !.found = TRUE]
    /\ UNCHANGED <<dirs, disk, env, result, edits>>

\* _load_one, first half: is the file there?  A required one that is not ends
\* the load, an optional one is None, a key is its path and is not read.
LookFor ==
    /\ load.todo # <<>> /\ ~load.found
    /\ LET entry == Head(load.todo)
       IN  CASE At(load.home, entry.name) = "absent" /\ entry.required ->
                    /\ result' = Ended("missing", entry.name)
                    /\ load' = Idle
             [] At(load.home, entry.name) = "absent" /\ ~entry.required ->
                    /\ Advance(load.got)
                    /\ UNCHANGED result
             [] At(load.home, entry.name) # "absent" /\ entry.kind = "key" ->
                    /\ Advance(Keep(entry.name, Section("path", load.home)))
                    /\ UNCHANGED result
             [] OTHER ->
                    /\ load' = [load EXCEPT !.found = TRUE]
                    /\ UNCHANGED result
    /\ UNCHANGED <<dirs, disk, env, edits>>

\* Mutant: a file that does not parse counts as absent.
Read_Forgiving ==
    /\ load.todo # <<>> /\ load.found
    /\ LET n == Head(load.todo).name
       IN  Advance(IF At(load.home, n) \in {"absent", "broken"} THEN load.got
                   ELSE Keep(n, Section(At(load.home, n), load.home)))
    /\ UNCHANGED <<dirs, disk, env, result, edits>>
\* _load_one, second half: read, parse, validate, type.  Anything wrong, a
\* file removed since it was found included, raises another error.
Read ==
    /\ load.todo # <<>> /\ load.found
    /\ LET n == Head(load.todo).name
           c == At(load.home, n)
       IN  IF c \in {"absent", "broken"}
           THEN /\ result' = Ended("error", n)
                /\ load' = Idle
           ELSE /\ Advance(Keep(n, Section(c, load.home)))
                /\ UNCHANGED result
    /\ UNCHANGED <<dirs, disk, env, edits>>

Finish ==
    /\ load.op # "idle" /\ load.todo = <<>>
    /\ result' = Ended("loaded", "none")
    /\ load' = Idle
    /\ UNCHANGED <<dirs, disk, env, edits>>

-----------------------------------------------------------------------------
(* The operator and the shell.                                             *)

Edit(h, n, c) ==
    /\ edits < MaxEdits
    /\ h \in dirs
    /\ disk[h][n] # c
    /\ disk' = [disk EXCEPT ![h][n] = c]
    /\ load' = [load EXCEPT !.stable = @ /\ (load.op = "idle" \/ load.home # h),
                            !.gone = IF c = "absent" /\ load.home = h THEN @ \cup {n} ELSE @]
    /\ result' = NoResult
    /\ edits' = edits + 1
    /\ UNCHANGED <<dirs, env>>

\* install_traust makes the directory and seeds it.
Install(h) ==
    /\ edits < MaxEdits
    /\ h \notin dirs
    /\ dirs' = dirs \cup {h}
    /\ load' = [load EXCEPT !.stable = @ /\ (load.op = "idle" \/ load.home # h)]
    /\ result' = NoResult
    /\ edits' = edits + 1
    /\ UNCHANGED <<disk, env>>

SetEnv(h) ==
    /\ edits < MaxEdits
    /\ env # h
    /\ env' = h
    /\ result' = NoResult
    /\ edits' = edits + 1
    /\ UNCHANGED <<dirs, disk, load>>

Next ==
    \/ \E op \in {"context", "audit"}, arg \in Homes \cup {NoHome} : LoadContext(op, arg)
    \/ \E i \in DOMAIN MANIFEST, required \in BOOLEAN, arg \in Homes \cup {NoHome} :
          MANIFEST[i].name \in Edited /\ LoadSection(i, required, arg)
    \/ \E n \in Edited, required \in BOOLEAN : ConfigPath(n, required)
    \/ LookFor
    \/ Read
    \/ Finish
    \/ \E h \in Homes, n \in Edited : \E c \in Contents[n] : Edit(h, n, c)
    \/ \E h \in Homes : Install(h)
    \/ \E h \in Homes \cup {NoHome} : SetEnv(h)

Spec == Init /\ [][Next]_vars

-----------------------------------------------------------------------------
(* Properties.                                                             *)

Whole == result.op \in {"context", "audit"} /\ result.kind = "loaded"

\* "One variable, one answer": the sections of a context all come from its
\* config_home, whatever happens to the environment while they are read.
OneHome ==
    Whole => \A n \in Edited :
                result.got[n] # None => result.got[n].home = result.home

\* A context is never built on a hole: a required section is there, and it is
\* never a file that does not parse or validate.
NoRequiredHole ==
    Whole => \A i \in DOMAIN MANIFEST :
                MANIFEST[i].name \in Edited /\ MANIFEST[i].required =>
                    result.got[MANIFEST[i].name].content \in {"empty", "example", "real"}

\* An optional feature is off only because its file was absent at some moment
\* of the load (None disables signature verification), never because the file
\* could not be read.
NoneMeansAbsent ==
    Whole => \A n \in Edited : result.got[n] = None => n \in result.gone

\* A load that succeeds returns one home, whole, with files missing that were.
LoadIsWhole == OneHome /\ NoRequiredHole /\ NoneMeansAbsent

\* In a home nobody edits meanwhile, the outcome is a function of the files: a
\* context exactly when no required file is absent and no file is broken, and
\* otherwise the first offender of the manifest is the one named.
Offends(h, i) ==
    \/ At(h, MANIFEST[i].name) = "absent" /\ MANIFEST[i].required
    \/ At(h, MANIFEST[i].name) = "broken" /\ MANIFEST[i].kind # "key"

StableLoadIsExact ==
    result.op \in {"context", "audit"} /\ result.stable /\ result.home # NoHome =>
        LET bad == {i \in DOMAIN MANIFEST : Offends(result.home, i)}
        IN  IF bad = {}
            THEN /\ result.kind = "loaded"
                 /\ \A n \in Edited : (result.got[n] = None) <=> At(result.home, n) = "absent"
            ELSE LET first == CHOOSE i \in bad : \A j \in bad : i <= j
                 IN  /\ result.about = MANIFEST[first].name
                     /\ result.kind = IF At(result.home, result.about) = "absent"
                                      THEN "missing" ELSE "error"

\* An audit that has nothing to say is about a configured home: corpus trees
\* registered, locations set, the reviewed product map and vocabulary in
\* place, and no shipped placeholder in the budget or the rule packs.
SilenceMeansConfigured ==
    result.op = "audit" /\ result.kind = "loaded" /\ result.stable /\ result.says = {}
    => /\ \A n \in Edited \cap {"locations.yaml", "product-definitions-map.yaml"} :
              At(result.home, n) \in {"real", "example"}
       /\ \A n \in Edited \cap {"product-definitions-map.yaml", "internal-vocabulary.yaml",
                                "budget-policy.yaml", "rule-pack-allowlist.yaml"} :
              At(result.home, n) # "example"
       /\ \A n \in Edited \cap {"corpus-config.yaml"} :
              At(result.home, n) \in {"real", "example"}

\* What a load or an audit says of files nobody touches follows from them.
LoadIsExact == StableLoadIsExact /\ SilenceMeansConfigured
=============================================================================
