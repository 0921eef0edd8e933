---------------------------- MODULE ReadingProofs -----------------------------
(***************************************************************************)
(* Proofs about what is read back: the configuration a process loads, the   *)
(* views of the current state, the timeline of a finding, and a stored      *)
(* risk rating.                                                             *)
(***************************************************************************)
EXTENDS ConfigLoader, CurrentViews, FindingTimeline, RiskRating,
        SequenceTheorems, FiniteSetTheorems, TLAPS

-----------------------------------------------------------------------------
(***************************************************************************)
(* ConfigLoader. The inductive invariant says what a load in progress has   *)
(* got of the manifest and still has to read, and what may have gone since  *)
(* it looked.                                                               *)
(***************************************************************************)

Manifested == [name : Names, required : BOOLEAN, kind : {"yaml", "json", "key"}]
ReadContents == {"empty", "example", "real"}
SectionType == [content : Content \cup {"none", "path"}, home : Homes \cup {NoHome}]

LoadTyped ==
  /\ dirs \subseteq Homes
  /\ disk \in [Homes -> [Edited -> Content]]
  /\ env \in Homes \cup {NoHome}
  /\ load \in [op : {"idle", "context", "audit", "section"}, home : Homes \cup {NoHome},
               todo : Seq(Manifested), found : BOOLEAN, got : [Edited -> SectionType],
               stable : BOOLEAN, gone : SUBSET Edited]
  /\ load.op = "idle" <=> load.home = NoHome
  /\ load.op = "idle" => load.todo = <<>>

(* The entries of the manifest that the load in progress has behind it.      *)
Done == Len(MANIFEST) - Len(load.todo)

(* What a whole load in an untouched home has of an entry.                   *)
Expected(i) ==
  LET n == MANIFEST[i].name IN
  IF At(load.home, n) = "absent" THEN None
  ELSE Section(IF MANIFEST[i].kind = "key" THEN "path" ELSE At(load.home, n), load.home)

Loading == load.op \in {"context", "audit"}

(* A whole load goes through the manifest in order.                          *)
InOrder ==
  /\ Len(load.todo) \in 0..Len(MANIFEST)
  /\ \A j \in 1..Len(load.todo) : load.todo[j] = MANIFEST[Done + j]
  /\ load.found => load.todo # <<>> /\ Head(load.todo).kind # "key"
  /\ load.found /\ load.stable => At(load.home, Head(load.todo).name) # "absent"

(* What it has read so far comes from its home; what it has not is None, and *)
(* so is an optional file that was absent at some moment.                    *)
ReadSoFar ==
  /\ \A n \in Edited : load.got[n] # None => load.got[n].home = load.home
  /\ \A n \in Edited : At(load.home, n) = "absent" => n \in load.gone
  /\ \A i \in 1..Done : MANIFEST[i].name \in Edited =>
       /\ MANIFEST[i].required => load.got[MANIFEST[i].name].content \in ReadContents
       /\ load.got[MANIFEST[i].name] = None => MANIFEST[i].name \in load.gone
  /\ \A i \in (Done + 1)..Len(MANIFEST) : MANIFEST[i].name \in Edited =>
       load.got[MANIFEST[i].name] = None

(* In a home nobody touches, no entry behind the load offends.               *)
SoFarExact ==
  load.stable => \A i \in 1..Done :
    /\ ~Offends(load.home, i)
    /\ MANIFEST[i].name \in Edited => load.got[MANIFEST[i].name] = Expected(i)

LoadInv ==
  /\ LoadTyped
  /\ Loading => InOrder /\ ReadSoFar /\ SoFarExact
  /\ LoadIsWhole /\ LoadIsExact

-----------------------------------------------------------------------------
(* The manifest: fifteen entries of different names, the corpus required,    *)
(* and one key, which is not.                                                *)
LEMMA ManifestFacts ==
  /\ MANIFEST \in Seq(Manifested) /\ Len(MANIFEST) = 15 /\ DOMAIN MANIFEST = 1..15
  /\ \A i, j \in 1..15 : MANIFEST[i].name = MANIFEST[j].name => i = j
  /\ \A i \in 1..15 : MANIFEST[i].required => MANIFEST[i].kind # "key"
  /\ \A i \in 1..15 : MANIFEST[i].kind = "key" <=> MANIFEST[i].name = "ledger-signing-key.pub"
  /\ \A i \in 1..15 : MANIFEST[i].name = "corpus-config.yaml" => MANIFEST[i].required
<1>1. Len(MANIFEST) = 15 /\ DOMAIN MANIFEST = 1..15
  BY DEF MANIFEST
<1>2. \A i \in 1..15 : MANIFEST[i].name \in Names
  BY <1>1 DEF Names
<1>3. \A i \in 1..15 : MANIFEST[i] \in [name : Names, required : BOOLEAN, kind : {"yaml", "json", "key"}]
  <2>1. \A i \in 1..15 : MANIFEST[i] = ConfigFile(MANIFEST[i].name, MANIFEST[i].required, MANIFEST[i].kind)
    BY DEF MANIFEST, ConfigFile
  <2>2. \A i \in 1..15 : MANIFEST[i].required = TRUE \/ MANIFEST[i].required = FALSE
    BY DEF MANIFEST, ConfigFile
  <2>3. \A i \in 1..15 : MANIFEST[i].kind \in {"yaml", "json", "key"}
    BY DEF MANIFEST, ConfigFile
  <2>4. ASSUME NEW n \in Names, NEW q \in BOOLEAN, NEW k \in {"yaml", "json", "key"}
        PROVE  ConfigFile(n, q, k) \in [name : Names, required : BOOLEAN, kind : {"yaml", "json", "key"}]
    BY DEF ConfigFile
  <2>5. \A i \in 1..15 : MANIFEST[i].required \in BOOLEAN
    BY <2>2
  <2> TAKE i \in 1..15
  <2>6. ConfigFile(MANIFEST[i].name, MANIFEST[i].required, MANIFEST[i].kind)
          \in [name : Names, required : BOOLEAN, kind : {"yaml", "json", "key"}]
    BY <1>2, <2>3, <2>4, <2>5
  <2> QED BY <2>1, <2>6
<1>4. MANIFEST \in Seq(Manifested)
  <2>1. MANIFEST = [i \in 1..15 |-> MANIFEST[i]]
    BY DEF MANIFEST
  <2>2. MANIFEST \in [1..15 -> Manifested]
    BY <1>3, <2>1 DEF Manifested
  <2> QED BY <2>2, SeqDef
<1>5. \A i, j \in 1..15 : MANIFEST[i].name = MANIFEST[j].name => i = j
  BY DEF MANIFEST, ConfigFile
<1>6. \A i \in 1..15 : MANIFEST[i].required => MANIFEST[i].kind # "key"
  BY DEF MANIFEST, ConfigFile
<1>7. \A i \in 1..15 : MANIFEST[i].kind = "key" <=> MANIFEST[i].name = "ledger-signing-key.pub"
  BY DEF MANIFEST, ConfigFile
<1>8. \A i \in 1..15 : MANIFEST[i].name = "corpus-config.yaml" => MANIFEST[i].required
  BY DEF MANIFEST, ConfigFile
<1> QED BY <1>1, <1>4, <1>5, <1>6, <1>7, <1>8

LEMMA SectionFacts ==
  /\ \A c, h : Section(c, h).content = c /\ Section(c, h).home = h
  /\ \A h : Section("path", h) # None
  /\ \A c \in Content : \A h : Section(c, h) # None
  /\ \A c \in Content \cup {"path"}, h \in Homes : Section(c, h) \in SectionType
  /\ NoSections \in [Edited -> SectionType]
BY DEF Section, None, NoSections, Content, SectionType

LEMMA AtType ==
  ASSUME LoadTyped, NEW h \in Homes, NEW n PROVE At(h, n) \in Content
BY DEF LoadTyped, At, Content

LEMMA SmallNumbers ==
  /\ \A n \in 0..15 : n # 0 => n \in Nat \ {0} /\ n <= 15
  /\ \A n \in Nat \ {0} : n <= 15 => n \in 1..15 /\ 15 - n \in 0..14
  /\ \A n \in 0..14 : n + 1 \in 1..15 /\ n \in Nat
OBVIOUS

(* The next entry of a whole load.                                           *)
LEMMA NextEntry ==
  ASSUME LoadTyped, InOrder, load.todo # <<>>
  PROVE  /\ Done + 1 \in 1..15 /\ Head(load.todo) = MANIFEST[Done + 1]
         /\ Len(load.todo) \in 1..15 /\ Done = 15 - Len(load.todo) /\ Done \in Nat
         /\ Len(Tail(load.todo)) = Len(load.todo) - 1
         /\ \A j \in 1..Len(Tail(load.todo)) : Tail(load.todo)[j] = load.todo[j + 1]
         /\ Tail(load.todo) \in Seq(Manifested)
<1>1. load.todo \in Seq(Manifested) /\ Len(load.todo) \in Nat \ {0} /\ Len(load.todo) <= 15
  <2>1. load.todo \in Seq(Manifested) /\ Len(load.todo) \in 0..15
    BY ManifestFacts DEF LoadTyped, InOrder
  <2>2. Len(load.todo) # 0
    BY <2>1, EmptySeq
  <2> QED BY <2>1, <2>2, SmallNumbers
<1>2. Head(load.todo) = load.todo[1] /\ Done = 15 - Len(load.todo)
  BY <1>1, ManifestFacts DEF Done
<1>3. load.todo[1] = MANIFEST[Done + 1]
  BY <1>1 DEF InOrder
<1>4. Done \in 0..14 /\ Len(load.todo) \in 1..15
  BY <1>1, <1>2, SmallNumbers
<1>5. /\ Len(Tail(load.todo)) = Len(load.todo) - 1 /\ Tail(load.todo) \in Seq(Manifested)
      /\ \A j \in 1..Len(Tail(load.todo)) : Tail(load.todo)[j] = load.todo[j + 1]
  BY <1>1
<1>6. Done + 1 \in 1..15 /\ Done \in Nat
  BY <1>4, SmallNumbers
<1> QED BY <1>2, <1>3, <1>4, <1>5, <1>6

(* Results that are not of a whole load.                                     *)
LEMMA OtherResult ==
  ASSUME result'.op \notin {"context", "audit"} PROVE LoadIsWhole' /\ LoadIsExact'
BY DEF LoadIsWhole, LoadIsExact, OneHome, NoRequiredHole, NoneMeansAbsent, Whole,
       StableLoadIsExact, SilenceMeansConfigured

LEMMA SameResult ==
  ASSUME LoadIsWhole, LoadIsExact, UNCHANGED <<dirs, disk, result>> PROVE LoadIsWhole' /\ LoadIsExact'
<1>1. \A h, n : At(h, n)' = At(h, n)
  BY DEF At
<1>2. LoadIsWhole'
  BY DEF LoadIsWhole, OneHome, NoRequiredHole, NoneMeansAbsent, Whole
<1>3. SilenceMeansConfigured'
  BY <1>1 DEF LoadIsExact, SilenceMeansConfigured
<1>4. StableLoadIsExact'
  BY <1>1 DEF LoadIsExact, StableLoadIsExact, Offends
<1> QED BY <1>2, <1>3, <1>4 DEF LoadIsExact

-----------------------------------------------------------------------------
(* One entry further.                                                        *)
LEMMA AdvanceInv ==
  ASSUME LoadInv, load.todo # <<>>, NEW G \in [Edited -> SectionType], Advance(G),
         UNCHANGED <<dirs, disk, env, result>>,
         NEW n, n = Head(load.todo).name,
         \A m \in Edited : m # n => G[m] = load.got[m],
         Loading => /\ n \in Edited =>
                         /\ G[n] # None => G[n].home = load.home
                         /\ Head(load.todo).required => G[n].content \in ReadContents
                         /\ G[n] = None => n \in load.gone
                         /\ load.stable => G[n] = Expected(Done + 1)
                    /\ load.stable => ~Offends(load.home, Done + 1)
  PROVE  LoadInv'
<1>1. /\ load'.op = load.op /\ load'.home = load.home /\ load'.todo = Tail(load.todo)
      /\ load'.found = FALSE /\ load'.got = G /\ load'.stable = load.stable /\ load'.gone = load.gone
  BY DEF Advance
<1>2. LoadTyped'
  <2>1. Tail(load.todo) \in Seq(Manifested)
    BY DEF LoadInv, LoadTyped
  <2>2. load.op # "idle"
    BY DEF LoadInv, LoadTyped
  <2> QED BY <2>1, <2>2, <1>1 DEF LoadInv, LoadTyped, Advance
<1>3. LoadIsWhole' /\ LoadIsExact'
  BY SameResult DEF LoadInv
<1>4. ASSUME Loading PROVE InOrder' /\ ReadSoFar' /\ SoFarExact'
  <2>1. InOrder /\ ReadSoFar /\ SoFarExact /\ LoadTyped
    BY <1>4 DEF LoadInv
  <2> DEFINE d == Done
  <2>2. /\ d + 1 \in 1..15 /\ Head(load.todo) = MANIFEST[d + 1]
        /\ Len(load.todo) \in 1..15 /\ d = 15 - Len(load.todo) /\ d \in Nat
        /\ Len(Tail(load.todo)) = Len(load.todo) - 1
        /\ \A j \in 1..Len(Tail(load.todo)) : Tail(load.todo)[j] = load.todo[j + 1]
    BY <2>1, NextEntry
  <2>3. Done' = d + 1 /\ Len(MANIFEST) = 15
    <3>1. Len(MANIFEST) = 15
      BY ManifestFacts
    <3>2. Done' = Len(MANIFEST) - Len(Tail(load.todo))
      BY <1>1 DEF Done
    <3> QED BY <2>2, <3>1, <3>2
  <2>4. \A h, m : At(h, m)' = At(h, m)
    BY DEF At
  <2>5. \A i \in 1..15 : Expected(i)' = Expected(i) /\ Offends(load.home, i)' = Offends(load.home, i)
    <3>1. load'.home = load.home /\ load'.op = load.op
      BY <1>1
    <3>2. ASSUME NEW i \in 1..15
          PROVE  Expected(i)' = Expected(i) /\ Offends(load.home, i)' = Offends(load.home, i)
      BY <2>4, <3>1 DEF Expected, Offends
    <3> QED BY <3>2
  <2>7. n = MANIFEST[d + 1].name /\ d + 1 \in 1..15
    BY <2>2
  <2>6. \A i \in 1..15 : i # d + 1 => MANIFEST[i].name # n
    <3> DEFINE e == d + 1
    <3>1. n = MANIFEST[e].name /\ e \in 1..15
      BY <2>7
    <3> HIDE DEF e, d
    <3>2. \A i \in 1..15 : i # e => MANIFEST[i].name # n
      <4> TAKE i \in 1..15
      <4>1. MANIFEST[i].name = MANIFEST[e].name => i = e
        BY <3>1, ManifestFacts
      <4> QED BY <3>1, <4>1
    <3> QED BY <3>2 DEF e
  <2>8. InOrder'
    <3>1. \A j \in 1..Len(load.todo) : load.todo[j] = MANIFEST[d + j]
      BY <2>1 DEF InOrder
    <3>2. \A j \in 1..Len(Tail(load.todo)) : Tail(load.todo)[j] = MANIFEST[(d + 1) + j]
      <4> HIDE DEF d
      <4> TAKE j \in 1..Len(Tail(load.todo))
      <4>1. j + 1 \in 1..Len(load.todo) /\ d + (j + 1) = (d + 1) + j
        BY <2>2
      <4> QED BY <3>1, <2>2, <4>1
    <3>3. Len(Tail(load.todo)) \in 0..15
      BY <2>2
    <3> HIDE DEF d
    <3> QED BY <1>1, <2>3, <3>2, <3>3 DEF InOrder
  <2> HIDE DEF d
  <2>9. \A i \in 1..(d + 1) : i \in 1..15 /\ (i = d + 1 \/ i \in 1..d)
    BY <2>2
  <2>10. \A i \in (d + 2)..15 : i \in 1..15 /\ i \in (d + 1)..15 /\ i # d + 1
    BY <2>2
  <2>11. ReadSoFar'
    <3>1. \A m \in Edited : G[m] # None => G[m].home = load.home
      BY <2>1, <1>4 DEF ReadSoFar
    <3>2. \A m \in Edited : At(load.home, m)' = "absent" => m \in load.gone
      BY <2>1, <2>4, <1>1 DEF ReadSoFar
    <3>3. \A i \in 1..(d + 1) : MANIFEST[i].name \in Edited =>
             /\ MANIFEST[i].required => G[MANIFEST[i].name].content \in ReadContents
             /\ G[MANIFEST[i].name] = None => MANIFEST[i].name \in load.gone
      <4> TAKE i \in 1..(d + 1)
      <4>1. CASE i = d + 1
        BY <2>2, <2>7, <1>4, <4>1
      <4>2. CASE i \in 1..d
        <5>1. MANIFEST[i].name # n
          <6>1. i \in 1..15 /\ i # d + 1
            BY <4>2, <2>2
          <6> QED BY <6>1, <2>6
        <5> QED BY <4>2, <5>1, <2>1 DEF ReadSoFar, d
      <4> QED BY <2>9, <4>1, <4>2
    <3>4. \A i \in (d + 2)..15 : MANIFEST[i].name \in Edited => G[MANIFEST[i].name] = None
      BY <2>1, <2>3, <2>6, <2>10 DEF ReadSoFar, d
    <3>5. (Done + 1)' = d + 2
      BY <2>2, <2>3
    <3> QED BY <1>1, <2>3, <3>1, <3>2, <3>3, <3>4, <3>5 DEF ReadSoFar
  <2>12. SoFarExact'
    <3>1. load.stable => \A i \in 1..(d + 1) :
             /\ ~Offends(load.home, i)
             /\ MANIFEST[i].name \in Edited => G[MANIFEST[i].name] = Expected(i)
      BY <2>1, <2>2, <2>6, <2>7, <2>9, <1>4 DEF SoFarExact, d
    <3> QED BY <1>1, <2>3, <2>5, <2>9, <3>1 DEF SoFarExact
  <2> QED BY <2>8, <2>11, <2>12
<1> QED BY <1>1, <1>2, <1>3, <1>4 DEF LoadInv, Loading

-----------------------------------------------------------------------------
(* A load begins.                                                            *)
LEMMA HomeType ==
  ASSUME LoadTyped, NEW arg \in Homes \cup {NoHome} PROVE Home(arg) \in Homes \cup {NoHome}
BY ConfigAssumption DEF LoadTyped, Home, deployment_config_dir

LEMMA BeginTyped ==
  ASSUME LoadTyped, NEW op \in {"context", "audit", "section"}, NEW home \in Homes,
         NEW todo \in Seq(Manifested), load' = Begin(op, home, todo), UNCHANGED <<dirs, disk, env>>
  PROVE  LoadTyped'
<1>1. {n \in Edited : home # NoHome /\ At(home, n) = "absent"} \in SUBSET Edited
  OBVIOUS
<1> QED BY <1>1, SectionFacts, ConfigAssumption DEF LoadTyped, Begin

LEMMA ContextInv ==
  ASSUME LoadInv, NEW op \in {"context", "audit"}, NEW arg \in Homes \cup {NoHome},
         LoadContext(op, arg)
  PROVE  LoadInv'
<1>1. load.op = "idle" /\ UNCHANGED <<dirs, disk, env, edits>>
  BY DEF LoadContext
<1>2. CASE Home(arg) = NoHome
  <2>1. load' = load /\ result' = [NoResult EXCEPT !.op = op, !.kind = "missing", !.stable = TRUE]
    BY <1>2 DEF LoadContext
  <2>2. result'.kind = "missing" /\ result'.home = NoHome
    BY <2>1 DEF NoResult
  <2>3. LoadIsWhole' /\ LoadIsExact'
    BY <2>2 DEF LoadIsWhole, LoadIsExact, OneHome, NoRequiredHole, NoneMeansAbsent, Whole,
                StableLoadIsExact, SilenceMeansConfigured
  <2>4. LoadTyped' /\ ~Loading'
    BY <1>1, <2>1 DEF LoadInv, LoadTyped, Loading
  <2> QED BY <2>3, <2>4 DEF LoadInv
<1>3. CASE Home(arg) # NoHome
  <2>1. load' = Begin(op, Home(arg), MANIFEST) /\ result' = NoResult /\ Home(arg) \in Homes
    BY <1>3, HomeType DEF LoadContext, LoadInv
  <2>2. LoadTyped'
    BY <1>1, <2>1, BeginTyped, ManifestFacts DEF LoadInv
  <2>3. LoadIsWhole' /\ LoadIsExact'
    BY <2>1, OtherResult DEF NoResult
  <2>4. /\ load'.todo = MANIFEST /\ load'.found = FALSE /\ load'.got = NoSections
        /\ load'.home = Home(arg)
        /\ load'.gone = {n \in Edited : Home(arg) # NoHome /\ At(Home(arg), n) = "absent"}
    BY <2>1 DEF Begin
  <2>5. Done' = 0 /\ Len(MANIFEST) = 15
    BY <2>4, ManifestFacts DEF Done
  <2>6. InOrder'
    <3>1. \A j \in 1..15 : MANIFEST[j] = MANIFEST[0 + j]
      OBVIOUS
    <3> QED BY <2>4, <2>5, <3>1 DEF InOrder
  <2>7. ReadSoFar'
    <3>1. \A h, n : At(h, n)' = At(h, n)
      BY <1>1 DEF At
    <3>2. \A n \in Edited : NoSections[n] = None
      BY DEF NoSections
    <3>3. \A n \in Edited : At(load.home, n)' = "absent" => n \in load'.gone
      BY <2>4, <3>1, <1>3
    <3>4. \A n \in Names : n \in Edited => NoSections[n] = None
      BY <3>2
    <3> HIDE DEF MANIFEST
    <3> QED BY <2>4, <2>5, <3>2, <3>3 DEF ReadSoFar
  <2>8. SoFarExact'
    BY <2>5 DEF SoFarExact
  <2> QED BY <2>2, <2>3, <2>6, <2>7, <2>8 DEF LoadInv
<1> QED BY <1>2, <1>3

LEMMA SectionInv ==
  ASSUME LoadInv, NEW i \in DOMAIN MANIFEST, NEW required \in BOOLEAN,
         NEW arg \in Homes \cup {NoHome}, LoadSection(i, required, arg)
  PROVE  LoadInv'
<1> DEFINE entry == ConfigFile(MANIFEST[i].name, required, MANIFEST[i].kind)
<1>1. load.op = "idle" /\ UNCHANGED <<dirs, disk, env>>
  BY DEF LoadSection
<1>2. \/ /\ load' = load
         /\ result' = [NoResult EXCEPT !.op = "section",
                                       !.kind = IF required THEN "missing" ELSE "loaded",
                                       !.about = entry.name]
      \/ /\ Home(arg) \in Homes /\ load' = Begin("section", Home(arg), <<entry>>)
         /\ result' = NoResult
  BY HomeType DEF LoadSection, LoadInv
<1>3. result'.op \notin {"context", "audit"}
  <2>1. CASE result' = NoResult
    BY <2>1 DEF NoResult
  <2>2. CASE result' = [NoResult EXCEPT !.op = "section",
                                       !.kind = IF required THEN "missing" ELSE "loaded",
                                       !.about = entry.name]
    BY <2>2 DEF NoResult
  <2> QED BY <1>2, <2>1, <2>2
<1>4. entry \in Manifested
  <2>1. MANIFEST[i] \in Manifested
    BY ManifestFacts, ElementOfSeq
  <2> QED BY <2>1 DEF Manifested, ConfigFile
<1>5. <<entry>> \in Seq(Manifested)
  BY <1>4
<1>6. LoadTyped' /\ ~Loading'
  <2>1. CASE load' = load
    BY <1>1, <2>1 DEF LoadInv, LoadTyped, Loading
  <2>2. CASE Home(arg) \in Homes /\ load' = Begin("section", Home(arg), <<entry>>)
    <3>1. load'.op = "section"
      BY <2>2 DEF Begin
    <3> QED BY <1>1, <1>5, <2>2, <3>1, BeginTyped DEF LoadInv, Loading
  <2> QED BY <1>2, <2>1, <2>2
<1> QED BY <1>3, <1>6, OtherResult DEF LoadInv

LEMMA PathInv ==
  ASSUME LoadInv, NEW n \in Edited, NEW required \in BOOLEAN, ConfigPath(n, required)
  PROVE  LoadInv'
<1>1. load.op = "idle" /\ UNCHANGED <<dirs, disk, env, load>> /\ result'.op = "path"
  BY DEF ConfigPath, NoResult
<1>2. LoadTyped' /\ ~Loading'
  BY <1>1 DEF LoadInv, LoadTyped, Loading
<1> QED BY <1>1, <1>2, OtherResult DEF LoadInv

-----------------------------------------------------------------------------
(* A load ends.                                                              *)
LEMMA EndedFields ==
  ASSUME NEW kind, NEW about
  PROVE  LET r == Ended(kind, about) IN
         /\ r.op = load.op /\ r.home = load.home /\ r.kind = kind /\ r.about = about
         /\ r.got = load.got /\ r.stable = load.stable /\ r.gone = load.gone
         /\ load.op = "audit" /\ kind = "loaded" =>
               r.says = audit_errors(load.got) \cup audit_warnings(load.got)
BY DEF Ended

LEMMA IdleTyped ==
  ASSUME LoadTyped, load' = Idle, UNCHANGED <<dirs, disk, env>> PROVE LoadTyped' /\ ~Loading'
BY SectionFacts, ConfigAssumption DEF LoadTyped, Idle, Loading

(* The offender a whole load stops at is the first of the manifest.          *)
LEMMA StopsAtTheFirst ==
  ASSUME LoadInv, Loading, load.todo # <<>>,
         NEW kind \in {"missing", "error"}, result' = Ended(kind, Head(load.todo).name), load' = Idle,
         UNCHANGED <<dirs, disk, env>>,
         load.stable => /\ Offends(load.home, Done + 1)
                        /\ kind = IF At(load.home, Head(load.todo).name) = "absent" THEN "missing" ELSE "error"
  PROVE  LoadInv'
<1>1. LoadTyped /\ InOrder /\ SoFarExact
  BY DEF LoadInv
<1>2. Done + 1 \in 1..15 /\ Done \in Nat /\ Head(load.todo) = MANIFEST[Done + 1]
  BY <1>1, NextEntry
<1>3. /\ result'.op = load.op /\ result'.home = load.home /\ result'.kind = kind
      /\ result'.about = MANIFEST[Done + 1].name /\ result'.stable = load.stable
  BY <1>2, EndedFields
<1>4. \A h, m : At(h, m)' = At(h, m)
  BY DEF At
<1>5. LoadIsWhole' /\ SilenceMeansConfigured'
  BY <1>3 DEF LoadIsWhole, OneHome, NoRequiredHole, NoneMeansAbsent, Whole, SilenceMeansConfigured
<1>6. StableLoadIsExact'
  <2> DEFINE bad == {i \in DOMAIN MANIFEST : Offends(load.home, i)}
             first == CHOOSE i \in bad : \A j \in bad : i <= j
  <2> SUFFICES ASSUME load.stable PROVE StableLoadIsExact'
    BY <1>3 DEF StableLoadIsExact
  <2>1. Done + 1 \in bad /\ bad \subseteq 1..15
    BY <1>2, ManifestFacts
  <2>2. \A i \in bad : Done + 1 <= i
    BY <1>1, <1>2, <2>1 DEF SoFarExact
  <2>3. first = Done + 1
    <3> DEFINE d == Done + 1
    <3>1. d \in bad /\ \A i \in bad : d <= i /\ d \in Nat /\ bad \subseteq Nat
      BY <1>2, <2>1, <2>2
    <3> HIDE DEF d, bad
    <3>2. first \in bad /\ \A j \in bad : first <= j
      BY <3>1
    <3>3. first <= d /\ d <= first /\ first \in Nat
      BY <3>1, <3>2
    <3>4. first = d
      BY <3>1, <3>3
    <3> QED BY <3>4 DEF d
  <2>4. \A i : Offends(result.home, i)' = Offends(load.home, i)
    BY <1>3, <1>4 DEF Offends
  <2>5. At(result.home, result.about)' = At(load.home, Head(load.todo).name)
    BY <1>2, <1>3, <1>4
  <2>6. {i \in DOMAIN MANIFEST : Offends(result.home, i)}' = bad
    BY <2>4
  <2> HIDE DEF bad
  <2> QED BY <1>2, <1>3, <2>1, <2>3, <2>5, <2>6 DEF StableLoadIsExact
<1> QED BY <1>1, <1>5, <1>6, IdleTyped DEF LoadInv, LoadIsExact

LEMMA FinishInv == ASSUME LoadInv, Finish PROVE LoadInv'
<1>1. /\ load.op # "idle" /\ load.todo = <<>> /\ result' = Ended("loaded", "none") /\ load' = Idle
      /\ UNCHANGED <<dirs, disk, env>>
  BY DEF Finish
<1>2. LoadTyped' /\ ~Loading' /\ LoadTyped
  BY <1>1, IdleTyped DEF LoadInv
<1>3. CASE ~Loading
  <2>1. result'.op \notin {"context", "audit"}
    BY <1>1, <1>3, EndedFields DEF Loading
  <2> QED BY <1>2, <2>1, OtherResult DEF LoadInv
<1>4. CASE Loading
  <2>1. InOrder /\ ReadSoFar /\ SoFarExact
    BY <1>4 DEF LoadInv
  <2>2. Done = 15 /\ Len(MANIFEST) = 15 /\ DOMAIN MANIFEST = 1..15
    BY <1>1, ManifestFacts DEF Done
  <2>3. /\ result'.op = load.op /\ result'.home = load.home /\ result'.kind = "loaded"
        /\ result'.got = load.got /\ result'.stable = load.stable /\ result'.gone = load.gone
        /\ load.op = "audit" => result'.says = audit_errors(load.got) \cup audit_warnings(load.got)
    BY <1>1, EndedFields
  <2>4. \A n \in Edited : \E i \in 1..15 : MANIFEST[i].name = n
    BY <2>2, ConfigAssumption DEF Names
  <2>5. \A h, m : At(h, m)' = At(h, m)
    BY <1>1 DEF At
  <2>6. LoadIsWhole'
    <3>1. OneHome'
      BY <2>1, <2>3 DEF OneHome, Whole, ReadSoFar
    <3>2. NoRequiredHole'
      BY <2>1, <2>2, <2>3 DEF NoRequiredHole, ReadSoFar, ReadContents
    <3>3. NoneMeansAbsent'
      BY <2>1, <2>2, <2>3, <2>4 DEF NoneMeansAbsent, ReadSoFar
    <3> QED BY <3>1, <3>2, <3>3 DEF LoadIsWhole
  <2>7. load.home \in Homes
    BY <1>1, <1>2 DEF LoadTyped
  <2>8. ASSUME load.stable, NEW n \in Edited
        PROVE  \E i \in 1..15 : MANIFEST[i].name = n /\ ~Offends(load.home, i) /\ load.got[n] = Expected(i)
    <3>1. PICK i \in 1..15 : MANIFEST[i].name = n
      BY <2>4
    <3>2. ~Offends(load.home, i) /\ load.got[n] = Expected(i)
      BY <2>1, <2>2, <2>8, <3>1 DEF SoFarExact
    <3> QED BY <3>1, <3>2
  <2>9. StableLoadIsExact'
    <3> SUFFICES ASSUME load.stable PROVE StableLoadIsExact'
      BY <2>3 DEF StableLoadIsExact
    <3>1. \A i \in 1..15 : ~Offends(load.home, i)
      BY <2>1, <2>2 DEF SoFarExact
    <3>2. \A i \in DOMAIN MANIFEST : Offends(result.home, i)' = FALSE
      BY <2>2, <2>3, <2>5, <3>1 DEF Offends
    <3>3. {i \in DOMAIN MANIFEST : Offends(result.home, i)}' = {}
      BY <3>2
    <3>4. \A n \in Edited : (load.got[n] = None) <=> At(load.home, n) = "absent"
      <4> TAKE n \in Edited
      <4>1. PICK i \in 1..15 : MANIFEST[i].name = n /\ load.got[n] = Expected(i)
        BY <2>8
      <4>2. At(load.home, n) \in Content
        BY <1>2, <2>7, AtType
      <4> QED BY <4>1, <4>2, SectionFacts DEF Expected
    <3>5. \A n \in Edited : (result'.got[n] = None) <=> At(result.home, n)' = "absent"
      BY <2>3, <2>5, <3>4
    <3> QED BY <2>3, <3>3, <3>5 DEF StableLoadIsExact
  <2>10. SilenceMeansConfigured'
    <3> SUFFICES ASSUME load.op = "audit", load.stable,
                        audit_errors(load.got) \cup audit_warnings(load.got) = {}
                 PROVE  /\ \A n \in Edited \cap {"locations.yaml", "product-definitions-map.yaml"} :
                             At(load.home, n) \in {"real", "example"}
                        /\ \A n \in Edited \cap {"product-definitions-map.yaml", "internal-vocabulary.yaml",
                                                  "budget-policy.yaml", "rule-pack-allowlist.yaml"} :
                             At(load.home, n) # "example"
                        /\ \A n \in Edited \cap {"corpus-config.yaml"} :
                             At(load.home, n) \in {"real", "example"}
      BY <2>3, <2>5 DEF SilenceMeansConfigured
    <3>1. ASSUME NEW n \in Edited, n # "ledger-signing-key.pub"
          PROVE  /\ At(load.home, n) \in {"absent", "empty", "example", "real"}
                 /\ n = "corpus-config.yaml" => At(load.home, n) # "absent"
                 /\ At(load.home, n) = "absent" => load.got[n] = None
                 /\ At(load.home, n) # "absent" => load.got[n].content = At(load.home, n)
      <4>1. PICK i \in 1..15 : MANIFEST[i].name = n /\ ~Offends(load.home, i) /\ load.got[n] = Expected(i)
        BY <2>8
      <4>2. MANIFEST[i].kind # "key" /\ (n = "corpus-config.yaml" => MANIFEST[i].required)
        BY <4>1, <3>1, ManifestFacts
      <4>3. At(load.home, n) \in Content
        BY <1>2, <2>7, AtType
      <4> QED BY <4>1, <4>2, <4>3, SectionFacts DEF Expected, Offends, Content
    <3>2. \A n \in Edited : n \notin audit_errors(load.got) /\ n \notin audit_warnings(load.got)
      OBVIOUS
    <3> QED BY <3>1, <3>2 DEF audit_errors, audit_warnings
  <2> QED BY <1>2, <2>6, <2>9, <2>10 DEF LoadInv, LoadIsExact
<1> QED BY <1>3, <1>4

-----------------------------------------------------------------------------
(* The two halves of _load_one.                                              *)
LEMMA KeepFacts ==
  ASSUME LoadTyped, NEW n, NEW c \in Content \cup {"path"}, load.home \in Homes
  PROVE  LET G == Keep(n, Section(c, load.home)) IN
         /\ G \in [Edited -> SectionType]
         /\ \A m \in Edited : m # n => G[m] = load.got[m]
         /\ n \in Edited => G[n] = Section(c, load.home)
<1>1. Section(c, load.home) \in SectionType
  BY SectionFacts
<1>2. \A m \in Edited : load.got[m] \in SectionType
  BY DEF LoadTyped
<1> QED BY <1>1, <1>2 DEF Keep

LEMMA LookForInv == ASSUME LoadInv, LookFor PROVE LoadInv'
<1> DEFINE entry == Head(load.todo)
           n == entry.name
<1>1. load.todo # <<>> /\ ~load.found /\ UNCHANGED <<dirs, disk, env>> /\ LoadTyped
  BY DEF LookFor, LoadInv
<1>2. load.home \in Homes /\ At(load.home, n) \in Content
  <2>1. load.home \in Homes
    BY <1>1 DEF LoadTyped
  <2> QED BY <1>1, <2>1, AtType
<1>3. ASSUME Loading
      PROVE  /\ InOrder /\ ReadSoFar /\ SoFarExact /\ Done + 1 \in 1..15 /\ Len(MANIFEST) = 15
             /\ entry = MANIFEST[Done + 1] /\ (n \in Edited => load.got[n] = None)
             /\ entry.required => entry.kind # "key"
  <2>1. InOrder /\ ReadSoFar /\ SoFarExact
    BY <1>3 DEF LoadInv
  <2>2. Done + 1 \in 1..15 /\ entry = MANIFEST[Done + 1] /\ Len(MANIFEST) = 15
    BY <1>1, <2>1, NextEntry, ManifestFacts
  <2>3. Done + 1 \in (Done + 1)..15
    BY <2>2
  <2>4. n \in Edited => load.got[n] = None
    BY <2>1, <2>2, <2>3 DEF ReadSoFar
  <2>5. entry.required => entry.kind # "key"
    BY <2>2, ManifestFacts
  <2> QED BY <2>1, <2>2, <2>4, <2>5
<1>4. CASE At(load.home, n) = "absent" /\ entry.required
  <2>1. result' = Ended("missing", n) /\ load' = Idle
    BY <1>4 DEF LookFor
  <2>2. CASE Loading
    <3>1. Offends(load.home, Done + 1)
      BY <1>3, <1>4, <2>2 DEF Offends
    <3> QED BY <1>1, <1>4, <2>1, <2>2, <3>1, StopsAtTheFirst
  <2>3. CASE ~Loading
    <3>1. result'.op \notin {"context", "audit"}
      BY <2>1, <2>3, EndedFields DEF Loading
    <3>2. LoadTyped' /\ ~Loading'
      BY <1>1, <2>1, IdleTyped
    <3> QED BY <3>1, <3>2, OtherResult DEF LoadInv
  <2> QED BY <2>2, <2>3
<1>5. CASE At(load.home, n) = "absent" /\ ~entry.required
  <2>1. Advance(load.got) /\ UNCHANGED <<dirs, disk, env, result>>
    BY <1>1, <1>5 DEF LookFor
  <2>2. load.got \in [Edited -> SectionType]
    BY <1>1 DEF LoadTyped
  <2>3. ASSUME Loading
        PROVE  /\ n \in Edited =>
                    /\ load.got[n] # None => load.got[n].home = load.home
                    /\ entry.required => load.got[n].content \in ReadContents
                    /\ load.got[n] = None => n \in load.gone
                    /\ load.stable => load.got[n] = Expected(Done + 1)
               /\ load.stable => ~Offends(load.home, Done + 1)
    BY <1>3, <1>5, <2>3 DEF ReadSoFar, Expected, Offends
  <2> QED BY <1>1, <2>1, <2>2, <2>3, AdvanceInv
<1>6. CASE At(load.home, n) # "absent" /\ entry.kind = "key"
  <2> DEFINE G == Keep(n, Section("path", load.home))
  <2>1. Advance(G) /\ UNCHANGED <<dirs, disk, env, result>>
    BY <1>1, <1>6 DEF LookFor
  <2>2. /\ G \in [Edited -> SectionType]
        /\ \A m \in Edited : m # n => G[m] = load.got[m]
        /\ n \in Edited => G[n] = Section("path", load.home)
    BY <1>1, <1>2, KeepFacts
  <2>3. ASSUME Loading
        PROVE  /\ n \in Edited =>
                    /\ G[n] # None => G[n].home = load.home
                    /\ entry.required => G[n].content \in ReadContents
                    /\ G[n] = None => n \in load.gone
                    /\ load.stable => G[n] = Expected(Done + 1)
               /\ load.stable => ~Offends(load.home, Done + 1)
    <3>1. load.stable => ~Offends(load.home, Done + 1)
      BY <1>3, <1>6, <2>3 DEF Offends
    <3>2. n \in Edited /\ load.stable => G[n] = Expected(Done + 1)
      BY <1>3, <1>6, <2>2, <2>3 DEF Expected
    <3>3. n \in Edited => G[n] # None /\ G[n].home = load.home
      BY <2>2, SectionFacts
    <3>4. ~entry.required
      BY <1>3, <1>6, <2>3
    <3> QED BY <3>1, <3>2, <3>3, <3>4
  <2> HIDE DEF G
  <2> QED BY <1>1, <2>1, <2>2, <2>3, AdvanceInv
<1>7. CASE At(load.home, n) # "absent" /\ entry.kind # "key"
  <2>1. load' = [load EXCEPT !.found = TRUE] /\ UNCHANGED <<dirs, disk, env, result>>
    BY <1>1, <1>7 DEF LookFor
  <2>2. LoadIsWhole' /\ LoadIsExact'
    BY <2>1, SameResult DEF LoadInv
  <2>3. /\ load'.op = load.op /\ load'.home = load.home /\ load'.todo = load.todo
        /\ load'.got = load.got /\ load'.stable = load.stable /\ load'.gone = load.gone
    BY <1>1, <2>1 DEF LoadTyped
  <2>4. LoadTyped'
    BY <1>1, <2>1 DEF LoadTyped
  <2>5. \A h, m : At(h, m)' = At(h, m)
    BY <2>1 DEF At
  <2>6. Done' = Done
    BY <2>3 DEF Done
  <2>7. ASSUME Loading PROVE InOrder' /\ ReadSoFar' /\ SoFarExact'
    <3>1. InOrder'
      BY <1>1, <1>3, <1>7, <2>3, <2>5, <2>6, <2>7 DEF InOrder
    <3>2. ReadSoFar'
      BY <1>3, <2>3, <2>5, <2>6, <2>7 DEF ReadSoFar
    <3>3. SoFarExact'
      BY <1>3, <2>3, <2>5, <2>6, <2>7 DEF SoFarExact, Offends, Expected
    <3> QED BY <3>1, <3>2, <3>3
  <2> QED BY <2>2, <2>3, <2>4, <2>7 DEF LoadInv, Loading
<1> QED BY <1>4, <1>5, <1>6, <1>7

LEMMA ReadInv == ASSUME LoadInv, Read PROVE LoadInv'
<1> DEFINE entry == Head(load.todo)
           n == entry.name
           c == At(load.home, n)
<1>1. load.todo # <<>> /\ load.found /\ UNCHANGED <<dirs, disk, env>> /\ LoadTyped
  BY DEF Read, LoadInv
<1>2. load.home \in Homes /\ c \in Content
  <2>1. load.home \in Homes
    BY <1>1 DEF LoadTyped
  <2> QED BY <1>1, <2>1, AtType
<1>3. ASSUME Loading
      PROVE  /\ entry = MANIFEST[Done + 1] /\ entry.kind # "key"
             /\ load.stable => c # "absent"
  <2>1. InOrder
    BY <1>3 DEF LoadInv
  <2> QED BY <1>1, <2>1, NextEntry DEF InOrder
<1>4. CASE c \in {"absent", "broken"}
  <2>1. result' = Ended("error", n) /\ load' = Idle
    BY <1>4 DEF Read
  <2>2. CASE Loading
    <3>1. load.stable => Offends(load.home, Done + 1) /\ c # "absent"
      BY <1>3, <1>4, <2>2 DEF Offends
    <3> QED BY <1>1, <2>1, <2>2, <3>1, StopsAtTheFirst
  <2>3. CASE ~Loading
    <3>1. result'.op \notin {"context", "audit"}
      BY <2>1, <2>3, EndedFields DEF Loading
    <3>2. LoadTyped' /\ ~Loading'
      BY <1>1, <2>1, IdleTyped
    <3> QED BY <3>1, <3>2, OtherResult DEF LoadInv
  <2> QED BY <2>2, <2>3
<1>5. CASE c \notin {"absent", "broken"}
  <2> DEFINE G == Keep(n, Section(c, load.home))
  <2>1. Advance(G) /\ UNCHANGED <<dirs, disk, env, result>>
    BY <1>1, <1>5 DEF Read
  <2>2. /\ G \in [Edited -> SectionType]
        /\ \A m \in Edited : m # n => G[m] = load.got[m]
        /\ n \in Edited => G[n] = Section(c, load.home)
    BY <1>1, <1>2, KeepFacts
  <2>3. c \in ReadContents /\ Section(c, load.home) # None
    BY <1>2, <1>5, SectionFacts DEF Content, ReadContents
  <2>4. ASSUME Loading
        PROVE  /\ n \in Edited =>
                    /\ G[n] # None => G[n].home = load.home
                    /\ entry.required => G[n].content \in ReadContents
                    /\ G[n] = None => n \in load.gone
                    /\ load.stable => G[n] = Expected(Done + 1)
               /\ load.stable => ~Offends(load.home, Done + 1)
    <3> HIDE DEF G
    <3> QED BY <1>3, <1>5, <2>2, <2>3, <2>4, SectionFacts DEF Expected, Offends
  <2> HIDE DEF G
  <2> QED BY <1>1, <2>1, <2>2, <2>4, AdvanceInv
<1> QED BY <1>4, <1>5

-----------------------------------------------------------------------------
(* A change made while a load runs: in its home the load is no longer stable *)
(* and a file removed is remembered; elsewhere nothing it sees moves.        *)
LEMMA ChangeInv ==
  ASSUME LoadInv, LoadTyped', result' = NoResult,
         load'.op = load.op, load'.home = load.home, load'.todo = load.todo,
         load'.found = load.found, load'.got = load.got, load.gone \subseteq load'.gone,
         load'.stable => load.stable /\ (Loading => \A n : At(load.home, n)' = At(load.home, n)),
         Loading => \A n \in Edited : At(load.home, n)' = "absent" => n \in load'.gone
  PROVE  LoadInv'
<1>1. LoadIsWhole' /\ LoadIsExact'
  BY OtherResult DEF NoResult
<1>2. Loading' <=> Loading
  BY DEF Loading
<1>3. ASSUME Loading PROVE InOrder' /\ ReadSoFar' /\ SoFarExact'
  <2>1. InOrder /\ ReadSoFar /\ SoFarExact
    BY <1>3 DEF LoadInv
  <2>2. Done' = Done
    BY DEF Done
  <2>3. InOrder'
    BY <1>3, <2>1, <2>2 DEF InOrder
  <2>4. ReadSoFar'
    BY <1>3, <2>1, <2>2 DEF ReadSoFar
  <2>5. SoFarExact'
    BY <1>3, <2>1, <2>2 DEF SoFarExact, Offends, Expected
  <2> QED BY <2>3, <2>4, <2>5
<1> QED BY <1>1, <1>2, <1>3 DEF LoadInv

LEMMA EditInv ==
  ASSUME LoadInv, NEW h \in Homes, NEW n \in Edited, NEW c \in Contents[n], Edit(h, n, c) PROVE LoadInv'
<1>1. /\ h \in dirs /\ disk' = [disk EXCEPT ![h][n] = c] /\ result' = NoResult /\ UNCHANGED <<dirs, env>>
      /\ load' = [load EXCEPT !.stable = @ /\ (load.op = "idle" \/ load.home # h),
                              !.gone = IF c = "absent" /\ load.home = h THEN @ \cup {n} ELSE @]
  BY DEF Edit
<1>2. LoadTyped /\ c \in Content
  BY ConfigAssumption DEF LoadInv
<1>3. /\ load'.op = load.op /\ load'.home = load.home /\ load'.todo = load.todo
      /\ load'.found = load.found /\ load'.got = load.got
      /\ load'.stable = (load.stable /\ (load.op = "idle" \/ load.home # h))
      /\ load'.gone = IF c = "absent" /\ load.home = h THEN load.gone \cup {n} ELSE load.gone
  BY <1>1, <1>2 DEF LoadTyped
<1>4. LoadTyped'
  BY <1>1, <1>2, <1>3 DEF LoadTyped
<1>5. \A g \in Homes : \A m : At(g, m)' = IF g = h /\ m = n THEN c ELSE At(g, m)
  BY <1>1, <1>2 DEF LoadTyped, At
<1>6. ASSUME Loading
      PROVE  /\ load'.stable => \A m : At(load.home, m)' = At(load.home, m)
             /\ \A m \in Edited : At(load.home, m)' = "absent" => m \in load'.gone
  <2>1. load.home \in Homes /\ load.op # "idle"
    BY <1>2, <1>6 DEF LoadTyped, Loading
  <2>2. \A m : At(load.home, m)' = IF load.home = h /\ m = n THEN c ELSE At(load.home, m)
    BY <1>3, <1>5, <2>1
  <2>3. \A m \in Edited : At(load.home, m) = "absent" => m \in load.gone
    BY <1>6 DEF LoadInv, ReadSoFar
  <2> QED BY <1>3, <2>1, <2>2, <2>3
<1>7. load.gone \subseteq load'.gone /\ (load'.stable => load.stable)
  BY <1>3
<1> QED BY <1>1, <1>3, <1>4, <1>6, <1>7, ChangeInv

LEMMA InstallInv == ASSUME LoadInv, NEW h \in Homes, Install(h) PROVE LoadInv'
<1>1. /\ h \notin dirs /\ dirs' = dirs \cup {h} /\ result' = NoResult /\ UNCHANGED <<disk, env>>
      /\ load' = [load EXCEPT !.stable = @ /\ (load.op = "idle" \/ load.home # h)]
  BY DEF Install
<1>2. LoadTyped
  BY DEF LoadInv
<1>3. /\ load'.op = load.op /\ load'.home = load.home /\ load'.todo = load.todo
      /\ load'.found = load.found /\ load'.got = load.got /\ load'.gone = load.gone
      /\ load'.stable = (load.stable /\ (load.op = "idle" \/ load.home # h))
  BY <1>1, <1>2 DEF LoadTyped
<1>4. LoadTyped'
  BY <1>1, <1>2, <1>3 DEF LoadTyped
<1>5. /\ \A m : At(h, m) = "absent"
      /\ \A m : load.home # h => At(load.home, m)' = At(load.home, m)
  BY <1>1, <1>3 DEF At
<1>6. ASSUME Loading
      PROVE  /\ load'.stable => \A m : At(load.home, m)' = At(load.home, m)
             /\ \A m \in Edited : At(load.home, m)' = "absent" => m \in load'.gone
  <2>1. load.op # "idle"
    BY <1>6 DEF Loading
  <2>2. \A m \in Edited : At(load.home, m) = "absent" => m \in load.gone
    BY <1>6 DEF LoadInv, ReadSoFar
  <2> QED BY <1>3, <1>5, <2>1, <2>2
<1> QED BY <1>1, <1>3, <1>4, <1>6, ChangeInv

LEMMA SetEnvInv == ASSUME LoadInv, NEW h \in Homes \cup {NoHome}, SetEnv(h) PROVE LoadInv'
<1>1. env' = h /\ result' = NoResult /\ UNCHANGED <<dirs, disk, load>>
  BY DEF SetEnv
<1>2. LoadTyped'
  BY <1>1 DEF LoadInv, LoadTyped
<1>3. \A m : At(load.home, m)' = At(load.home, m)
  BY <1>1 DEF At
<1>4. Loading => \A m \in Edited : At(load.home, m) = "absent" => m \in load.gone
  BY DEF LoadInv, ReadSoFar
<1> QED BY <1>1, <1>2, <1>3, <1>4, ChangeInv

LEMMA LoadInductive == Spec => []LoadInv
<1>1. Init => LoadInv
  <2> SUFFICES ASSUME Init PROVE LoadInv
    OBVIOUS
  <2>1. load = Idle /\ result = NoResult /\ dirs \subseteq Homes /\ env \in Homes \cup {NoHome}
    BY DEF Init
  <2>2. disk \in [Homes -> [Edited -> Content]]
    <3>1. [n \in Edited |-> "real"] \in [Edited -> Content]
      BY DEF Content
    <3> QED BY <3>1 DEF Init
  <2>3. LoadTyped
    BY <2>1, <2>2, SectionFacts, ConfigAssumption DEF LoadTyped, Idle
  <2>4. ~Loading
    BY <2>1 DEF Loading, Idle
  <2>5. result.op = "none"
    BY <2>1 DEF NoResult
  <2>6. LoadIsWhole /\ LoadIsExact
    BY <2>5 DEF LoadIsWhole, LoadIsExact, OneHome, NoRequiredHole, NoneMeansAbsent, Whole,
                StableLoadIsExact, SilenceMeansConfigured
  <2> QED BY <2>3, <2>4, <2>6 DEF LoadInv
<1>2. LoadInv /\ [Next]_vars => LoadInv'
  <2> SUFFICES ASSUME LoadInv, [Next]_vars PROVE LoadInv'
    OBVIOUS
  <2>1. CASE UNCHANGED vars
    <3>1. UNCHANGED <<dirs, disk, env, load, result>>
      BY <2>1 DEF vars
    <3>2. LoadIsWhole' /\ LoadIsExact'
      BY <3>1, SameResult DEF LoadInv
    <3>3. LoadTyped'
      BY <3>1 DEF LoadInv, LoadTyped
    <3>4. (Loading' <=> Loading) /\ Done' = Done /\ (\A h, m : At(h, m)' = At(h, m))
      BY <3>1 DEF Loading, Done, At
    <3>5. Loading => InOrder' /\ ReadSoFar' /\ SoFarExact'
      BY <3>1, <3>4 DEF LoadInv, InOrder, ReadSoFar, SoFarExact, Offends, Expected
    <3> QED BY <3>2, <3>3, <3>4, <3>5 DEF LoadInv
  <2>2. ASSUME NEW op \in {"context", "audit"}, NEW arg \in Homes \cup {NoHome}, LoadContext(op, arg)
        PROVE  LoadInv'
    BY <2>2, ContextInv
  <2>3. ASSUME NEW i \in DOMAIN MANIFEST, NEW required \in BOOLEAN, NEW arg \in Homes \cup {NoHome},
               LoadSection(i, required, arg)
        PROVE  LoadInv'
    BY <2>3, SectionInv
  <2>4. ASSUME NEW n \in Edited, NEW required \in BOOLEAN, ConfigPath(n, required) PROVE LoadInv'
    BY <2>4, PathInv
  <2>5. CASE LookFor \/ Read \/ Finish
    BY <2>5, LookForInv, ReadInv, FinishInv
  <2>6. ASSUME NEW h \in Homes, NEW n \in Edited, NEW c \in Contents[n], Edit(h, n, c) PROVE LoadInv'
    BY <2>6, EditInv
  <2>7. ASSUME NEW h \in Homes, Install(h) PROVE LoadInv'
    BY <2>7, InstallInv
  <2>8. ASSUME NEW h \in Homes \cup {NoHome}, SetEnv(h) PROVE LoadInv'
    BY <2>8, SetEnvInv
  <2> QED BY <2>1, <2>2, <2>3, <2>4, <2>5, <2>6, <2>7, <2>8 DEF Next
<1> QED BY <1>1, <1>2, PTL DEF Spec

-----------------------------------------------------------------------------
(* For any homes, files and edits, whatever changes during a load: a context *)
(* comes from one home, has every required section, and lacks only what was  *)
(* absent at some moment.                                                    *)
THEOREM ContextIsWhole == Spec => []LoadIsWhole
<1>1. LoadInv => LoadIsWhole
  BY DEF LoadInv
<1> QED BY <1>1, LoadInductive, PTL

(* In a home nobody touches, the outcome of a load, the file it names and    *)
(* what the audit says of it are functions of the files.                     *)
THEOREM OutcomeIsExact == Spec => []LoadIsExact
<1>1. LoadInv => LoadIsExact
  BY DEF LoadInv
<1> QED BY <1>1, LoadInductive, PTL

-----------------------------------------------------------------------------
(***************************************************************************)
(* CurrentViews. The inductive invariant gives every set of rows a newest   *)
(* one, and every row the first binding of its chain.                       *)
(***************************************************************************)

(* Rows are requests that passed validation, one per identity; each has its *)
(* reading of a clock, and corrects a row of its own context.               *)
RowsStand ==
  /\ IsFiniteSet(bindings)
  /\ \A b \in bindings : \E r \in Request : b = Row(r)
  /\ \A a, b \in bindings : BindingId(a) = BindingId(b) => a = b
  /\ DOMAIN boundAt = {BindingId(b) : b \in bindings}
  /\ \A b \in bindings : boundAt[BindingId(b)] \in Nat
  /\ \A s \in bindings : s.supersedes # Nil =>
       \E p \in bindings : BindingId(p) = s.supersedes /\ SameContext(p, s)
  /\ \A b \in bindings : b.name = "report" => b.subject # Nil

(* Of any rows, one is not older than any other.                            *)
Newest(S, b) == b \in S /\ \A rival \in S : ~Newer(rival, b)
NewestExists == \A S \in SUBSET bindings : S # {} => \E b \in S : Newest(S, b)

(* Every correction leads back to a first binding of its scope, and two      *)
(* rows that stand lead back to different ones.                             *)
Rooted ==
  \E root \in [bindings -> bindings] :
    /\ \A b \in bindings :
         root[b].supersedes = Nil /\ root[b].name = b.name /\ root[b].scope = b.scope
    /\ \A a, b \in Current(bindings) : root[a] = root[b] => a = b

ViewsInv == RowsStand /\ NewestExists /\ Rooted

-----------------------------------------------------------------------------
(* Newer orders the rows totally.                                           *)
LEMMA NewerIsTotal ==
  ASSUME RowsStand, NEW a \in bindings, NEW b \in bindings, NEW c \in bindings
  PROVE  /\ ~Newer(a, a)
         /\ Newer(a, b) => ~Newer(b, a)
         /\ a # b => Newer(a, b) \/ Newer(b, a)
         /\ Newer(a, b) /\ Newer(b, c) => Newer(a, c)
<1> DEFINE at(x) == boundAt[BindingId(x)]
           rk(x) == IdRank[BindingId(x)]
<1>1. at(a) \in Nat /\ at(b) \in Nat /\ at(c) \in Nat
  BY DEF RowsStand
<1>2. /\ rk(a) \in Nat /\ rk(b) \in Nat /\ rk(c) \in Nat
      /\ rk(a) = rk(b) => BindingId(a) = BindingId(b)
  BY ViewsAssumption DEF RowsStand
<1>3. rk(a) = rk(b) => a = b
  BY <1>2 DEF RowsStand
<1>4. \A x, y : Newer(x, y) <=> at(x) > at(y) \/ (at(x) = at(y) /\ rk(x) > rk(y))
  BY DEF Newer
<1> HIDE DEF at, rk
<1> QED BY <1>1, <1>2, <1>3, <1>4

TotalOrder ==
  \A a, b, c \in bindings : /\ ~Newer(a, a)
                            /\ Newer(a, b) => ~Newer(b, a)
                            /\ a # b => Newer(a, b) \/ Newer(b, a)
                            /\ Newer(a, b) /\ Newer(b, c) => Newer(a, c)

LEMMA NewerOrders == RowsStand => TotalOrder
BY NewerIsTotal DEF TotalOrder

(* A set of rows has exactly one newest row.                                *)
LEMMA OneNewest ==
  ASSUME RowsStand, NewestExists, NEW S \in SUBSET bindings, S # {}
  PROVE  One({b \in S : Newest(S, b)})
<1>1. PICK b \in S : Newest(S, b)
  BY DEF NewestExists
<1>2. ASSUME NEW c \in S, Newest(S, c) PROVE c = b
  <2>1. ~Newer(b, c) /\ ~Newer(c, b)
    BY <1>1, <1>2 DEF Newest
  <2> QED BY <2>1, NewerIsTotal
<1>3. {c \in S : Newest(S, c)} = {b}
  BY <1>1, <1>2
<1> QED BY <1>3, FS_Singleton DEF One

-----------------------------------------------------------------------------
(* What an ingest adds.                                                     *)
LEMMA NewRow ==
  ASSUME RowsStand, NEW r \in Request, NEW t \in Clock, Ingest(r, t)
  PROVE  /\ bindings' = bindings \cup {Row(r)} /\ Row(r) \notin bindings
         /\ \A a \in bindings : /\ BindingId(a) # BindingId(Row(r))
                                /\ boundAt'[BindingId(a)] = boundAt[BindingId(a)]
                                /\ Row(r).supersedes # Nil => a.supersedes # Row(r).supersedes
         /\ boundAt'[BindingId(Row(r))] = t /\ t \in Nat
         /\ DOMAIN boundAt' = DOMAIN boundAt \cup {BindingId(Row(r))}
<1> DEFINE b == Row(r)
<1>1. bindings' = bindings \cup {b} /\ \A a \in bindings : ~Conflict(a, b)
  BY DEF Ingest, Bind
<1>2. \A a \in bindings : /\ BindingId(a) # BindingId(b)
                          /\ b.supersedes # Nil => a.supersedes # b.supersedes
  BY <1>1 DEF Conflict, SamePrimaryKey, SameSuccessor
<1>3. boundAt' = [i \in DOMAIN boundAt \cup {BindingId(b)} |->
                    IF i = BindingId(b) THEN t ELSE boundAt[i]]
  BY DEF Ingest
<1>4. \A a \in bindings : BindingId(a) \in DOMAIN boundAt
  BY DEF RowsStand
<1>5. t \in Nat
  BY ViewsAssumption
<1> HIDE DEF b
<1>6. \A a \in bindings : boundAt'[BindingId(a)] = boundAt[BindingId(a)]
  BY <1>2, <1>3, <1>4
<1>7. b \notin bindings
  BY <1>2
<1> QED BY <1>1, <1>2, <1>3, <1>5, <1>6, <1>7 DEF b

LEMMA RowsStep ==
  ASSUME RowsStand, NEW r \in Request, NEW t \in Clock, Ingest(r, t)
  PROVE  RowsStand'
<1> DEFINE b == Row(r)
<1>1. /\ bindings' = bindings \cup {b} /\ b \notin bindings
      /\ \A a \in bindings : /\ BindingId(a) # BindingId(b)
                             /\ boundAt'[BindingId(a)] = boundAt[BindingId(a)]
      /\ boundAt'[BindingId(b)] = t /\ t \in Nat
      /\ DOMAIN boundAt' = DOMAIN boundAt \cup {BindingId(b)}
  BY NewRow
<1>2. Valid(r) /\ (b.supersedes # Nil => PredecessorOK(bindings, b))
  BY DEF Ingest, Bind
<1>3. b.name = "report" => b.subject # Nil
  BY <1>2, ViewsAssumption DEF Valid, Row
<1>4. b.supersedes # Nil => \E p \in bindings : BindingId(p) = b.supersedes /\ SameContext(p, b)
  BY <1>2 DEF PredecessorOK
<1> HIDE DEF b
<1>5. IsFiniteSet(bindings')
  BY <1>1, FS_AddElement DEF RowsStand
<1>6. \A x \in bindings' : \E q \in Request : x = Row(q)
  BY <1>1 DEF RowsStand, b
<1>7. \A x, y \in bindings' : BindingId(x) = BindingId(y) => x = y
  BY <1>1 DEF RowsStand
<1>8. DOMAIN boundAt' = {BindingId(x) : x \in bindings'}
  BY <1>1 DEF RowsStand
<1>9. \A x \in bindings' : boundAt'[BindingId(x)] \in Nat
  BY <1>1 DEF RowsStand
<1>10. \A s \in bindings' : s.supersedes # Nil =>
          \E p \in bindings' : BindingId(p) = s.supersedes /\ SameContext(p, s)
  BY <1>1, <1>4 DEF RowsStand
<1>11. \A x \in bindings' : x.name = "report" => x.subject # Nil
  BY <1>1, <1>3 DEF RowsStand
<1> QED BY <1>5, <1>6, <1>7, <1>8, <1>9, <1>10, <1>11 DEF RowsStand

(* The order of two rows does not change.                                   *)
LEMMA NewerStands ==
  ASSUME RowsStand, NEW r \in Request, NEW t \in Clock, Ingest(r, t),
         NEW a \in bindings, NEW c \in bindings
  PROVE  Newer(a, c)' <=> Newer(a, c)
BY NewRow DEF Newer

LEMMA NewestStep ==
  ASSUME ViewsInv, RowsStand', NEW r \in Request, NEW t \in Clock, Ingest(r, t)
  PROVE  NewestExists'
<1> DEFINE b == Row(r)
           beats(x, y) == Newer(x, y)'
<1>1. bindings' = bindings \cup {b} /\ b \notin bindings
  BY NewRow DEF ViewsInv
<1>2. \A x, y, z \in bindings' :
        /\ ~beats(x, x)
        /\ beats(x, y) => ~beats(y, x)
        /\ x # y => beats(x, y) \/ beats(y, x)
        /\ beats(x, y) /\ beats(y, z) => beats(x, z)
  <2>1. (RowsStand => TotalOrder)'
    BY NewerOrders, PTL
  <2> QED BY <2>1 DEF TotalOrder
<1>3. \A x, y \in bindings : beats(x, y) <=> Newer(x, y)
  BY NewerStands DEF ViewsInv
<1> SUFFICES ASSUME NEW S \in SUBSET bindings', S # {}
             PROVE  \E x \in S : \A y \in S : ~beats(y, x)
  BY DEF NewestExists, Newest
<1> HIDE DEF b, beats
<1>4. CASE S \ {b} = {}
  BY <1>1, <1>2, <1>4
<1>5. CASE S \ {b} # {}
  <2>1. S \ {b} \in SUBSET bindings
    BY <1>1
  <2>2. PICK x \in S \ {b} : Newest(S \ {b}, x)
    BY <1>5, <2>1 DEF ViewsInv, NewestExists
  <2>3. \A y \in S \ {b} : ~beats(y, x)
    BY <1>3, <2>1, <2>2 DEF Newest
  <2>4. CASE b \in S /\ beats(b, x)
    <3>1. ASSUME NEW y \in S PROVE ~beats(y, b)
      <4>1. CASE y = b
        BY <1>1, <1>2, <4>1
      <4>2. CASE y # b
        BY <1>1, <1>2, <2>3, <2>4, <4>2
      <4> QED BY <4>1, <4>2
    <3> QED BY <2>4, <3>1
  <2>5. CASE ~(b \in S /\ beats(b, x))
    BY <2>2, <2>3, <2>5
  <2> QED BY <2>4, <2>5
<1> QED BY <1>4, <1>5

(* A first binding starts a chain; a correction takes the end of one.       *)
LEMMA RootedStep ==
  ASSUME ViewsInv, NEW r \in Request, NEW t \in Clock, Ingest(r, t)
  PROVE  Rooted'
<1> DEFINE b == Row(r)
<1>1. /\ bindings' = bindings \cup {b} /\ b \notin bindings
      /\ \A a \in bindings : /\ BindingId(a) # BindingId(b)
                             /\ b.supersedes # Nil => a.supersedes # b.supersedes
  BY NewRow DEF ViewsInv
<1>2. b.supersedes # Nil => \E p \in bindings : BindingId(p) = b.supersedes /\ SameContext(p, b)
  BY DEF Ingest, Bind, PredecessorOK
<1>3. PICK root \in [bindings -> bindings] :
         /\ \A x \in bindings :
              root[x].supersedes = Nil /\ root[x].name = x.name /\ root[x].scope = x.scope
         /\ \A x, y \in Current(bindings) : root[x] = root[y] => x = y
  BY DEF ViewsInv, Rooted
<1> HIDE DEF b
<1>4. \A x \in Current(bindings') : x # b => x \in Current(bindings)
  BY <1>1 DEF Current
<1>5. CASE b.supersedes = Nil
  <2> DEFINE f == [x \in bindings' |-> IF x = b THEN b ELSE root[x]]
  <2>1. f \in [bindings' -> bindings']
    BY <1>1, <1>3
  <2>2. \A x \in bindings' : f[x].supersedes = Nil /\ f[x].name = x.name /\ f[x].scope = x.scope
    BY <1>1, <1>3, <1>5
  <2>3. \A x \in bindings : f[x] = root[x] /\ f[x] # b
    BY <1>1, <1>3
  <2>4. f[b] = b /\ Current(bindings') \subseteq bindings' /\ Current(bindings) \subseteq bindings
    BY <1>1 DEF Current
  <2> HIDE DEF f
  <2>5. \A x, y \in Current(bindings') : f[x] = f[y] => x = y
    BY <1>1, <1>3, <1>4, <2>3, <2>4
  <2> QED BY <2>1, <2>2, <2>5 DEF Rooted
<1>6. CASE b.supersedes # Nil
  <2>1. PICK p \in bindings : BindingId(p) = b.supersedes /\ SameContext(p, b)
    BY <1>2, <1>6
  <2>2. p \in Current(bindings)
    BY <1>1, <1>6, <2>1 DEF Current
  <2>3. p \notin Current(bindings') /\ p.name = b.name /\ p.scope = b.scope
    BY <1>1, <2>1 DEF Current, SameContext
  <2> DEFINE f == [x \in bindings' |-> IF x = b THEN root[p] ELSE root[x]]
  <2>4. f \in [bindings' -> bindings']
    BY <1>1, <1>3
  <2>5. \A x \in bindings' : f[x].supersedes = Nil /\ f[x].name = x.name /\ f[x].scope = x.scope
    BY <1>1, <1>3, <2>3
  <2>6. \A x \in bindings : f[x] = root[x]
    BY <1>1
  <2>7. f[b] = root[p] /\ Current(bindings') \subseteq bindings' /\ Current(bindings) \subseteq bindings
    BY <1>1 DEF Current
  <2> HIDE DEF f
  <2>8. \A x, y \in Current(bindings') : f[x] = f[y] => x = y
    BY <1>1, <1>3, <1>4, <2>2, <2>3, <2>6, <2>7
  <2> QED BY <2>4, <2>5, <2>8 DEF Rooted
<1> QED BY <1>5, <1>6

LEMMA ViewsInductive == ViewsSpec => []ViewsInv
<1>1. ViewsInit => ViewsInv
  <2> SUFFICES ASSUME ViewsInit PROVE ViewsInv
    OBVIOUS
  <2>1. bindings = {} /\ DOMAIN boundAt = {}
    BY DEF ViewsInit, AbsInit
  <2>2. RowsStand
    BY <2>1, FS_EmptySet DEF RowsStand
  <2>3. NewestExists
    BY <2>1 DEF NewestExists
  <2>4. Rooted
    <3>1. [x \in bindings |-> x] \in [bindings -> bindings]
      OBVIOUS
    <3> QED BY <2>1, <3>1 DEF Rooted, Current
  <2> QED BY <2>2, <2>3, <2>4 DEF ViewsInv
<1>2. ViewsInv /\ [ViewsNext]_viewVars => ViewsInv'
  <2> SUFFICES ASSUME ViewsInv, [ViewsNext]_viewVars PROVE ViewsInv'
    OBVIOUS
  <2>1. CASE UNCHANGED viewVars
    <3>1. bindings' = bindings /\ boundAt' = boundAt
      BY <2>1 DEF viewVars, absVars
    <3>2. RowsStand'
      BY <3>1 DEF ViewsInv, RowsStand
    <3>3. NewestExists'
      BY <3>1 DEF ViewsInv, NewestExists, Newest, Newer
    <3>4. Rooted'
      BY <3>1 DEF ViewsInv, Rooted
    <3> QED BY <3>2, <3>3, <3>4 DEF ViewsInv
  <2>2. ASSUME NEW r \in Request, NEW t \in Clock, Ingest(r, t) PROVE ViewsInv'
    <3>1. RowsStand'
      BY <2>2, RowsStep DEF ViewsInv
    <3> QED BY <2>2, <3>1, NewestStep, RootedStep DEF ViewsInv
  <2> QED BY <2>1, <2>2 DEF ViewsNext
<1> QED BY <1>1, <1>2, PTL DEF ViewsSpec

-----------------------------------------------------------------------------
(* The choice of one row for each key.                                      *)

LEMMA OwnerIsOne == ViewsInv => OneOwner
<1> SUFFICES ASSUME ViewsInv, NEW b \in Named(bindings, "corpus-registry"), NEW s \in Declares[b.digest]
             PROVE  One(ownership_current(s))
  BY DEF OneOwner
<1>1. b \in Declaring(s) /\ Declaring(s) \in SUBSET bindings
  BY DEF Declaring, Named
<1>2. ownership_current(s) = {c \in Declaring(s) : Newest(Declaring(s), c)}
  BY DEF ownership_current, Newest
<1> QED BY <1>1, <1>2, OneNewest DEF ViewsInv

LEMMA ModelIsOne == ViewsInv => OneModel
<1> SUFFICES ASSUME ViewsInv, NEW b \in Named(bindings, "threat-model")
             PROVE  One({c \in threat_current : c.scope = b.scope /\ c.subject = b.subject})
  BY DEF OneModel
<1> DEFINE S == {c \in Named(bindings, "threat-model") : c.scope = b.scope /\ c.subject = b.subject}
<1>1. b \in S /\ S \in SUBSET bindings
  BY DEF Named
<1>2. {c \in threat_current : c.scope = b.scope /\ c.subject = b.subject} = {c \in S : Newest(S, c)}
  BY DEF threat_current, Newest, SameSubject
<1> QED BY <1>1, <1>2, OneNewest DEF ViewsInv

LEMMA EnvironmentsSpeak == ViewsInv => EveryEnvironmentSpeaks
<1> SUFFICES ASSUME ViewsInv, NEW b \in Named(bindings, "validation")
             PROVE  One({c \in validation_current : c.scope = b.scope /\ c.subject = b.subject
                                                      /\ Target(c) = Target(b)})
  BY DEF EveryEnvironmentSpeaks
<1> DEFINE S == {c \in Named(bindings, "validation") :
                   c.scope = b.scope /\ c.subject = b.subject /\ Target(c) = Target(b)}
<1>1. b \in S /\ S \in SUBSET bindings
  BY DEF Named
<1>2. {c \in validation_current : c.scope = b.scope /\ c.subject = b.subject
                                  /\ Target(c) = Target(b)} = {c \in S : Newest(S, c)}
  BY DEF validation_current, Newest, SameTarget, SameSubject
<1> QED BY <1>1, <1>2, OneNewest DEF ViewsInv

(* The newest of the disposition-aware reports, or of all when there is none. *)
LEMMA ReportIsOne == ViewsInv => OneReport
<1> SUFFICES ASSUME ViewsInv, NEW b \in Named(Current(bindings), "report")
             PROVE  LET chosen == {c \in report_current : c.scope = b.scope /\ c.subject = b.subject}
                    IN  One(chosen) /\ (b.digest \in Aware => \A c \in chosen : c.digest \in Aware)
  BY DEF OneReport
<1> DEFINE S == {c \in Named(Current(bindings), "report") : c.scope = b.scope /\ c.subject = b.subject}
           A == {c \in S : c.digest \in Aware}
           T == IF A = {} THEN S ELSE A
           chosen == {c \in report_current : c.scope = b.scope /\ c.subject = b.subject}
<1>1. b \in S /\ S \in SUBSET bindings /\ (\A c \in S : c.subject # Nil)
  BY DEF Named, Current, ViewsInv, RowsStand
<1>2. T \in SUBSET bindings /\ T # {} /\ T \subseteq S
  BY <1>1
<1>3. chosen = {c \in S : \A rival \in S : ~Outranks(rival, c)}
  BY <1>1 DEF report_current, SameSubject
<1> HIDE DEF S, chosen
<1>4. {c \in S : \A rival \in S : ~Outranks(rival, c)} = {c \in T : Newest(T, c)}
  <2>1. CASE A = {}
    BY <2>1 DEF Outranks, Newest
  <2>2. CASE A # {}
    <3>1. PICK x \in S : x.digest \in Aware
      BY <2>2
    <3>2. ASSUME NEW c \in S, \A rival \in S : ~Outranks(rival, c) PROVE c \in T /\ Newest(T, c)
      BY <2>2, <3>1, <3>2 DEF Outranks, Newest
    <3>3. ASSUME NEW c \in T, Newest(T, c) PROVE \A rival \in S : ~Outranks(rival, c)
      BY <2>2, <3>3 DEF Outranks, Newest
    <3> QED BY <1>2, <3>2, <3>3
  <2> QED BY <2>1, <2>2
<1>5. One(chosen)
  <2> HIDE DEF T
  <2> QED BY <1>2, <1>3, <1>4, OneNewest DEF ViewsInv
<1>6. b.digest \in Aware => \A c \in chosen : c.digest \in Aware
  BY <1>1, <1>3, <1>4
<1> QED BY <1>5, <1>6 DEF chosen

LEMMA ClockIsOne == ViewsInv => OneClock
<1> DEFINE roots(scope) == {c \in Named(bindings, "sla-policy") : c.scope = scope /\ c.supersedes = Nil}
<1> SUFFICES ASSUME ViewsInv, NEW a \in sla_clock, NEW c \in sla_clock, a[1] = c[1], One(roots(a[1]))
             PROVE  a[2] = c[2]
  BY DEF OneClock
<1>1. PICK x \in Named(Current(bindings), "sla-policy") : a[1] = x.scope /\ a[2] = BindingId(x)
  BY DEF sla_clock
<1>2. PICK y \in Named(Current(bindings), "sla-policy") : c[1] = y.scope /\ c[2] = BindingId(y)
  BY DEF sla_clock
<1>3. PICK root \in [bindings -> bindings] :
         /\ \A b \in bindings :
              root[b].supersedes = Nil /\ root[b].name = b.name /\ root[b].scope = b.scope
         /\ \A p, q \in Current(bindings) : root[p] = root[q] => p = q
  BY DEF ViewsInv, Rooted
<1>4. /\ x \in Current(bindings) /\ y \in Current(bindings) /\ x \in bindings /\ y \in bindings
      /\ x.name = "sla-policy" /\ y.name = "sla-policy"
  BY DEF Named, Current
<1>5. root[x] \in roots(a[1]) /\ root[y] \in roots(a[1])
  BY <1>1, <1>2, <1>3, <1>4 DEF Named
<1>6. \E z : roots(a[1]) = {z}
  <2>1. roots(a[1]) \in SUBSET bindings
    BY DEF Named
  <2> HIDE DEF roots
  <2>2. IsFiniteSet(roots(a[1]))
    BY <2>1, FS_Subset DEF ViewsInv, RowsStand
  <2> QED BY <2>2, FS_Singleton DEF One
<1> HIDE DEF roots
<1>7. root[x] = root[y]
  BY <1>5, <1>6
<1> QED BY <1>1, <1>2, <1>3, <1>4, <1>7

LEMMA CorrectionsAreNewer == ViewsInv => CorrectionsWin
<1> SUFFICES ASSUME ViewsInv, OnTime
             PROVE  /\ threat_current \subseteq Current(bindings)
                    /\ \A b \in Named(bindings, "corpus-registry") :
                         \A s \in Declares[b.digest] :
                           b.supersedes # Nil => \A c \in ownership_current(s) : BindingId(c) # b.supersedes
  BY DEF CorrectionsWin
<1>1. ASSUME NEW b \in threat_current PROVE b \in Current(bindings)
  <2> SUFFICES ASSUME NEW s \in bindings, s.supersedes = BindingId(b), s.scope = b.scope
               PROVE  FALSE
    BY DEF threat_current, Named, Current
  <2>1. b \in bindings /\ b.name = "threat-model"
    BY DEF threat_current, Named
  <2>2. s.supersedes # Nil
    BY <2>1, NilAssumption DEF ViewsInv, RowsStand
  <2>3. PICK p \in bindings : BindingId(p) = s.supersedes /\ SameContext(p, s)
    BY <2>2 DEF ViewsInv, RowsStand
  <2>4. p = b
    BY <2>1, <2>3 DEF ViewsInv, RowsStand
  <2>5. s \in Named(bindings, "threat-model") /\ SameSubject(s, b)
    BY <2>1, <2>3, <2>4 DEF SameContext, Named, SameSubject
  <2>6. boundAt[BindingId(b)] < boundAt[BindingId(s)]
    BY <2>2 DEF OnTime
  <2>7. Newer(s, b)
    BY <2>1, <2>6 DEF Newer, ViewsInv, RowsStand
  <2> QED BY <2>5, <2>7 DEF threat_current
<1>2. ASSUME NEW b \in Named(bindings, "corpus-registry"), NEW s \in Declares[b.digest],
             b.supersedes # Nil, NEW c \in ownership_current(s), BindingId(c) = b.supersedes
      PROVE  FALSE
  <2>1. b \in bindings /\ b \in Declaring(s) /\ c \in bindings
    BY DEF Named, Declaring, ownership_current
  <2>2. boundAt[BindingId(c)] < boundAt[BindingId(b)]
    BY <1>2, <2>1 DEF OnTime
  <2>3. Newer(b, c)
    BY <2>1, <2>2 DEF Newer, ViewsInv, RowsStand
  <2> QED BY <2>1, <2>3 DEF ownership_current
<1> QED BY <1>1, <1>2

-----------------------------------------------------------------------------
(* For any requests, clocks and order of ingests: a declared subject has one *)
(* owner and one model, a subject's current reports one that is counted, an  *)
(* environment one outcome, and a chain of policies one that sets the clock. *)
THEOREM CurrentRowIsOne == ViewsSpec => []CurrentIsOne
<1>1. ViewsInv => CurrentIsOne
  BY OwnerIsOne, ModelIsOne, ReportIsOne, EnvironmentsSpeak, ClockIsOne DEF CurrentIsOne
<1> QED BY <1>1, ViewsInductive, PTL

(* With clocks that agree with the order of the corrections, what was        *)
(* corrected is not believed again.                                          *)
THEOREM CorrectionsPrevail == ViewsSpec => []CorrectionsWin
<1>1. ViewsInv => CorrectionsWin
  BY CorrectionsAreNewer
<1> QED BY <1>1, ViewsInductive, PTL

-----------------------------------------------------------------------------
(***************************************************************************)
(* FindingTimeline. The inductive invariant gives every selection of        *)
(* events a first and a last text.                                          *)
(***************************************************************************)

(* However the rows came in, every selection of events has a first and a    *)
(* last text, and the dates of the reports that carry the finding an oldest *)
(* and a newest one: what MIN and MAX of the views pick exists.             *)
IsFirst(e, S) == e \in S /\ \A f \in S : TextBefore(e, f)
IsLast(e, S) == e \in S /\ \A f \in S : TextBefore(f, e)

TextsHaveEnds(E) ==
  \A S \in SUBSET E : S # {} => (\E e \in S : IsFirst(e, S)) /\ (\E e \in S : IsLast(e, S))

HaveEnds(D) ==
  D # {} => /\ \E d \in D : \A c \in D : d <= c
            /\ \E d \in D : \A c \in D : c <= d

TimelineInv == TimelineTypeOK /\ TextsHaveEnds(events) /\ HaveEnds(Dates)

-----------------------------------------------------------------------------
(* The order of the texts.                                                  *)

LEMMA OffsetsOrdered ==
  ASSUME NEW o \in Int, NEW p \in Int, NEW q \in Int
  PROVE  /\ OffsetBefore(o, p) \/ OffsetBefore(p, o)
         /\ OffsetBefore(o, p) /\ OffsetBefore(p, q) => OffsetBefore(o, q)
<1> DEFINE a == o * o
           b == p * p
           c == q * q
<1>1. a \in Int /\ b \in Int /\ c \in Int
  OBVIOUS
<1>2. /\ OffsetBefore(o, p) <=> IF (o >= 0) = (p >= 0) THEN a <= b ELSE o >= 0
      /\ OffsetBefore(p, o) <=> IF (p >= 0) = (o >= 0) THEN b <= a ELSE p >= 0
      /\ OffsetBefore(p, q) <=> IF (p >= 0) = (q >= 0) THEN b <= c ELSE p >= 0
      /\ OffsetBefore(o, q) <=> IF (o >= 0) = (q >= 0) THEN a <= c ELSE o >= 0
  BY DEF OffsetBefore
<1> HIDE DEF a, b, c
<1> QED BY <1>1, <1>2

LEMMA EventType ==
  \A e \in Event : e.at \in Nat /\ e.at \in Time /\ e.offset \in Int /\ e.at # NULL
<1>1. Time \subseteq Nat /\ Offsets \subseteq Int /\ NULL \notin Nat
  BY TimelineAssumption DEF Time
<1>2. \A e \in Event : e.at \in Time /\ e.offset \in Offsets
  BY DEF Event
<1> QED BY <1>1, <1>2

LEMMA TextsOrdered ==
  ASSUME NEW e \in Event, NEW f \in Event, NEW g \in Event
  PROVE  /\ TextBefore(e, f) \/ TextBefore(f, e)
         /\ TextBefore(e, f) /\ TextBefore(f, g) => TextBefore(e, g)
<1> DEFINE a == e.at + e.offset
           b == f.at + f.offset
           c == g.at + g.offset
<1>1. a \in Int /\ b \in Int /\ c \in Int
  BY EventType
<1>2. /\ OffsetBefore(e.offset, f.offset) \/ OffsetBefore(f.offset, e.offset)
      /\ OffsetBefore(e.offset, f.offset) /\ OffsetBefore(f.offset, g.offset)
           => OffsetBefore(e.offset, g.offset)
  BY EventType, OffsetsOrdered
<1> HIDE DEF a, b, c
<1>3. /\ TextBefore(e, f) <=> a < b \/ (a = b /\ OffsetBefore(e.offset, f.offset))
      /\ TextBefore(f, e) <=> b < a \/ (b = a /\ OffsetBefore(f.offset, e.offset))
      /\ TextBefore(f, g) <=> b < c \/ (b = c /\ OffsetBefore(f.offset, g.offset))
      /\ TextBefore(e, g) <=> a < c \/ (a = c /\ OffsetBefore(e.offset, g.offset))
  BY DEF TextBefore, a, b, c
<1> QED BY <1>1, <1>2, <1>3

(* Under one offset the texts sort like the instants.                       *)
LEMMA OneOffsetOrder ==
  ASSUME NEW e \in Event, NEW f \in Event, e.offset = f.offset, TextBefore(e, f)
  PROVE  e.at <= f.at
BY EventType DEF TextBefore

-----------------------------------------------------------------------------
(* A row is added.                                                          *)

LEMMA DateAdded ==
  ASSUME NEW D \in SUBSET Nat, HaveEnds(D), NEW d \in Nat PROVE HaveEnds(D \cup {d})
<1> DEFINE E == D \cup {d}
<1>1. CASE D = {}
  BY <1>1 DEF HaveEnds
<1>2. CASE D # {}
  <2>1. PICK lo \in D : \A c \in D : lo <= c
    BY <1>2 DEF HaveEnds
  <2>2. PICK hi \in D : \A c \in D : c <= hi
    BY <1>2 DEF HaveEnds
  <2>3. \E x \in E : \A c \in E : x <= c
    <3>1. CASE lo <= d
      BY <3>1, <2>1
    <3>2. CASE ~(lo <= d)
      <4>1. \A c \in E : d <= c
        BY <3>2, <2>1
      <4> QED BY <4>1
    <3> QED BY <3>1, <3>2
  <2>4. \E x \in E : \A c \in E : c <= x
    <3>1. CASE d <= hi
      BY <3>1, <2>2
    <3>2. CASE ~(d <= hi)
      <4>1. \A c \in E : c <= d
        BY <3>2, <2>2
      <4> QED BY <4>1
    <3> QED BY <3>1, <3>2
  <2> QED BY <2>3, <2>4 DEF HaveEnds
<1> QED BY <1>1, <1>2

LEMMA ReportType == \A r \in Report : r.subject \in Subjects /\ r.date \in Nat /\ r.date # NULL
<1>1. Time \subseteq Nat /\ NULL \notin Nat
  BY TimelineAssumption DEF Time
<1> QED BY <1>1 DEF Report

LEMMA DatesAreTimes ==
  TimelineTypeOK => Dates \in SUBSET Nat /\ Carrying \subseteq reports
BY ReportType DEF TimelineTypeOK, Dates, Carrying

LEMMA AddReportInv ==
  ASSUME TimelineInv, NEW r \in Report, AddReport(r) PROVE TimelineInv'
<1>1. PICK c \in {q \in reports' : q.subject = r.subject} :
           current' = [current EXCEPT ![r.subject] = c]
  BY DEF AddReport
<1>2. events' = events /\ policy' = policy /\ reports' = reports \cup {r}
  BY DEF AddReport
<1>3. TimelineTypeOK'
  <2>1. /\ reports \subseteq Report /\ current \in [Subjects -> reports \cup {NULL}]
        /\ events \subseteq Event /\ policy \in Policies \cup {NULL}
    BY DEF TimelineInv, TimelineTypeOK
  <2>2. current \in [Subjects -> reports' \cup {NULL}]
    BY <2>1, <1>2
  <2>3. current' \in [Subjects -> reports' \cup {NULL}]
    BY <2>2, <1>1
  <2> QED BY <2>1, <2>3, <1>2 DEF TimelineTypeOK
<1>4. TextsHaveEnds(events')
  BY <1>2 DEF TimelineInv
<1>5. HaveEnds(Dates')
  <2>1. CASE r.rows = {}
    <3>1. Dates' = Dates
      BY <2>1, <1>2 DEF Dates, Carrying
    <3> QED BY <3>1 DEF TimelineInv
  <2>2. CASE r.rows # {}
    <3>1. Dates' = Dates \cup {r.date}
      BY <2>2, <1>2 DEF Dates, Carrying
    <3>2. Dates \in SUBSET Nat /\ r.date \in Nat
      BY DatesAreTimes, ReportType DEF TimelineInv
    <3>3. HaveEnds(Dates \cup {r.date})
      BY <3>2, DateAdded DEF TimelineInv
    <3> QED BY <3>1, <3>3
  <2> QED BY <2>1, <2>2
<1> QED BY <1>3, <1>4, <1>5 DEF TimelineInv, HaveEnds

LEMMA NewPolicyInv ==
  ASSUME TimelineInv, NEW p \in Policies, NewPolicy(p) PROVE TimelineInv'
<1>1. reports' = reports /\ current' = current /\ events' = events /\ policy' = p
  BY DEF NewPolicy
<1>2. TimelineTypeOK'
  BY <1>1 DEF TimelineInv, TimelineTypeOK
<1>3. Dates' = Dates
  BY <1>1 DEF Dates, Carrying
<1> QED BY <1>1, <1>2, <1>3 DEF TimelineInv, HaveEnds, TextsHaveEnds

LEMMA AddEventInv ==
  ASSUME TimelineInv, NEW e \in Event, AddEvent(e) PROVE TimelineInv'
<1>1. /\ events' = events \cup {e} /\ reports' = reports
      /\ current' = current /\ policy' = policy
  BY DEF AddEvent
<1>2. TimelineTypeOK' /\ Dates' = Dates
  BY <1>1 DEF TimelineInv, TimelineTypeOK, Dates, Carrying
<1>3. TextsHaveEnds(events')
  <2> SUFFICES ASSUME NEW S \in SUBSET events', S # {}
               PROVE  (\E x \in S : IsFirst(x, S)) /\ (\E x \in S : IsLast(x, S))
    BY DEF TextsHaveEnds
  <2> DEFINE T == S \ {e}
  <2>1. S \subseteq Event /\ T \in SUBSET events
    BY <1>1, <1>2 DEF TimelineTypeOK
  <2>2. TextBefore(e, e)
    BY TextsOrdered
  <2>3. CASE T = {}
    <3>1. S = {e}
      BY <2>3
    <3> QED BY <2>2, <3>1 DEF IsFirst, IsLast
  <2>4. CASE T # {}
    <3>1. PICK lo \in T : IsFirst(lo, T)
      BY <2>1, <2>4 DEF TimelineInv, TextsHaveEnds
    <3>2. PICK hi \in T : IsLast(hi, T)
      BY <2>1, <2>4 DEF TimelineInv, TextsHaveEnds
    <3>3. \E x \in S : IsFirst(x, S)
      <4>1. CASE TextBefore(lo, e)
        BY <4>1, <3>1 DEF IsFirst
      <4>2. CASE ~TextBefore(lo, e)
        <5>1. TextBefore(e, lo) /\ lo \in Event
          BY <4>2, <2>1, TextsOrdered
        <5>2. CASE e \in S
          <6>1. ASSUME NEW f \in S PROVE TextBefore(e, f)
            <7>1. CASE f = e
              BY <7>1, <2>2
            <7>2. CASE f # e
              <8>1. f \in Event /\ TextBefore(lo, f)
                BY <7>2, <2>1, <3>1 DEF IsFirst
              <8> QED BY <5>1, <8>1, TextsOrdered
            <7> QED BY <7>1, <7>2
          <6> QED BY <5>2, <6>1 DEF IsFirst
        <5>3. CASE e \notin S
          BY <5>3, <3>1 DEF IsFirst
        <5> QED BY <5>2, <5>3
      <4> QED BY <4>1, <4>2
    <3>4. \E x \in S : IsLast(x, S)
      <4>1. CASE TextBefore(e, hi)
        BY <4>1, <3>2 DEF IsLast
      <4>2. CASE ~TextBefore(e, hi)
        <5>1. TextBefore(hi, e) /\ hi \in Event
          BY <4>2, <2>1, TextsOrdered
        <5>2. CASE e \in S
          <6>1. ASSUME NEW f \in S PROVE TextBefore(f, e)
            <7>1. CASE f = e
              BY <7>1, <2>2
            <7>2. CASE f # e
              <8>1. f \in Event /\ TextBefore(f, hi)
                BY <7>2, <2>1, <3>2 DEF IsLast
              <8> QED BY <5>1, <8>1, TextsOrdered
            <7> QED BY <7>1, <7>2
          <6> QED BY <5>2, <6>1 DEF IsLast
        <5>3. CASE e \notin S
          BY <5>3, <3>2 DEF IsLast
        <5> QED BY <5>2, <5>3
      <4> QED BY <4>1, <4>2
    <3> QED BY <3>3, <3>4
  <2> QED BY <2>3, <2>4
<1> QED BY <1>2, <1>3 DEF TimelineInv, HaveEnds

LEMMA TimelineInductive == TimelineSpec => []TimelineInv
<1>1. TimelineInit => TimelineInv
  <2> SUFFICES ASSUME TimelineInit PROVE TimelineInv
    OBVIOUS
  <2>1. TimelineTypeOK
    BY DEF TimelineInit, TimelineTypeOK
  <2>2. Dates = {} /\ events = {}
    BY DEF TimelineInit, Dates, Carrying
  <2> QED BY <2>1, <2>2 DEF TimelineInv, TextsHaveEnds, HaveEnds
<1>2. TimelineInv /\ [TimelineNext]_timelineVars => TimelineInv'
  <2> SUFFICES ASSUME TimelineInv, [TimelineNext]_timelineVars PROVE TimelineInv'
    OBVIOUS
  <2>1. CASE UNCHANGED timelineVars
    <3>1. TimelineTypeOK' /\ Dates' = Dates /\ events' = events
      BY <2>1 DEF timelineVars, TimelineInv, TimelineTypeOK, Dates, Carrying
    <3> QED BY <3>1 DEF TimelineInv, TextsHaveEnds, HaveEnds
  <2>2. CASE \E r \in Report : AddReport(r)
    BY <2>2, AddReportInv
  <2>3. CASE \E e \in Event : AddEvent(e)
    BY <2>3, AddEventInv
  <2>4. CASE \E p \in Policies : NewPolicy(p)
    BY <2>4, NewPolicyInv
  <2> QED BY <2>1, <2>2, <2>3, <2>4 DEF TimelineNext
<1> QED BY <1>1, <1>2, PTL DEF TimelineSpec

-----------------------------------------------------------------------------
(* What the views pick.                                                     *)

LEMMA FirstText ==
  ASSUME NEW E, TextsHaveEnds(E), NEW S \in SUBSET E, S # {}
  PROVE  \E e \in S : MinText(S) = e.at /\ IsFirst(e, S)
BY DEF TextsHaveEnds, MinText, IsFirst

LEMMA LastText ==
  ASSUME NEW E, TextsHaveEnds(E), NEW S \in SUBSET E, S # {}
  PROVE  \E e \in S : MaxText(S) = e.at /\ IsLast(e, S)
BY DEF TextsHaveEnds, MaxText, IsLast

LEMMA PickedIsTime ==
  ASSUME NEW E \in SUBSET Event, TextsHaveEnds(E), NEW S \in SUBSET E
  PROVE  /\ S = {} => MinText(S) = NULL /\ MaxText(S) = NULL
         /\ S # {} => /\ MinText(S) \in Nat /\ MinText(S) # NULL
                      /\ MaxText(S) \in Nat /\ MaxText(S) # NULL
<1>1. S = {} => MinText(S) = NULL /\ MaxText(S) = NULL
  BY DEF MinText, MaxText
<1>2. S # {} => /\ \E e \in Event : MinText(S) = e.at
                /\ \E e \in Event : MaxText(S) = e.at
  BY FirstText, LastText
<1> QED BY <1>1, <1>2, EventType

LEMMA EndsOfDates ==
  ASSUME NEW D \in SUBSET Nat,
         \E d \in D : \A c \in D : d <= c, \E d \in D : \A c \in D : c <= d
  PROVE  /\ Minimum(D) \in D /\ Maximum(D) \in D
         /\ \A d \in D : Minimum(D) <= d /\ d <= Maximum(D)
<1>1. Minimum(D) = Min(D) /\ Maximum(D) = Max(D)
  BY DEF Minimum, Maximum
<1>2. Min(D) \in D /\ \A c \in D : Min(D) =< c
  BY DEF Min
<1>3. \E d \in D : \A c \in D : d >= c
  OBVIOUS
<1>4. Max(D) \in D /\ \A c \in D : Max(D) >= c
  BY <1>3 DEF Max
<1> QED BY <1>1, <1>2, <1>4

Seen ==
  /\ first_seen \in Dates /\ first_seen \in Nat /\ first_seen # NULL
  /\ last_seen \in Dates /\ last_seen \in Nat /\ last_seen # NULL
  /\ \A d \in Dates : first_seen <= d /\ d <= last_seen

LEMMA SeenIsTime == TimelineInv /\ HasRow => Seen
<1> SUFFICES ASSUME TimelineInv, HasRow PROVE Seen
  OBVIOUS
<1>1. Dates \in SUBSET Nat /\ NULL \notin Nat /\ Dates # {}
  BY DatesAreTimes, TimelineAssumption DEF TimelineInv, HasRow, Dates
<1>2. /\ \E d \in Dates : \A c \in Dates : d <= c
      /\ \E d \in Dates : \A c \in Dates : c <= d
  BY <1>1 DEF TimelineInv, HaveEnds
<1>3. /\ Minimum(Dates) \in Dates /\ Maximum(Dates) \in Dates
      /\ \A d \in Dates : Minimum(Dates) <= d /\ d <= Maximum(Dates)
  BY <1>1, <1>2, EndsOfDates
<1> QED BY <1>1, <1>3 DEF Seen, first_seen, last_seen

LEMMA WithEvents ==
  ASSUME TimelineInv, NEW r
  PROVE  WithResolution(r) \in SUBSET events /\ WithResolution(r) \subseteq Event
BY DEF WithResolution, TimelineInv, TimelineTypeOK

(* Known() never gives a negative duration.                                 *)
LEMMA KnownIsNotNegative ==
  ASSUME NEW d \in Int \cup {NULL} PROVE Known(d) = NULL \/ Known(d) >= 0
BY TimelineAssumption DEF Known

-----------------------------------------------------------------------------
LEMMA DurationsNotNegative == TimelineInv => NoNegativeDuration
<1> SUFFICES ASSUME TimelineInv, HasRow, SameOffset
             PROVE  \A d \in {days_to_resolve, days_adjudicated_to_resolve, regression_days} :
                      d = NULL \/ d >= 0
  BY DEF NoNegativeDuration
<1> DEFINE R == WithResolution("resolved")
           G == WithResolution("regression_introduced")
<1>1. R \in SUBSET events /\ R \subseteq Event /\ G \in SUBSET events /\ events \subseteq Event
  BY WithEvents DEF TimelineInv, TimelineTypeOK
<1>2. /\ resolved_at \in Nat \cup {NULL} /\ regression_at \in Nat \cup {NULL}
      /\ resolved_after_regression \in Nat \cup {NULL} /\ first_seen \in Nat
  BY <1>1, PickedIsTime, SeenIsTime DEF Seen, TimelineInv, TimelineTypeOK, resolved_at, regression_at, resolved_after_regression
<1>3. days_to_resolve = NULL \/ days_to_resolve >= 0
  <2>1. Days(first_seen, resolved_at) \in Int \cup {NULL}
    BY <1>2 DEF Days
  <2> QED BY <2>1, KnownIsNotNegative DEF days_to_resolve
<1>4. regression_days = NULL \/ regression_days >= 0
  <2>1. Days(regression_at, resolved_after_regression) \in Int \cup {NULL}
    BY <1>2 DEF Days
  <2> QED BY <2>1, KnownIsNotNegative DEF regression_days
<1>5. days_adjudicated_to_resolve = NULL \/ days_adjudicated_to_resolve >= 0
  <2>1. CASE R = {}
    BY <2>1, <1>1, PickedIsTime DEF TimelineInv, TimelineTypeOK, days_adjudicated_to_resolve, resolved_at, Days
  <2>2. CASE R # {}
    <3>1. PICK e \in R : resolved_at = e.at
      BY <2>2, <1>1, FirstText DEF TimelineInv, resolved_at
    <3>2. PICK f \in events : first_adjudicated = f.at /\ IsFirst(f, events)
      BY <3>1, <1>1, FirstText DEF TimelineInv, first_adjudicated
    <3>3. f \in Event /\ e \in Event /\ f.offset = e.offset /\ TextBefore(f, e)
      BY <1>1, <3>1, <3>2 DEF IsFirst, SameOffset
    <3>4. f.at <= e.at /\ f.at \in Nat /\ e.at \in Nat
      BY <3>3, OneOffsetOrder, EventType
    <3> QED BY <3>1, <3>2, <3>4 DEF days_adjudicated_to_resolve, Days
  <2> QED BY <2>1, <2>2
<1> QED BY <1>3, <1>4, <1>5

(* Five severities: those of any rows have a least one.                     *)
LEMMA LeastSeverity ==
  ASSUME NEW S \in SUBSET (1..5), S # {}
  PROVE  Minimum(S) \in S
<1>1. \E m \in S : \A n \in S : m =< n
  <2>1. CASE 1 \in S
    BY <2>1
  <2>2. CASE 1 \notin S /\ 2 \in S
    BY <2>2
  <2>3. CASE 1 \notin S /\ 2 \notin S /\ 3 \in S
    BY <2>3
  <2>4. CASE 1 \notin S /\ 2 \notin S /\ 3 \notin S /\ 4 \in S
    BY <2>4
  <2>5. CASE 1 \notin S /\ 2 \notin S /\ 3 \notin S /\ 4 \notin S
    <3>1. \A n \in S : n = 5
      BY <2>5
    <3>2. PICK n \in S : TRUE
      OBVIOUS
    <3> QED BY <3>1, <3>2
  <2> QED BY <2>1, <2>2, <2>3, <2>4, <2>5
<1>2. Min(S) \in S
  BY <1>1 DEF Min
<1> QED BY <1>2 DEF Minimum

LEMMA CountedType ==
  ASSUME TimelineInv
  PROVE  /\ \A f \in CountedRows : f.severity \in Severities
         /\ CountedRows # {} => HasRow
<1> SUFFICES ASSUME NEW f \in CountedRows PROVE f.severity \in Severities /\ HasRow
  OBVIOUS
<1>1. PICK s \in Subjects : current[s] # NULL /\ f \in current[s].rows
  BY DEF CountedRows
<1>2. current[s] \in reports /\ reports \subseteq Report
  BY <1>1 DEF TimelineInv, TimelineTypeOK
<1>3. current[s].rows \subseteq Finding /\ current[s] \in Carrying
  BY <1>1, <1>2 DEF Report, Carrying
<1> QED BY <1>1, <1>3 DEF Finding, HasRow

LEMMA LimitType ==
  TimelineInv => /\ CountedRows # {} => severity \in Severities /\ severity # NULL
                 /\ resolve_days \in Nat \cup {NULL}
                 /\ resolve_days # NULL => HasRow
<1> SUFFICES ASSUME TimelineInv
             PROVE  /\ CountedRows # {} => severity \in Severities /\ severity # NULL
                    /\ resolve_days \in Nat \cup {NULL}
                    /\ resolve_days # NULL => HasRow
  OBVIOUS
<1> DEFINE S == {f.severity : f \in CountedRows}
<1>1. S \in SUBSET Severities /\ Severities \subseteq 1..5 /\ NULL \notin 1..5
  BY CountedType, TimelineAssumption
<1>2. CountedRows = {} => severity = NULL
  BY DEF severity, Minimum
<1>3. CountedRows # {} => severity \in Severities /\ severity # NULL
  <2>1. CountedRows # {} => S # {} /\ S \in SUBSET (1..5)
    BY <1>1
  <2>2. CountedRows # {} => Minimum(S) \in S
    BY <2>1, LeastSeverity
  <2> QED BY <2>2, <1>1 DEF severity
<1>4. resolve_days \in Nat \cup {NULL}
  <2>1. CASE policy = NULL \/ severity = NULL
    BY <2>1 DEF resolve_days
  <2>2. CASE policy # NULL /\ severity # NULL
    <3>1. severity \in Severities /\ policy \in Policy
      BY <2>2, <1>2, <1>3, TimelineAssumption DEF TimelineInv, TimelineTypeOK
    <3>2. policy.days \in [Severities -> Nat \cup {NULL}]
      BY <3>1 DEF Policy
    <3> QED BY <2>2, <3>1, <3>2 DEF resolve_days
  <2> QED BY <2>1, <2>2
<1>5. resolve_days # NULL => HasRow
  BY <1>2, CountedType DEF resolve_days
<1> QED BY <1>2, <1>3, <1>4, <1>5

Runs ==
  /\ age_days \in Int
  /\ clock_start = "audit_date" => age_days = last_seen - first_seen

LEMMA ClockRuns == TimelineInv /\ HasRow /\ resolved_at = NULL => Runs
<1> SUFFICES ASSUME TimelineInv, HasRow, resolved_at = NULL PROVE Runs
  OBVIOUS
<1>1. Seen
  BY SeenIsTime
<1>2. {e \in events : e.routed} \in SUBSET events /\ events \in SUBSET events
  OBVIOUS
<1>3. first_adjudicated \in Nat \cup {NULL} /\ first_routed_or_filed \in Nat \cup {NULL}
  BY <1>2, PickedIsTime DEF TimelineInv, TimelineTypeOK, first_adjudicated, first_routed_or_filed
<1>4. clock_started_at \in Nat /\ clock_started_at # NULL
  BY <1>1, <1>3, TimelineAssumption DEF Seen, clock_started_at, COALESCE
<1>5. age_days = last_seen - clock_started_at
  BY <1>1, <1>4 DEF Seen, age_days, Days, COALESCE
<1>6. clock_start = "audit_date" => clock_started_at = first_seen
  BY DEF clock_started_at
<1> QED BY <1>1, <1>4, <1>5, <1>6 DEF Seen, Runs

LEMMA OpenIsJudged == TimelineInv => NeverClosedIsJudged
<1> SUFFICES ASSUME TimelineInv, CountedRows # {}, \A e \in events : e.resolution # "resolved"
             PROVE  /\ HasRow /\ still_open /\ severity # NULL
                    /\ days_to_resolve = NULL
                    /\ resolve_days # NULL =>
                          /\ breached \in BOOLEAN
                          /\ clock_start = "audit_date" =>
                                \A q, r \in Carrying : r.date - q.date > resolve_days => breached
  BY DEF NeverClosedIsJudged
<1>1. resolved_at = NULL
  BY PickedIsTime DEF TimelineInv, TimelineTypeOK, resolved_at, WithResolution
<1>2. days_to_resolve = NULL
  BY <1>1 DEF days_to_resolve, Days, Known
<1>3. HasRow /\ severity # NULL
  BY CountedType, LimitType
<1>4. ASSUME resolve_days # NULL
      PROVE  breached = (age_days > resolve_days) /\ breached \in BOOLEAN /\ resolve_days \in Nat
  BY <1>4, LimitType DEF breached
<1>5. ASSUME resolve_days # NULL, clock_start = "audit_date",
             NEW q \in Carrying, NEW r \in Carrying, r.date - q.date > resolve_days
      PROVE  breached
  <2>1. age_days = last_seen - first_seen
    BY <1>1, <1>3, <1>5, ClockRuns DEF Runs
  <2>2. q.date \in Dates /\ r.date \in Dates
    BY DEF Dates
  <2>3. q.date \in Nat /\ r.date \in Nat
    BY <2>2, DatesAreTimes DEF TimelineInv
  <2>4. /\ first_seen \in Nat /\ last_seen \in Nat
        /\ first_seen <= q.date /\ r.date <= last_seen
    BY <1>3, <2>2, SeenIsTime DEF Seen
  <2>5. age_days > resolve_days
    <3>1. resolve_days \in Nat
      BY <1>4, <1>5
    <3> QED BY <1>5, <2>1, <2>3, <2>4, <3>1
  <2> QED BY <1>4, <1>5, <2>5
<1> QED BY <1>1, <1>2, <1>3, <1>4, <1>5 DEF still_open

LEMMA ShiftedByOffsets == TimelineInv => OffsetsShiftByHours
<1> SUFFICES ASSUME TimelineInv, NEW e \in WithResolution("resolved")
             PROVE  \E f, g \in WithResolution("resolved") : resolved_at - e.at <= f.offset - g.offset
  BY DEF OffsetsShiftByHours
<1>1. PICK x \in WithResolution("resolved") :
           resolved_at = x.at /\ IsFirst(x, WithResolution("resolved"))
  BY WithEvents, FirstText DEF TimelineInv, resolved_at
<1>2. x \in Event /\ e \in Event /\ TextBefore(x, e)
  BY <1>1, WithEvents DEF IsFirst
<1>3. x.at + x.offset <= e.at + e.offset
  BY <1>2, EventType DEF TextBefore
<1>4. resolved_at - e.at <= e.offset - x.offset
  BY <1>1, <1>2, <1>3, EventType
<1> QED BY <1>1, <1>4

LEMMA RegressionTimed == TimelineInv => RegressionIsTimed
<1> DEFINE R == WithResolution("resolved")
           G == WithResolution("regression_introduced")
<1> SUFFICES ASSUME TimelineInv, HasRow, SameOffset, G # {},
                    {e \in R : \A r \in G : e.at < r.at} = {}
             PROVE  regression_days # NULL \/ regression_still_open
  BY DEF RegressionIsTimed
<1>1. /\ R \in SUBSET events /\ R \subseteq Event /\ G \in SUBSET events /\ G \subseteq Event
  BY WithEvents
<1>2. PICK g \in G : regression_at = g.at /\ IsFirst(g, G)
  BY <1>1, FirstText DEF TimelineInv, regression_at
<1>3. g.at \in Nat /\ regression_at # NULL
  BY <1>1, <1>2, EventType
<1>4. CASE R = {}
  BY <1>1, <1>3, <1>4, PickedIsTime DEF TimelineInv, TimelineTypeOK, regression_still_open, resolved_after_regression
<1>5. CASE R # {}
  <2>1. PICK m \in R : resolved_after_regression = m.at
    BY <1>1, <1>5, LastText DEF TimelineInv, resolved_after_regression
  <2>2. PICK r \in G : ~(m.at < r.at)
    BY <2>1
  <2>3. g \in Event /\ r \in Event /\ g.offset = r.offset /\ TextBefore(g, r) /\ m \in Event
    BY <1>1, <1>2, <2>1, <2>2 DEF IsFirst, SameOffset
  <2>4. /\ g.at <= r.at /\ g.at \in Nat /\ r.at \in Nat /\ m.at \in Nat
        /\ g.at # NULL /\ m.at # NULL
    BY <2>3, OneOffsetOrder, EventType
  <2>5. m.at - g.at \in Nat /\ m.at - g.at # NULL
    BY <2>2, <2>4, TimelineAssumption
  <2>6. regression_days = m.at - g.at
    BY <1>2, <2>1, <2>4, <2>5 DEF regression_days, Days, Known
  <2> QED BY <2>5, <2>6
<1> QED BY <1>4, <1>5

-----------------------------------------------------------------------------
(* History.                                                                 *)

(* A later event in the same offset does not move the first text.           *)
LEMMA FirstStands ==
  ASSUME TimelineInv, TimelineInv', NEW e \in events', events' = events \cup {e},
         \A f, g \in events' : f.offset = g.offset,
         \A f \in events : f.at < e.at,
         NEW S \in SUBSET events, S # {}, NEW T \in {S, S \cup {e}}
  PROVE  MinText(T) = MinText(S)
<1>1. events' \subseteq Event /\ S \subseteq Event /\ T \in SUBSET events' /\ T # {}
  BY DEF TimelineInv, TimelineTypeOK
<1>2. PICK x \in S : MinText(S) = x.at /\ IsFirst(x, S)
  BY FirstText DEF TimelineInv
<1>3. PICK y \in T : MinText(T) = y.at /\ IsFirst(y, T)
  BY <1>1, FirstText DEF TimelineInv
<1>4. TextBefore(y, x) /\ x.offset = y.offset /\ x \in Event /\ y \in Event
  BY <1>1, <1>2, <1>3 DEF IsFirst
<1>5. y.at <= x.at
  BY <1>4, OneOffsetOrder
<1>6. x.at <= y.at
  <2>1. CASE y \in S
    <3>1. TextBefore(x, y)
      BY <2>1, <1>2 DEF IsFirst
    <3> QED BY <3>1, <1>4, OneOffsetOrder
  <2>2. CASE y = e
    BY <1>4, <1>2, <2>2, EventType
  <2> QED BY <2>1, <2>2
<1> QED BY <1>2, <1>3, <1>4, <1>5, <1>6, EventType

LEMMA SettledStep ==
  ASSUME TimelineInv, TimelineInv', TimelineNext,
         NEW e \in events' \ events, SameOffset', \A f \in events : f.at < e.at
  PROVE  /\ resolved_at # NULL => resolved_at' = resolved_at
         /\ first_adjudicated # NULL => first_adjudicated' = first_adjudicated
<1>1. events' = events \cup {e} /\ e \in events'
  BY DEF TimelineNext, AddReport, AddEvent, NewPolicy
<1>2. \A f, g \in events' : f.offset = g.offset
  BY DEF SameOffset
<1> DEFINE R == WithResolution("resolved")
<1>3. ASSUME resolved_at # NULL PROVE resolved_at' = resolved_at
  <2>1. R \in SUBSET events /\ R # {}
    BY <1>3 DEF WithResolution, resolved_at, MinText
  <2>2. R' \in {R, R \cup {e}}
    BY <1>1 DEF WithResolution
  <2>3. MinText(R') = MinText(R)
    BY <1>1, <1>2, <2>1, <2>2, FirstStands
  <2> QED BY <2>3 DEF resolved_at, MinText, TextBefore
<1>4. ASSUME first_adjudicated # NULL PROVE first_adjudicated' = first_adjudicated
  <2>1. events # {}
    BY <1>4 DEF first_adjudicated, MinText
  <2>2. MinText(events') = MinText(events)
    BY <1>1, <1>2, <2>1, FirstStands
  <2> QED BY <2>2 DEF first_adjudicated, MinText, TextBefore
<1> QED BY <1>3, <1>4

LEMMA WiderSpan ==
  ASSUME NEW a \in Nat, NEW b \in Nat, NEW c \in Nat, NEW d \in Nat, c <= a, b <= d
  PROVE  b - a \in Int /\ d - c \in Int /\ b - a <= d - c
OBVIOUS

LEMMA BreachStep ==
  ASSUME TimelineInv, TimelineInv', TimelineNext,
         clock_start = "audit_date", clock_start' = "audit_date",
         breached = TRUE, resolved_at' = NULL
  PROVE  \/ breached' = TRUE
         \/ /\ current' # current \/ policy' # policy
            /\ resolve_days' = NULL \/ resolve_days' > resolve_days
<1>1. resolve_days # NULL /\ resolve_days \in Nat /\ HasRow /\ age_days > resolve_days
  <2>1. resolve_days # NULL
    BY TimelineAssumption DEF breached
  <2> QED BY <2>1, LimitType DEF breached
<1>2. events \subseteq events' /\ reports \subseteq reports'
  BY DEF TimelineNext, AddReport, AddEvent, NewPolicy
<1>3. HasRow' /\ Dates \subseteq Dates'
  BY <1>1, <1>2 DEF HasRow, Carrying, Dates
<1>4. (WithResolution("resolved") = {})'
  <2> DEFINE R == {e \in events' : e.resolution = "resolved"}
  <2>1. resolved_at' = MinText(R) /\ R \in SUBSET events' /\ WithResolution("resolved")' = R
    BY DEF resolved_at, WithResolution, MinText, TextBefore
  <2>2. events' \in SUBSET Event /\ TextsHaveEnds(events')
    BY DEF TimelineInv, TimelineTypeOK
  <2> HIDE DEF R
  <2> QED BY <2>1, <2>2, PickedIsTime
<1>5. resolved_at = NULL
  BY <1>2, <1>4 DEF resolved_at, WithResolution, MinText
<1>6. (TimelineInv /\ HasRow => Seen)'
  BY SeenIsTime, PTL
<1>7. (TimelineInv /\ HasRow /\ resolved_at = NULL => Runs)'
  BY ClockRuns, PTL
<1>8. age_days = last_seen - first_seen /\ age_days' = last_seen' - first_seen'
  BY <1>1, <1>3, <1>5, <1>7, ClockRuns DEF Runs
<1>9. /\ first_seen \in Nat /\ last_seen \in Nat /\ first_seen' \in Nat /\ last_seen' \in Nat
      /\ first_seen' <= first_seen /\ last_seen <= last_seen'
  BY <1>1, <1>3, <1>6, SeenIsTime DEF Seen
<1>10. age_days \in Int /\ age_days' \in Int /\ age_days <= age_days'
  BY <1>8, <1>9, WiderSpan
<1>11. resolve_days' \in Nat \cup {NULL}
  <2>1. (TimelineInv => /\ CountedRows # {} => severity \in Severities /\ severity # NULL
                        /\ resolve_days \in Nat \cup {NULL}
                        /\ resolve_days # NULL => HasRow)'
    BY LimitType, PTL
  <2> QED BY <2>1
<1>12. CASE resolve_days' = NULL \/ resolve_days' > resolve_days
  <2>1. resolve_days' # resolve_days
    BY <1>1, <1>12
  <2>2. current' # current \/ policy' # policy
    BY <2>1 DEF resolve_days, severity, CountedRows
  <2> QED BY <1>12, <2>2
<1>13. CASE ~(resolve_days' = NULL \/ resolve_days' > resolve_days)
  <2>1. resolve_days' \in Nat /\ resolve_days' <= resolve_days
    BY <1>1, <1>11, <1>13
  <2>2. age_days' > resolve_days'
    BY <1>1, <1>10, <2>1
  <2> QED BY <1>13, <2>2 DEF breached
<1> QED BY <1>12, <1>13

-----------------------------------------------------------------------------
(* For any policies, offsets and order of import: no duration is negative, a *)
(* finding that a counted report shows and nobody resolved is judged, a      *)
(* closing date is off by the offsets at most, and a regression is timed.    *)
THEOREM TimelineHolds == TimelineSpec => []DurationsHold
<1>1. TimelineInv => DurationsHold
  BY DurationsNotNegative, OpenIsJudged, ShiftedByOffsets, RegressionTimed
     DEF DurationsHold, TimelineInv
<1> QED BY <1>1, TimelineInductive, PTL

(* A later event moves neither the closing date nor the first adjudication, *)
(* and a breach of an unresolved finding sticks, whatever is imported next, *)
(* as long as what is imported leaves it a limit and no longer one.         *)
THEOREM HistoryHolds == TimelineSpec => HistoryStands
<1>1. TimelineInv /\ TimelineInv' /\ [TimelineNext]_timelineVars =>
        [\A e \in events' \ events :
            SameOffset' /\ (\A f \in events : f.at < e.at) =>
              /\ resolved_at # NULL => resolved_at' = resolved_at
              /\ first_adjudicated # NULL => first_adjudicated' = first_adjudicated]_timelineVars
  <2> SUFFICES ASSUME TimelineInv, TimelineInv', TimelineNext,
                      NEW e \in events' \ events, SameOffset', \A f \in events : f.at < e.at
               PROVE  /\ resolved_at # NULL => resolved_at' = resolved_at
                      /\ first_adjudicated # NULL => first_adjudicated' = first_adjudicated
    OBVIOUS
  <2> QED BY SettledStep
<1>2. TimelineInv /\ TimelineInv' /\ [TimelineNext]_timelineVars =>
        [clock_start = "audit_date" /\ clock_start' = "audit_date"
            /\ breached = TRUE /\ resolved_at' = NULL =>
              \/ breached' = TRUE
              \/ /\ current' # current \/ policy' # policy
                 /\ resolve_days' = NULL \/ resolve_days' > resolve_days]_timelineVars
  BY BreachStep
<1>3. TimelineSpec => PastIsSettled
  BY <1>1, TimelineInductive, PTL DEF TimelineSpec, PastIsSettled
<1>4. TimelineSpec => BreachSticks
  BY <1>2, TimelineInductive, PTL DEF TimelineSpec, BreachSticks
<1> QED BY <1>3, <1>4 DEF HistoryStands

-----------------------------------------------------------------------------
(***************************************************************************)
(* RiskRating. Means and levels are arithmetic on totals; a stored rating   *)
(* keeps its shape whatever is rewritten.                                   *)
(***************************************************************************)

(* A stored rating, re-scored and rewritten by hand as often as one likes:  *)
(* every field still has its shape.                                         *)
Stored ==
  [likelihood : Likelihoods, technical : Technicals, business : Businesses, basis : Bases,
   lscore : Int \cup {Bad}, llevel : LEVELS, iscore : Int \cup {Bad}, ilevel : LEVELS,
   severity : {SEVERITIES[i] : i \in 1..5}]

RatingTyped == rating # Absent => rating \in Stored

-----------------------------------------------------------------------------
(* Exact thousandths: the means of eight and of four integers.              *)
LEMMA MeansAreExact ==
  /\ \A t \in 0..72 : Mean(t, 8) = 125 * (Grain * t)
  /\ \A t \in 0..36 : Mean(t, 4) = 250 * (Grain * t)
<1>1. Grain \in Int
  BY TotalsAssumption
<1>2. ASSUME NEW t \in 0..72 PROVE Mean(t, 8) = 125 * (Grain * t)
  <2>1. (1000 * t) \div 8 = 125 * t
    OBVIOUS
  <2> QED BY <1>1, <2>1 DEF Mean
<1>3. ASSUME NEW t \in 0..36 PROVE Mean(t, 4) = 250 * (Grain * t)
  <2>1. (1000 * t) \div 4 = 250 * t
    OBVIOUS
  <2> QED BY <1>1, <2>1 DEF Mean
<1> QED BY <1>2, <1>3

(* Counting in grains keeps an order, and keeps two totals a grain apart.   *)
LEMMA GrainsKeepOrder ==
  ASSUME NEW x \in Int, NEW y \in Int
  PROVE  /\ Grain * x \in Int
         /\ Grain * x < Grain * y <=> x < y
         /\ x < y => Grain * x + Grain <= Grain * y
<1>1. Grain \in Int /\ Grain > 0
  BY TotalsAssumption
<1>2. ASSUME x < y PROVE Grain * x + Grain <= Grain * y
  <2>1. Grain * (y - x - 1) >= 0
    BY <1>1, <1>2
  <2> QED BY <1>1, <2>1
<1>3. ASSUME y <= x PROVE Grain * y <= Grain * x
  <2>1. Grain * (x - y) >= 0
    BY <1>1, <1>3
  <2> QED BY <1>1, <2>1
<1>4. Grain * x \in Int /\ Grain * y \in Int
  BY <1>1
<1> QED BY <1>1, <1>2, <1>3, <1>4

(* The level of a mean is the grade of its total.                           *)
LEMMA LevelIsGrade ==
  /\ \A t \in 0..72 : level(Mean(t, 8)) = Levels[Grade(t, 8) + 1] /\ Grade(t, 8) \in 0..2
  /\ \A t \in 0..36 : level(Mean(t, 4)) = Levels[Grade(t, 4) + 1] /\ Grade(t, 4) \in 0..2
<1>1. ASSUME NEW t \in 0..72
      PROVE  level(Mean(t, 8)) = Levels[Grade(t, 8) + 1] /\ Grade(t, 8) \in 0..2
  <2>1. Mean(t, 8) = 125 * (Grain * t) /\ Grain \in Int
    BY MeansAreExact, TotalsAssumption
  <2>2. Grain * t \in Int /\ (Grain * t < Grain * 24 <=> t < 24)
    BY GrainsKeepOrder
  <2>3. Grain * t < Grain * 48 <=> t < 48
    BY GrainsKeepOrder
  <2>4. Mean(t, 8) < 3000 * Grain <=> t < 24
    BY <2>1, <2>2
  <2>5. Mean(t, 8) < 6000 * Grain <=> t < 48
    BY <2>1, <2>2, <2>3
  <2> QED BY <2>1, <2>4, <2>5 DEF level, Levels, Grade
<1>2. ASSUME NEW t \in 0..36
      PROVE  level(Mean(t, 4)) = Levels[Grade(t, 4) + 1] /\ Grade(t, 4) \in 0..2
  <2>1. Mean(t, 4) = 250 * (Grain * t) /\ Grain \in Int
    BY MeansAreExact, TotalsAssumption
  <2>2. Grain * t \in Int /\ (Grain * t < Grain * 12 <=> t < 12)
    BY GrainsKeepOrder
  <2>3. Grain * t < Grain * 24 <=> t < 24
    BY GrainsKeepOrder
  <2>4. Mean(t, 4) < 3000 * Grain <=> t < 12
    BY <2>1, <2>2
  <2>5. Mean(t, 4) < 6000 * Grain <=> t < 24
    BY <2>1, <2>2, <2>3
  <2> QED BY <2>1, <2>4, <2>5 DEF level, Levels, Grade
<1> QED BY <1>1, <1>2

(* The severity table adds the two grades.                                  *)
LEMMA TableAddsGrades ==
  \A i, l \in 0..2 : SEVERITY_TABLE[Levels[i + 1]][Levels[l + 1]] = SEVERITIES[l + i + 1]
<1> TAKE i, l \in 0..2
<1>1. i \in {0, 1, 2} /\ l \in {0, 1, 2}
  OBVIOUS
<1>2. CASE i = 0
  BY <1>1, <1>2 DEF SEVERITY_TABLE, Levels, SEVERITIES
<1>3. CASE i = 1
  BY <1>1, <1>3 DEF SEVERITY_TABLE, Levels, SEVERITIES
<1>4. CASE i = 2
  BY <1>1, <1>4 DEF SEVERITY_TABLE, Levels, SEVERITIES
<1> QED BY <1>1, <1>2, <1>3, <1>4

LEMMA LevelType == \A x : level(x) \in LEVELS
BY DEF level, LEVELS

(* What a score that agrees with a mean of n factors, whatever the floats   *)
(* do at exactly a thousandth: it lies within a thousandth of that mean and *)
(* of no other total's, and anything closer agrees.                         *)
Told(score, want, total, n) ==
  /\ Agrees(score, want) => Within(Grain, score, total, n)
  /\ Within(Grain - 1, score, total, n) => Agrees(score, want)
  /\ Within(Grain, score, total, n) =>
       \A t \in Nat : Within(Grain, score, t, n) => t = total

LEMMA AgreesIsWithin ==
  ASSUME NEW score \in Int \cup {Bad}, NEW n \in {4, 8}, NEW total \in Nat,
         NEW want, want * n = 1000 * (Grain * total), want \in Int
  PROVE  Told(score, want, total, n)
<1> SUFFICES ASSUME score # Bad
             PROVE  /\ Agrees(score, want) => Within(Grain, score, total, n)
                    /\ Within(Grain - 1, score, total, n) => Agrees(score, want)
                    /\ Within(Grain, score, total, n) =>
                         \A t \in Nat : Within(Grain, score, t, n) => t = total
  BY DEF Agrees, Within, Told
<1>1. score \in Int /\ Grain \in Int /\ Grain > 0
  BY TotalsAssumption
<1>2. ASSUME NEW t \in Nat
      PROVE  Grain * t \in Int /\ 1000 * Grain * t = 1000 * (Grain * t)
  BY <1>1
<1>3. Agrees(score, want) => Within(Grain, score, total, n)
  <2> SUFFICES ASSUME Apart(score, want) <= Grain PROVE Apart(n * score, n * want) <= n * Grain
    BY <1>1, <1>2 DEF Agrees, Within, Apart
  <2>1. CASE n = 4 BY <1>1, <2>1 DEF Apart
  <2>2. CASE n = 8 BY <1>1, <2>2 DEF Apart
  <2> QED BY <2>1, <2>2
<1>4. Within(Grain - 1, score, total, n) => Agrees(score, want)
  <2> SUFFICES ASSUME Apart(n * score, n * want) <= n * (Grain - 1) PROVE Apart(score, want) < Grain
    BY <1>1, <1>2 DEF Agrees, Within
  <2>1. CASE n = 4 BY <1>1, <2>1 DEF Apart
  <2>2. CASE n = 8 BY <1>1, <2>2 DEF Apart
  <2> QED BY <2>1, <2>2
<1>5. ASSUME Within(Grain, score, total, n), NEW t \in Nat, Within(Grain, score, t, n)
      PROVE  t = total
  <2> DEFINE p == Grain * total
             q == Grain * t
             x == n * score
  <2>1. p \in Int /\ q \in Int /\ x \in Int
    BY <1>1, <1>2
  <2>2. Apart(x, 1000 * p) <= 8 * Grain /\ Apart(x, 1000 * q) <= 8 * Grain
    <3>1. n * Grain <= 8 * Grain
      BY <1>1
    <3> QED BY <1>1, <1>2, <1>5, <3>1 DEF Within, Apart
  <2>3. (t < total => q + Grain <= p) /\ (total < t => p + Grain <= q)
    BY GrainsKeepOrder
  <2> HIDE DEF p, q, x
  <2> QED BY <1>1, <2>1, <2>2, <2>3 DEF Apart
<1> QED BY <1>3, <1>4, <1>5

(* What problems() accepts is what follows from the factors.                *)
LEMMA AcceptedFollows ==
  ASSUME NEW r \in Stored,
         Rateable(r.likelihood, r.technical, r.business, Basis(r.basis, r.business))
  PROVE  /\ NoProblems(r) => /\ Follows(r) /\ ScoresWithin(Grain, r)
                             /\ \A t \in 0..72 : Within(Grain, r.lscore, t, 8) => t = r.likelihood
                             /\ \A t \in 0..36 : Within(Grain, r.iscore, t, 4) => t = UsedTotal(r)
         /\ Follows(r) /\ ScoresWithin(Grain - 1, r) => NoProblems(r)
<1> DEFINE basis == Basis(r.basis, r.business)
           want == rate(r.likelihood, r.technical, r.business, basis)
           used == UsedTotal(r)
<1>1. /\ r.likelihood \in 0..72
      /\ r.lscore \in Int \cup {Bad} /\ r.iscore \in Int \cup {Bad}
  BY TotalsAssumption DEF Stored, Rateable, Likelihoods
<1>2. used \in 0..36
  <2>1. CASE basis = "business"
    BY <2>1, TotalsAssumption DEF Stored, Rateable, Businesses, UsedTotal
  <2>2. CASE basis # "business"
    BY <2>2, TotalsAssumption DEF Stored, Rateable, Technicals, UsedTotal
  <2> QED BY <2>1, <2>2
<1>3. /\ want.lscore = Mean(r.likelihood, 8) /\ want.iscore = Mean(used, 4)
      /\ want.llevel = level(want.lscore) /\ want.ilevel = level(want.iscore)
      /\ want.severity = SEVERITY_TABLE[want.ilevel][want.llevel]
  BY DEF rate, UsedTotal, LIKELIHOOD_FACTORS, IMPACT_FACTORS
<1>4. want.lscore = 125 * (Grain * r.likelihood) /\ want.iscore = 250 * (Grain * used)
  BY <1>1, <1>2, <1>3, MeansAreExact
<1>5. /\ want.llevel = Levels[Grade(r.likelihood, 8) + 1]
      /\ want.ilevel = Levels[Grade(used, 4) + 1]
      /\ want.severity = SEVERITIES[Grade(r.likelihood, 8) + Grade(used, 4) + 1]
  BY <1>1, <1>2, <1>3, LevelIsGrade, TableAddsGrades
<1>8. NoProblems(r) <=> /\ Agrees(r.lscore, want.lscore) /\ r.llevel = want.llevel
                        /\ Agrees(r.iscore, want.iscore) /\ r.ilevel = want.ilevel
                        /\ r.severity = want.severity
  BY DEF NoProblems
<1>9. Follows(r) <=> /\ r.llevel = Levels[Grade(r.likelihood, 8) + 1]
                     /\ r.ilevel = Levels[Grade(used, 4) + 1]
                     /\ r.severity = SEVERITIES[Grade(r.likelihood, 8) + Grade(used, 4) + 1]
  BY DEF Follows
<1>10. Grain \in Int
  BY TotalsAssumption
<1> HIDE DEF want, used
<1>6. /\ Agrees(r.lscore, want.lscore) => Within(Grain, r.lscore, r.likelihood, 8)
      /\ Within(Grain - 1, r.lscore, r.likelihood, 8) => Agrees(r.lscore, want.lscore)
      /\ Within(Grain, r.lscore, r.likelihood, 8) =>
           \A t \in Nat : Within(Grain, r.lscore, t, 8) => t = r.likelihood
  <2>1. r.likelihood \in Nat /\ Grain * r.likelihood \in Int
    BY <1>1, <1>10
  <2> DEFINE w == want.lscore
             x == r.lscore
             total == r.likelihood
  <2>2. w * 8 = 1000 * (Grain * total) /\ w \in Int
    BY <1>4, <2>1
  <2>3. total \in Nat /\ x \in Int \cup {Bad} /\ 8 \in {4, 8}
    BY <1>1, <2>1
  <2> HIDE DEF w, x, total
  <2>4. Told(x, w, total, 8)
    BY <2>2, <2>3, AgreesIsWithin
  <2> QED BY <2>4 DEF w, x, total, Told
<1>7. /\ Agrees(r.iscore, want.iscore) => Within(Grain, r.iscore, used, 4)
      /\ Within(Grain - 1, r.iscore, used, 4) => Agrees(r.iscore, want.iscore)
      /\ Within(Grain, r.iscore, used, 4) =>
           \A t \in Nat : Within(Grain, r.iscore, t, 4) => t = used
  <2>1. used \in Nat /\ Grain * used \in Int
    BY <1>2, <1>10
  <2> DEFINE w == want.iscore
             x == r.iscore
             total == used
  <2>2. w * 4 = 1000 * (Grain * total) /\ w \in Int
    BY <1>4, <2>1
  <2>3. total \in Nat /\ x \in Int \cup {Bad} /\ 4 \in {4, 8}
    BY <1>1, <2>1
  <2> HIDE DEF w, x, total
  <2>4. Told(x, w, total, 4)
    BY <2>2, <2>3, AgreesIsWithin
  <2> QED BY <2>4 DEF w, x, total, Told
<1>11. \A d : ScoresWithin(d, r) <=> /\ Within(d, r.lscore, r.likelihood, 8)
                                    /\ Within(d, r.iscore, used, 4)
  BY DEF ScoresWithin, used
<1>12. 0..72 \subseteq Nat /\ 0..36 \subseteq Nat
  OBVIOUS
<1>13. used = UsedTotal(r)
  BY DEF used
<1> QED BY <1>5, <1>6, <1>7, <1>8, <1>9, <1>11, <1>12, <1>13

(* rate() builds a rating of the stored shape.                              *)
LEMMA RateType ==
  ASSUME NEW l \in Likelihoods, NEW t \in Technicals, NEW b \in Businesses, NEW basis,
         Rateable(l, t, b, basis)
  PROVE  rate(l, t, b, basis) \in Stored
<1> DEFINE i == IF basis = "business" THEN b ELSE t
<1>1. l \in 0..72 /\ i \in 0..36 /\ basis \in Bases
  BY TotalsAssumption DEF Rateable, Likelihoods, Technicals, Businesses, Bases
<1>2. Mean(l, 8) \in Int /\ Mean(i, 4) \in Int
  <2>1. Grain * l \in Int /\ Grain * i \in Int
    BY <1>1, TotalsAssumption
  <2> QED BY <1>1, <2>1, MeansAreExact
<1>3. SEVERITY_TABLE[level(Mean(i, 4))][level(Mean(l, 8))] \in {SEVERITIES[k] : k \in 1..5}
  <2>1. Grade(l, 8) + Grade(i, 4) + 1 \in 1..5
    BY <1>1, LevelIsGrade
  <2> QED BY <1>1, <2>1, LevelIsGrade, TableAddsGrades
<1> QED BY <1>1, <1>2, <1>3, LevelType DEF rate, Stored, LIKELIHOOD_FACTORS, IMPACT_FACTORS

LEMMA TypedInductive == RatingSpec => []RatingTyped
<1>1. RatingInit => RatingTyped
  BY DEF RatingInit, RatingTyped
<1>2. RatingTyped /\ [RatingNext]_ratingVars => RatingTyped'
  <2> SUFFICES ASSUME RatingTyped, [RatingNext]_ratingVars PROVE RatingTyped'
    OBVIOUS
  <2>1. CASE UNCHANGED ratingVars
    BY <2>1 DEF ratingVars, RatingTyped
  <2>2. ASSUME NEW l \in Likelihoods, NEW t \in Technicals, NEW b \in Businesses, NEW g \in Bases,
               Rate(l, t, b, g)
        PROVE  RatingTyped'
    BY <2>2, RateType DEF Rate, RatingTyped
  <2>3. CASE Rescore
    <3>1. rating \in Stored
      BY <2>3 DEF Rescore, RatingTyped
    <3>2. Technicals \subseteq Businesses
      BY DEF Technicals, Businesses
    <3> QED BY <2>3, <3>1, <3>2 DEF Rescore, RatingTyped, Stored
  <2>4. CASE Rewrite
    <3>1. rating \in Stored
      BY <2>4 DEF Rewrite, RatingTyped
    <3>2. Scores \subseteq Int \cup {Bad}
      BY TotalsAssumption
    <3> QED BY <2>4, <3>1, <3>2 DEF Rewrite, RatingTyped, Stored
  <2> QED BY <2>1, <2>2, <2>3, <2>4 DEF RatingNext
<1> QED BY <1>1, <1>2, PTL DEF RatingSpec

-----------------------------------------------------------------------------
(* For any totals, any hand-written scores however fine, and whatever the   *)
(* floats do exactly a thousandth off: what problems() is silent about      *)
(* follows from factors that can be rated, its scores within a thousandth   *)
(* of their means and of no other total's, and it is silent about all of    *)
(* those that are closer, however often a field was rewritten.              *)
THEOREM ProblemsExact == RatingSpec => []ProblemsIsExact
<1>1. RatingTyped => ProblemsIsExact
  BY AcceptedFollows DEF RatingTyped, ProblemsIsExact, NoProblems
<1> QED BY <1>1, TypedInductive, PTL

=============================================================================
